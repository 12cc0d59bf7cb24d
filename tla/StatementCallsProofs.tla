------------------------ MODULE StatementCallsProofs ------------------------
(***************************************************************************)
(* Theorems about StatementCalls, for any statements and descriptors of a  *)
(* connection, any settings, any functions the driver lacks and any number *)
(* of failovers.                                                           *)
(***************************************************************************)
EXTENDS StatementCalls, TLAPS

-----------------------------------------------------------------------------
(* The calls. *)

(* A call that changes nothing but the diagnostics.                        *)
AsksOnly(h) == \/ \E call : \E clears \in BOOLEAN : Asks(h, call, clears)
               \/ NotSupported(h)

(* The calls that change a setting of a statement.                         *)
Configures(s) ==
    \/ \E v \in Values : SQLSetStmtAttr(s, v) \/ SQLSetStmtOption(s, v)
    \/ \E n \in Names : SQLSetCursorName(s, n)
    \/ SQLGetCursorName(s) /\ s \notin wrapped

(* Most calls only ask the driver.                                         *)
LEMMA StatementCallKinds ==
    ASSUME NEW s \in Statements, StatementCall(s)
    PROVE  \/ AsksOnly(s) \/ Configures(s) \/ SQLGetDescAttr(s)
           \/ Execute(s) \/ Alloc(s) \/ FreeStmt(s)
<1>1. AsksAboutStatement(s) => \E call : \E clears \in BOOLEAN : Asks(s, call, clears)
  BY DEF AsksAboutStatement, ClearsFirst, ClearsNot, SQLBulkOperations,
         SQLColAttribute, SQLColumnPrivileges, SQLColumns, SQLDescribeCol,
         SQLDescribeParam, SQLForeignKeys, SQLGetData, SQLGetTypeInfo,
         SQLMoreResults, SQLNumParams, SQLNumResultCols, SQLPrepare, SQLPrimaryKeys,
         SQLProcedureColumns, SQLProcedures, SQLRowCount, SQLSetParam,
         SQLSpecialColumns, SQLStatistics, SQLTablePrivileges, SQLTables,
         SQLCloseCursor, SQLCancel, SQLCancelHandle, SQLColAttributes,
         SQLGetStmtOption, SQLParamOptions, SQLSetScrollOptions, FreeStmtKeepsHandle
<1>2. SQLGetStmtAttr(s) => AsksOnly(s)
  BY DEF SQLGetStmtAttr, AsksOnly, ClearsFirst
<1>3. SQLGetCursorName(s) => AsksOnly(s) \/ Configures(s)
  BY DEF SQLGetCursorName, AsksOnly, Configures, ClearsFirst
<1>4. QED
  BY <1>1, <1>2, <1>3
     DEF StatementCall, AsksOnly, Configures, SQLCompleteAsync, SQLSetReadOnlyAttr,
         AllocStmt

(* So do those on descriptors.                                             *)
LEMMA DescriptorCallKinds ==
    ASSUME NEW d \in Descriptors, DescriptorCall(d)
    PROVE  \/ AsksOnly(d) \/ Alloc(d) \/ FreeDesc(d)
           \/ \E src \in Descriptors : SQLCopyDesc(src, d)
BY DEF DescriptorCall, AsksAboutDescriptor, SQLGetDescField, SQLGetDescRec,
       SQLSetDescField, SQLSetDescRec, SQLCancelHandleDesc, AllocDesc, AsksOnly,
       ClearsNot

(* What a step of the connection is.                                       *)
LEMMA Kinds ==
    ASSUME Next
    PROVE  \/ \E h \in Handles : \/ AsksOnly(h) \/ Alloc(h) \/ Lists(h)
                                 \/ Unlists(h) \/ SQLError(h)
           \/ \E s \in Statements : Configures(s) \/ SQLGetDescAttr(s) \/ Execute(s) \/ FreeStmt(s)
           \/ \E d \in Descriptors : FreeDesc(d) \/ \E src \in Descriptors : SQLCopyDesc(src, d)
BY StatementCallKinds, DescriptorCallKinds DEF Next, Handles

-----------------------------------------------------------------------------
(* Type correctness.                                                       *)

(* Nothing is allocated at first.                                          *)
LEMMA InitType == Init => TypeOK
BY CallsAssumption
   DEF Init, TypeOK, HandleType, ErrorType, SettingType, Ages, NoCall

(* Records that get older are records.                                     *)
LEMMA AgedType ==
    ASSUME NEW records \in [Handles -> Ages] PROVE Aged(records) \in [Handles -> Ages]
BY DEF Aged, Ages

(* The end of a call leaves records.                                       *)
LEMMA EndsType ==
    ASSUME ErrorType, NEW h \in Handles, NEW clears \in BOOLEAN, NEW e \in Ages,
           NEW d \in Ages \cup {"unasked"}, NEW failed \in {"no", "driver", "wrapper"},
           Ends(h, clears, e, d, failed)
    PROVE  ErrorType'
<1>1. Aged(err) \in [Handles -> Ages] /\ Aged(diag) \in [Handles -> Ages]
  BY AgedType DEF ErrorType
<1>2. err' \in [Handles -> Ages]
  BY <1>1 DEF Ends
<1>3. diag' \in [Handles -> Ages]
  BY <1>1 DEF Ends
<1>4. QED
  BY <1>2, <1>3 DEF Ends, ErrorType

(* A call without an underlying handle to ask leaves records.              *)
LEMMA UnansweredType ==
    ASSUME ErrorType, NEW h \in Handles, NEW clears \in BOOLEAN, Unanswered(h, clears)
    PROVE  ErrorType'
BY EndsType DEF Unanswered, Ages

(* So does one that the driver has answered.                               *)
LEMMA ProcessLibResType ==
    ASSUME ErrorType, NEW h \in Handles, NEW call, NEW clears \in BOOLEAN,
           ProcessLibRes(h, call, clears)
    PROVE  ErrorType'
BY EndsType DEF ProcessLibRes, Ages

(* A call that only asks the driver keeps the types.                       *)
LEMMA AsksType ==
    ASSUME TypeOK, NEW h \in Handles, AsksOnly(h) PROVE TypeOK'
<1>1. ErrorType'
  BY UnansweredType, ProcessLibResType, EndsType
     DEF TypeOK, AsksOnly, Asks, NotSupported, ClearsFirst, Ages
<1>2. UNCHANGED <<handleVars, settingVars, reading, failovers>>
  BY DEF AsksOnly, Asks, NotSupported
<1>3. QED
  BY <1>1, <1>2
     DEF TypeOK, HandleType, Present, SettingType, handleVars, settingVars, nameVars

(* A call that changes a setting of a statement keeps the types.           *)
LEMMA ConfiguresType ==
    ASSUME TypeOK, NEW s \in Statements, Configures(s) PROVE TypeOK'
<1> USE DEF TypeOK
<1>0. s \in Handles
  BY DEF Handles
<1>1. ErrorType'
  <2>1. ASSUME NEW v, NEW driver \in {driver_attr, driver_name}, Sets(s, v, driver) PROVE ErrorType'
    BY <1>0, <2>1, UnansweredType, EndsType DEF Sets, ClearsFirst, Ages
  <2>2. ASSUME NEW v \in Values, SQLSetStmtOption(s, v) PROVE ErrorType'
    BY <1>0, <2>2, UnansweredType, EndsType DEF SQLSetStmtOption, ClearsNot, Ages
  <2>3. ASSUME Unanswered(s, ClearsFirst) PROVE ErrorType'
    BY <1>0, <2>3, UnansweredType DEF ClearsFirst
  <2>4. ASSUME NEW v \in Values, SQLSetStmtAttr(s, v) PROVE ErrorType'
    BY <1>0, <2>4, UnansweredType, EndsType
       DEF SQLSetStmtAttr, Sets, ClearsFirst, Ages
  <2>5. ASSUME NEW v \in Names, SQLSetCursorName(s, v) PROVE ErrorType'
    BY <1>0, <2>5, UnansweredType, EndsType
       DEF SQLSetCursorName, Sets, ClearsFirst, Ages
  <2>6. CASE SQLGetCursorName(s) /\ s \notin wrapped
    BY <2>3, <2>6 DEF SQLGetCursorName
  <2>7. QED
    BY <2>2, <2>4, <2>5, <2>6 DEF Configures
<1>2. HandleType' /\ reading' \in Handles \cup {None} /\ failovers' \in 0..MaxFailovers
  <2>1. UNCHANGED <<handleVars, reading, failovers>>
    BY DEF Configures, SQLSetStmtAttr, SQLSetStmtOption, SQLSetCursorName,
           SQLGetCursorName
  <2>2. QED
    BY <2>1 DEF HandleType, Present, handleVars
<1>3. SettingType'
  <2> USE DEF SettingType
  <2>1. ASSUME NEW v \in Values, SQLSetStmtAttr(s, v) PROVE SettingType'
    BY <2>1 DEF SQLSetStmtAttr, Sets, nameVars
  <2>2. ASSUME NEW v \in Values, SQLSetStmtOption(s, v) PROVE SettingType'
    BY <2>2 DEF SQLSetStmtOption, nameVars
  <2>3. ASSUME NEW v \in Names, SQLSetCursorName(s, v) PROVE SettingType'
    BY <2>3 DEF SQLSetCursorName, Sets
  <2>4. CASE SQLGetCursorName(s) /\ s \notin wrapped
    <3>1. MaxUnnamed \in Nat
      BY CallsAssumption
    <3>2. QED
      BY <2>4, <3>1 DEF SQLGetCursorName, nameVars
  <2>5. QED
    BY <2>1, <2>2, <2>3, <2>4 DEF Configures
<1>4. QED
  BY <1>1, <1>2, <1>3

(* So does the question for an implicit descriptor.                        *)
LEMMA GetDescAttrType ==
    ASSUME TypeOK, NEW s \in Statements, SQLGetDescAttr(s) PROVE TypeOK'
<1> USE DEF TypeOK
<1>0. s \in Handles
  BY DEF Handles
<1>1. ErrorType'
  BY <1>0, UnansweredType, ProcessLibResType DEF SQLGetDescAttr, ClearsFirst
<1>2. HandleType'
  BY DEF SQLGetDescAttr, HandleType, Present
<1>3. QED
  BY <1>1, <1>2 DEF SQLGetDescAttr, SettingType, settingVars, nameVars

(* An execution keeps the types, with a failover and without one.          *)
LEMMA ExecuteType ==
    ASSUME TypeOK, NEW s \in Statements, Execute(s) PROVE TypeOK'
<1> USE DEF TypeOK
<1>0. s \in Handles /\ s \in listed
  BY DEF Handles, Execute, Free
<1>1. ErrorType'
  <2>1. ASSUME NEW e \in Ages, NEW d \in Ages \cup {"unasked"},
               NEW by \in {"no", "driver", "wrapper"}, FailsBelow(s, e, d, by)
        PROVE  ErrorType'
    <3>1. Aged(err) \in [Handles -> Ages] /\ Aged(diag) \in [Handles -> Ages]
      BY AgedType DEF ErrorType
    <3>2. err' \in [Handles -> Ages]
      BY <2>1, <3>1 DEF FailsBelow
    <3>3. diag' \in [Handles -> Ages]
      BY <2>1, <3>1 DEF FailsBelow
    <3>4. QED
      BY <2>1, <3>2, <3>3 DEF FailsBelow, ErrorType
  <2>2. ASSUME FailsOver(s) PROVE ErrorType'
    <3>1. Aged(err) \in [Handles -> Ages]
      BY AgedType DEF ErrorType
    <3>2. QED
      BY <1>0, <2>2, <3>1 DEF FailsOver, ErrorType, Ages
  <2>3. Ends(s, ClearsFirst, "none", "none", "no") => ErrorType'
    BY <1>0, EndsType DEF ClearsFirst, Ages
  <2>4. "none" \in Ages /\ "last" \in Ages
    BY DEF Ages
  <2>5. QED
    BY <2>1, <2>2, <2>3, <2>4 DEF Execute
<1>2. HandleType'
  BY <1>0 DEF Execute, Reallocates, FailsOver, HandleType, Present, handleVars
<1>3. SettingType'
  BY DEF Execute, Reallocates, Reapplied, FailsOver, SettingType
<1>4. reading' \in Handles \cup {None} /\ failovers' \in 0..MaxFailovers
  <2>1. MaxFailovers \in Nat
    BY CallsAssumption
  <2>2. QED
    BY <2>1 DEF Execute, FailsOver
<1>5. QED
  BY <1>1, <1>2, <1>3, <1>4

(* So do allocating, copying, unlisting and SQLError.                      *)
LEMMA HandleCallType ==
    ASSUME TypeOK, NEW h \in Handles,
           \/ Alloc(h) \/ Lists(h) \/ Unlists(h) \/ SQLError(h)
           \/ \E src \in Descriptors : SQLCopyDesc(src, h)
    PROVE  TypeOK'
<1> USE DEF TypeOK
<1>1. ErrorType'
  <2>1. CASE Alloc(h)
    BY <2>1, EndsType DEF Alloc, ClearsFirst, Ages
  <2>2. CASE \E src \in Descriptors : SQLCopyDesc(src, h)
    BY <2>2, ProcessLibResType DEF SQLCopyDesc, ClearsNot
  <2>3. CASE Lists(h) \/ Unlists(h)
    BY <2>3 DEF Lists, Unlists, errVars, ErrorType
  <2>4. CASE SQLError(h)
    BY <2>4 DEF SQLError, ErrorType, NoCall
  <2>5. QED
    BY <2>1, <2>2, <2>3, <2>4
<1>2. HandleType'
  <2> USE DEF HandleType, Present
  <2>1. CASE Alloc(h)
    BY <2>1 DEF Alloc, Unused
  <2>2. CASE \E src \in Descriptors : SQLCopyDesc(src, h)
    BY <2>2 DEF SQLCopyDesc, Unused, Free
  <2>3. CASE Lists(h) \/ Unlists(h)
    BY <2>3 DEF Lists, Unlists, Free
  <2>4. CASE SQLError(h)
    BY <2>4 DEF SQLError, handleVars
  <2>5. QED
    BY <2>1, <2>2, <2>3, <2>4
<1>3. SettingType' /\ failovers' \in 0..MaxFailovers
  BY DEF Alloc, SQLCopyDesc, Lists, Unlists, SQLError, SettingType, settingVars,
         nameVars
<1>4. reading' \in Handles \cup {None}
  BY DEF Alloc, SQLCopyDesc, Lists, Unlists, SQLError
<1>5. QED
  BY <1>1, <1>2, <1>3, <1>4

(* Freeing a handle keeps the types, if it does for what only a statement  *)
(* has.                                                                    *)
LEMMA FreesType ==
    ASSUME TypeOK, NEW h \in Handles, Frees(h), SettingType',
           implicit' \in [Statements -> {"none", "live", "stale"}]
    PROVE  TypeOK'
<1> USE DEF TypeOK
<1>0. Frees(h)
  OBVIOUS
<1>1. ErrorType'
  <2>1. Aged(err) \in [Handles -> Ages] /\ Aged(diag) \in [Handles -> Ages]
    BY AgedType DEF ErrorType
  <2>2. err' \in [Handles -> Ages] /\ diag' \in [Handles -> Ages]
    BY <2>1 DEF Frees, Ages
  <2>3. QED
    BY <2>2 DEF Frees, ErrorType, NoCall
<1>2. HandleType'
  BY DEF Frees, FreesHandle, HandleType, Present
<1>3. QED
  BY <1>1, <1>2 DEF Frees

(* Every call keeps the types.                                             *)
LEMMA TypeStep ==
    ASSUME TypeOK, Next PROVE TypeOK'
<1>1. ASSUME NEW h \in Handles,
             \/ AsksOnly(h) \/ Alloc(h) \/ Lists(h)
             \/ Unlists(h) \/ SQLError(h)
      PROVE  TypeOK'
  BY <1>1, AsksType, HandleCallType
<1>2. ASSUME NEW s \in Statements,
             Configures(s) \/ SQLGetDescAttr(s) \/ Execute(s) \/ FreeStmt(s)
      PROVE  TypeOK'
  <2>1. s \in Handles
    BY DEF Handles
  <2>2. CASE FreeStmt(s)
    <3>1. SettingType' /\ implicit' \in [Statements -> {"none", "live", "stale"}]
      BY <2>2 DEF FreeStmt, Frees, TypeOK, HandleType, SettingType
    <3>2. QED
      BY <2>1, <2>2, <3>1, FreesType DEF FreeStmt
  <2>3. QED
    BY <1>2, <2>2, ConfiguresType, GetDescAttrType, ExecuteType
<1>3. ASSUME NEW d \in Descriptors,
             FreeDesc(d) \/ \E src \in Descriptors : SQLCopyDesc(src, d)
      PROVE  TypeOK'
  <2>1. d \in Handles
    BY DEF Handles
  <2>2. CASE FreeDesc(d)
    <3>1. SettingType' /\ implicit' \in [Statements -> {"none", "live", "stale"}]
      BY <2>2 DEF FreeDesc, Frees, TypeOK, HandleType, SettingType
    <3>2. QED
      BY <2>1, <2>2, <3>1, FreesType DEF FreeDesc
  <2>3. QED
    BY <1>3, <2>1, <2>2, HandleCallType
<1>4. QED
  BY <1>1, <1>2, <1>3, Kinds

(* Every variable keeps a value of its declaration.                        *)
THEOREM TypeCorrect == Spec => []TypeOK
<1>1. TypeOK /\ UNCHANGED vars => TypeOK'
  BY DEF TypeOK, HandleType, Present, ErrorType, SettingType, vars, handleVars,
         errVars, settingVars, nameVars
<1>2. QED
  BY InitType, TypeStep, <1>1, PTL DEF Spec

-----------------------------------------------------------------------------
(* Underlying handles.                                                     *)

(* The same of a handle that is about to be listed: a failover leaves it   *)
(* its underlying handle, and it is missed then.                           *)
HandlesInv == (listed \cup entering) \cap wrapped \subseteq alive \cup missed

(* ListedHandlesLive: neither a failover nor a copy leaves a listed handle *)
(* with an underlying one the driver does not know, unless the failover    *)
(* came between the making of that handle and its listing.                 *)
THEOREM HandlesLive == Spec => []ListedHandlesLive
<1>1. Init => HandlesInv
  BY DEF Init, HandlesInv
<1>2. HandlesInv /\ UNCHANGED vars => HandlesInv'
  BY DEF HandlesInv, vars, handleVars
<1>3. ASSUME TypeOK, HandlesInv, Next PROVE HandlesInv'
  <2> USE DEF HandlesInv, TypeOK, HandleType
  <2>1. ASSUME NEW h \in Handles,
             \/ AsksOnly(h) \/ Alloc(h) \/ Lists(h)
             \/ Unlists(h) \/ SQLError(h)
        PROVE  HandlesInv'
    BY <1>3, <2>1
       DEF AsksOnly, Asks, NotSupported, Alloc, Unused, Present, Lists, Unlists,
           SQLError, handleVars
  <2>2. ASSUME NEW s \in Statements,
               Configures(s) \/ SQLGetDescAttr(s) \/ Execute(s) \/ FreeStmt(s)
        PROVE  HandlesInv'
    <3>1. CASE Execute(s)
      BY <1>3, <3>1 DEF Execute, Reallocates, FailsOver, Visited, handleVars
    <3>2. QED
      BY <1>3, <2>2, <3>1
         DEF Configures, SQLSetStmtAttr, SQLSetStmtOption, SQLSetCursorName,
             SQLGetCursorName, SQLGetDescAttr, FreeStmt, Frees, FreesHandle, handleVars
  <2>3. ASSUME NEW d \in Descriptors,
               FreeDesc(d) \/ \E src \in Descriptors : SQLCopyDesc(src, d)
        PROVE  HandlesInv'
    BY <1>3, <2>3 DEF FreeDesc, Frees, FreesHandle, SQLCopyDesc, Free, Unused, Present
  <2>4. QED
    BY <1>3, <2>1, <2>2, <2>3, Kinds
<1>4. HandlesInv => ListedHandlesLive
  BY DEF HandlesInv, ListedHandlesLive
<1>5. QED
  BY TypeCorrect, <1>1, <1>2, <1>3, <1>4, PTL DEF Spec

-----------------------------------------------------------------------------
(* Diagnostics.                                                            *)

(* What a call that clears the record first, and then asks the driver or   *)
(* not, leaves to tell.                                                    *)
Current(h) ==
    last.on = h /\ last.clears =>
        /\ DiagRec(h, 1) # "older"
        /\ last.failed # "no" => DiagRec(h, 1) = "last"
        /\ last.failed = "driver" => DiagField(h) = "last"

(* A call that ends leaves a current record, if it asks the driver         *)
(* whenever there is one to ask.                                           *)
LEMMA EndsCurrent ==
    ASSUME ErrorType, NEW h \in Handles, NEW clears \in BOOLEAN, NEW e \in {"none", "last"},
           NEW d \in {"none", "last", "unasked"}, NEW failed,
           Ends(h, clears, e, d, failed), NEW g \in Handles,
           e = "none" => \/ h \in wrapped' /\ d \in {"none", "last"}
                         \/ h \notin wrapped',
           failed = "wrapper" => e = "last",
           failed = "driver" => e = "none" /\ d = "last" /\ h \in wrapped',
           failed \in {"no", "driver", "wrapper"}
    PROVE  Current(g)'
<1>1. /\ last'.on = h /\ last'.clears = clears /\ last'.failed = failed
      /\ clears => err'[h] = e
      /\ d # "unasked" => diag'[h] = d
  BY DEF Ends, Aged
<1>2. QED
  BY <1>1 DEF Current, DiagRec, DiagField

(* Without an underlying handle nothing else can tell of an older call.    *)
LEMMA UnansweredCurrent ==
    ASSUME ErrorType, NEW h \in Handles, NEW clears \in BOOLEAN, Unanswered(h, clears),
           h \notin wrapped', NEW g \in Handles
    PROVE  Current(g)'
BY EndsCurrent DEF Unanswered

(* With one, the driver or the wrapper has recorded the answer.            *)
LEMMA ProcessLibResCurrent ==
    ASSUME ErrorType, NEW h \in Handles, NEW call, NEW clears \in BOOLEAN,
           ProcessLibRes(h, call, clears), h \in wrapped', NEW g \in Handles
    PROVE  Current(g)'
BY EndsCurrent DEF ProcessLibRes

(* A handle that is about to be listed has a current record as well.       *)
DiagnosticsInv == \A h \in listed \cup entering : Current(h)

(* DiagnosticsCurrent: what the diagnostic functions tell after a call     *)
(* that calls ClearError is about that call, also when the call has failed *)
(* over.                                                                   *)
THEOREM DiagnosticsCorrect == Spec => []DiagnosticsCurrent
<1>1. Init => DiagnosticsInv
  BY DEF Init, DiagnosticsInv
<1>2. DiagnosticsInv /\ UNCHANGED vars => DiagnosticsInv'
  BY DEF DiagnosticsInv, Current, DiagRec, DiagField, vars, handleVars, errVars
<1>3. ASSUME TypeOK, DiagnosticsInv, Next PROVE DiagnosticsInv'
  <2> USE DEF TypeOK
  <2>1. ASSUME NEW h \in Handles, \/ AsksOnly(h) \/ Alloc(h)
                                  \/ \E src \in Descriptors : SQLCopyDesc(src, h),
               NEW g \in Handles
        PROVE  Current(g)'
    <3>1. CASE \E call : \E clears \in BOOLEAN : Asks(h, call, clears)
      BY <1>3, <3>1, UnansweredCurrent, ProcessLibResCurrent DEF Asks, handleVars
    <3>2. CASE NotSupported(h)
      BY <1>3, <3>2, EndsCurrent DEF NotSupported, ClearsFirst
    <3>3. CASE Alloc(h)
      BY <1>3, <3>3, EndsCurrent DEF Alloc, ClearsFirst
    <3>4. CASE \E src \in Descriptors : SQLCopyDesc(src, h)
      <4>1. PICK src \in Descriptors : SQLCopyDesc(src, h)
        BY <3>4
      <4>2. ProcessLibRes(h, "SQLCopyDesc", FALSE)
        BY <4>1 DEF SQLCopyDesc, ClearsNot
      <4>3. last'.clears = FALSE
        BY <4>2 DEF ProcessLibRes, Ends
      <4>4. QED
        BY <4>3 DEF Current
    <3>5. QED
      BY <2>1, <3>1, <3>2, <3>3, <3>4 DEF AsksOnly
  <2>2. ASSUME NEW s \in Statements, Configures(s) \/ SQLGetDescAttr(s), NEW g \in Handles
        PROVE  Current(g)'
    <3>0. s \in Handles /\ wrapped' = wrapped
      BY <2>2
         DEF Handles, Configures, SQLSetStmtAttr, SQLSetStmtOption,
             SQLSetCursorName, SQLGetCursorName, SQLGetDescAttr, handleVars
    <3>1. ASSUME NEW v, NEW clears \in BOOLEAN,
                 \/ s \notin wrapped /\ Unanswered(s, clears)
                 \/ s \in wrapped /\ Ends(s, clears, "none", "none", "no")
                 \/ s \in wrapped /\ Ends(s, clears, "none", "last", "driver")
                 \/ s \in wrapped /\ ProcessLibRes(s, v, clears)
          PROVE  Current(g)'
      BY <1>3, <3>0, <3>1, UnansweredCurrent, ProcessLibResCurrent, EndsCurrent
    <3>2. QED
      BY <2>2, <3>1
         DEF Configures, SQLSetStmtAttr, SQLSetStmtOption, SQLSetCursorName, Sets,
             SQLGetCursorName, SQLGetDescAttr, ClearsFirst, ClearsNot
  <2>3. ASSUME NEW s \in Statements, Execute(s), NEW g \in Handles PROVE Current(g)'
    <3>1. CASE Ends(s, ClearsFirst, "none", "none", "no")
      <4>1. s \in Handles /\ ErrorType
        BY <1>3 DEF Handles
      <4>2. /\ last'.on = s /\ last'.failed = "no"
            /\ err'[s] = "none" /\ diag'[s] = "none"
        BY <3>1, <4>1 DEF Ends, ClearsFirst, Aged
      <4>3. QED
        BY <4>2 DEF Current, DiagRec
    <3>2. CASE FailsBelow(s, "none", "last", "driver") /\ s \in wrapped'
      BY <3>2 DEF FailsBelow, Current, DiagRec, DiagField, Aged
    <3>3. CASE FailsBelow(s, "last", "unasked", "wrapper")
      BY <3>3 DEF FailsBelow, Current, DiagRec, Aged
    <3>4. CASE FailsBelow(s, "none", "unasked", "no") /\ s \notin wrapped'
      BY <3>4 DEF FailsBelow, Current, DiagRec, Aged
    <3>5. CASE FailsOver(s)
      BY <2>3, <3>5 DEF FailsOver, Execute, Free, Visited, Current, DiagRec
    <3>6. QED
      BY <2>3, <3>1, <3>2, <3>3, <3>4, <3>5 DEF Execute, Reallocates, handleVars
  <2>4. last' = NoCall => DiagnosticsInv'
    BY DEF DiagnosticsInv, Current, NoCall
  <2>5. ASSUME NEW h \in Handles, Lists(h) \/ Unlists(h) PROVE DiagnosticsInv'
    BY <1>3, <2>5
       DEF Lists, Unlists, DiagnosticsInv, Current, DiagRec, DiagField, errVars
  <2>6. (\A g \in Handles : Current(g)') => DiagnosticsInv'
    BY <1>3, TypeStep DEF DiagnosticsInv, HandleType
  <2>7. ASSUME NEW h \in Handles,
             \/ AsksOnly(h) \/ Alloc(h) \/ Lists(h)
             \/ Unlists(h) \/ SQLError(h)
        PROVE  DiagnosticsInv'
    <3>1. SQLError(h) => last' = NoCall
      BY DEF SQLError
    <3>2. QED
      BY <2>1, <2>4, <2>5, <2>6, <2>7, <3>1
  <2>8. ASSUME NEW s \in Statements,
               Configures(s) \/ SQLGetDescAttr(s) \/ Execute(s) \/ FreeStmt(s)
        PROVE  DiagnosticsInv'
    <3>1. FreeStmt(s) => last' = NoCall
      BY DEF FreeStmt, Frees
    <3>2. QED
      BY <2>2, <2>3, <2>4, <2>6, <2>8, <3>1
  <2>9. ASSUME NEW d \in Descriptors,
               FreeDesc(d) \/ \E src \in Descriptors : SQLCopyDesc(src, d)
        PROVE  DiagnosticsInv'
    <3>1. FreeDesc(d) => last' = NoCall
      BY DEF FreeDesc, Frees
    <3>2. d \in Handles
      BY DEF Handles
    <3>3. QED
      BY <2>1, <2>4, <2>6, <2>9, <3>1, <3>2
  <2>10. QED
    BY <1>3, <2>7, <2>8, <2>9, Kinds
<1>4. DiagnosticsInv => DiagnosticsCurrent
  BY DEF DiagnosticsInv, DiagnosticsCurrent, Current
<1>5. QED
  BY TypeCorrect, <1>1, <1>2, <1>3, <1>4, PTL DEF Spec

-----------------------------------------------------------------------------
(* Settings.                                                               *)

(* A statement that is not listed yet has no settings.                     *)
SettingsInv ==
    /\ SettingsKept
    /\ \A s \in Statements \ (listed \cup dropping) :
         attr_map[s] = None /\ cursor_name[s] = None

(* SettingsKept: DefaultPlugin::Execute gives a new underlying statement   *)
(* what was set on the old one, but for a cursor name its driver cannot    *)
(* read that way, and a handle that is used again starts with none of it.  *)
THEOREM SettingsCorrect == Spec => []SettingsKept
<1>1. Init => SettingsInv
  BY DEF Init, SettingsInv, SettingsKept
<1>2. SettingsInv /\ UNCHANGED vars => SettingsInv'
  BY DEF SettingsInv, SettingsKept, Unreadable, Present, vars, handleVars,
         settingVars, nameVars
<1>3. ASSUME TypeOK, SettingsInv, Next PROVE SettingsInv'
  <2> USE DEF TypeOK, HandleType, Present, SettingsInv, SettingsKept, Unreadable
  <2>1. ASSUME NEW h \in Handles, AsksOnly(h) \/ Lists(h) \/ Unlists(h) \/ SQLError(h)
        PROVE  SettingsInv'
    BY <1>3, <2>1
       DEF AsksOnly, Asks, NotSupported, Lists, Unlists, SQLError,
           handleVars, settingVars, nameVars
  <2>2. ASSUME NEW h \in Handles, Alloc(h) PROVE SettingsInv'
    BY <1>3, <2>2 DEF Alloc, Unused, settingVars, nameVars
  <2>3. ASSUME NEW s \in Statements, NEW v \in Values, SQLSetStmtAttr(s, v) PROVE SettingsInv'
    BY <1>3, <2>3 DEF SQLSetStmtAttr, Sets, Accepts, Free, handleVars, nameVars, SettingType
  <2>4. ASSUME NEW s \in Statements, NEW v \in Values, SQLSetStmtOption(s, v) PROVE SettingsInv'
    BY <1>3, <2>4 DEF SQLSetStmtOption, handleVars, nameVars, SettingType
  <2>5. ASSUME NEW s \in Statements, NEW v \in Names, SQLSetCursorName(s, v) PROVE SettingsInv'
    BY <1>3, <2>5 DEF SQLSetCursorName, Sets, Accepts, Free, handleVars, SettingType
  <2>6. ASSUME NEW s \in Statements, SQLGetCursorName(s), s \notin wrapped PROVE SettingsInv'
    BY <1>3, <2>6 DEF SQLGetCursorName, Free, handleVars, nameVars, SettingType
  <2>7. ASSUME NEW s \in Statements, SQLGetDescAttr(s) PROVE SettingsInv'
    BY <1>3, <2>7 DEF SQLGetDescAttr, settingVars, nameVars
  <2>8. ASSUME NEW s \in Statements, Execute(s) PROVE SettingsInv'
    BY <1>3, <2>8
       DEF Execute, Reallocates, Reapplied, Accepts, FailsOver, handleVars, SettingType
  <2>9. ASSUME NEW s \in Statements, FreeStmt(s) PROVE SettingsInv'
    BY <1>3, <2>9 DEF FreeStmt, Frees, FreesHandle, SettingType
  <2>10. ASSUME NEW d \in Descriptors, FreeDesc(d) PROVE SettingsInv'
    BY <1>3, <2>10, CallsAssumption DEF FreeDesc, Frees, FreesHandle
  <2>11. ASSUME NEW src \in Descriptors, NEW d \in Descriptors, SQLCopyDesc(src, d)
         PROVE  SettingsInv'
    BY <1>3, <2>11, CallsAssumption DEF SQLCopyDesc, Free, Unused, settingVars, nameVars
  <2>12. QED
    BY <1>3, <2>1, <2>2, <2>3, <2>4, <2>5, <2>6, <2>7, <2>8, <2>9, <2>10, <2>11,
       Kinds
       DEF Configures
<1>4. SettingsInv => SettingsKept
  BY DEF SettingsInv
<1>5. QED
  BY TypeCorrect, <1>1, <1>2, <1>3, <1>4, PTL DEF Spec
=============================================================================
