---------------------------- MODULE BoundBuffers ----------------------------
(***************************************************************************)
(* The buffers of one statement of driver/odbcapi_common.cpp.  When the    *)
(* application and the underlying driver disagree on the width of a        *)
(* character, a character column or parameter is not bound to the memory   *)
(* of the application but to a local buffer of the wrapper, which is       *)
(* converted after a fetch and before an execution.                        *)
(*                                                                         *)
(* Every call holds stmt->lock from beginning to end: a call is a step.    *)
(* A binding of the driver is an address: that of an application buffer,   *)
(* that of the local buffer of the item, which is named as the item is, or *)
(* that of a local buffer which is no more (Freed).  Each binding of the   *)
(* application has a buffer of its own.                                    *)
(* All types but SQL_C_TCHAR, and a column bound with BufferLength 0, are  *)
(* of kind "narrow": the code treats them alike; "wide_unsized" is a wide  *)
(* parameter bound with BufferLength 0.  That the data of a parameter      *)
(* comes at execution is not said by the binding but by the indicator it   *)
(* points to, which wrapper and driver read when they need it.             *)
(***************************************************************************)

CONSTANTS
    Columns, Params,
    AppBuffers,      \* memory of the application
    Rows,            \* what a fetch may deliver
    Texts,           \* values of a parameter
    LongTexts,       \* those longer than the BufferLength of the binding
    ColumnKinds, ParamKinds,
    ExecutionCalls,  \* how the application executes
    MayRefuse,       \* items whose binding the driver may refuse to change
    UsedTogether,    \* bound: sets of items bound at the same time
    NullPtr, Freed

Items == Columns \cup Params

ASSUME BuffersAssumption ==
    /\ ColumnKinds \subseteq {"narrow", "wide"}
    /\ ParamKinds \subseteq {"narrow", "wide", "wide_output", "wide_unsized"}
    /\ ExecutionCalls \subseteq {"prepared", "direct"}
    /\ MayRefuse \subseteq Items
    /\ UsedTogether \subseteq SUBSET Items
    /\ LongTexts \subseteq Texts
    /\ Columns \cap Params = {} /\ AppBuffers \cap Items = {}
    /\ {NullPtr, Freed} \cap (Items \cup AppBuffers \cup Rows \cup Texts) = {}
    /\ NullPtr # Freed

VARIABLES
    (* the application *)
    memory,           \* what was last written to a buffer, and its encoding
    binding,          \* its last accepted binding of a column or parameter
    indicator,        \* what the StrLen_or_IndPtr of a parameter points to
    text_seen,        \* parameters with a text when bound, or executed since
    (* the statement of the wrapper *)
    wrapped_stmt,     \* whether there is an underlying statement
    bound_buffers,    \* bound_col_buffers and bound_param_buffers
    put_data_char_conversion,
    (* the underlying statement *)
    driver,           \* the address and kind an item is bound with
    refused,          \* items whose binding the driver refused to change
    cursor,           \* idle, prepared, open or need_data
    asked, unasked,   \* the parameter it asks data for, those still to come
    (* what the last call delivered, nothing if it was of another kind *)
    delivery

stmtVars == <<wrapped_stmt, bound_buffers, put_data_char_conversion>>
driverVars == <<driver, refused, cursor, asked, unasked>>
appVars == <<binding, indicator, text_seen>>
bufferVars == <<memory, appVars, stmtVars, driverVars, delivery>>

Indicators == {"text", "at_exec"}
Unbound == [address |-> NullPtr, kind |-> "none"]
NoBuffer == [app_ptr |-> NullPtr, kind |-> "none", long |-> FALSE]
Blank == [value |-> NullPtr, encoding |-> "none"]
Nothing == [of |-> "none"]

BufferInit ==
    /\ memory = [b \in AppBuffers \cup Items |-> Blank]
    /\ binding = [i \in Items |-> Unbound]
    /\ indicator = [p \in Params |-> "text"] /\ text_seen = {}
    /\ wrapped_stmt = TRUE
    /\ bound_buffers = [i \in Items |-> NoBuffer]
    /\ put_data_char_conversion = FALSE
    /\ driver = [i \in Items |-> Unbound]
    /\ refused = {}
    /\ cursor = "idle" /\ asked = NullPtr /\ unasked = {}
    /\ delivery = Nothing

Wide(kind) == kind \in {"wide", "wide_output", "wide_unsized", "at_exec"}
IsTracked(i) == bound_buffers[i] # NoBuffer
HasLocal(entry) == entry.kind \in {"wide", "wide_output"}
AtExec(i) == i \in Params /\ indicator[i] = "at_exec"

(* Memory nobody uses holds nothing.                                       *)
Keep(mem) ==
    [a \in AppBuffers \cup Items |->
        IF IF a \in Items THEN HasLocal(bound_buffers'[a])
           ELSE \E i \in Items : a \in {binding'[i].address, bound_buffers'[i].app_ptr}
        THEN mem[a] ELSE Blank]

-----------------------------------------------------------------------------
(* Binding. *)

InUse == {i \in Items : binding[i] # Unbound \/ driver[i] # Unbound \/ IsTracked(i)}

(* No two bindings of the application share a buffer.                      *)
Available(b, i) == /\ \A j \in Items \ {i} : binding[j].address # b
                   /\ \E set \in UsedTogether : InUse \cup {i} \subseteq set

(* The driver accepts to be bound, or refuses and keeps what it has got,   *)
(* which is old; the application takes a refused binding for not made.     *)
DriverBinds(i, b, address, kind, old) ==
    \/ /\ driver' = [driver EXCEPT ![i] = [address |-> address, kind |-> kind]]
       /\ binding' = [binding EXCEPT ![i] = [address |-> b, kind |-> kind]]
       /\ refused' = refused \ {i}
    \/ /\ i \in MayRefuse
       /\ driver' = [driver EXCEPT ![i] = old]
       /\ refused' = refused \cup {i}
       /\ UNCHANGED binding

(* The driver's binding of i once the local buffer of i is gone.           *)
Dangling(i) == [driver[i] EXCEPT !.address = IF @ = i THEN Freed ELSE @]

(* The entry of i is replaced, and the driver bound to its local buffer.   *)
(* With data at execution there is none, and the driver is given the       *)
(* pointer of the application as the token of the parameter.               *)
Entry(i, b, kind) ==
    [app_ptr |-> b, kind |-> IF AtExec(i) THEN "at_exec" ELSE kind, long |-> FALSE]

Tracks(i, b, kind) ==
    LET entry == Entry(i, b, kind) IN
    /\ bound_buffers' = [bound_buffers EXCEPT ![i] = entry]
    /\ DriverBinds(i, b, IF HasLocal(entry) THEN i ELSE b, kind, Dangling(i))
    /\ memory' = Keep([memory EXCEPT ![i] = Blank])

(* Mutant: the entry is erased behind the driver's back.                   *)
ErasesOnly(i, b, kind) ==
    /\ bound_buffers' = [bound_buffers EXCEPT ![i] = NoBuffer]
    /\ driver' = [driver EXCEPT ![i] = Dangling(i)]
    /\ binding' = [binding EXCEPT ![i] = [address |-> b, kind |-> kind]]
    /\ memory' = Keep(memory)
    /\ UNCHANGED refused

(* It is erased, and the driver bound to the address that was passed.      *)
Untracks(i, b, kind) ==
    /\ bound_buffers' = [bound_buffers EXCEPT ![i] = NoBuffer]
    /\ DriverBinds(i, b, b, kind, Dangling(i))
    /\ memory' = Keep(memory)

(* It is left as it is.                                                    *)
PassesOn(i, b, kind) ==
    /\ UNCHANGED bound_buffers
    /\ DriverBinds(i, b, b, kind, driver[i])
    /\ memory' = Keep(memory)

SQLBindCol(c, b, kind) ==
    /\ wrapped_stmt /\ kind \in ColumnKinds /\ Available(b, c)
    /\ IF kind = "wide" THEN Tracks(c, b, kind) ELSE PassesOn(c, b, kind)
    /\ delivery' = Nothing
    /\ UNCHANGED <<indicator, text_seen, wrapped_stmt, put_data_char_conversion,
                   cursor, asked, unasked>>

SQLBindColNull(c) ==
    /\ wrapped_stmt
    /\ Untracks(c, NullPtr, "none")
    /\ delivery' = Nothing
    /\ UNCHANGED <<indicator, text_seen, wrapped_stmt, put_data_char_conversion,
                   cursor, asked, unasked>>

(* An output parameter is bound with an indicator the application has set. *)
SQLBindParameter(p, b, kind) ==
    /\ wrapped_stmt /\ kind \in ParamKinds /\ Available(b, p)
    /\ cursor # "need_data"
    /\ kind = "wide_output" => ~AtExec(p)
    /\ CASE kind = "narrow" -> PassesOn(p, b, kind)
         [] kind = "wide_unsized" /\ ~AtExec(p) -> Untracks(p, b, kind)
         [] OTHER -> Tracks(p, b, kind)
    /\ text_seen' = IF AtExec(p) THEN text_seen \ {p} ELSE text_seen \cup {p}
    /\ delivery' = Nothing
    /\ UNCHANGED <<indicator, wrapped_stmt, put_data_char_conversion, cursor, asked,
                   unasked>>

(* SQLFreeStmt, SQL_UNBIND and SQL_RESET_PARAMS: whatever the driver       *)
(* answers, and also without a statement of the driver, the buffers go.    *)
Forgets(items) ==
    /\ \/ /\ driver' = [i \in Items |-> IF i \in items THEN Unbound ELSE driver[i]]
          /\ refused' = refused \ items
       \/ /\ wrapped_stmt /\ items \cap MayRefuse # {}
          /\ driver' = [i \in Items |-> IF i \in items THEN Dangling(i) ELSE driver[i]]
          /\ refused' = refused \cup items
    /\ bound_buffers' = [i \in Items |-> IF i \in items THEN NoBuffer
                                                        ELSE bound_buffers[i]]
    /\ binding' = [i \in Items |-> IF i \in items THEN Unbound ELSE binding[i]]
    /\ memory' = Keep(memory)
    /\ delivery' = Nothing
    /\ text_seen' = text_seen \ items
    /\ UNCHANGED <<indicator, wrapped_stmt, cursor, asked, unasked>>

Unbind == Forgets(Columns) /\ UNCHANGED put_data_char_conversion

ResetParams ==
    /\ cursor # "need_data"
    /\ Forgets(Params)
    /\ put_data_char_conversion' = FALSE

-----------------------------------------------------------------------------
(* Execution. *)

(* The application puts a text where it has bound an input parameter.      *)
WriteParam(p, text) ==
    /\ binding[p].kind \in {"wide", "wide_unsized", "narrow"}
    /\ p \in Params /\ cursor # "need_data"
    /\ memory' = [memory EXCEPT ![binding[p].address] =
           [value |-> text,
            encoding |-> IF Wide(binding[p].kind) THEN "app" ELSE "plain"]]
    /\ delivery' = Nothing
    /\ UNCHANGED <<appVars, stmtVars, driverVars>>

(* It says whether the text is there, or comes at execution.               *)
SetIndicator(p, ind) ==
    /\ p \in Params /\ cursor # "need_data"
    /\ bound_buffers[p].kind # "wide_output" /\ binding[p].kind # "wide_output"
    /\ indicator' = [indicator EXCEPT ![p] = ind]
    /\ delivery' = Nothing
    /\ UNCHANGED <<memory, binding, text_seen, stmtVars, driverVars>>

(* The parameters whose local buffer the wrapper fills from the buffer the *)
(* application had named, and those it has to enlarge for that.            *)
(* (mutant: only the first time).                                          *)
ConvertedOnce ==
    {p \in Params : /\ bound_buffers[p].kind \in {"wide", "at_exec"} /\ ~AtExec(p)
                    /\ memory[p] = Blank}
Converted == {p \in Params : bound_buffers[p].kind \in {"wide", "at_exec"} /\ ~AtExec(p)}
Enlarged == {p \in Converted : /\ memory[bound_buffers[p].app_ptr].value \in LongTexts
                               /\ ~bound_buffers[p].long}

ConvertedTexts ==
    [a \in AppBuffers \cup Items |->
        IF a \in Converted
        THEN [value |-> memory[bound_buffers[a].app_ptr].value, encoding |-> "driver"]
        ELSE memory[a]]

(* The conversion makes a local buffer where there is none, and binds the  *)
(* parameter again; if the driver refuses it keeps the address it had.     *)
ConvertBoundParamBuffersBeforeExecute ==
    \E declined \in SUBSET (Converted \cap MayRefuse) :
        /\ UNCHANGED <<binding, indicator>>
        /\ text_seen' = text_seen \cup {p \in Params : ~AtExec(p)}
        /\ bound_buffers' = [p \in Items |->
               IF p \in Converted
               THEN [bound_buffers[p] EXCEPT !.kind = "wide", !.long = @ \/ p \in Enlarged]
               ELSE bound_buffers[p]]
        /\ driver' = [i \in Items |->
               CASE wrapped_stmt /\ i \in Converted \ declined ->
                        [address |-> i, kind |-> "wide"]
                 [] wrapped_stmt /\ i \in declined \cap Enlarged -> Dangling(i)
                 [] OTHER -> driver[i]]
        /\ refused' = IF wrapped_stmt THEN refused \cup declined ELSE refused

(* What the driver writes to an output parameter, and its copy.            *)
OutputsWritten(mem, out) ==
    [a \in AppBuffers \cup Items |->
        IF a \in Params /\ driver'[a] = [address |-> a, kind |-> "wide_output"]
        THEN [value |-> out, encoding |-> "driver"] ELSE mem[a]]

Outputs == {p \in Params : bound_buffers[p].kind = "wide_output"}

ConvertBoundParamBuffersAfterExecute(mem) ==
    [a \in AppBuffers \cup Items |->
        IF \E p \in Outputs : bound_buffers[p].app_ptr = a
        THEN LET p == CHOOSE p \in Outputs : bound_buffers[p].app_ptr = a
             IN [value |-> mem[p].value, encoding |-> "app"]
        ELSE mem[a]]

(* The driver reads the indicator it is bound to: the application's, or    *)
(* the one beside a local buffer, which says that the text is there.       *)
IsInput(p) == driver'[p].kind \notin {"none", "wide_output"}
Awaited(p) == IsInput(p) /\ AtExec(p) /\ driver'[p].address \in AppBuffers
Plain(p) == IsInput(p) /\ ~Awaited(p)

ExecutionFails ==
    /\ delivery' = Nothing
    /\ UNCHANGED <<cursor, asked, unasked>>

AsksForData ==
    /\ \E p \in Params : Awaited(p)
    /\ cursor' = "need_data" /\ asked' = NullPtr
    /\ unasked' = {p \in Params : Awaited(p)}
    /\ delivery' = Nothing

(* What freed memory holds is anything; it is represented as a blank.      *)
Sent(mem) == [p \in {q \in Params : Plain(q)} |->
                 IF driver'[p].address = Freed THEN Blank ELSE mem[driver'[p].address]]

Runs(call, mem, out) ==
    /\ \A p \in Params : ~Awaited(p)
    /\ cursor' = "open"
    /\ delivery' = [of |-> call, params |-> Sent(mem), out |-> out]
    /\ UNCHANGED <<asked, unasked>>

(* The plugin chain allocates an underlying statement if there is none     *)
(* and a connection; what was prepared and bound is not known to it.       *)
SQLExecute ==
    /\ "prepared" \in ExecutionCalls /\ cursor \in {"idle", "prepared"}
    /\ ConvertBoundParamBuffersBeforeExecute
    /\ \/ /\ \/ ExecutionFails
             \/ wrapped_stmt /\ cursor = "prepared" /\ AsksForData
          /\ memory' = ConvertedTexts
       \/ \E out \in Rows :
             /\ wrapped_stmt /\ cursor = "prepared"
             /\ Runs("prepared", ConvertedTexts, out)
             /\ memory' = ConvertBoundParamBuffersAfterExecute(
                              OutputsWritten(ConvertedTexts, out))
    /\ wrapped_stmt' \in {wrapped_stmt, TRUE}
    /\ UNCHANGED put_data_char_conversion

(* The parameters are converted neither before nor after.                  *)
SQLExecDirect ==
    /\ "direct" \in ExecutionCalls /\ cursor \in {"idle", "prepared"}
    /\ UNCHANGED <<appVars, bound_buffers, put_data_char_conversion, driver, refused>>
    /\ \/ /\ ExecutionFails \/ AsksForData
          /\ UNCHANGED memory
       \/ \E out \in Rows : /\ Runs("direct", memory, out)
                            /\ memory' = OutputsWritten(memory, out)
    /\ wrapped_stmt' \in {wrapped_stmt, TRUE}
    /\ cursor' # cursor => wrapped_stmt'

SQLPrepare ==
    /\ wrapped_stmt /\ cursor \in {"idle", "prepared"}
    /\ cursor' = "prepared" /\ delivery' = Nothing
    /\ UNCHANGED <<memory, appVars, stmtVars, driver, refused, asked, unasked>>

(* The token the driver returns is the pointer of a tracked parameter.     *)
IsWideToken(token) == \E q \in Params : bound_buffers[q].app_ptr = token

SQLParamData ==
    /\ wrapped_stmt /\ cursor = "need_data"
    /\ \/ \E p \in unasked :
             /\ asked' = p /\ unasked' = unasked \ {p}
             /\ put_data_char_conversion' = IsWideToken(driver[p].address)
             /\ UNCHANGED cursor
       \/ /\ unasked = {} \/ cursor' = "idle"
          /\ cursor' \in {"open", "idle"}
          /\ asked' = NullPtr /\ unasked' = {}
          /\ put_data_char_conversion' = FALSE
    /\ delivery' = Nothing
    /\ UNCHANGED <<memory, appVars, wrapped_stmt, bound_buffers, driver, refused>>

(* A piece of data, in the encoding of the application.                    *)
SQLPutData(text) ==
    /\ wrapped_stmt /\ cursor = "need_data" /\ asked # NullPtr
    /\ delivery' = [of |-> "put_data",
                    piece |-> [value |-> text,
                               encoding |-> IF put_data_char_conversion THEN "driver"
                                            ELSE IF Wide(driver[asked].kind)
                                                 THEN "app" ELSE "plain"]]
    /\ UNCHANGED <<memory, appVars, stmtVars, driverVars>>

SQLCancel ==
    /\ wrapped_stmt /\ cursor = "need_data"
    /\ cursor' \in {"idle", "prepared"}
    /\ asked' = NullPtr /\ unasked' = {} /\ delivery' = Nothing
    /\ UNCHANGED <<memory, appVars, stmtVars, driver, refused>>

-----------------------------------------------------------------------------
(* Results. *)

(* What the driver writes to the addresses the columns are bound to.       *)
RowWritten(row) ==
    [a \in AppBuffers \cup Items |->
        IF \E c \in Columns : driver[c].address = a
        THEN LET c == CHOOSE c \in Columns : driver[c].address = a
             IN [value |-> row,
                 encoding |-> IF Wide(driver[c].kind) THEN "driver" ELSE "plain"]
        ELSE memory[a]]

(* Every buffer of the list is copied, whatever the driver has written.    *)
ConvertBoundColBuffersAfterFetch(mem) ==
    [a \in AppBuffers \cup Items |->
        IF \E c \in Columns : bound_buffers[c].app_ptr = a
        THEN LET c == CHOOSE c \in Columns : bound_buffers[c].app_ptr = a
             IN [value |-> mem[c].value, encoding |-> "app"]
        ELSE mem[a]]

Delivers(call, row) ==
    /\ wrapped_stmt /\ cursor = "open"
    /\ delivery' = [of |-> call, row |-> row]
    /\ UNCHANGED <<appVars, stmtVars, driverVars>>

SQLFetch(row) ==
    /\ Delivers("fetch", row)
    /\ memory' = ConvertBoundColBuffersAfterFetch(RowWritten(row))

(* Mutant: this one forgets the conversion.                                *)
SQLFetchScrollUnconverted(row) ==
    /\ Delivers("fetch", row)
    /\ memory' = RowWritten(row)
SQLFetchScroll(row) ==
    /\ Delivers("fetch", row)
    /\ memory' = ConvertBoundColBuffersAfterFetch(RowWritten(row))

SQLExtendedFetch(row) ==
    /\ Delivers("fetch", row)
    /\ memory' = ConvertBoundColBuffersAfterFetch(RowWritten(row))

(* A refresh of the row by SQLSetPos, a fetch by bookmark of               *)
(* SQLBulkOperations: the driver writes, nothing is converted.             *)
SQLSetPos(row) ==
    /\ Delivers("refresh", row)
    /\ memory' = RowWritten(row)

SQLBulkOperations(row) ==
    /\ Delivers("refresh", row)
    /\ memory' = RowWritten(row)

CloseCursor ==
    /\ wrapped_stmt /\ cursor = "open"
    /\ cursor' \in {"idle", "prepared"} /\ delivery' = Nothing
    /\ UNCHANGED <<memory, appVars, stmtVars, driver, refused, asked, unasked>>

(* A failover frees the underlying statement.                              *)
StatementLost ==
    /\ wrapped_stmt
    /\ wrapped_stmt' = FALSE
    /\ driver' = [i \in Items |-> Unbound]
    /\ cursor' = "idle" /\ asked' = NullPtr /\ unasked' = {}
    /\ delivery' = Nothing
    /\ UNCHANGED <<memory, appVars, bound_buffers, put_data_char_conversion,
                   refused>>

BufferNext ==
    \/ \E c \in Columns, b \in AppBuffers, kind \in ColumnKinds : SQLBindCol(c, b, kind)
    \/ \E c \in Columns : SQLBindColNull(c)
    \/ \E p \in Params, b \in AppBuffers, kind \in ParamKinds : SQLBindParameter(p, b, kind)
    \/ \E p \in Params, text \in Texts : WriteParam(p, text)
    \/ \E p \in Params, ind \in Indicators : SetIndicator(p, ind)
    \/ Unbind \/ ResetParams
    \/ SQLPrepare \/ SQLExecute \/ SQLExecDirect
    \/ SQLParamData \/ SQLCancel
    \/ \E text \in Texts : SQLPutData(text)
    \/ \E row \in Rows : \/ SQLFetch(row) \/ SQLFetchScroll(row)
                         \/ SQLExtendedFetch(row) \/ SQLSetPos(row)
                         \/ SQLBulkOperations(row)
    \/ CloseCursor \/ StatementLost

BufferSpec == BufferInit /\ [][BufferNext]_bufferVars

-----------------------------------------------------------------------------
(* Properties. *)

BufferKinds == {"none", "narrow", "wide", "wide_output", "wide_unsized", "at_exec"}
Contents == [value : Rows \cup Texts \cup {NullPtr},
             encoding : {"none", "plain", "app", "driver"}]

(* The state of a statement's bindings is well-formed: a tracked column or *)
(* parameter is of a wide kind.                                            *)
BufferTypeOK ==
    /\ memory \in [AppBuffers \cup Items -> Contents]
    /\ binding \in [Items -> [address : AppBuffers \cup {NullPtr}, kind : BufferKinds]]
    /\ indicator \in [Params -> Indicators] /\ text_seen \subseteq Params
    /\ wrapped_stmt \in BOOLEAN /\ put_data_char_conversion \in BOOLEAN
    /\ bound_buffers \in [Items -> [app_ptr : AppBuffers \cup {NullPtr}, kind : BufferKinds,
                                    long : BOOLEAN]]
    /\ \A i \in Items : IsTracked(i) => Wide(bound_buffers[i].kind)
    /\ driver \in [Items -> [address : AppBuffers \cup Items \cup {NullPtr, Freed},
                             kind : BufferKinds]]
    /\ refused \subseteq Items
    /\ cursor \in {"idle", "prepared", "open", "need_data"}
    /\ asked \in Params \cup {NullPtr} /\ unasked \subseteq Params
    /\ cursor # "need_data" => asked = NullPtr /\ unasked = {}
    /\ ~wrapped_stmt => cursor = "idle"

(* A local buffer the driver is bound to still exists, however often the   *)
(* item was bound again, enlarged or unbound, unless the driver itself     *)
(* refused to let go of it: SQLBindCol (282-312), SQLBindParameter         *)
(* (354-432), the rebinding before an execution (114-147), SQLFreeStmt.    *)
DriverBuffersLive ==
    \A i \in Items \ refused :
        /\ driver[i].address # Freed
        /\ driver[i].address = i => HasLocal(bound_buffers[i])

(* No binding was refused, and no item bound wide was bound again as       *)
(* something else, which leaves its entry in the list behind.              *)
Intact == refused = {} /\ \A i \in Items : IsTracked(i) => Wide(binding[i].kind)

(* After a fetch, by whatever function, each column that is bound on the   *)
(* underlying statement has the fetched row in the buffer the application  *)
(* bound last, in its own encoding (ConvertBoundColBuffersAfterFetch).     *)
FetchDelivers ==
    delivery.of = "fetch" /\ Intact =>
        \A c \in Columns : driver[c] # Unbound =>
            memory[binding[c].address] =
                [value |-> delivery.row,
                 encoding |-> IF Wide(binding[c].kind) THEN "app" ELSE "plain"]

(* A prepared statement is executed with what the buffers of its input     *)
(* parameters hold at that time, wide ones in the encoding of the driver,  *)
(* and its output parameters arrive in the encoding of the application     *)
(* (ConvertBoundParamBuffersBeforeExecute, ...AfterExecute).  A wide       *)
(* parameter bound with BufferLength 0 is handed over as it is (402-410),  *)
(* unless it was bound with data at execution.  The data of a parameter    *)
(* that comes at execution is converted if and only if the parameter is    *)
(* wide (SQLParamData 1179-1193, SQLPutData 1243).  All this is only true  *)
(* of a parameter of which the indicator announces data at execution if    *)
(* it did so when it was bound and at every prepared execution since.      *)
PreparedExecutionConverts ==
    Intact =>
        /\ delivery.of = "prepared" =>
             \A p \in Params : LET text == memory[binding[p].address] IN
                 /\ p \in DOMAIN delivery.params =>
                      IF AtExec(p) THEN p \in text_seen /\ Wide(binding[p].kind)
                      ELSE delivery.params[p] =
                               IF binding[p].kind = "wide" \/ IsTracked(p)
                               THEN [text EXCEPT !.encoding = "driver"] ELSE text
                 /\ driver[p].kind = "wide_output" =>
                        text = [value |-> delivery.out, encoding |-> "app"]
        /\ asked # NullPtr =>
             /\ put_data_char_conversion => Wide(driver[asked].kind)
             /\ Wide(driver[asked].kind) /\ asked \notin text_seen =>
                    put_data_char_conversion

=============================================================================
