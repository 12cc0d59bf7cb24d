------------------------- MODULE StatementExecution -------------------------
(***************************************************************************)
(* What a single-threaded application may rely on when it executes the     *)
(* statements of one connection of the wrapper: a failover, however many   *)
(* hosts it tries, is a single step.  Either every statement of the        *)
(* connection reports that the connection was re-established, with the     *)
(* code that goes with the transaction that was lost, or every statement   *)
(* reports that it was not.                                                *)
(***************************************************************************)
CONSTANTS Stmts, Hosts, None

VARIABLES
    statements,    \* the statements the application has allocated
    executing,     \* the one it is executing, or None
    lost,          \* whether that execution has lost the connection
    result,        \* what the last execution left on each statement
    transaction,   \* "open" or "closed", as the wrapper tracks it
    host           \* the host the connection is on, None if it is on none

cvars == <<statements, executing, lost, result, transaction, host>>

NoResult == [s \in Stmts |-> "none"]

(* The same report on every statement of the connection.                   *)
Everywhere(code) == [s \in Stmts |-> IF s \in statements THEN code ELSE "none"]

Init ==
    /\ statements = {} /\ executing = None /\ lost = FALSE
    /\ result = NoResult
    /\ transaction = "closed" /\ host = None

Connect ==
    /\ executing = None /\ host = None
    /\ host' \in Hosts /\ transaction' \in {"open", "closed"}
    /\ UNCHANGED <<statements, executing, lost, result>>

Disconnect ==
    /\ executing = None
    /\ statements' = {} /\ result' = NoResult /\ host' = None
    /\ UNCHANGED <<executing, lost, transaction>>

Allocate(s) ==
    /\ executing = None /\ s \notin statements
    /\ statements' = statements \cup {s}
    /\ UNCHANGED <<executing, lost, result, transaction, host>>

Free(s) ==
    /\ executing = None /\ s \in statements
    /\ statements' = statements \ {s}
    /\ result' = [result EXCEPT ![s] = "none"]
    /\ UNCHANGED <<executing, lost, transaction, host>>

(* SQLEndTran, SQLSetConnectAttr.                                          *)
EndTransaction ==
    /\ executing = None
    /\ transaction' \in {"open", "closed"}
    /\ UNCHANGED <<statements, executing, lost, result, host>>

Call(s) ==
    /\ executing = None /\ s \in statements
    /\ executing' = s
    /\ result' = [result EXCEPT ![s] = "none"]
    /\ UNCHANGED <<statements, lost, transaction, host>>

(* The call returns, and the connection is the one it was made on.         *)
Return ==
    /\ executing # None /\ ~lost
    /\ executing' = None
    /\ \/ UNCHANGED result
       \/ /\ host = None
          /\ result' = [result EXCEPT ![executing] = "underlying_handle_null"]
    /\ transaction' \in {"open", "closed"}
    /\ UNCHANGED <<statements, lost, host>>

Lose ==
    /\ executing # None /\ ~lost
    /\ lost' = TRUE /\ host' = None /\ result' = NoResult
    /\ UNCHANGED <<statements, executing, transaction>>

(* The failover succeeds: the code is that of the transaction at the loss. *)
Recover ==
    /\ lost
    /\ lost' = FALSE /\ executing' = None
    /\ host' \in Hosts /\ transaction' \in {"open", "closed"}
    /\ result' = Everywhere(IF transaction = "open"
                            THEN "failover_unknown_transaction"
                            ELSE "failover_success")
    /\ UNCHANGED statements

(* It fails; where that leaves the connection is not promised.             *)
Fail ==
    /\ lost
    /\ lost' = FALSE /\ executing' = None
    /\ host' \in Hosts \cup {None} /\ transaction' \in {"open", "closed"}
    /\ result' = Everywhere("failover_failed")
    /\ UNCHANGED statements

Next ==
    \/ Connect \/ Disconnect \/ EndTransaction
    \/ \E s \in Stmts : Allocate(s) \/ Free(s) \/ Call(s)
    \/ Return \/ Lose \/ Recover \/ Fail

Spec == Init /\ [][Next]_cvars
=============================================================================
