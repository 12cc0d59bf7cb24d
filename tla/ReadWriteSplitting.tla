-------------------------- MODULE ReadWriteSplitting --------------------------
(***************************************************************************)
(* The read/write splitting plugins of one connection                      *)
(* (driver/plugin/read_write_splitting): a statement that sets the session *)
(* read-only or read-write moves the connection, and every statement, to a *)
(* reader or the writer.                                                   *)
(*                                                                         *)
(* ReadWriteSplittingPlugin picks hosts of the topology ("topology"),      *)
(* SimpleReadWriteSplittingPlugin connects to an endpoint per role, as it  *)
(* is ("endpoints") or until the connection has the role ("verified").     *)
(*                                                                         *)
(* One thread uses the connection.  A DBC the plugin allocates is named by *)
(* its underlying handle; one that failed to connect, or has been          *)
(* disconnected, is used again when nothing refers to it.                  *)
(***************************************************************************)
EXTENDS Naturals, FiniteSets

CONSTANTS
    Handles,         \* underlying connections
    Statements,
    Plugins,         \* of those three, the ones considered
    KeepAlive,       \* whether a cached reader expires
    Attempts,        \* bound: twice the hosts of the topology
    None

ASSUME SplittingAssumption ==
    /\ None \notin Handles /\ Attempts \in Nat \ {0} /\ KeepAlive \in BOOLEAN
    /\ Plugins \subseteq {"topology", "endpoints", "verified"}

Roles == {"reader", "writer"}

VARIABLES
    plugin,
    initial,         \* the role the first connection is verified for, or None
    phase,           \* of the connection
    dbc,             \* what the wrapper knows, see Init
    is,              \* the role of the server behind a handle
    state,           \* of the connection of a handle
    transaction,     \* transaction_status: whether it is open
    call             \* the statement that executes, and how far it is

vars == <<plugin, initial, phase, dbc, is, state, transaction, call>>

Idle == [pc |-> "idle"]

Init ==
    /\ plugin \in Plugins /\ phase = "unconnected"
    /\ initial \in IF plugin = "verified" THEN Roles \cup {None} ELSE {None}
    /\ dbc = [wrapped |-> None,        \* dbc_->wrapped_dbc
              current |-> None,        \* current_connection_
              writer |-> None,         \* writer_connection_
              reader |-> None,         \* reader_cache_item_.value
              readerHost |-> FALSE,    \* whether there is a reader_host_info_
              new |-> None,            \* the connection that is being opened
              role |-> "unknown",      \* of the current host
              as |-> [h \in Handles |-> "unknown"],   \* and of each handle
              stmt |-> [s \in Statements |-> None],   \* wrapped_stmt is of
              closed |-> {}]           \* what the call has disconnected
    /\ is = [h \in Handles |-> "reader"]
    /\ state = [h \in Handles |-> "closed"]
    /\ transaction = FALSE /\ call = Idle

-----------------------------------------------------------------------------
(* The operations of the plugin, on the value of dbc. *)

Open(h) == h # None /\ state[h] = "open"
IsClosed(h) == ~Open(h)

Disconnect(d, h) ==
    IF h = None THEN d ELSE [d EXCEPT !.closed = @ \cup {h}]

DropsReader(d) ==
    [Disconnect(d, d.reader) EXCEPT !.reader = None, !.readerHost = FALSE]

CloseReaderIfExpired(d, expired) ==
    IF expired /\ d.reader \notin {None, d.current} THEN DropsReader(d) ELSE d

CloseReaderConnectionIfIdle(d) ==
    IF d.reader \notin {d.current, d.wrapped} /\ ~IsClosed(d.reader)
    THEN DropsReader(d) ELSE d

SetReaderConnection(d, h) ==
    LET idle == CloseReaderConnectionIfIdle(d)
    IN [Disconnect(idle, idle.reader) EXCEPT !.reader = h, !.readerHost = TRUE]

SetWriterConnection(d, h) ==
    [Disconnect(d, d.writer) EXCEPT !.writer = h]

FreesStatements(d) == [d EXCEPT !.stmt = [s \in Statements |-> None]]
SetStmtError(d) == FreesStatements(d)

KeepsStatements(d) == d        \* mutant: statements stay on their connection
Detaches(d) == IF d.current = None THEN d ELSE FreesStatements(d)

(* The old connection is closed, with it what the cache has of it.         *)
ForgetsOld(d) ==               \* mutant: it is left to its owner
    [d EXCEPT !.writer = IF @ = d.wrapped THEN None ELSE @,
              !.reader = IF @ = d.wrapped THEN None ELSE @]
ClosesOld(d) ==
    [Disconnect(d, d.wrapped) EXCEPT
        !.writer = IF @ = d.wrapped THEN None ELSE @,
        !.reader = IF @ = d.wrapped THEN None ELSE @]

SwitchCurrentConnectionTo(d, h, role) ==
    IF h = d.current THEN d
    ELSE [ClosesOld(Detaches(d)) EXCEPT
             !.current = h, !.wrapped = h, !.role = role]

(* What was disconnected is closed, and opens is opened.                   *)
Becomes(d, opens) ==
    /\ dbc' = [d EXCEPT !.closed = {}]
    /\ state' = [h \in Handles |-> IF h \in opens THEN "open"
                                   ELSE IF h \in d.closed THEN "closed"
                                   ELSE state[h]]

-----------------------------------------------------------------------------
(* The server and the network. *)

Unused == {h \in Handles : state[h] = "closed"}
              \ {dbc.wrapped, dbc.writer, dbc.reader, dbc.new}

(* h is connected, to a server of any role.                                *)
Connects(h) == is' \in {[is EXCEPT ![h] = r] : r \in Roles}

(* A query that fails answers no reader, which is taken for a writer.      *)
GetConnectionRole(h) == {is[h], "writer"}

Breaks(h) ==
    /\ state[h] = "open" /\ state' = [state EXCEPT ![h] = "dead"]
    /\ UNCHANGED <<plugin, initial, phase, dbc, is, transaction, call>>

-----------------------------------------------------------------------------
(* The first connection, on the underlying handle there is or a new one.   *)

Own == IF dbc.wrapped # None THEN {dbc.wrapped} ELSE Unused

(* SQLDriverConnect takes the current host from the topology, SQLConnect   *)
(* leaves it unknown, and an unknown one is taken for the writer when it   *)
(* is asked for.                                                           *)
Connected(d, opens) ==
    /\ \E role \in Roles \cup {"unknown"} :
          Becomes([d EXCEPT !.role = role,
                            !.as = [h \in Handles |->
                                       IF h = d.wrapped THEN role ELSE @[h]]],
                  opens)
    /\ phase' = "connected" /\ call' = Idle /\ transaction' = FALSE
    /\ UNCHANGED <<plugin, initial>>

SQLConnect ==
    /\ phase = "unconnected" /\ phase' = "connecting"
    /\ call' = [pc |-> IF initial = None THEN "next" ELSE "verify",
                last |-> "failed"]
    /\ UNCHANGED <<plugin, initial, dbc, is, state, transaction>>

(* GetVerifiedConnection on the DBC of the application. *)
VerifyConnects ==
    /\ call.pc = "verify"
    /\ \E h \in Own : Connects(h) /\ Becomes([dbc EXCEPT !.wrapped = h], {h})
    /\ call' = [call EXCEPT !.pc = "role"]
    /\ UNCHANGED <<plugin, initial, phase, transaction>>

VerifyFails ==
    /\ call.pc = "verify" /\ call' = [call EXCEPT !.last = "failed"]
    /\ \E h \in Own : dbc' = [dbc EXCEPT !.wrapped = h]
    /\ UNCHANGED <<plugin, initial, phase, is, state, transaction>>

VerifyRole ==
    /\ call.pc = "role"
    /\ \E role \in GetConnectionRole(dbc.wrapped) :
          \/ role = initial /\ Connected(dbc, {})
          \/ /\ role # initial
             /\ Becomes([Disconnect(dbc, dbc.wrapped) EXCEPT !.wrapped = None], {})
             /\ call' = [pc |-> "verify", last |-> "connected"]
             /\ UNCHANGED <<plugin, initial, phase, transaction>>
    /\ UNCHANGED is

(* The time is up.  What the last attempt returned decides: a connection   *)
(* of the wrong role has been disconnected and still counts as success.    *)
VerifyTimesOut ==
    /\ call.pc = "verify"
    /\ \/ call.last = "connected" /\ Connected(dbc, {})
       \/ /\ call.last = "failed" /\ call' = [call EXCEPT !.pc = "next"]
          /\ UNCHANGED <<plugin, initial, phase, dbc, state, transaction>>
    /\ UNCHANGED is

NextConnects ==
    /\ call.pc = "next"
    /\ \E h \in Own :
          \/ Connects(h) /\ Connected([dbc EXCEPT !.wrapped = h], {h})
          \/ /\ phase' = "unconnected" /\ call' = Idle
             /\ dbc' = [dbc EXCEPT !.wrapped = h]
             /\ UNCHANGED <<plugin, initial, is, state, transaction>>

(* The plugin closes the connections of its own. *)
ReleaseResources(d) ==
    [d EXCEPT !.reader = None, !.writer = None, !.readerHost = FALSE,
              !.closed = @ \cup ({d.reader, d.writer} \ {None, d.wrapped})]

SQLDisconnect ==
    /\ phase = "connected" /\ call = Idle
    /\ LET d == ReleaseResources(FreesStatements(dbc))
       IN Becomes(Disconnect(d, d.wrapped), {})
    /\ IF dbc.wrapped = None THEN UNCHANGED <<phase, transaction>>
       ELSE phase' = "unconnected" /\ transaction' = FALSE
    /\ UNCHANGED <<plugin, initial, is, call>>

-----------------------------------------------------------------------------
(* Executing a statement. *)

Queries == {"begin", "end", "query", "read only", "read write"}

Below(d, s, query) ==
    /\ Becomes(d, {})
    /\ call' = [pc |-> "below", stmt |-> s, query |-> query]

(* A statement that cannot switch returns an error and is not executed. *)
Refuses(d) == Becomes(SetStmtError(d), {}) /\ call' = Idle

Opening(d, s, query, role) ==
    /\ Becomes(d, {})
    /\ call' = [pc |-> "opening", stmt |-> s, query |-> query,
                role |-> role, tries |-> 0]

(* SwitchToReaderConnection, and InitializeReaderConnection where there is *)
(* only one host.                                                          *)
SwitchToReader(d, s, hosts) ==
    LET c == IF plugin = "topology" /\ d.readerHost
             THEN CloseReaderConnectionIfIdle(d) ELSE d
    IN  \/ ~IsClosed(c.reader)
           /\ Below(SwitchCurrentConnectionTo(c, c.reader, "reader"), s, "read only")
        \/ IsClosed(c.reader) /\ hosts # "one" /\ Opening(c, s, "read only", "reader")
        \/ IsClosed(c.reader) /\ hosts = "one"
           /\ IF c.writer # None /\ IsClosed(c.writer)
              THEN Opening(c, s, "read only", "writer")
              ELSE Below(c, s, "read only")

SwitchToWriter(d, s) ==
    IF IsClosed(d.writer) THEN Opening(d, s, "read write", "writer")
    ELSE Below(SwitchCurrentConnectionTo(d, d.writer, "writer"), s, "read write")

(* A reader connection that cannot be had: the current one is the fallback. *)
FallsBack(d, s) ==
    IF IsClosed(d.wrapped) THEN Refuses(d) ELSE Below(d, s, "read only")

SwitchesInTransaction(d, s, query, hosts) ==     \* mutant: without looking at it
    IF query = "read only"
    THEN IF d.role = "reader" THEN Below(d, s, query) ELSE SwitchToReader(d, s, hosts)
    ELSE IF d.role = "writer" THEN Below(d, s, query) ELSE SwitchToWriter(d, s)
Switches(d, s, query, hosts) ==
    \/ query = "read only" /\ d.role = "reader" /\ Below(d, s, query)
    \/ query = "read only" /\ d.role # "reader" /\ transaction /\ FallsBack(d, s)
    \/ query = "read only" /\ d.role # "reader" /\ ~transaction
       /\ SwitchToReader(d, s, hosts)
    \/ query = "read write" /\ d.role = "writer" /\ Below(d, s, query)
    \/ query = "read write" /\ d.role # "writer" /\ transaction /\ Refuses(d)
    \/ query = "read write" /\ d.role # "writer" /\ ~transaction
       /\ SwitchToWriter(d, s)

(* Execute, SwitchConnectionIfRequired.  That the cached reader has        *)
(* expired is found by the first that looks at it.                         *)
Execute(s, query) ==
    /\ phase = "connected" /\ call = Idle
    /\ \E expired \in IF KeepAlive THEN BOOLEAN ELSE {FALSE},
          hosts \in IF plugin = "topology" THEN {"none", "one", "more"} ELSE {"more"} :
          LET d == CloseReaderIfExpired([dbc EXCEPT !.current = dbc.wrapped], expired)
          IN \/ query \notin {"read only", "read write"} /\ Below(d, s, query)
             \/ /\ query \in {"read only", "read write"}
                /\ \/ d.current # None /\ IsClosed(d.current) /\ Refuses(d)
                   \/ (d.current = None \/ ~IsClosed(d.current))
                      /\ IF hosts = "none" THEN Refuses(d)
                         ELSE Switches(d, s, query, hosts)
    /\ UNCHANGED <<plugin, initial, phase, is, transaction>>

(* The plugin connects a DBC of its own. *)
OpensConnection ==
    /\ call.pc = "opening"
    /\ \E h \in Unused :
          /\ Connects(h)
          /\ Becomes([dbc EXCEPT !.new = h, !.as[h] = call.role], {h})
    /\ call' = [call EXCEPT !.pc = "opened"]
    /\ UNCHANGED <<plugin, initial, phase, transaction>>

Tries == IF plugin = "topology" /\ call.role = "reader" THEN Attempts ELSE 1

(* An attempt fails and another follows, while there is time to verify or  *)
(* another host.                                                           *)
AttemptFails ==
    /\ call.pc = "opening"
    /\ \/ plugin = "verified" /\ UNCHANGED call
       \/ /\ plugin # "verified" /\ call.tries + 1 < Tries
          /\ call' = [call EXCEPT !.tries = @ + 1]
    /\ UNCHANGED <<plugin, initial, phase, dbc, is, state, transaction>>

GivesUp ==
    /\ call.pc = "opening"
    /\ plugin = "verified" \/ call.tries + 1 >= Tries
    /\ \/ call.query = "read write" /\ Refuses(dbc)
       \/ /\ call.query = "read only" /\ plugin = "topology"
          /\ FallsBack(SetStmtError(dbc), call.stmt)
       \/ /\ call.query = "read only" /\ plugin # "topology"
          /\ IF dbc.current = None THEN FallsBack(SetStmtError(dbc), call.stmt)
             ELSE Below(dbc, call.stmt, call.query)
    /\ UNCHANGED <<plugin, initial, phase, is, transaction>>

Verified(role) == plugin = "verified" => role = call.role

(* The connection is taken into the cache and becomes the current one, or, *)
(* of the wrong role, is disconnected and freed for the next attempt.      *)
Adopts ==
    /\ call.pc = "opened"
    /\ \E role \in GetConnectionRole(dbc.new) :
          \/ /\ Verified(role)
             /\ LET d == IF call.role = "reader" THEN SetReaderConnection(dbc, dbc.new)
                         ELSE SetWriterConnection(dbc, dbc.new)
                IN Below([SwitchCurrentConnectionTo(d, dbc.new, call.role) EXCEPT
                             !.new = None], call.stmt, call.query)
          \/ /\ ~Verified(role)
             /\ Becomes([Disconnect(dbc, dbc.new) EXCEPT !.new = None], {})
             /\ call' = [call EXCEPT !.pc = "opening"]
    /\ UNCHANGED <<plugin, initial, phase, is, transaction>>

(* The next plugin: a statement without an underlying one is given one on  *)
(* the current connection.                                                 *)
Allocates(d) ==
    IF d.wrapped = None \/ d.stmt[call.stmt] # None THEN d
    ELSE [d EXCEPT !.stmt[call.stmt] = d.wrapped]

Executes ==
    /\ call.pc = "below" /\ Becomes(Allocates(dbc), {})
    /\ \/ UNCHANGED transaction                         \* it fails
       \/ /\ Open(Allocates(dbc).stmt[call.stmt])
          /\ transaction' = CASE call.query = "begin" -> TRUE
                              [] call.query = "end" -> FALSE
                              [] OTHER -> transaction
    /\ call' = Idle /\ UNCHANGED <<plugin, initial, phase, is>>

(* It fails for a lost connection, and a failover follows: no statement    *)
(* keeps its underlying one, the connection is closed, and there is a new  *)
(* one, of the current host, or none.                                      *)
FailsOver ==
    /\ call.pc = "below" /\ dbc.wrapped # None /\ IsClosed(dbc.wrapped)
    /\ LET d == [FreesStatements(Disconnect(dbc, dbc.wrapped)) EXCEPT !.wrapped = None]
       IN \/ Becomes(d, {}) /\ UNCHANGED <<is, transaction>>
          \/ \E h \in Unused, role \in Roles :
                /\ Becomes([d EXCEPT !.wrapped = h, !.role = role, !.as[h] = role], {h})
                /\ is' = [is EXCEPT ![h] = role] /\ transaction' = FALSE
    /\ call' = Idle /\ UNCHANGED <<plugin, initial, phase>>

-----------------------------------------------------------------------------
Next ==
    \/ \E h \in Handles : Breaks(h)
    \/ SQLConnect \/ VerifyConnects \/ VerifyFails \/ VerifyRole
    \/ VerifyTimesOut \/ NextConnects \/ SQLDisconnect
    \/ \E s \in Statements, query \in Queries : Execute(s, query)
    \/ OpensConnection \/ AttemptFails \/ GivesUp \/ Adopts
    \/ Executes \/ FailsOver

Spec == Init /\ [][Next]_vars

-----------------------------------------------------------------------------
(* The variables have their types. *)
Handle == Handles \cup {None}
Dbcs == [wrapped : Handle, current : Handle, writer : Handle, reader : Handle,
         readerHost : BOOLEAN, new : Handle, role : Roles \cup {"unknown"},
         as : [Handles -> Roles \cup {"unknown"}],
         stmt : [Statements -> Handle], closed : SUBSET Handles]
Calls == [pc : {"idle"}]
           \cup [pc : {"verify", "role", "next"}, last : {"failed", "connected"}]
           \cup [pc : {"opening", "opened"}, stmt : Statements, query : Queries,
                 role : Roles, tries : 0 .. Attempts]
           \cup [pc : {"below"}, stmt : Statements, query : Queries]
TypeOK ==
    /\ plugin \in Plugins /\ initial \in Roles \cup {None}
    /\ phase \in {"unconnected", "connecting", "connected"}
    /\ dbc \in Dbcs /\ dbc.closed = {}
    /\ is \in [Handles -> Roles]
    /\ state \in [Handles -> {"closed", "open", "dead"}]
    /\ transaction \in BOOLEAN
    /\ call \in Calls
    /\ call.pc \in {"verify", "role", "next"} <=> phase = "connecting"

(* However switches, failed attempts, lost connections, failovers and      *)
(* disconnects follow one another, every connection that has not been      *)
(* disconnected is one the plugin can still reach: the current one, one of *)
(* its cache, or the one it is opening (SwitchCurrentConnectionTo,         *)
(* DisconnectAndFreeDBC, ReleaseResources).                                *)
NoOrphanedConnections ==
    {h \in Handles : state[h] # "closed"}
        \subseteq {dbc.wrapped, dbc.writer, dbc.reader, dbc.new}

(* No statement is left on a connection the plugin has moved away from:    *)
(* its next execution reaches the reader or the writer the session is set  *)
(* to (SwitchCurrentConnectionTo frees the underlying statements).         *)
StatementsOnMain ==
    \A s \in Statements : dbc.stmt[s] \in {None, dbc.wrapped}

(* A connection with an open transaction is exchanged for another only     *)
(* when it is lost (SwitchConnectionIfRequired, transaction_status).       *)
TransactionStaysOnConnection ==
    [][transaction /\ dbc'.wrapped # dbc.wrapped => IsClosed(dbc.wrapped)]_vars

=============================================================================
