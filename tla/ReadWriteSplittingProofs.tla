------------------------ MODULE ReadWriteSplittingProofs ------------------------
(***************************************************************************)
(* Theorems about ReadWriteSplitting, for any underlying connections,      *)
(* statements, plugins and number of attempts.                             *)
(***************************************************************************)
EXTENDS ReadWriteSplitting, TLAPS

-----------------------------------------------------------------------------
(* The inductive invariant. *)

Searching == {"opening", "opened"}

(* There is a connection that is being opened while a search has opened    *)
(* one, and it is a new one.  A search starts on the current connection    *)
(* and outside a transaction, and only a connected DBC executes.           *)
SwitchInv ==
    /\ NoOrphanedConnections /\ StatementsOnMain
    /\ dbc.new # None <=> call.pc = "opened"
    /\ dbc.new # None => dbc.new # dbc.wrapped
    /\ call.pc \in Searching => dbc.current = dbc.wrapped /\ ~transaction
    /\ phase # "connected" =>
          ~transaction /\ \A s \in Statements : dbc.stmt[s] = None
    /\ call.pc \in Searching \cup {"below"} => phase = "connected"

(* What a step does to a connection with an open transaction.              *)
TransactionStays == transaction /\ dbc'.wrapped # dbc.wrapped => IsClosed(dbc.wrapped)

-----------------------------------------------------------------------------
(* The operations of the plugin. *)

(* A value of dbc on the way of a call: what has not been disconnected is  *)
(* reached, and no statement is elsewhere.                                 *)
Good(d) ==
    /\ d \in Dbcs
    /\ \A h \in Handles : state[h] # "closed" /\ h \notin d.closed =>
          h \in {d.wrapped, d.writer, d.reader, d.new}
    /\ \A s \in Statements : d.stmt[s] \in {None, d.wrapped}

(* An operation that makes e of d keeps the current connection.            *)
Keeps(d, e) == /\ Good(e)
               /\ e.wrapped = d.wrapped /\ e.current = d.current /\ e.new = d.new

(* Disconnecting adds to what is disconnected, and does nothing else.      *)
LEMMA Disconnected ==
    ASSUME NEW d \in Dbcs, NEW h \in Handle
    PROVE  LET e == Disconnect(d, h)
           IN  /\ e \in Dbcs /\ d.closed \subseteq e.closed
               /\ h # None => h \in e.closed
               /\ e.wrapped = d.wrapped /\ e.current = d.current /\ e.new = d.new
               /\ e.writer = d.writer /\ e.reader = d.reader /\ e.stmt = d.stmt
               /\ e.readerHost = d.readerHost /\ e.role = d.role /\ e.as = d.as
BY DEF Disconnect, Dbcs, Handle

(* The connection that was in the cache is disconnected with its entry.    *)
LEMMA DropsReaderKeeps ==
    ASSUME NEW d, Good(d)
    PROVE  Keeps(d, DropsReader(d))
<1> DEFINE e == Disconnect(d, d.reader)
<1>1. /\ e \in Dbcs /\ d.closed \subseteq e.closed
      /\ d.reader # None => d.reader \in e.closed
      /\ e.wrapped = d.wrapped /\ e.current = d.current /\ e.new = d.new
      /\ e.writer = d.writer /\ e.stmt = d.stmt
  BY Disconnected DEF Good, Dbcs
<1> HIDE DEF e
<1>2. DropsReader(d) = [e EXCEPT !.reader = None, !.readerHost = FALSE]
  BY DEF DropsReader, e
<1>3. /\ DropsReader(d) \in Dbcs
      /\ DropsReader(d).wrapped = e.wrapped /\ DropsReader(d).current = e.current
      /\ DropsReader(d).new = e.new /\ DropsReader(d).stmt = e.stmt
      /\ DropsReader(d).writer = e.writer /\ DropsReader(d).closed = e.closed
  BY <1>1, <1>2 DEF Dbcs, Handle
<1>4. QED
  BY <1>1, <1>3, SplittingAssumption DEF Good, Keeps

(* An idle reader is dropped, any other connection stays.                  *)
LEMMA ClosesReader ==
    ASSUME NEW d, Good(d)
    PROVE  /\ \A expired : Keeps(d, CloseReaderIfExpired(d, expired))
           /\ Keeps(d, CloseReaderConnectionIfIdle(d))
<1>1. Keeps(d, d)
  BY DEF Keeps
<1>2. QED
  BY <1>1, DropsReaderKeeps DEF CloseReaderIfExpired, CloseReaderConnectionIfIdle

(* Freeing the statements leaves the connections alone.                    *)
LEMMA FreesStatementsKeeps ==
    ASSUME NEW d, Good(d)
    PROVE  /\ Keeps(d, FreesStatements(d))
           /\ \A s \in Statements : FreesStatements(d).stmt[s] = None
           /\ FreesStatements(d).writer = d.writer /\ FreesStatements(d).reader = d.reader
           /\ FreesStatements(d).closed = d.closed
BY DEF FreesStatements, Keeps, Good, Dbcs, Handle

(* A connection that enters the cache takes the place of another, which is *)
(* disconnected.                                                           *)
LEMMA TakesConnection ==
    ASSUME NEW d, Good(d), NEW h \in Handles
    PROVE  Keeps(d, SetReaderConnection(d, h)) /\ Keeps(d, SetWriterConnection(d, h))
<1>1. Keeps(d, SetWriterConnection(d, h))
  <2> DEFINE e == Disconnect(d, d.writer)
  <2>1. /\ e \in Dbcs /\ d.closed \subseteq e.closed
        /\ d.writer # None => d.writer \in e.closed
        /\ e.wrapped = d.wrapped /\ e.current = d.current /\ e.new = d.new
        /\ e.reader = d.reader /\ e.stmt = d.stmt
    BY Disconnected DEF Good, Dbcs
  <2> HIDE DEF e
  <2>2. SetWriterConnection(d, h) = [e EXCEPT !.writer = h]
    BY DEF SetWriterConnection, e
  <2>3. QED
    BY <2>1, <2>2, SplittingAssumption DEF Good, Keeps, Dbcs, Handle
<1>2. Keeps(d, SetReaderConnection(d, h))
  <2> DEFINE i == CloseReaderConnectionIfIdle(d)
             e == Disconnect(i, i.reader)
  <2>1. Keeps(d, i)
    BY ClosesReader
  <2> HIDE DEF i
  <2>2. /\ e \in Dbcs /\ i.closed \subseteq e.closed
        /\ i.reader # None => i.reader \in e.closed
        /\ e.wrapped = i.wrapped /\ e.current = i.current /\ e.new = i.new
        /\ e.writer = i.writer /\ e.stmt = i.stmt
    BY <2>1, Disconnected DEF Good, Keeps, Dbcs
  <2> HIDE DEF e
  <2>3. SetReaderConnection(d, h) = [e EXCEPT !.reader = h, !.readerHost = TRUE]
    BY DEF SetReaderConnection, e, i
  <2> DEFINE g == SetReaderConnection(d, h)
  <2>4. /\ g \in Dbcs /\ g.closed = e.closed /\ g.writer = e.writer
        /\ g.wrapped = e.wrapped /\ g.current = e.current /\ g.new = e.new
        /\ g.stmt = e.stmt
    BY <2>2, <2>3 DEF Dbcs, Handle
  <2> HIDE DEF g
  <2>5. Keeps(d, g)
    BY <2>1, <2>2, <2>4, SplittingAssumption DEF Good, Keeps
  <2>6. QED
    BY <2>5 DEF g
<1>3. QED
  BY <1>1, <1>2

(* After a switch the old connection is disconnected, no statement is left *)
(* on it, and what is in the cache is still reached.                       *)
LEMMA Switched ==
    ASSUME NEW d, Good(d), d.current = d.wrapped, NEW h \in Handles, NEW role \in Roles
    PROVE  LET e == SwitchCurrentConnectionTo(d, h, role)
           IN  Good(e) /\ e.wrapped = h /\ e.new = d.new
<1>1. CASE h = d.current
  BY <1>1 DEF SwitchCurrentConnectionTo
<1>2. CASE h # d.current
  <2> DEFINE f == Detaches(d)
             g == Disconnect(f, f.wrapped)
  <2>1. /\ Keeps(d, f) /\ \A s \in Statements : f.stmt[s] = None
    BY FreesStatementsKeeps, SplittingAssumption DEF Detaches, Keeps, Good
  <2> HIDE DEF f
  <2>2. /\ g \in Dbcs /\ f.closed \subseteq g.closed
        /\ f.wrapped # None => f.wrapped \in g.closed
        /\ g.wrapped = f.wrapped /\ g.new = f.new
        /\ g.writer = f.writer /\ g.reader = f.reader /\ g.stmt = f.stmt
    BY <2>1, Disconnected DEF Good, Keeps, Dbcs
  <2> HIDE DEF g
  <2>3. SwitchCurrentConnectionTo(d, h, role) =
          [[g EXCEPT !.writer = IF @ = f.wrapped THEN None ELSE @,
                     !.reader = IF @ = f.wrapped THEN None ELSE @] EXCEPT
              !.current = h, !.wrapped = h, !.role = role]
    BY <1>2 DEF SwitchCurrentConnectionTo, ClosesOld, f, g
  <2> DEFINE e == SwitchCurrentConnectionTo(d, h, role)
  <2>4. /\ e \in Dbcs /\ e.wrapped = h /\ e.new = g.new /\ e.stmt = g.stmt
        /\ e.closed = g.closed
        /\ e.writer = IF g.writer = f.wrapped THEN None ELSE g.writer
        /\ e.reader = IF g.reader = f.wrapped THEN None ELSE g.reader
    BY <2>2, <2>3 DEF Dbcs, Handle
  <2> HIDE DEF e
  <2>5. QED
    BY <2>1, <2>2, <2>4, SplittingAssumption DEF Good, Keeps, e
<1>3. QED
  BY <1>1, <1>2

(* What a call leaves behind.                                              *)
LEMMA Settles ==
    ASSUME TypeOK, NEW d, Good(d), NEW opens \in SUBSET Handles,
           opens \subseteq {d.wrapped, d.new}, Becomes(d, opens)
    PROVE  /\ dbc' \in Dbcs /\ dbc'.closed = {}
           /\ state' \in [Handles -> {"closed", "open", "dead"}]
           /\ dbc'.wrapped = d.wrapped /\ dbc'.current = d.current /\ dbc'.new = d.new
           /\ dbc'.stmt = d.stmt
           /\ NoOrphanedConnections' /\ StatementsOnMain'
<1>1. /\ dbc' \in Dbcs /\ dbc'.closed = {}
      /\ dbc'.wrapped = d.wrapped /\ dbc'.current = d.current /\ dbc'.new = d.new
      /\ dbc'.stmt = d.stmt /\ dbc'.writer = d.writer /\ dbc'.reader = d.reader
  BY DEF Becomes, Good, Dbcs
<1>2. state' \in [Handles -> {"closed", "open", "dead"}]
  BY DEF Becomes, TypeOK
<1>3. \A h \in Handles : state'[h] # "closed" =>
         h \in opens \/ (state[h] # "closed" /\ h \notin d.closed)
  BY DEF Becomes
<1>4. NoOrphanedConnections'
  BY <1>1, <1>3 DEF NoOrphanedConnections, Good
<1>5. StatementsOnMain'
  BY <1>1 DEF StatementsOnMain, Good
<1>6. QED
  BY <1>1, <1>2, <1>4, <1>5

(* Where a call starts from.                                               *)
LEMMA Starts ==
    ASSUME TypeOK, SwitchInv
    PROVE  Good(dbc)
BY DEF TypeOK, SwitchInv, NoOrphanedConnections, StatementsOnMain, Good

(* What is unused is referred to by nothing.                               *)
LEMMA UnusedFree ==
    \A h \in Unused : /\ h \in Handles /\ state[h] = "closed"
                      /\ h \notin {dbc.wrapped, dbc.writer, dbc.reader, dbc.new}
BY DEF Unused

-----------------------------------------------------------------------------
(* The ends of a call. *)

(* What the types say of the variables a call of a connected DBC keeps.    *)
Executing ==
    /\ TypeOK /\ SwitchInv /\ phase = "connected"
    /\ UNCHANGED <<plugin, initial, phase, is, transaction>>

(* An execution goes on below, or ends with an error: with nothing open    *)
(* that is not reached.                                                    *)
LEMMA Ends ==
    ASSUME Executing, NEW d, Good(d), d.new = None,
           NEW s \in Statements, NEW query \in Queries,
           Below(d, s, query) \/ Refuses(d)
    PROVE  TypeOK' /\ SwitchInv' /\ dbc'.wrapped = d.wrapped
<1>1. PICK e : /\ e \in {d, SetStmtError(d)} /\ Becomes(e, {})
               /\ call' \in {[pc |-> "below", stmt |-> s, query |-> query], Idle}
  BY DEF Below, Refuses
<1>2. Keeps(d, e)
  BY <1>1, FreesStatementsKeeps DEF Keeps, SetStmtError
<1>3. /\ dbc' \in Dbcs /\ dbc'.closed = {} /\ dbc'.wrapped = d.wrapped /\ dbc'.new = None
      /\ state' \in [Handles -> {"closed", "open", "dead"}]
      /\ NoOrphanedConnections' /\ StatementsOnMain'
  BY <1>1, <1>2, Settles DEF Keeps, Executing
<1>4. call' \in Calls /\ call'.pc \in {"below", "idle"}
  BY <1>1 DEF Calls, Idle
<1>5. TypeOK'
  BY <1>3, <1>4 DEF TypeOK, Executing
<1>6. QED
  BY <1>3, <1>4, <1>5 DEF SwitchInv, Searching, Executing

(* A search starts outside a transaction.                                  *)
LEMMA OpeningStarts ==
    ASSUME Executing, NEW d, Good(d), d.new = None, d.current = d.wrapped, ~transaction,
           NEW s \in Statements, NEW query \in Queries, NEW role \in Roles,
           Opening(d, s, query, role)
    PROVE  TypeOK' /\ SwitchInv' /\ dbc'.wrapped = d.wrapped
<1>1. /\ dbc' \in Dbcs /\ dbc'.closed = {} /\ dbc'.wrapped = d.wrapped /\ dbc'.new = None
      /\ dbc'.current = d.wrapped
      /\ state' \in [Handles -> {"closed", "open", "dead"}]
      /\ NoOrphanedConnections' /\ StatementsOnMain'
  BY Settles DEF Opening, Executing
<1>2. call' \in Calls /\ call'.pc = "opening"
  BY SplittingAssumption DEF Opening, Calls
<1>3. TypeOK'
  BY <1>1, <1>2 DEF TypeOK, Executing
<1>4. QED
  BY <1>1, <1>2, <1>3 DEF SwitchInv, Searching, Executing

(* The current connection is the fallback.                                 *)
LEMMA FallsBackEnds ==
    ASSUME Executing, NEW d, Good(d), d.new = None, NEW s \in Statements, FallsBack(d, s)
    PROVE  TypeOK' /\ SwitchInv' /\ dbc'.wrapped = d.wrapped
BY Ends DEF FallsBack, Queries

-----------------------------------------------------------------------------
(* Executing a statement. *)

(* A switch to a reader that is there, or a search for one.                *)
LEMMA SwitchToReaderStep ==
    ASSUME Executing, NEW d, Good(d), d.new = None, d.current = d.wrapped, ~transaction,
           NEW s \in Statements, NEW hosts, SwitchToReader(d, s, hosts)
    PROVE  TypeOK' /\ SwitchInv'
<1> DEFINE c == IF plugin = "topology" /\ d.readerHost
                THEN CloseReaderConnectionIfIdle(d) ELSE d
<1>1. Keeps(d, c)
  BY ClosesReader DEF Keeps
<1> HIDE DEF c
<1>2. /\ Good(c) /\ c.new = None /\ c.current = c.wrapped
      /\ "read only" \in Queries /\ Roles = {"reader", "writer"}
  BY <1>1 DEF Keeps, Queries, Roles
<1>3. CASE /\ ~IsClosed(c.reader)
           /\ Below(SwitchCurrentConnectionTo(c, c.reader, "reader"), s, "read only")
  <2>1. c.reader \in Handles
    BY <1>2, <1>3 DEF IsClosed, Open, Good, Dbcs, Handle
  <2>2. QED
    BY <1>2, <1>3, <2>1, Switched, Ends
<1>4. CASE Opening(c, s, "read only", "reader") \/ Opening(c, s, "read only", "writer")
  BY <1>2, <1>4, OpeningStarts
<1>5. CASE Below(c, s, "read only")
  BY <1>2, <1>5, Ends
<1>6. QED
  BY <1>3, <1>4, <1>5 DEF SwitchToReader, c

(* A switch to the writer.                                                 *)
LEMMA SwitchToWriterStep ==
    ASSUME Executing, NEW d, Good(d), d.new = None, d.current = d.wrapped, ~transaction,
           NEW s \in Statements, SwitchToWriter(d, s)
    PROVE  TypeOK' /\ SwitchInv'
<1>1. "read write" \in Queries /\ "writer" \in Roles
  BY DEF Queries, Roles
<1>2. CASE IsClosed(d.writer)
  BY <1>1, <1>2, OpeningStarts DEF SwitchToWriter
<1>3. CASE ~IsClosed(d.writer)
  <2>1. d.writer \in Handles
    BY <1>3 DEF IsClosed, Open, Good, Dbcs, Handle
  <2>2. QED
    BY <1>1, <1>3, <2>1, Switched, Ends DEF SwitchToWriter
<1>4. QED
  BY <1>2, <1>3

(* A statement that sets the session read-only or read-write: the          *)
(* connection is exchanged outside a transaction only.                     *)
LEMMA SwitchesStep ==
    ASSUME Executing, NEW d, Good(d), d.new = None, d.current = d.wrapped,
           d.wrapped = dbc.wrapped,
           NEW s \in Statements, NEW query \in Queries, NEW hosts, Switches(d, s, query, hosts)
    PROVE  TypeOK' /\ SwitchInv' /\ TransactionStays
<1>1. CASE Below(d, s, query) \/ FallsBack(d, s) \/ Refuses(d)
  BY <1>1, Ends, FallsBackEnds DEF TransactionStays
<1>2. CASE ~transaction /\ (SwitchToReader(d, s, hosts) \/ SwitchToWriter(d, s))
  BY <1>2, SwitchToReaderStep, SwitchToWriterStep DEF TransactionStays
<1>3. QED
  BY <1>1, <1>2 DEF Switches

(* Any statement.                                                          *)
LEMMA ExecuteStep ==
    ASSUME TypeOK, SwitchInv, NEW s \in Statements, NEW query \in Queries, Execute(s, query)
    PROVE  TypeOK' /\ SwitchInv' /\ TransactionStays
<1>1. Executing /\ call = Idle
  BY DEF Execute, Executing
<1>2. PICK expired \in BOOLEAN, hosts \in {"none", "one", "more"} :
         LET d == CloseReaderIfExpired([dbc EXCEPT !.current = dbc.wrapped], expired)
         IN Below(d, s, query) \/ Refuses(d) \/ Switches(d, s, query, hosts)
  BY DEF Execute
<1> DEFINE d == CloseReaderIfExpired([dbc EXCEPT !.current = dbc.wrapped], expired)
<1>3. Good(dbc) /\ dbc.new = None
  BY <1>1, Starts DEF SwitchInv, Idle
<1>4. LET c == [dbc EXCEPT !.current = dbc.wrapped]
      IN  Good(c) /\ c.new = None /\ c.current = c.wrapped /\ c.wrapped = dbc.wrapped
  BY <1>3 DEF Good, Dbcs
<1>5. Good(d) /\ d.new = None /\ d.current = d.wrapped /\ d.wrapped = dbc.wrapped
  BY <1>4, ClosesReader DEF Keeps
<1> HIDE DEF d
<1>6. Below(d, s, query) \/ Refuses(d) \/ Switches(d, s, query, hosts)
  BY <1>2 DEF d
<1>7. QED
  BY <1>1, <1>5, <1>6, Ends, SwitchesStep DEF TransactionStays

(* The plugin's own connection is one that nothing refers to.              *)
LEMMA OpensConnectionStep ==
    ASSUME TypeOK, SwitchInv, OpensConnection
    PROVE  TypeOK' /\ SwitchInv' /\ TransactionStays
<1>1. PICK h \in Unused : Connects(h) /\ Becomes([dbc EXCEPT !.new = h, !.as[h] = call.role], {h})
  BY DEF OpensConnection
<1>2. /\ call.pc = "opening" /\ call' = [call EXCEPT !.pc = "opened"]
      /\ UNCHANGED <<plugin, initial, phase, transaction>>
  BY DEF OpensConnection
<1> DEFINE d == [dbc EXCEPT !.new = h, !.as[h] = call.role]
<1>3. call.role \in Roles /\ call' \in Calls /\ call'.pc = "opened"
  BY <1>2 DEF TypeOK, Calls
<1>4. Good(dbc) /\ dbc.new = None /\ h # None
  BY <1>1, <1>2, Starts, UnusedFree, SplittingAssumption DEF SwitchInv
<1>5. /\ d \in Dbcs /\ d.wrapped = dbc.wrapped /\ d.current = dbc.current /\ d.new = h
      /\ d.stmt = dbc.stmt /\ d.writer = dbc.writer /\ d.reader = dbc.reader
      /\ d.closed = dbc.closed
  BY <1>1, <1>3, UnusedFree DEF TypeOK, Dbcs, Handle
<1> HIDE DEF d
<1>6. Good(d)
  BY <1>4, <1>5, SplittingAssumption DEF Good
<1>7. /\ dbc' \in Dbcs /\ dbc'.closed = {}
      /\ state' \in [Handles -> {"closed", "open", "dead"}]
      /\ dbc'.wrapped = dbc.wrapped /\ dbc'.current = dbc.current /\ dbc'.new = h
      /\ NoOrphanedConnections' /\ StatementsOnMain'
  <2>1. {h} \in SUBSET Handles /\ {h} \subseteq {d.wrapped, d.new} /\ Becomes(d, {h})
    BY <1>1, <1>5, UnusedFree DEF d
  <2>2. QED
    BY <1>5, <1>6, <2>1, Settles
<1>8. is' \in [Handles -> Roles]
  BY <1>1 DEF Connects, TypeOK
<1>9. TypeOK'
  BY <1>2, <1>3, <1>7, <1>8 DEF TypeOK
<1>10. SwitchInv'
  BY <1>1, <1>2, <1>3, <1>4, <1>7, UnusedFree DEF SwitchInv, Searching
<1>11. QED
  BY <1>7, <1>9, <1>10 DEF TransactionStays

(* A failed attempt leads to the next.                                     *)
LEMMA AttemptFailsStep ==
    ASSUME TypeOK, SwitchInv, AttemptFails
    PROVE  TypeOK' /\ SwitchInv' /\ TransactionStays
<1>1. /\ UNCHANGED <<plugin, initial, phase, dbc, is, state, transaction>>
      /\ call.pc = "opening"
      /\ \/ call' = call
         \/ call.tries + 1 < Tries /\ call' = [call EXCEPT !.tries = @ + 1]
  BY DEF AttemptFails
<1>2. call' \in Calls /\ call'.pc = "opening"
  BY <1>1, SplittingAssumption DEF TypeOK, Calls, Tries
<1>3. QED
  BY <1>1, <1>2 DEF TypeOK, SwitchInv, NoOrphanedConnections, StatementsOnMain,
                    Searching, TransactionStays

(* The last failed attempt leaves the connection there is.                 *)
LEMMA GivesUpStep ==
    ASSUME TypeOK, SwitchInv, GivesUp
    PROVE  TypeOK' /\ SwitchInv' /\ TransactionStays
<1>1. Executing /\ call.pc = "opening" /\ dbc.new = None /\ Good(dbc)
  BY Starts DEF GivesUp, Executing, SwitchInv, Searching
<1>2. call.stmt \in Statements /\ call.query \in Queries
  BY <1>1 DEF TypeOK, Calls
<1>3. LET d == SetStmtError(dbc)
      IN  Good(d) /\ d.new = None /\ d.wrapped = dbc.wrapped
  BY <1>1, FreesStatementsKeeps DEF SetStmtError, Keeps
<1>4. \/ Refuses(dbc) \/ Below(dbc, call.stmt, call.query)
      \/ FallsBack(SetStmtError(dbc), call.stmt)
  BY DEF GivesUp
<1>5. QED
  BY <1>1, <1>2, <1>3, <1>4, Ends, FallsBackEnds DEF TransactionStays

(* The new connection becomes the current one, or is disconnected.         *)
LEMMA AdoptsStep ==
    ASSUME TypeOK, SwitchInv, Adopts
    PROVE  TypeOK' /\ SwitchInv' /\ TransactionStays
<1>1. /\ Executing /\ call.pc = "opened" /\ Good(dbc) /\ dbc.new \in Handles
      /\ dbc.new # dbc.wrapped /\ dbc.current = dbc.wrapped /\ ~transaction
  BY Starts DEF Adopts, Executing, SwitchInv, Searching, TypeOK, Dbcs, Handle
<1>2. /\ call.stmt \in Statements /\ call.query \in Queries /\ call.role \in Roles
      /\ [call EXCEPT !.pc = "opening"] \in Calls
      /\ [call EXCEPT !.pc = "opening"].pc = "opening"
  BY <1>1 DEF TypeOK, Calls
<1>3. ASSUME NEW d, Keeps(dbc, d),
             Below([SwitchCurrentConnectionTo(d, dbc.new, call.role) EXCEPT !.new = None],
                   call.stmt, call.query)
      PROVE  TypeOK' /\ SwitchInv'
  <2> DEFINE e == SwitchCurrentConnectionTo(d, dbc.new, call.role)
             f == [e EXCEPT !.new = None]
  <2>1. Good(e) /\ e.wrapped = dbc.new /\ e.new = dbc.new
    BY <1>1, <1>2, <1>3, Switched DEF Keeps
  <2> HIDE DEF e
  <2>2. Good(f) /\ f.new = None
    BY <2>1 DEF Good, Dbcs, Handle
  <2>3. Below(f, call.stmt, call.query)
    BY <1>3 DEF e
  <2> HIDE DEF f
  <2>4. QED
    BY <1>1, <1>2, <2>2, <2>3, Ends
<1>4. ASSUME Becomes([Disconnect(dbc, dbc.new) EXCEPT !.new = None], {}),
             call' = [call EXCEPT !.pc = "opening"]
      PROVE  TypeOK' /\ SwitchInv'
  <2> DEFINE e == Disconnect(dbc, dbc.new)
             f == [e EXCEPT !.new = None]
  <2>1. /\ e \in Dbcs /\ dbc.closed \subseteq e.closed /\ dbc.new \in e.closed
        /\ e.wrapped = dbc.wrapped /\ e.current = dbc.current
        /\ e.writer = dbc.writer /\ e.reader = dbc.reader /\ e.stmt = dbc.stmt
    BY <1>1, Disconnected, SplittingAssumption DEF Good, Dbcs
  <2> HIDE DEF e
  <2>2. /\ f \in Dbcs /\ f.closed = e.closed /\ f.new = None
        /\ f.wrapped = dbc.wrapped /\ f.current = dbc.current
        /\ f.writer = dbc.writer /\ f.reader = dbc.reader /\ f.stmt = dbc.stmt
    BY <2>1 DEF Dbcs, Handle
  <2>3. Becomes(f, {})
    BY <1>4 DEF e
  <2> HIDE DEF f
  <2>4. Good(f)
    BY <1>1, <2>1, <2>2 DEF Good
  <2>5. /\ dbc' \in Dbcs /\ dbc'.closed = {}
        /\ state' \in [Handles -> {"closed", "open", "dead"}]
        /\ dbc'.wrapped = dbc.wrapped /\ dbc'.current = dbc.wrapped /\ dbc'.new = None
        /\ NoOrphanedConnections' /\ StatementsOnMain'
    BY <1>1, <2>2, <2>3, <2>4, Settles
  <2>6. TypeOK'
    BY <1>1, <1>2, <1>4, <2>5 DEF TypeOK, Executing
  <2>7. QED
    BY <1>1, <1>2, <1>4, <2>5, <2>6 DEF SwitchInv, Searching, Executing
<1>5. Keeps(dbc, SetReaderConnection(dbc, dbc.new)) /\ Keeps(dbc, SetWriterConnection(dbc, dbc.new))
  BY <1>1, TakesConnection
<1>6. QED
  BY <1>1, <1>3, <1>4, <1>5 DEF Adopts, TransactionStays

(* A statement that has no underlying one is given one on the current      *)
(* connection.                                                             *)
LEMMA ExecutesStep ==
    ASSUME TypeOK, SwitchInv, Executes
    PROVE  TypeOK' /\ SwitchInv' /\ TransactionStays
<1> DEFINE d == Allocates(dbc)
<1>1. /\ call.pc = "below" /\ Becomes(d, {}) /\ call' = Idle
      /\ transaction' \in {transaction, TRUE, FALSE}
      /\ UNCHANGED <<plugin, initial, phase, is>>
  BY DEF Executes
<1>2. /\ Good(dbc) /\ phase = "connected" /\ dbc.new = None /\ call.stmt \in Statements
  BY <1>1, Starts DEF SwitchInv, TypeOK, Calls
<1>3. Good(d) /\ d.wrapped = dbc.wrapped /\ d.new = None
  BY <1>2 DEF Allocates, Good, Dbcs, Handle
<1> HIDE DEF d
<1>4. /\ dbc' \in Dbcs /\ dbc'.closed = {}
      /\ state' \in [Handles -> {"closed", "open", "dead"}]
      /\ dbc'.wrapped = dbc.wrapped /\ dbc'.new = None
      /\ NoOrphanedConnections' /\ StatementsOnMain'
  BY <1>1, <1>3, Settles
<1>5. call' \in Calls /\ call'.pc = "idle"
  BY <1>1 DEF Calls, Idle
<1>6. TypeOK'
  BY <1>1, <1>2, <1>4, <1>5 DEF TypeOK
<1>7. QED
  BY <1>1, <1>2, <1>4, <1>5, <1>6 DEF SwitchInv, Searching, TransactionStays

(* A failover happens to a connection that is lost.                        *)
LEMMA FailsOverStep ==
    ASSUME TypeOK, SwitchInv, FailsOver
    PROVE  TypeOK' /\ SwitchInv' /\ TransactionStays
<1> DEFINE e == FreesStatements(Disconnect(dbc, dbc.wrapped))
           d == [e EXCEPT !.wrapped = None]
<1>1. /\ call.pc = "below" /\ dbc.wrapped # None /\ IsClosed(dbc.wrapped) /\ call' = Idle
      /\ UNCHANGED <<plugin, initial, phase>>
  BY DEF FailsOver
<1>2. Good(dbc) /\ phase = "connected" /\ dbc.new = None
  BY <1>1, Starts DEF SwitchInv
<1>3. /\ e \in Dbcs /\ dbc.wrapped \in e.closed /\ e.writer = dbc.writer
      /\ e.reader = dbc.reader /\ e.new = None /\ dbc.closed \subseteq e.closed
      /\ \A s \in Statements : e.stmt[s] = None
  <2> DEFINE g == Disconnect(dbc, dbc.wrapped)
  <2>1. /\ g \in Dbcs /\ dbc.wrapped \in g.closed /\ g.writer = dbc.writer
        /\ g.reader = dbc.reader /\ g.new = None /\ dbc.closed \subseteq g.closed
    BY <1>1, <1>2, Disconnected DEF Good, Dbcs
  <2> HIDE DEF g
  <2>2. e = [g EXCEPT !.stmt = [s \in Statements |-> None]]
    BY DEF FreesStatements, g
  <2>3. QED
    BY <2>1, <2>2 DEF Dbcs, Handle
<1> HIDE DEF e
<1>4. /\ d \in Dbcs /\ d.wrapped = None /\ d.closed = e.closed /\ d.writer = e.writer
      /\ d.reader = e.reader /\ d.new = None /\ d.stmt = e.stmt
  BY <1>3 DEF Dbcs, Handle
<1>5. \/ Becomes(d, {}) /\ UNCHANGED <<is, transaction>>
      \/ \E h \in Unused, role \in Roles :
            /\ Becomes([d EXCEPT !.wrapped = h, !.role = role, !.as[h] = role], {h})
            /\ is' = [is EXCEPT ![h] = role] /\ transaction' = FALSE
  BY DEF FailsOver, d, e
<1> HIDE DEF d
<1>6. Good(d)
  BY <1>2, <1>3, <1>4 DEF Good
<1>7. call' \in Calls /\ call'.pc = "idle"
  BY <1>1 DEF Calls, Idle
<1>8. CASE Becomes(d, {}) /\ UNCHANGED <<is, transaction>>
  <2>1. /\ dbc' \in Dbcs /\ dbc'.closed = {} /\ dbc'.new = None
        /\ state' \in [Handles -> {"closed", "open", "dead"}]
        /\ NoOrphanedConnections' /\ StatementsOnMain'
    BY <1>4, <1>6, <1>8, Settles
  <2>2. TypeOK'
    BY <1>1, <1>2, <1>7, <1>8, <2>1 DEF TypeOK
  <2>3. QED
    BY <1>1, <1>2, <1>7, <2>1, <2>2 DEF SwitchInv, Searching, TransactionStays
<1>9. ASSUME NEW h \in Unused, NEW role \in Roles,
             Becomes([d EXCEPT !.wrapped = h, !.role = role, !.as[h] = role], {h}),
             is' = [is EXCEPT ![h] = role], transaction' = FALSE
      PROVE  TypeOK' /\ SwitchInv' /\ TransactionStays
  <2> DEFINE f == [d EXCEPT !.wrapped = h, !.role = role, !.as[h] = role]
  <2>1. h \in Handles /\ state[h] = "closed"
    BY UnusedFree
  <2>2. /\ f \in Dbcs /\ f.wrapped = h /\ f.closed = d.closed /\ f.writer = d.writer
        /\ f.reader = d.reader /\ f.new = None /\ f.stmt = d.stmt
    BY <1>4, <2>1 DEF Dbcs, Handle
  <2>3. Becomes(f, {h})
    BY <1>9
  <2> HIDE DEF f
  <2>4. Good(f)
    BY <1>3, <1>4, <1>6, <2>2, SplittingAssumption DEF Good
  <2>5. {h} \in SUBSET Handles /\ {h} \subseteq {f.wrapped, f.new}
    BY <2>1, <2>2
  <2>6. /\ dbc' \in Dbcs /\ dbc'.closed = {} /\ dbc'.new = None
        /\ state' \in [Handles -> {"closed", "open", "dead"}]
        /\ NoOrphanedConnections' /\ StatementsOnMain'
    BY <2>2, <2>3, <2>4, <2>5, Settles
  <2>7. is' \in [Handles -> Roles]
    BY <1>9, <2>1 DEF TypeOK
  <2>8. TypeOK'
    BY <1>1, <1>2, <1>7, <1>9, <2>6, <2>7 DEF TypeOK
  <2>9. QED
    BY <1>1, <1>2, <1>7, <1>9, <2>6, <2>8 DEF SwitchInv, Searching, TransactionStays
<1>10. QED
  BY <1>5, <1>8, <1>9

(* A connection that breaks is no less reached.                            *)
LEMMA BreaksStep ==
    ASSUME TypeOK, SwitchInv, NEW h \in Handles, Breaks(h)
    PROVE  TypeOK' /\ SwitchInv' /\ TransactionStays
<1>1. /\ UNCHANGED <<plugin, initial, phase, dbc, is, transaction, call>>
      /\ state[h] = "open" /\ state' = [state EXCEPT ![h] = "dead"]
  BY DEF Breaks
<1>2. TypeOK'
  BY <1>1 DEF TypeOK
<1>3. NoOrphanedConnections' /\ StatementsOnMain'
  BY <1>1 DEF TypeOK, SwitchInv, NoOrphanedConnections, StatementsOnMain
<1>4. QED
  BY <1>1, <1>2, <1>3 DEF SwitchInv, TransactionStays

-----------------------------------------------------------------------------
(* Connecting and disconnecting. *)

(* While it connects, a DBC has no transaction and no underlying           *)
(* statements, and its own connection or none.                             *)
LEMMA ConnectingStarts ==
    ASSUME TypeOK, SwitchInv, call.pc \in {"verify", "role", "next"}
    PROVE  /\ phase = "connecting" /\ ~transaction /\ Good(dbc) /\ dbc.new = None
           /\ \A s \in Statements : dbc.stmt[s] = None
           /\ \A h \in Own : /\ h \in Handles
                              /\ LET d == [dbc EXCEPT !.wrapped = h]
                                 IN  Good(d) /\ d.wrapped = h /\ d.new = None
                                     /\ d.stmt = dbc.stmt
<1>1. /\ phase = "connecting" /\ ~transaction /\ Good(dbc) /\ dbc.new = None
      /\ \A s \in Statements : dbc.stmt[s] = None
  BY Starts DEF TypeOK, SwitchInv
<1>2. ASSUME NEW h \in Own
      PROVE  /\ h \in Handles
             /\ LET d == [dbc EXCEPT !.wrapped = h]
                IN  Good(d) /\ d.wrapped = h /\ d.new = None /\ d.stmt = dbc.stmt
  <2>1. h \in Handles /\ (dbc.wrapped = None \/ h = dbc.wrapped)
    BY UnusedFree DEF Own, TypeOK, Dbcs, Handle
  <2> DEFINE d == [dbc EXCEPT !.wrapped = h]
  <2>2. /\ d \in Dbcs /\ d.wrapped = h /\ d.new = None /\ d.stmt = dbc.stmt
        /\ d.writer = dbc.writer /\ d.reader = dbc.reader /\ d.closed = dbc.closed
    BY <1>1, <2>1 DEF TypeOK, Dbcs, Handle
  <2> HIDE DEF d
  <2>3. Good(d)
    BY <1>1, <2>1, <2>2, SplittingAssumption DEF Good
  <2>4. QED
    BY <2>1, <2>2, <2>3 DEF d
<1>3. QED
  BY <1>1, <1>2

(* However the connect ends, what the call made of dbc is reached.         *)
LEMMA ConnectedStep ==
    ASSUME TypeOK, SwitchInv, phase # "connected", NEW d, Good(d), d.new = None,
           NEW opens \in SUBSET Handles, opens \subseteq {d.wrapped},
           Connected(d, opens), is' \in [Handles -> Roles]
    PROVE  TypeOK' /\ SwitchInv'
<1>1. PICK role \in Roles \cup {"unknown"} :
         Becomes([d EXCEPT !.role = role,
                           !.as = [h \in Handles |-> IF h = d.wrapped THEN role ELSE @[h]]],
                 opens)
  BY DEF Connected
<1> DEFINE e == [d EXCEPT !.role = role,
                          !.as = [h \in Handles |-> IF h = d.wrapped THEN role ELSE @[h]]]
<1>2. /\ e \in Dbcs /\ e.wrapped = d.wrapped /\ e.new = None /\ e.stmt = d.stmt
      /\ e.writer = d.writer /\ e.reader = d.reader /\ e.closed = d.closed
  BY DEF Good, Dbcs, Handle
<1>3. Becomes(e, opens)
  BY <1>1
<1> HIDE DEF e
<1>4. Good(e)
  BY <1>2 DEF Good
<1>5. /\ dbc' \in Dbcs /\ dbc'.closed = {} /\ dbc'.new = None
      /\ state' \in [Handles -> {"closed", "open", "dead"}]
      /\ NoOrphanedConnections' /\ StatementsOnMain'
  BY <1>2, <1>3, <1>4, Settles
<1>6. /\ phase' = "connected" /\ call' = Idle /\ transaction' = FALSE
      /\ UNCHANGED <<plugin, initial>>
  BY DEF Connected
<1>7. call' \in Calls /\ call'.pc = "idle"
  BY <1>6 DEF Calls, Idle
<1>8. TypeOK'
  BY <1>5, <1>6, <1>7 DEF TypeOK
<1>9. QED
  BY <1>5, <1>6, <1>7, <1>8 DEF SwitchInv, Searching

(* A connect begins without a connection that is being opened.             *)
LEMMA SQLConnectStep ==
    ASSUME TypeOK, SwitchInv, SQLConnect
    PROVE  TypeOK' /\ SwitchInv'
<1>1. /\ phase = "unconnected" /\ phase' = "connecting"
      /\ UNCHANGED <<plugin, initial, dbc, is, state, transaction>>
  BY DEF SQLConnect
<1>2. call' \in Calls /\ call'.pc \in {"verify", "next"}
  BY DEF SQLConnect, Calls
<1>3. TypeOK'
  BY <1>1, <1>2 DEF TypeOK
<1>4. call.pc = "idle"
  BY <1>1 DEF TypeOK, SwitchInv, Searching, Calls
<1>5. QED
  BY <1>1, <1>2, <1>3, <1>4
     DEF SwitchInv, Searching, NoOrphanedConnections, StatementsOnMain

(* Each step of a connect, while there is no transaction.                  *)
LEMMA VerifyConnectsStep ==
    ASSUME TypeOK, SwitchInv, VerifyConnects
    PROVE  TypeOK' /\ SwitchInv'
<1>1. PICK h \in Own : Connects(h) /\ Becomes([dbc EXCEPT !.wrapped = h], {h})
  BY DEF VerifyConnects
<1>2. /\ call.pc = "verify" /\ call' = [call EXCEPT !.pc = "role"]
      /\ UNCHANGED <<plugin, initial, phase, transaction>>
  BY DEF VerifyConnects
<1> DEFINE d == [dbc EXCEPT !.wrapped = h]
<1>3. /\ phase = "connecting" /\ ~transaction /\ h \in Handles
      /\ \A s \in Statements : dbc.stmt[s] = None
      /\ Good(d) /\ d.wrapped = h /\ d.new = None /\ d.stmt = dbc.stmt
  BY <1>2, ConnectingStarts
<1>4. Becomes(d, {h})
  BY <1>1
<1> HIDE DEF d
<1>5. /\ dbc' \in Dbcs /\ dbc'.closed = {} /\ dbc'.new = None /\ dbc'.stmt = dbc.stmt
      /\ state' \in [Handles -> {"closed", "open", "dead"}]
      /\ NoOrphanedConnections' /\ StatementsOnMain'
  BY <1>3, <1>4, Settles
<1>6. call' \in Calls /\ call'.pc = "role" /\ is' \in [Handles -> Roles]
  BY <1>1, <1>2 DEF TypeOK, Calls, Connects
<1>7. TypeOK'
  BY <1>2, <1>3, <1>5, <1>6 DEF TypeOK
<1>8. QED
  BY <1>2, <1>3, <1>5, <1>6, <1>7 DEF SwitchInv, Searching

(* A failed attempt leaves a handle that is not connected.                 *)
LEMMA VerifyFailsStep ==
    ASSUME TypeOK, SwitchInv, VerifyFails
    PROVE  TypeOK' /\ SwitchInv'
<1>1. PICK h \in Own : dbc' = [dbc EXCEPT !.wrapped = h]
  BY DEF VerifyFails
<1>2. /\ call.pc = "verify" /\ call' = [call EXCEPT !.last = "failed"]
      /\ UNCHANGED <<plugin, initial, phase, is, state, transaction>>
  BY DEF VerifyFails
<1>3. /\ phase = "connecting" /\ ~transaction
      /\ \A s \in Statements : dbc.stmt[s] = None
      /\ Good(dbc') /\ dbc'.new = None /\ dbc'.stmt = dbc.stmt
  BY <1>1, <1>2, ConnectingStarts
<1>4. dbc'.closed = {}
  BY <1>1 DEF TypeOK, Dbcs
<1>5. call' \in Calls /\ call'.pc = "verify"
  BY <1>2 DEF TypeOK, Calls
<1>6. TypeOK'
  BY <1>2, <1>3, <1>4, <1>5 DEF TypeOK, Good
<1>7. NoOrphanedConnections' /\ StatementsOnMain'
  BY <1>2, <1>3, <1>4 DEF Good, NoOrphanedConnections, StatementsOnMain
<1>8. QED
  BY <1>2, <1>3, <1>5, <1>6, <1>7 DEF SwitchInv, Searching

(* A connection of the wrong role is disconnected.                         *)
LEMMA VerifyRoleStep ==
    ASSUME TypeOK, SwitchInv, VerifyRole
    PROVE  TypeOK' /\ SwitchInv'
<1>1. call.pc = "role" /\ is' = is
  BY DEF VerifyRole
<1>2. /\ phase = "connecting" /\ ~transaction /\ Good(dbc) /\ dbc.new = None
      /\ \A s \in Statements : dbc.stmt[s] = None
  BY <1>1, ConnectingStarts
<1>3. CASE Connected(dbc, {})
  BY <1>1, <1>2, <1>3, ConnectedStep DEF TypeOK
<1>4. CASE /\ Becomes([Disconnect(dbc, dbc.wrapped) EXCEPT !.wrapped = None], {})
           /\ call' = [pc |-> "verify", last |-> "connected"]
           /\ UNCHANGED <<plugin, initial, phase, transaction>>
  <2> DEFINE e == Disconnect(dbc, dbc.wrapped)
             d == [e EXCEPT !.wrapped = None]
  <2>1. /\ e \in Dbcs /\ dbc.closed \subseteq e.closed
        /\ dbc.wrapped # None => dbc.wrapped \in e.closed
        /\ e.new = None /\ e.writer = dbc.writer /\ e.reader = dbc.reader
        /\ e.stmt = dbc.stmt
    BY <1>2, Disconnected DEF Good, Dbcs
  <2> HIDE DEF e
  <2>2. /\ d \in Dbcs /\ d.wrapped = None /\ d.closed = e.closed /\ d.new = None
        /\ d.writer = dbc.writer /\ d.reader = dbc.reader /\ d.stmt = dbc.stmt
    BY <2>1 DEF Dbcs, Handle
  <2>3. Becomes(d, {})
    BY <1>4 DEF e
  <2> HIDE DEF d
  <2>4. Good(d)
    BY <1>2, <2>1, <2>2, SplittingAssumption DEF Good
  <2>5. /\ dbc' \in Dbcs /\ dbc'.closed = {} /\ dbc'.new = None /\ dbc'.stmt = dbc.stmt
        /\ state' \in [Handles -> {"closed", "open", "dead"}]
        /\ NoOrphanedConnections' /\ StatementsOnMain'
    BY <2>2, <2>3, <2>4, Settles
  <2>6. call' \in Calls /\ call'.pc = "verify"
    BY <1>4 DEF Calls
  <2>7. TypeOK'
    BY <1>1, <1>2, <1>4, <2>5, <2>6 DEF TypeOK
  <2>8. QED
    BY <1>2, <1>4, <2>5, <2>6, <2>7 DEF SwitchInv, Searching
<1>5. QED
  BY <1>3, <1>4 DEF VerifyRole

(* The time-out leaves what the last attempt left.                         *)
LEMMA VerifyTimesOutStep ==
    ASSUME TypeOK, SwitchInv, VerifyTimesOut
    PROVE  TypeOK' /\ SwitchInv'
<1>1. call.pc = "verify" /\ is' = is
  BY DEF VerifyTimesOut
<1>2. /\ phase = "connecting" /\ ~transaction /\ Good(dbc) /\ dbc.new = None
  BY <1>1, ConnectingStarts
<1>3. CASE Connected(dbc, {})
  BY <1>1, <1>2, <1>3, ConnectedStep DEF TypeOK
<1>4. CASE /\ call' = [call EXCEPT !.pc = "next"]
           /\ UNCHANGED <<plugin, initial, phase, dbc, state, transaction>>
  <2>1. call' \in Calls /\ call'.pc = "next"
    BY <1>1, <1>4 DEF TypeOK, Calls
  <2>2. TypeOK'
    BY <1>1, <1>2, <1>4, <2>1 DEF TypeOK
  <2>3. QED
    BY <1>1, <1>2, <1>4, <2>1, <2>2
       DEF SwitchInv, Searching, NoOrphanedConnections, StatementsOnMain
<1>5. QED
  BY <1>3, <1>4 DEF VerifyTimesOut

(* The rest of the chain connects the handle there is, or a new one.       *)
LEMMA NextConnectsStep ==
    ASSUME TypeOK, SwitchInv, NextConnects
    PROVE  TypeOK' /\ SwitchInv'
<1>1. call.pc = "next"
  BY DEF NextConnects
<1>2. /\ phase = "connecting" /\ ~transaction
      /\ \A s \in Statements : dbc.stmt[s] = None
  BY <1>1, ConnectingStarts
<1>3. ASSUME NEW h \in Own
      PROVE  /\ h \in Handles
             /\ LET d == [dbc EXCEPT !.wrapped = h]
                IN  Good(d) /\ d.wrapped = h /\ d.new = None /\ d.stmt = dbc.stmt
  BY <1>1, ConnectingStarts
<1>4. ASSUME NEW h \in Own, Connects(h), Connected([dbc EXCEPT !.wrapped = h], {h})
      PROVE  TypeOK' /\ SwitchInv'
  <2>1. is' \in [Handles -> Roles]
    BY <1>4 DEF Connects, TypeOK
  <2>2. {h} \in SUBSET Handles
    BY <1>3
  <2>3. QED
    BY <1>2, <1>3, <1>4, <2>1, <2>2, ConnectedStep
<1>5. ASSUME NEW h \in Own, dbc' = [dbc EXCEPT !.wrapped = h],
             phase' = "unconnected", call' = Idle,
             UNCHANGED <<plugin, initial, is, state, transaction>>
      PROVE  TypeOK' /\ SwitchInv'
  <2>1. Good(dbc') /\ dbc'.new = None /\ dbc'.stmt = dbc.stmt
    BY <1>3, <1>5
  <2>2. dbc'.closed = {}
    BY <1>5 DEF TypeOK, Dbcs
  <2>3. call' \in Calls /\ call'.pc = "idle"
    BY <1>5 DEF Calls, Idle
  <2>4. TypeOK'
    BY <1>5, <2>1, <2>2, <2>3 DEF TypeOK, Good
  <2>5. NoOrphanedConnections' /\ StatementsOnMain'
    BY <1>5, <2>1, <2>2 DEF Good, NoOrphanedConnections, StatementsOnMain
  <2>6. QED
    BY <1>2, <1>5, <2>1, <2>3, <2>4, <2>5 DEF SwitchInv, Searching
<1>6. QED
  BY <1>4, <1>5 DEF NextConnects

(* A disconnect closes every connection there is.                          *)
LEMMA SQLDisconnectStep ==
    ASSUME TypeOK, SwitchInv, SQLDisconnect
    PROVE  TypeOK' /\ SwitchInv' /\ TransactionStays
<1> DEFINE e == FreesStatements(dbc)
           r == ReleaseResources(e)
           d == Disconnect(r, r.wrapped)
<1>1. /\ phase = "connected" /\ call = Idle /\ Becomes(d, {})
      /\ \/ phase' = phase /\ transaction' = transaction
         \/ phase' = "unconnected" /\ transaction' = FALSE
      /\ UNCHANGED <<plugin, initial, is, call>>
  BY DEF SQLDisconnect
<1>2. Good(dbc) /\ dbc.new = None /\ call.pc = "idle"
  BY <1>1, Starts DEF SwitchInv, Idle
<1>3. /\ Good(e) /\ e.wrapped = dbc.wrapped /\ e.new = None
      /\ \A s \in Statements : e.stmt[s] = None
  BY <1>2, FreesStatementsKeeps DEF Keeps
<1> HIDE DEF e
<1>4. /\ r \in Dbcs /\ r.wrapped = dbc.wrapped /\ r.new = None /\ r.stmt = e.stmt
      /\ r.reader = None /\ r.writer = None /\ e.closed \subseteq r.closed
      /\ {e.reader, e.writer} \ {None, e.wrapped} \subseteq r.closed
  BY <1>3 DEF ReleaseResources, Good, Dbcs, Handle
<1> HIDE DEF r
<1>5. /\ d \in Dbcs /\ d.wrapped = dbc.wrapped /\ d.new = None /\ d.stmt = r.stmt
      /\ d.reader = None /\ d.writer = None /\ r.closed \subseteq d.closed
  BY <1>4, Disconnected DEF Dbcs
<1> HIDE DEF d
<1>6. Good(d)
  BY <1>3, <1>4, <1>5 DEF Good
<1>7. /\ dbc' \in Dbcs /\ dbc'.closed = {} /\ dbc'.new = None
      /\ dbc'.wrapped = dbc.wrapped /\ \A s \in Statements : dbc'.stmt[s] = None
      /\ state' \in [Handles -> {"closed", "open", "dead"}]
      /\ NoOrphanedConnections' /\ StatementsOnMain'
  BY <1>1, <1>3, <1>4, <1>5, <1>6, Settles
<1>8. TypeOK'
  BY <1>1, <1>2, <1>7 DEF TypeOK
<1>9. QED
  BY <1>1, <1>2, <1>7, <1>8 DEF SwitchInv, Searching, TransactionStays

-----------------------------------------------------------------------------
(* The theorems. *)

(* At first there is no connection.                                        *)
LEMMA InitSwitch == Init => TypeOK /\ SwitchInv
<1> SUFFICES ASSUME Init PROVE TypeOK /\ SwitchInv
  OBVIOUS
<1>1. dbc \in Dbcs /\ dbc.closed = {} /\ dbc.new = None
      /\ \A s \in Statements : dbc.stmt[s] = None
  BY DEF Init, Dbcs, Handle
<1>2. call \in Calls /\ call.pc = "idle"
  BY DEF Init, Calls, Idle
<1>3. TypeOK
  BY <1>1, <1>2 DEF Init, TypeOK, Roles
<1>4. QED
  BY <1>1, <1>2, <1>3
     DEF Init, SwitchInv, Searching, NoOrphanedConnections, StatementsOnMain

(* Every step keeps the invariant, and the connection of a transaction.    *)
LEMMA SwitchStep ==
    TypeOK /\ SwitchInv /\ [Next]_vars => TypeOK' /\ SwitchInv' /\ TransactionStays
<1> SUFFICES ASSUME TypeOK, SwitchInv, [Next]_vars
             PROVE  TypeOK' /\ SwitchInv' /\ TransactionStays
  OBVIOUS
<1>1. CASE \/ SQLConnect \/ VerifyConnects \/ VerifyFails \/ VerifyRole
           \/ VerifyTimesOut \/ NextConnects
  <2>1. ~transaction
    BY <1>1 DEF SQLConnect, VerifyConnects, VerifyFails, VerifyRole, VerifyTimesOut,
                NextConnects, TypeOK, SwitchInv
  <2>2. QED
    BY <1>1, <2>1, SQLConnectStep, VerifyConnectsStep, VerifyFailsStep, VerifyRoleStep,
       VerifyTimesOutStep, NextConnectsStep DEF TransactionStays
<1>2. CASE \/ \E h \in Handles : Breaks(h)
           \/ \E s \in Statements, query \in Queries : Execute(s, query)
           \/ SQLDisconnect \/ Executes \/ FailsOver
  BY <1>2, BreaksStep, ExecuteStep, SQLDisconnectStep, ExecutesStep, FailsOverStep
<1>3. CASE OpensConnection \/ AttemptFails \/ GivesUp \/ Adopts
  BY <1>3, OpensConnectionStep, AttemptFailsStep, GivesUpStep, AdoptsStep
<1>4. CASE UNCHANGED vars
  <2>1. TypeOK'
    BY <1>4 DEF vars, TypeOK
  <2>2. QED
    BY <1>4, <2>1 DEF vars, SwitchInv, NoOrphanedConnections, StatementsOnMain,
                      TransactionStays
<1>5. QED
  BY <1>1, <1>2, <1>3, <1>4 DEF Next

(* The invariant holds in every behaviour.                                 *)
LEMMA SwitchAlways == Spec => [](TypeOK /\ SwitchInv)
<1>1. TypeOK /\ SwitchInv /\ [Next]_vars => TypeOK' /\ SwitchInv'
  BY SwitchStep
<1>2. QED
  BY <1>1, InitSwitch, PTL DEF Spec

(* The state of the plugin is well-formed.                                 *)
THEOREM TypeCorrect == Spec => []TypeOK
<1>1. QED
  BY SwitchAlways, PTL

(* Every connection that was not disconnected is one the plugin reaches,   *)
(* whatever fails.                                                         *)
THEOREM ConnectionsReached == Spec => []NoOrphanedConnections
<1>1. SwitchInv => NoOrphanedConnections
  BY DEF SwitchInv
<1>2. QED
  BY <1>1, SwitchAlways, PTL

(* No statement is left on a connection the plugin has moved away from.    *)
THEOREM StatementsMoved == Spec => []StatementsOnMain
<1>1. SwitchInv => StatementsOnMain
  BY DEF SwitchInv
<1>2. QED
  BY <1>1, SwitchAlways, PTL

(* A connection with an open transaction is exchanged only when it is lost. *)
THEOREM TransactionsStay == Spec => TransactionStaysOnConnection
<1>1. TypeOK /\ SwitchInv /\ [Next]_vars =>
        [transaction /\ dbc'.wrapped # dbc.wrapped => IsClosed(dbc.wrapped)]_vars
  BY SwitchStep DEF TransactionStays
<1>2. QED
  BY <1>1, SwitchAlways, PTL DEF Spec, TransactionStaysOnConnection
=============================================================================
