---------------------------- MODULE OdbcApiProofs ----------------------------
(***************************************************************************)
(* Theorems about two models of the ODBC functions.  OdbcHandles: for any  *)
(* threads, connections, attribute values and libraries.  BoundBuffers:    *)
(* for any columns, parameters, buffers, rows and texts, and whatever      *)
(* bindings the driver refuses.                                            *)
(***************************************************************************)
EXTENDS OdbcHandles, BoundBuffers, TLAPS

-----------------------------------------------------------------------------
(* The handles: the inductive invariant.                                   *)

Holding == {"Connect", "Initialized", "Disconnect"}
Freeing == {"Free", "Unlinked"}

(* The lock of the environment is held by who ends all transactions, that  *)
(* of a connection by who connects or disconnects it.                      *)
LocksHeld ==
    /\ \A t \in Threads : env_lock = t <=> call[t].op = "EndTran"
    /\ \A t \in Threads, d \in Connections :
          dbc_lock[d] = t <=> call[t].op \in Holding /\ d \in call[t].on

(* What a call works on is where the call expects it.                      *)
CallsPlaced ==
    \A t \in Threads :
      /\ call[t].op \in Holding \cup Freeing =>
            \E d \in Connections : call[t].on = {d}
      /\ call[t].op \in Holding \cup {"Free", "EndTran"} => call[t].on \subseteq dbc_list
      /\ call[t].op = "Unlinked" => call[t].on \subseteq exists \ dbc_list
      /\ call[t].op \in Freeing => call[t].on \cap open = {}
      /\ call[t].op \in Holding => call[t].on \cap failed = {}
      /\ call[t].op \in {"Connect", "Initialized"} => call[t].on \cap connected = {}

(* No two calls that connect, disconnect or free work on one connection.   *)
CallsApart ==
    \A t, u \in Threads :
      t # u /\ {call[t].op, call[u].op} \subseteq Holding \cup Freeing =>
          call[t].on \cap call[u].on = {}

(* A library that was loaded has the attributes of the environment, and    *)
(* one that was not has been recorded before the connection goes on.       *)
LibraryRecorded ==
    /\ wrapped_env => /\ driver_lib_loader \notin Broken \cup {None}
                      /\ env_attr \notin Refused => driver_env_attr = env_attr
    /\ \A t \in Threads :
          call[t].op = "Initialized" => wrapped_env \/ call[t].on \subseteq err

(* The record of a failed attempt is the wrapper's or the driver's, if the *)
(* plugins leave one; a status that says connected where nothing is open   *)
(* is left by plugins that verify the role.                                *)
FailureRecorded ==
    /\ \A d \in failed :
          \/ d \in err \cup (wrapped_dbc \cap diag) \/ plugins[d] = "secrets"
          \/ plugins[d] = "verifying" /\ (d \notin wrapped_dbc \/ d \in connected)
    /\ \A d \in connected \ open : plugins[d] = "verifying"

HandleInv == LocksHeld /\ CallsPlaced /\ CallsApart /\ LibraryRecorded /\ FailureRecorded

-----------------------------------------------------------------------------
(* The steps.                                                              *)

(* The call of t becomes c.                                                *)
CallGoesTo(t, c) ==
    /\ call' \in [Threads -> Calls] /\ call'[t] = c
    /\ \A u \in Threads \ {t} : call'[u] = call[u]

(* Another call of t, or another stage of it, leaves the others alone.     *)
LEMMA CallGoes ==
    ASSUME TypeOK, NEW t \in Threads
    PROVE  /\ \A c \in Calls : call' = [call EXCEPT ![t] = c] => CallGoesTo(t, c)
           /\ \A o \in {"Initialized", "Unlinked"} :
                 call' = [call EXCEPT ![t].op = o] =>
                     CallGoesTo(t, [op |-> o, on |-> call[t].on])
           /\ \A D \in SUBSET Connections :
                 call' = [call EXCEPT ![t].on = D] =>
                     CallGoesTo(t, [op |-> call[t].op, on |-> D])
<1>1. call[t] \in Calls
  BY DEF TypeOK
<1>2. \A c \in Calls : call' = [call EXCEPT ![t] = c] => CallGoesTo(t, c)
  BY DEF TypeOK, CallGoesTo
<1>3. ASSUME NEW o \in {"Initialized", "Unlinked"}, call' = [call EXCEPT ![t].op = o]
      PROVE  CallGoesTo(t, [op |-> o, on |-> call[t].on])
  <2>1. call' = [call EXCEPT ![t] = [call[t] EXCEPT !.op = o]]
    BY <1>3
  <2>2. [call[t] EXCEPT !.op = o] = [op |-> o, on |-> call[t].on]
    BY <1>1 DEF Calls
  <2>3. [op |-> o, on |-> call[t].on] \in Calls
    BY <1>1 DEF Calls
  <2>4. QED
    BY <1>2, <2>1, <2>2, <2>3
<1>4. ASSUME NEW D \in SUBSET Connections, call' = [call EXCEPT ![t].on = D]
      PROVE  CallGoesTo(t, [op |-> call[t].op, on |-> D])
  <2>1. call' = [call EXCEPT ![t] = [call[t] EXCEPT !.on = D]]
    BY <1>4
  <2>2. [call[t] EXCEPT !.on = D] = [op |-> call[t].op, on |-> D]
    BY <1>1 DEF Calls
  <2>3. [op |-> call[t].op, on |-> D] \in Calls
    BY <1>1 DEF Calls
  <2>4. QED
    BY <1>2, <2>1, <2>2, <2>3
<1>5. QED
  BY <1>2, <1>3, <1>4

(* Allocating the environment. *)
LEMMA AllocEnvStep ==
    ASSUME TypeOK, HandleInv, AllocEnv
    PROVE  TypeOK' /\ HandleInv'
<1>1. TypeOK'
  BY DEF AllocEnv, dbcVars, statusVars, diagVars, lockVars, TypeOK
<1>2. LocksHeld' /\ CallsPlaced' /\ CallsApart'
  BY DEF AllocEnv, dbcVars, statusVars, diagVars, lockVars, HandleInv, LocksHeld, CallsPlaced,
         CallsApart
<1>3. LibraryRecorded' /\ FailureRecorded'
  BY DEF AllocEnv, dbcVars, statusVars, diagVars, HandleInv, LibraryRecorded, FailureRecorded
<1>4. QED
  BY <1>1, <1>2, <1>3 DEF HandleInv

(* Freeing it, with everything that hangs on it. *)
LEMMA FreeEnvStep ==
    ASSUME TypeOK, HandleInv, FreeEnv
    PROVE  TypeOK' /\ HandleInv'
<1>1. TypeOK'
  BY DEF FreeEnv, Unset, lockVars, TypeOK
<1>2. LocksHeld' /\ CallsPlaced' /\ CallsApart'
  BY DEF FreeEnv, Idle, lockVars, HandleInv, LocksHeld, CallsPlaced, CallsApart
<1>3. LibraryRecorded' /\ FailureRecorded'
  BY DEF FreeEnv, Idle, LibraryRecorded, FailureRecorded
<1>4. QED
  BY <1>1, <1>2, <1>3 DEF HandleInv

(* An attribute of the environment goes to the underlying one, if any. *)
LEMMA SQLSetEnvAttrStep ==
    ASSUME TypeOK, HandleInv, NEW v \in Values, SQLSetEnvAttr(v)
    PROVE  TypeOK' /\ HandleInv'
<1>1. TypeOK'
  BY DEF SQLSetEnvAttr, Taken, dbcVars, statusVars, diagVars, lockVars, TypeOK
<1>2. LocksHeld' /\ CallsPlaced' /\ CallsApart'
  BY DEF SQLSetEnvAttr, dbcVars, statusVars, diagVars, lockVars, HandleInv, LocksHeld,
         CallsPlaced, CallsApart
<1>3. LibraryRecorded' /\ FailureRecorded'
  BY DEF SQLSetEnvAttr, Taken, dbcVars, statusVars, diagVars, HandleInv,
         LibraryRecorded, FailureRecorded
<1>4. QED
  BY <1>1, <1>2, <1>3 DEF HandleInv

(* A new connection is in nobody's hands. *)
LEMMA AllocDbcStep ==
    ASSUME TypeOK, HandleInv, NEW d \in Connections, AllocDbc(d)
    PROVE  TypeOK' /\ HandleInv'
<1>1. TypeOK'
  BY DEF AllocDbc, statusVars, diagVars, lockVars, TypeOK
<1>2. LocksHeld' /\ CallsPlaced' /\ CallsApart'
  BY DEF AllocDbc, statusVars, diagVars, lockVars, HandleInv, LocksHeld, CallsPlaced,
         CallsApart
<1>3. LibraryRecorded' /\ FailureRecorded'
  BY DEF AllocDbc, statusVars, diagVars, HandleInv, LibraryRecorded, FailureRecorded
<1>4. QED
  BY <1>1, <1>2, <1>3 DEF HandleInv

(* Who starts to free a connection is the only one that works on it. *)
LEMMA FreeConnectStep ==
    ASSUME TypeOK, HandleInv, NEW t \in Threads, NEW d \in Connections, FreeConnect(t, d)
    PROVE  TypeOK' /\ HandleInv'
<1>1. TypeOK'
  BY DEF FreeConnect, Usable, Calls, envVars, dbcVars, statusVars, diagVars, lockVars, TypeOK
<1>2. LocksHeld' /\ CallsPlaced' /\ CallsApart'
  <2>1. [op |-> "Free", on |-> {d}] \in Calls
    BY DEF Calls
  <2>2. CallGoesTo(t, [op |-> "Free", on |-> {d}]) /\ call[t] = Idle
    BY <2>1, CallGoes DEF FreeConnect
  <2>3. QED
    BY <2>2, HandlesAssumption
       DEF FreeConnect, Usable, CallGoesTo, Idle, Holding, Freeing, envVars, dbcVars,
           statusVars, diagVars, lockVars, TypeOK, HandleInv, LocksHeld, CallsPlaced,
           CallsApart
<1>3. LibraryRecorded' /\ FailureRecorded'
  BY DEF FreeConnect, Usable, envVars, dbcVars, statusVars, diagVars, HandleInv,
         LibraryRecorded, FailureRecorded
<1>4. QED
  BY <1>1, <1>2, <1>3 DEF HandleInv

(* The list of connections changes while nobody walks it. *)
LEMMA UnlinksStep ==
    ASSUME TypeOK, HandleInv, NEW t \in Threads, Unlinks(t)
    PROVE  TypeOK' /\ HandleInv'
<1>1. TypeOK'
  BY DEF Unlinks, Removes, Calls, Kinds, dbcVars, statusVars, diagVars, lockVars, TypeOK
<1>2. LocksHeld' /\ CallsPlaced' /\ CallsApart'
  <2>1. /\ call[t].op = "Free" /\ CallGoesTo(t, [op |-> "Unlinked", on |-> call[t].on])
        /\ env_lock = None /\ dbc_list' = dbc_list \ call[t].on
        /\ UNCHANGED <<exists, open, connected, failed, env_lock, dbc_lock>>
    BY CallGoes DEF Unlinks, Removes, dbcVars, statusVars, diagVars, lockVars
  <2>2. LocksHeld'
    BY <2>1 DEF HandleInv, LocksHeld, Holding, CallGoesTo
  <2>3. CallsPlaced'
    <3>1. call[t].on \subseteq dbc_list /\ dbc_list \subseteq exists
      BY <2>1 DEF TypeOK, HandleInv, CallsPlaced
    <3>2. \A u \in Threads : call[u].op # "EndTran"
      BY <2>1, HandlesAssumption DEF HandleInv, LocksHeld
    <3>3. \A u \in Threads \ {t} :
             call[u].op \in Holding \cup Freeing => call[t].on \cap call[u].on = {}
      BY <2>1 DEF HandleInv, CallsApart, Freeing
    <3>4. QED
      BY <2>1, <3>1, <3>2, <3>3
         DEF HandleInv, CallsPlaced, Holding, Freeing, CallGoesTo
  <2>4. CallsApart'
    BY <2>1 DEF HandleInv, CallsApart, Holding, Freeing, CallGoesTo
  <2>5. QED
    BY <2>2, <2>3, <2>4
<1>3. LibraryRecorded' /\ FailureRecorded'
  BY DEF Unlinks, Removes, dbcVars, statusVars, diagVars, HandleInv, LibraryRecorded,
         FailureRecorded
<1>4. QED
  BY <1>1, <1>2, <1>3 DEF HandleInv

(* A connection is deleted when it is on no list and nobody works on it.   *)
LEMMA DeletesStep ==
    ASSUME TypeOK, HandleInv, NEW t \in Threads, Deletes(t)
    PROVE  TypeOK' /\ HandleInv'
<1>1. PICK d \in Connections : call[t].on = {d}
  BY DEF Deletes, Freeing, HandleInv, CallsPlaced
<1>2. (CHOOSE e \in call[t].on : TRUE) = d
  BY <1>1
<1>3. TypeOK'
  BY <1>1
     DEF Deletes, Calls, Idle, Freeing, Unset, envVars, TypeOK, HandleInv,
         CallsPlaced
<1>4. LocksHeld' /\ CallsPlaced' /\ CallsApart'
  BY <1>1, HandlesAssumption
     DEF Deletes, Idle, Holding, Freeing, envVars, TypeOK, HandleInv, LocksHeld,
         CallsPlaced, CallsApart
<1>5. LibraryRecorded' /\ FailureRecorded'
  BY <1>1
     DEF Deletes, Idle, Holding, envVars, HandleInv, CallsPlaced,
         LibraryRecorded, FailureRecorded
<1>6. QED
  BY <1>3, <1>4, <1>5 DEF HandleInv

(* Who takes the lock of a connection is the only one that works on it.    *)
LEMMA ChecksStep ==
    ASSUME TypeOK, HandleInv, NEW t \in Threads, NEW d \in Connections, Checks(t, d)
    PROVE  TypeOK' /\ HandleInv'
<1>1. CASE UNCHANGED <<dbc_lock, call>>
  <2>1. TypeOK'
    BY <1>1 DEF Checks, Usable, TypeOK, envVars, dbcVars, statusVars
  <2>2. LocksHeld' /\ CallsPlaced' /\ CallsApart'
    BY <1>1, HandlesAssumption
       DEF Checks, Usable, HandleInv, LocksHeld, CallsPlaced, CallsApart, envVars,
           dbcVars, statusVars
  <2>3. LibraryRecorded'
    BY <1>1, HandlesAssumption
       DEF Checks, Usable, HandleInv, LocksHeld, LibraryRecorded, Holding, envVars,
           dbcVars, statusVars, Begins
  <2>4. FailureRecorded'
    BY <1>1
       DEF Checks, HandleInv, FailureRecorded, dbcVars, statusVars
  <2>5. QED
    BY <2>1, <2>2, <2>3, <2>4 DEF HandleInv
<1>2. CASE /\ d \notin connected /\ Begins(t, d, "Connect")
         /\ err' = err \ {d} /\ failed' = failed \ {d}
  <2>1. [op |-> "Connect", on |-> {d}] \in Calls
    BY DEF Calls
  <2>2. CallGoesTo(t, [op |-> "Connect", on |-> {d}]) /\ call[t] = Idle
    BY <1>2, <2>1, CallGoes DEF Checks, Begins
  <2>3. TypeOK'
    BY <1>2, <2>2
       DEF Checks, Begins, Usable, TypeOK, CallGoesTo, envVars, dbcVars, statusVars
  <2>4. LocksHeld' /\ CallsPlaced' /\ CallsApart'
    BY <1>2, <2>2, HandlesAssumption
       DEF Checks, Begins, Usable, TypeOK, HandleInv, LocksHeld, CallsPlaced, CallsApart,
           CallGoesTo, Idle, Holding, Freeing, envVars, dbcVars, statusVars
  <2>5. LibraryRecorded' /\ FailureRecorded'
    BY <1>2, <2>2, HandlesAssumption
       DEF Checks, Usable, TypeOK, HandleInv, LocksHeld, LibraryRecorded,
           FailureRecorded, CallGoesTo, Holding, envVars, dbcVars, statusVars
  <2>6. QED
    BY <2>3, <2>4, <2>5 DEF HandleInv
<1>3. QED
  BY <1>1, <1>2 DEF Checks, diagVars

(* The lock of the connection is given back, or its thread goes on with a  *)
(* library that is recorded.                                               *)
LEMMA InitializeConnectionStep ==
    ASSUME TypeOK, HandleInv, NEW t \in Threads, NEW d \in Connections,
           InitializeConnection(t, d)
    PROVE  TypeOK' /\ HandleInv'
<1>1. /\ call[t] = [op |-> "Connect", on |-> {d}] /\ env_lock = None
      /\ UNCHANGED <<environment, dbc_list, env_attr, dbcVars, diag, env_lock>>
  BY DEF InitializeConnection
<1>2. d \in dbc_list /\ dbc_lock[d] = t /\ d \in exists /\ d \notin failed
  BY <1>1 DEF TypeOK, HandleInv, LocksHeld, CallsPlaced, Holding
<1>3. CASE /\ err' = err \cup {d} /\ failed' = failed \cup {d}
         /\ Returns(t, d)
         /\ UNCHANGED <<driver_lib_loader, wrapped_env, driver_env_attr>>
  <2>1. CallGoesTo(t, Idle)
    BY <1>3 DEF TypeOK, Calls, Idle, CallGoesTo, Returns
  <2>2. TypeOK'
    BY <1>1, <1>3
       DEF Returns, TypeOK, HandleInv, CallsPlaced, Calls, Idle, Holding, dbcVars, statusVars
  <2>3. LocksHeld' /\ CallsPlaced' /\ CallsApart'
    BY <1>1, <1>3, HandlesAssumption
       DEF Returns, TypeOK, HandleInv, LocksHeld, CallsPlaced, CallsApart, Idle,
           Holding, Freeing, dbcVars, statusVars
  <2>4. LibraryRecorded' /\ FailureRecorded'
    BY <1>1, <1>2, <1>3, <2>1
       DEF HandleInv, LibraryRecorded, FailureRecorded, Idle, Kinds, dbcVars, statusVars,
           CallGoesTo
  <2>5. QED
    BY <2>2, <2>3, <2>4 DEF HandleInv
<1>4. ASSUME NEW lib \in Libraries, Loads(lib) = lib,
             driver_lib_loader' = lib, wrapped_env' = (lib \notin Broken),
             driver_env_attr' =
                IF wrapped_env \/ lib \in Broken THEN driver_env_attr
                ELSE Taken(env_attr, driver_env_attr),
             err' = (IF lib \in Broken THEN err \cup {d} ELSE err),
             lib \in Broken, failed' = failed \cup {d}, Returns(t, d)
      PROVE  TypeOK' /\ HandleInv'
  <2>1. CallGoesTo(t, Idle)
    BY <1>4 DEF TypeOK, Calls, Idle, CallGoesTo, Returns
  <2>2. lib \in {driver_lib_loader, lib} /\ driver_lib_loader \in {None, lib} /\ ~wrapped_env
    BY <1>4, HandlesAssumption DEF Loads, HandleInv, LibraryRecorded
  <2>3. TypeOK'
    BY <1>1, <1>2, <1>4, <2>1
       DEF Returns, TypeOK, CallGoesTo, dbcVars, statusVars
  <2>4. LocksHeld' /\ CallsPlaced' /\ CallsApart'
    BY <1>1, <1>4, HandlesAssumption
       DEF Returns, TypeOK, HandleInv, LocksHeld, CallsPlaced, CallsApart, Idle,
           Holding, Freeing, dbcVars, statusVars
  <2>5. LibraryRecorded' /\ FailureRecorded'
    BY <1>1, <1>4, <2>1, <2>2, HandlesAssumption
       DEF TypeOK, HandleInv, LibraryRecorded, FailureRecorded, Idle, Kinds,
           dbcVars, statusVars, CallGoesTo
  <2>6. QED
    BY <2>3, <2>4, <2>5 DEF HandleInv
<1>5. ASSUME NEW lib \in Libraries, Loads(lib) = lib,
             driver_lib_loader' = lib, wrapped_env' = (lib \notin Broken),
             driver_env_attr' =
                IF wrapped_env \/ lib \in Broken THEN driver_env_attr
                ELSE Taken(env_attr, driver_env_attr),
             err' = (IF lib \in Broken THEN err \cup {d} ELSE err),
             call' = [call EXCEPT ![t].op = "Initialized"], UNCHANGED <<failed, dbc_lock>>
      PROVE  TypeOK' /\ HandleInv'
  <2>1. CallGoesTo(t, [op |-> "Initialized", on |-> {d}])
    <3>1. CallGoesTo(t, [op |-> "Initialized", on |-> call[t].on])
      BY <1>5, CallGoes
    <3>2. QED
      BY <1>1, <3>1
  <2>2. driver_lib_loader \in {None, lib} /\ (lib \in Broken => ~wrapped_env)
    BY <1>5, HandlesAssumption DEF Loads, HandleInv, LibraryRecorded
  <2>3. TypeOK'
    BY <1>1, <1>2, <1>5, <2>1 DEF Taken, TypeOK, CallGoesTo, dbcVars, statusVars
  <2>4. LocksHeld' /\ CallsPlaced' /\ CallsApart'
    BY <1>1, <1>2, <1>5
       DEF HandleInv, LocksHeld, CallsPlaced, CallsApart, FailureRecorded,
           Holding, Freeing, dbcVars, statusVars, CallGoesTo
  <2>5. LibraryRecorded' /\ FailureRecorded'
    <3>1. (lib \in Broken => ~wrapped_env' /\ d \in err') /\ (lib \notin Broken => wrapped_env')
      BY <1>5
    <3>2. err \subseteq err' /\ driver_env_attr' \in {driver_env_attr, env_attr}
      BY <1>5 DEF Taken
    <3>3. LibraryRecorded'
      <4>1. wrapped_env' => driver_lib_loader' \notin Broken \cup {None}
        BY <1>5, HandlesAssumption
      <4>2. wrapped_env' /\ env_attr' \notin Refused => driver_env_attr' = env_attr'
        BY <1>1, <1>5 DEF Taken, HandleInv, LibraryRecorded
      <4>3. \A u \in Threads :
               call'[u].op = "Initialized" => wrapped_env' \/ call'[u].on \subseteq err'
        BY <1>5, <2>1, <2>2, <3>1, <3>2 DEF HandleInv, LibraryRecorded, CallGoesTo
      <4>4. QED
        BY <4>1, <4>2, <4>3 DEF LibraryRecorded
    <3>4. FailureRecorded'
      BY <1>1, <1>5 DEF HandleInv, FailureRecorded, dbcVars, statusVars
    <3>5. QED
      BY <3>3, <3>4
  <2>6. QED
    BY <2>3, <2>4, <2>5 DEF HandleInv
<1>6. QED
  BY <1>3, <1>4, <1>5 DEF InitializeConnection, Loads

(* The attributes given to an underlying connection are of its type.       *)
LEMMA GivenAttributes ==
    ASSUME TypeOK, NEW d \in Connections, NEW p, NEW ok \in BOOLEAN, Attempted(d, p, ok)
    PROVE  driver_attr' \in [Connections -> [Kinds -> Values \cup {None, Garbled}]]
<1>1. PICK had \in {driver_attr[d], Unset} : SetsAttributes(d, had, ok)
  BY DEF Attempted
<1>2. had \in [Kinds -> Values \cup {None, Garbled}]
  BY DEF TypeOK, Unset
<1>3. \A v \in Values \cup {None}, k \in Kinds : Given(v, had[k]) \in Values \cup {None, Garbled}
  BY <1>2 DEF Given, Taken
<1>4. attr_map[d] \in [Kinds -> Values \cup {None}]
  BY DEF TypeOK
<1>5. [k \in Kinds |-> IF (k = "before" \/ ok) /\ attr_map[d][k] # None
                       THEN Given(attr_map[d][k], had[k]) ELSE had[k]]
         \in [Kinds -> Values \cup {None, Garbled}]
  BY <1>2, <1>3, <1>4
<1>6. QED
  BY <1>1, <1>5 DEF SetsAttributes, TypeOK

(* The plugins of an attempt leave other connections alone, and a reason   *)
(* behind for one that failed, but for those that are excepted.            *)
LEMMA ChainStep ==
    ASSUME TypeOK, HandleInv, NEW d \in exists, d \notin connected, d \notin failed,
           NEW p \in Chains,
           plugins[d] \in {None, p}, wrapped_env \/ d \in err,
           UNCHANGED <<exists, attr_map>>,
           NotBuilt(d, p) \/ NotAttempted(d, p) \/ Opened(d, p) \/ NotOpened(d, p)
              \/ Forgotten(d, p)
    PROVE  /\ wrapped_dbc' \subseteq exists' /\ connected' \subseteq exists'
           /\ open' \subseteq connected' \cap wrapped_dbc'
           /\ plugins' \in [Connections -> Chains \cup {None}]
           /\ driver_attr' \in [Connections -> [Kinds -> Values \cup {None, Garbled}]]
           /\ err \subseteq err' /\ err' \subseteq exists' /\ diag' \subseteq exists'
           /\ open' \subseteq open \cup {d} /\ connected' \subseteq connected \cup {d}
           /\ failed' \subseteq failed \cup {d}
           /\ FailureRecorded'
<1>0. d \in Connections /\ d \notin open
  BY DEF TypeOK
<1>1. CASE NotBuilt(d, p)
  BY <1>0, <1>1 DEF NotBuilt, statusVars, TypeOK, HandleInv, FailureRecorded
<1>2. CASE NotAttempted(d, p)
  BY <1>0, <1>2 DEF NotAttempted, statusVars, TypeOK, HandleInv, FailureRecorded
<1>3. CASE Opened(d, p)
  <2>1. driver_attr' \in [Connections -> [Kinds -> Values \cup {None, Garbled}]]
    BY <1>0, <1>3, GivenAttributes DEF Opened
  <2>2. FailureRecorded'
    <3>1. \A e \in Connections \ {d} :
             /\ plugins'[e] = plugins[e] /\ (e \in wrapped_dbc' <=> e \in wrapped_dbc)
             /\ e \in connected' <=> e \in connected
             /\ e \in open' <=> e \in open
             /\ e \in diag' <=> e \in diag
      BY <1>3 DEF Opened, Attempted, TypeOK
    <3>2. d \in open' /\ err' = err /\ failed' = failed /\ connected' = connected \cup {d}
      BY <1>3 DEF Opened, Attempted
    <3>3. failed \subseteq Connections /\ connected \subseteq Connections
      BY DEF TypeOK
    <3>4. QED
      BY <3>1, <3>2, <3>3 DEF HandleInv, FailureRecorded
  <2>3. QED
    BY <1>0, <1>3, <2>1, <2>2 DEF Opened, Attempted, TypeOK
<1>4. CASE NotOpened(d, p)
  <2>1. driver_attr' \in [Connections -> [Kinds -> Values \cup {None, Garbled}]]
    BY <1>0, <1>4, GivenAttributes DEF NotOpened
  <2>2. FailureRecorded'
    <3>1. \A e \in Connections \ {d} :
             /\ plugins'[e] = plugins[e] /\ (e \in wrapped_dbc' <=> e \in wrapped_dbc)
             /\ e \in failed' <=> e \in failed
             /\ e \in connected' <=> e \in connected
             /\ e \in diag' <=> e \in diag
      BY <1>4 DEF NotOpened, Status, Attempted, TypeOK
    <3>2. d \in wrapped_dbc' /\ d \in diag' /\ plugins'[d] = p /\ err' = err /\ open' = open
      BY <1>0, <1>4 DEF NotOpened, Attempted, TypeOK
    <3>3. d \in connected' => p = "verifying"
      BY <1>4 DEF NotOpened, Status
    <3>4. failed' \subseteq Connections /\ connected' \subseteq Connections
      BY <1>0, <1>4 DEF NotOpened, Status, TypeOK
    <3>5. QED
      BY <3>1, <3>2, <3>3, <3>4 DEF HandleInv, FailureRecorded
  <2>3. QED
    BY <1>0, <1>4, <2>1, <2>2 DEF NotOpened, Status, Attempted, TypeOK
<1>5. CASE Forgotten(d, p)
  <2>1. Unset \in [Kinds -> Values \cup {None, Garbled}]
    BY DEF Unset
  <2>2. FailureRecorded'
    BY <1>0, <1>5 DEF Forgotten, Status, TypeOK, HandleInv, FailureRecorded
  <2>3. QED
    BY <1>0, <1>5, <2>1, <2>2 DEF Forgotten, Status, TypeOK
<1>6. QED
  BY <1>1, <1>2, <1>3, <1>4, <1>5

(* The lock of the connection is given back after the attempt.             *)
LEMMA ConnectStep ==
    ASSUME TypeOK, HandleInv, NEW t \in Threads, NEW d \in Connections, Connect(t, d)
    PROVE  TypeOK' /\ HandleInv'
<1>1. /\ CallGoesTo(t, Idle) /\ dbc_lock' = [dbc_lock EXCEPT ![d] = None]
      /\ UNCHANGED <<envVars, exists, attr_map, env_lock>>
  BY DEF Connect, Returns, TypeOK, Calls, Idle, CallGoesTo
<1>2. /\ call[t] = [op |-> "Initialized", on |-> {d}] /\ dbc_lock[d] = t
      /\ d \in dbc_list /\ d \in exists /\ d \notin connected /\ d \notin failed
      /\ wrapped_env \/ d \in err
  BY DEF Connect, TypeOK, HandleInv, LocksHeld, CallsPlaced, LibraryRecorded, Holding
<1>3. PICK p \in Chains :
         /\ plugins[d] \in {None, p}
         /\ NotBuilt(d, p) \/ NotAttempted(d, p) \/ Opened(d, p) \/ NotOpened(d, p)
               \/ Forgotten(d, p)
  BY DEF Connect, TypeOK
<1>4. /\ wrapped_dbc' \subseteq exists' /\ connected' \subseteq exists'
      /\ open' \subseteq connected' \cap wrapped_dbc'
      /\ plugins' \in [Connections -> Chains \cup {None}]
      /\ driver_attr' \in [Connections -> [Kinds -> Values \cup {None, Garbled}]]
      /\ err \subseteq err' /\ err' \subseteq exists' /\ diag' \subseteq exists'
      /\ open' \subseteq open \cup {d} /\ connected' \subseteq connected \cup {d}
      /\ failed' \subseteq failed \cup {d}
      /\ FailureRecorded'
  BY <1>1, <1>2, <1>3, ChainStep
<1>5. TypeOK'
  BY <1>1, <1>2, <1>4 DEF TypeOK, CallGoesTo, envVars
<1>6. LocksHeld' /\ CallsPlaced' /\ CallsApart'
  <2>1. /\ CallGoesTo(t, Idle) /\ dbc_lock' = [dbc_lock EXCEPT ![d] = None]
        /\ open' \subseteq open \cup {d} /\ connected' \subseteq connected \cup {d}
        /\ failed' \subseteq failed \cup {d}
        /\ UNCHANGED <<dbc_list, exists, env_lock>>
        /\ call[t] = [op |-> "Initialized", on |-> {d}] /\ dbc_lock[d] = t
    BY <1>1, <1>2, <1>4 DEF envVars
  <2>2. \A u \in Threads \ {t} : call[u].op \in Holding \cup Freeing => d \notin call[u].on
    BY <2>1 DEF HandleInv, CallsApart, Holding
  <2>3. LocksHeld'
    <3>1. \A u \in Threads : env_lock' = u <=> call'[u].op = "EndTran"
      BY <2>1 DEF HandleInv, LocksHeld, Idle, CallGoesTo
    <3>2. ASSUME NEW u \in Threads, NEW e \in Connections
          PROVE  dbc_lock'[e] = u <=> call'[u].op \in Holding /\ e \in call'[u].on
      <4>1. dbc_lock[e] = u <=> call[u].op \in Holding /\ e \in call[u].on
        BY DEF HandleInv, LocksHeld
      <4>2. CASE e = d
        <5>1. dbc_lock'[e] # u
          BY <2>1, <4>2, HandlesAssumption DEF TypeOK
        <5>2. CASE u = t
          BY <2>1, <5>1, <5>2 DEF Idle, Holding, CallGoesTo
        <5>3. CASE u # t
          BY <2>1, <2>2, <4>2, <5>1, <5>3 DEF CallGoesTo
        <5>4. QED
          BY <5>2, <5>3
      <4>3. CASE e # d
        BY <2>1, <4>1, <4>3 DEF TypeOK, Idle, Holding, CallGoesTo
      <4>4. QED
        BY <4>2, <4>3
    <3>3. QED
      BY <3>1, <3>2 DEF LocksHeld
  <2>4. CallsPlaced'
    <3>1. ASSUME NEW u \in Threads \ {t}, call[u].op \in Holding \cup Freeing
          PROVE  d \notin call[u].on
      BY <2>2, <3>1
    <3>2. QED
      BY <2>1, <3>1
         DEF HandleInv, CallsPlaced, Idle, Holding, Freeing, CallGoesTo
  <2>5. CallsApart'
    BY <2>1 DEF HandleInv, CallsApart, Idle, Holding, Freeing, CallGoesTo
  <2>6. QED
    BY <2>3, <2>4, <2>5
<1>7. LibraryRecorded'
  BY <1>1, <1>4 DEF HandleInv, LibraryRecorded, Idle, envVars, CallGoesTo
<1>8. QED
  BY <1>4, <1>5, <1>6, <1>7 DEF HandleInv

(* Disconnecting takes a connection out of the open ones, if the driver    *)
(* agrees, and clears the record of a failed attempt.                      *)
LEMMA DisconnectsStep ==
    ASSUME TypeOK, HandleInv, NEW d \in exists, Disconnects(d)
    PROVE  /\ err' \subseteq exists' /\ diag' \subseteq exists'
           /\ open' \subseteq connected' \cap wrapped_dbc'
           /\ open' \subseteq open /\ connected' \subseteq connected
           /\ failed' \subseteq failed /\ err \subseteq err' \cup {d}
           /\ UNCHANGED <<envVars, exists, wrapped_dbc, plugins, attr_map, driver_attr, env_lock>>
           /\ FailureRecorded'
<1>1. FailureRecorded'
  BY DEF Disconnects, Asked, NotAsked, statusVars, TypeOK, HandleInv, FailureRecorded
<1>2. QED
  BY <1>1 DEF Disconnects, Asked, NotAsked, statusVars, TypeOK

(* A connection is disconnected at once, or its lock is kept until that of *)
(* the environment is free.                                                *)
LEMMA SQLDisconnectStep ==
    ASSUME TypeOK, HandleInv, NEW t \in Threads, NEW d \in Connections,
           SQLDisconnect(t, d)
    PROVE  TypeOK' /\ HandleInv'
<1>1. call[t] = Idle /\ Usable(d) /\ d \in exists
  BY DEF SQLDisconnect, Usable, TypeOK
<1>2. CASE Disconnects(d) /\ UNCHANGED <<dbc_lock, call>>
  <2>1. /\ err' \subseteq exists' /\ diag' \subseteq exists'
        /\ open' \subseteq connected' \cap wrapped_dbc'
        /\ open' \subseteq open /\ connected' \subseteq connected
        /\ failed' \subseteq failed /\ err \subseteq err' \cup {d}
        /\ UNCHANGED <<envVars, exists, wrapped_dbc, plugins, attr_map, driver_attr, env_lock>>
        /\ FailureRecorded'
    BY <1>1, <1>2, DisconnectsStep
  <2>2. TypeOK'
    BY <1>2, <2>1 DEF TypeOK, envVars
  <2>3. LocksHeld' /\ CallsPlaced' /\ CallsApart'
    BY <1>2, <2>1 DEF HandleInv, LocksHeld, CallsPlaced, CallsApart, envVars
  <2>4. LibraryRecorded'
    BY <1>1, <1>2, <2>1, HandlesAssumption
       DEF Usable, HandleInv, LocksHeld, LibraryRecorded, Holding, envVars
  <2>5. QED
    BY <2>1, <2>2, <2>3, <2>4 DEF HandleInv
<1>3. CASE /\ Begins(t, d, "Disconnect") /\ NotAsked(d)
         /\ UNCHANGED <<envVars, dbcVars, env_lock>>
  <2>1. CallGoesTo(t, [op |-> "Disconnect", on |-> {d}])
    BY <1>3 DEF Begins, TypeOK, Calls, CallGoesTo
  <2>2. TypeOK'
    BY <1>1, <1>3, <2>1
       DEF Begins, NotAsked, TypeOK, CallGoesTo, envVars, dbcVars, statusVars
  <2>3. LocksHeld' /\ CallsPlaced' /\ CallsApart'
    BY <1>1, <1>3, <2>1, HandlesAssumption
       DEF Begins, NotAsked, Usable, TypeOK, HandleInv, LocksHeld, CallsPlaced,
           CallsApart, Idle, Holding, Freeing, CallGoesTo, envVars, dbcVars, statusVars
  <2>4. LibraryRecorded' /\ FailureRecorded'
    BY <1>1, <1>3, <2>1, HandlesAssumption
       DEF NotAsked, Usable, TypeOK, HandleInv, LocksHeld, LibraryRecorded,
           FailureRecorded, Holding, CallGoesTo, envVars, dbcVars, statusVars
  <2>5. QED
    BY <2>2, <2>3, <2>4 DEF HandleInv
<1>4. QED
  BY <1>2, <1>3 DEF SQLDisconnect

(* The connections of the plugins are gone, and so is the call.            *)
LEMMA ReleaseResourcesStep ==
    ASSUME TypeOK, HandleInv, NEW t \in Threads, NEW d \in Connections,
           ReleaseResources(t, d)
    PROVE  TypeOK' /\ HandleInv'
<1>1. /\ CallGoesTo(t, Idle) /\ dbc_lock' = [dbc_lock EXCEPT ![d] = None]
      /\ call[t] = [op |-> "Disconnect", on |-> {d}] /\ dbc_lock[d] = t /\ d \in exists
  BY DEF ReleaseResources, Returns, TypeOK, Calls, Idle, CallGoesTo, HandleInv,
         LocksHeld, CallsPlaced, Holding
<1>2. /\ err' \subseteq exists' /\ diag' \subseteq exists'
      /\ open' \subseteq connected' \cap wrapped_dbc'
      /\ open' \subseteq open /\ connected' \subseteq connected
      /\ failed' \subseteq failed /\ err \subseteq err' \cup {d}
      /\ UNCHANGED <<envVars, exists, wrapped_dbc, plugins, attr_map, driver_attr, env_lock>>
      /\ FailureRecorded'
  BY <1>1, DisconnectsStep DEF ReleaseResources
<1>3. TypeOK'
  BY <1>1, <1>2 DEF TypeOK, CallGoesTo, envVars
<1>4. LocksHeld' /\ CallsPlaced' /\ CallsApart'
  <2>1. /\ CallGoesTo(t, Idle) /\ dbc_lock' = [dbc_lock EXCEPT ![d] = None]
        /\ open' \subseteq open /\ connected' \subseteq connected /\ failed' \subseteq failed
        /\ UNCHANGED <<dbc_list, exists, env_lock>>
        /\ call[t] = [op |-> "Disconnect", on |-> {d}] /\ dbc_lock[d] = t
    BY <1>1, <1>2 DEF envVars
  <2>2. \A u \in Threads \ {t} : call[u].op \in Holding \cup Freeing => d \notin call[u].on
    BY <2>1 DEF HandleInv, CallsApart, Holding
  <2>3. LocksHeld'
    <3>1. \A u \in Threads : env_lock' = u <=> call'[u].op = "EndTran"
      BY <2>1 DEF HandleInv, LocksHeld, Idle, CallGoesTo
    <3>2. ASSUME NEW u \in Threads, NEW e \in Connections
          PROVE  dbc_lock'[e] = u <=> call'[u].op \in Holding /\ e \in call'[u].on
      <4>1. dbc_lock[e] = u <=> call[u].op \in Holding /\ e \in call[u].on
        BY DEF HandleInv, LocksHeld
      <4>2. CASE e = d
        <5>1. dbc_lock'[e] # u
          BY <2>1, <4>2, HandlesAssumption DEF TypeOK
        <5>2. CASE u = t
          BY <2>1, <5>1, <5>2 DEF Idle, Holding, CallGoesTo
        <5>3. CASE u # t
          BY <2>1, <2>2, <4>2, <5>1, <5>3 DEF CallGoesTo
        <5>4. QED
          BY <5>2, <5>3
      <4>3. CASE e # d
        BY <2>1, <4>1, <4>3 DEF TypeOK, Idle, Holding, CallGoesTo
      <4>4. QED
        BY <4>2, <4>3
    <3>3. QED
      BY <3>1, <3>2 DEF LocksHeld
  <2>4. CallsPlaced'
    <3>1. ASSUME NEW u \in Threads \ {t}, call[u].op \in Holding \cup Freeing
          PROVE  d \notin call[u].on
      BY <2>2, <3>1
    <3>2. QED
      BY <2>1, <3>1
         DEF HandleInv, CallsPlaced, Idle, Holding, Freeing, CallGoesTo
  <2>5. CallsApart'
    BY <2>1 DEF HandleInv, CallsApart, Idle, Holding, Freeing, CallGoesTo
  <2>6. QED
    BY <2>3, <2>4, <2>5
<1>5. LibraryRecorded'
  BY <1>1, <1>2
     DEF HandleInv, LocksHeld, LibraryRecorded, Idle, Holding, envVars, CallGoesTo
<1>6. QED
  BY <1>2, <1>3, <1>4, <1>5 DEF HandleInv

(* An attribute is recorded, and given to the driver of a connection that  *)
(* has one.                                                                *)
LEMMA SQLSetConnectAttrStep ==
    ASSUME TypeOK, HandleInv, NEW d \in Connections, NEW k \in Kinds, NEW v \in Values,
           SQLSetConnectAttr(d, k, v)
    PROVE  TypeOK' /\ HandleInv'
<1>1. /\ Usable(d) /\ (Asked(d) \/ NotAsked(d))
      /\ attr_map' = [attr_map EXCEPT ![d][k] = v]
      /\ driver_attr' = [driver_attr EXCEPT ![d][k] = v] \/ driver_attr' = driver_attr
      /\ UNCHANGED <<envVars, exists, wrapped_dbc, statusVars, plugins, lockVars, call>>
  <2>1. [driver_attr EXCEPT ![d][k] = driver_attr[d][k]] = driver_attr
    BY DEF TypeOK
  <2>2. QED
    BY <2>1 DEF SQLSetConnectAttr, Taken
<1>2. /\ attr_map' \in [Connections -> [Kinds -> Values \cup {None}]]
      /\ driver_attr' \in [Connections -> [Kinds -> Values \cup {None, Garbled}]]
  <2>1. /\ \A m \in [Connections -> [Kinds -> Values \cup {None}]] :
              [m EXCEPT ![d][k] = v] \in [Connections -> [Kinds -> Values \cup {None}]]
        /\ \A m \in [Connections -> [Kinds -> Values \cup {None, Garbled}]] :
              [m EXCEPT ![d][k] = v] \in [Connections -> [Kinds -> Values \cup {None, Garbled}]]
    OBVIOUS
  <2>2. QED
    BY <1>1, <2>1 DEF TypeOK
<1>3. TypeOK'
  BY <1>1, <1>2 DEF Usable, Asked, NotAsked, TypeOK, envVars, statusVars, lockVars
<1>4. LocksHeld' /\ CallsPlaced' /\ CallsApart'
  BY <1>1
     DEF Asked, NotAsked, HandleInv, LocksHeld, CallsPlaced, CallsApart, envVars,
         statusVars, lockVars
<1>5. LibraryRecorded' /\ FailureRecorded'
  BY <1>1, HandlesAssumption
     DEF Usable, Asked, NotAsked, HandleInv, LocksHeld, LibraryRecorded,
         FailureRecorded, Holding, envVars, statusVars
<1>6. QED
  BY <1>3, <1>4, <1>5 DEF HandleInv

(* Any other call on a connection changes its record of diagnostics only.  *)
LEMMA AsksStep ==
    ASSUME TypeOK, HandleInv, NEW d \in Connections, Asks(d)
    PROVE  TypeOK' /\ HandleInv'
<1>1. TypeOK'
  BY DEF Asks, Asked, NotAsked, envVars, dbcVars, statusVars, lockVars, TypeOK
<1>2. LocksHeld' /\ CallsPlaced' /\ CallsApart'
  BY HandlesAssumption
     DEF Asks, Usable, Asked, NotAsked, Calls, Idle, Holding, Freeing, Kinds,
         Unset, envVars, dbcVars, statusVars, diagVars, lockVars, TypeOK, HandleInv, LocksHeld,
         CallsPlaced, CallsApart, LibraryRecorded, FailureRecorded
<1>3. LibraryRecorded' /\ FailureRecorded'
  BY HandlesAssumption
     DEF Asks, Usable, Asked, NotAsked, Holding, envVars, dbcVars, statusVars, HandleInv,
         LocksHeld, LibraryRecorded, FailureRecorded
<1>4. QED
  BY <1>1, <1>2, <1>3 DEF HandleInv

(* Browsing leaves a record of the wrapper's.                              *)
LEMMA SQLBrowseConnectStep ==
    ASSUME TypeOK, HandleInv, NEW d \in Connections, SQLBrowseConnect(d)
    PROVE  TypeOK' /\ HandleInv'
<1>1. TypeOK'
  BY DEF SQLBrowseConnect, Usable, envVars, dbcVars, statusVars, lockVars, TypeOK
<1>2. LocksHeld' /\ CallsPlaced' /\ CallsApart'
  BY DEF SQLBrowseConnect, envVars, dbcVars, statusVars, lockVars, HandleInv, LocksHeld,
         CallsPlaced, CallsApart
<1>3. LibraryRecorded' /\ FailureRecorded'
  BY DEF SQLBrowseConnect, envVars, dbcVars, statusVars, HandleInv, LibraryRecorded,
         FailureRecorded
<1>4. QED
  BY <1>1, <1>2, <1>3 DEF HandleInv

(* Ending all transactions walks connections on the list. *)
LEMMA SQLEndTranStep ==
    ASSUME TypeOK, HandleInv, NEW t \in Threads, SQLEndTran(t)
    PROVE  TypeOK' /\ HandleInv'
<1>1. TypeOK'
  BY DEF SQLEndTran, Calls, envVars, dbcVars, statusVars, diagVars, TypeOK
<1>2. LocksHeld' /\ CallsPlaced' /\ CallsApart'
  BY HandlesAssumption
     DEF SQLEndTran, Idle, Holding, Freeing, envVars, dbcVars, statusVars, diagVars, TypeOK,
         HandleInv, LocksHeld, CallsPlaced, CallsApart
<1>3. LibraryRecorded' /\ FailureRecorded'
  BY DEF SQLEndTran, envVars, dbcVars, statusVars, diagVars, HandleInv, LibraryRecorded,
         FailureRecorded
<1>4. QED
  BY <1>1, <1>2, <1>3 DEF HandleInv

(* SQLEndTran goes on to the next connection, or ends and gives the lock   *)
(* of the environment back.                                                *)
LEMMA VisitsStep ==
    ASSUME TypeOK, HandleInv, NEW t \in Threads, NEW d \in Connections, Visits(t, d)
    PROVE  TypeOK' /\ HandleInv'
<1>1. /\ call[t].op = "EndTran" /\ d \in call[t].on /\ dbc_lock[d] = None /\ d \in exists
      /\ UNCHANGED <<envVars, dbcVars, dbc_lock>> /\ env_lock = t
  BY DEF Visits, TypeOK, HandleInv, LocksHeld, CallsPlaced
<1>2. CASE d \in wrapped_dbc
  <2>1. Asked(d) /\ CallGoesTo(t, [op |-> "EndTran", on |-> call[t].on \ {d}])
    <3>1. call[t].on \ {d} \in SUBSET Connections
      BY DEF TypeOK, Calls
    <3>2. call' = [call EXCEPT ![t].on = call[t].on \ {d}] /\ Asked(d)
      BY <1>2 DEF Visits
    <3>3. QED
      BY <1>1, <3>1, <3>2, CallGoes
  <2>5. env_lock' = env_lock
    BY <1>2 DEF Visits
  <2>6. TypeOK'
    BY <1>1, <2>1, <2>5 DEF Asked, TypeOK, envVars, dbcVars, statusVars, CallGoesTo
  <2>7. LocksHeld' /\ CallsPlaced' /\ CallsApart'
    BY <1>1, <2>1, <2>5
       DEF HandleInv, LocksHeld, CallsPlaced, CallsApart, Holding, Freeing,
           CallGoesTo, envVars, dbcVars, statusVars, Asked
  <2>8. LibraryRecorded' /\ FailureRecorded'
    BY <1>1, <2>1, HandlesAssumption
       DEF Asked, HandleInv, LocksHeld, CallsPlaced, LibraryRecorded,
           FailureRecorded, Calls, Holding, envVars, dbcVars, statusVars, CallGoesTo
  <2>9. QED
    BY <2>6, <2>7, <2>8 DEF HandleInv
<1>3. CASE d \notin wrapped_dbc
  <2>1. NotAsked(d) /\ CallGoesTo(t, Idle)
    BY <1>3
       DEF Visits, TypeOK, HandleInv, CallsPlaced, FailureRecorded, Calls, Idle,
           Holding, envVars, CallGoesTo
  <2>5. env_lock' = None
    BY <1>3 DEF Visits
  <2>6. TypeOK'
    BY <1>1, <2>1, <2>5 DEF NotAsked, TypeOK, envVars, dbcVars, statusVars, CallGoesTo
  <2>7. LocksHeld' /\ CallsPlaced' /\ CallsApart'
    BY <1>1, <2>1, <2>5, HandlesAssumption
       DEF HandleInv, LocksHeld, CallsPlaced, CallsApart, Holding, Freeing,
           CallGoesTo, envVars, dbcVars, statusVars, NotAsked, Idle
  <2>8. LibraryRecorded' /\ FailureRecorded'
    BY <1>1, <2>1, HandlesAssumption
       DEF NotAsked, HandleInv, LocksHeld, LibraryRecorded, FailureRecorded, Idle,
           Holding, Freeing, envVars, dbcVars, statusVars, CallGoesTo
  <2>9. QED
    BY <2>6, <2>7, <2>8 DEF HandleInv
<1>4. QED
  BY <1>2, <1>3

(* SQLEndTran that has visited all connections gives the lock of the       *)
(* environment back.                                                       *)
LEMMA EndsAllStep ==
    ASSUME TypeOK, HandleInv, NEW t \in Threads, EndsAll(t)
    PROVE  TypeOK' /\ HandleInv'
<1>1. TypeOK'
  BY DEF EndsAll, Calls, Idle, envVars, dbcVars, statusVars, diagVars, TypeOK
<1>2. LocksHeld' /\ CallsPlaced' /\ CallsApart'
  BY HandlesAssumption
     DEF EndsAll, Idle, Holding, Freeing, envVars, dbcVars, statusVars, diagVars, TypeOK,
         HandleInv, LocksHeld, CallsPlaced, CallsApart
<1>3. LibraryRecorded' /\ FailureRecorded'
  BY DEF EndsAll, Idle, envVars, dbcVars, statusVars, diagVars, HandleInv, LibraryRecorded,
         FailureRecorded
<1>4. QED
  BY <1>1, <1>2, <1>3 DEF HandleInv

(* Initially nothing is in use.                                            *)
LEMMA InitHandle == Init => TypeOK /\ HandleInv
<1>1. Init => TypeOK
  <2>1. Idle \in Calls /\ Unset \in [Kinds -> Values \cup {None}]
    BY DEF Calls, Idle, Unset
  <2>2. QED
    BY <2>1 DEF Init, TypeOK
<1>2. Init => HandleInv
  BY HandlesAssumption
     DEF Init, HandleInv, LocksHeld, CallsPlaced, CallsApart, LibraryRecorded,
         FailureRecorded, Idle, Holding, Freeing
<1>3. QED
  BY <1>1, <1>2

(* Nor does anything change when no call does.                             *)
LEMMA StutterHandle ==
    ASSUME TypeOK, HandleInv, UNCHANGED vars PROVE TypeOK' /\ HandleInv'
<1>1. TypeOK'
  BY DEF TypeOK, vars, envVars, dbcVars, statusVars, diagVars, lockVars
<1>2. HandleInv'
  BY DEF HandleInv, LocksHeld, CallsPlaced, CallsApart, LibraryRecorded,
         FailureRecorded, vars, envVars, dbcVars, statusVars, diagVars, lockVars
<1>3. QED
  BY <1>1, <1>2

(* Every call keeps the invariant.                                         *)
LEMMA HandleStep == TypeOK /\ HandleInv /\ [Next]_vars => TypeOK' /\ HandleInv'
<1> SUFFICES ASSUME TypeOK, HandleInv, [Next]_vars PROVE TypeOK' /\ HandleInv'
  OBVIOUS
<1>1. CASE AllocHandle
  BY <1>1, AllocEnvStep, AllocDbcStep DEF AllocHandle
<1>2. ASSUME NEW v \in Values, SQLSetEnvAttr(v) PROVE TypeOK' /\ HandleInv'
  BY <1>2, SQLSetEnvAttrStep
<1>3. ASSUME NEW d \in Connections, ConnectionCall(d) PROVE TypeOK' /\ HandleInv'
  <2>1. CASE SQLBrowseConnect(d)
    BY <2>1, SQLBrowseConnectStep
  <2>2. ASSUME NEW k \in Kinds, NEW v \in Values, SQLSetConnectAttr(d, k, v)
        PROVE  TypeOK' /\ HandleInv'
    BY <2>2, SQLSetConnectAttrStep
  <2>3. CASE \/ SQLGetConnectAttr(d) \/ SQLGetFunctions(d) \/ SQLNativeSql(d)
             \/ SQLEndTranConnection(d) \/ SQLGetInfo(d)
    BY <2>3, AsksStep
       DEF SQLGetConnectAttr, SQLGetFunctions, SQLNativeSql, SQLEndTranConnection,
           SQLGetInfo
  <2>4. QED
    BY <1>3, <2>1, <2>2, <2>3 DEF ConnectionCall
<1>4. ASSUME NEW t \in Threads, FreeHandle(t) PROVE TypeOK' /\ HandleInv'
  BY <1>4, FreeEnvStep, FreeConnectStep DEF FreeHandle
<1>5. ASSUME NEW t \in Threads, ThreadStep(t) PROVE TypeOK' /\ HandleInv'
  <2>1. ASSUME NEW d \in Connections,
               SQLConnect(t, d) \/ SQLDriverConnect(t, d) \/ InitializeConnection(t, d)
                  \/ Connect(t, d) \/ SQLDisconnect(t, d) \/ ReleaseResources(t, d)
                  \/ Visits(t, d)
        PROVE  TypeOK' /\ HandleInv'
    BY <2>1, ChecksStep, InitializeConnectionStep, ConnectStep, SQLDisconnectStep,
       ReleaseResourcesStep, VisitsStep
       DEF SQLConnect, SQLDriverConnect
  <2>2. CASE Unlinks(t) \/ Deletes(t) \/ SQLEndTran(t) \/ EndsAll(t)
    BY <2>2, UnlinksStep, DeletesStep, SQLEndTranStep, EndsAllStep
  <2>3. QED
    BY <1>5, <2>1, <2>2 DEF ThreadStep
<1>6. CASE UNCHANGED vars
  BY <1>6, StutterHandle
<1>7. QED
  BY <1>1, <1>2, <1>3, <1>4, <1>5, <1>6 DEF Next

(* The invariant holds in every behaviour.                                 *)
LEMMA HandleAlways == Spec => [](TypeOK /\ HandleInv)
  BY InitHandle, HandleStep, PTL DEF Spec

-----------------------------------------------------------------------------
(* The theorems.                                                           *)

(* Every field of the environment and its connections keeps a value of its *)
(* declaration, and the list of connections holds none that was deleted.   *)
THEOREM TypeCorrect == Spec => []TypeOK
  BY HandleAlways, PTL

(* SQLEndTran on the environment never comes to a connection that another  *)
(* thread has deleted, for any number of threads and connections.          *)
THEOREM VisitsSafe == Spec => []VisitedConnectionsExist
<1>1. TypeOK /\ HandleInv => VisitedConnectionsExist
  BY DEF TypeOK, HandleInv, CallsPlaced, VisitedConnectionsExist
<1>2. QED
  BY HandleAlways, <1>1, PTL

(* Two threads wait for each other only when one ends the transactions of  *)
(* the environment and the other connects or disconnects.                  *)
THEOREM DeadlockOneWay == Spec => []OnlyEndTranDeadlocks
<1>1. TypeOK /\ HandleInv => OnlyEndTranDeadlocks
  <2> SUFFICES ASSUME TypeOK, HandleInv, NEW t \in Threads, NEW u \in Threads,
                      t # u, WaitsFor(t, u), WaitsFor(u, t)
               PROVE  {call[t].op, call[u].op} \in {{"Connect", "EndTran"},
                                                    {"Disconnect", "EndTran"}}
    BY DEF OnlyEndTranDeadlocks
  <2>1. ASSUME NEW a \in Threads, NEW b \in Threads, WaitsFor(a, b)
        PROVE  \/ call[a].op \in {"Connect", "Disconnect", "Free"} /\ call[b].op = "EndTran"
               \/ call[a].op = "EndTran" /\ call[b].op \in Holding
    BY <2>1 DEF TypeOK, Calls, HandleInv, LocksHeld, WaitsFor
  <2>2. QED
    BY <2>1 DEF Holding
<1>2. QED
  BY HandleAlways, <1>1, PTL

(* After an attempt to connect that failed, the reason can be asked for    *)
(* until the next call on the connection, unless Secrets Manager had no    *)
(* client or plugins that verify the role disconnected.                    *)
THEOREM FailureTold == Spec => []ConnectFailureTold
<1>1. HandleInv => ConnectFailureTold
  BY DEF HandleInv, FailureRecorded, ConnectFailureTold, Told, DiagRec, DiagField
<1>2. QED
  BY HandleAlways, <1>1, PTL

(* A connection opens with the attributes that were set before, its own    *)
(* and those of the environment, but for what the driver refuses and texts *)
(* whose characters are not as wide as its own.                            *)
THEOREM SettingsApplied == Spec => ConnectsWithSettings
<1>1. TypeOK /\ HandleInv /\ [Next]_vars =>
        [\A d \in open' \ open :
           /\ \A k \in Kinds : Kept(attr_map[d][k]) => driver_attr'[d][k] = attr_map[d][k]
           /\ env_attr' \notin Refused => driver_env_attr' = env_attr']_vars
  <2> SUFFICES ASSUME TypeOK, HandleInv, Next, NEW e \in open' \ open
               PROVE  /\ \A k \in Kinds :
                            Kept(attr_map[e][k]) => driver_attr'[e][k] = attr_map[e][k]
                      /\ env_attr' \notin Refused => driver_env_attr' = env_attr'
    OBVIOUS
  <2>1. e \in open' /\ e \notin open
    OBVIOUS
  <2>2. ~AllocHandle /\ ~(\E v \in Values : SQLSetEnvAttr(v))
    BY DEF AllocHandle, AllocEnv, AllocDbc, SQLSetEnvAttr, dbcVars, statusVars
  <2>3. ASSUME NEW d \in Connections, ConnectionCall(d) PROVE FALSE
    <3>1. open' = open
      BY <2>3
         DEF ConnectionCall, SQLBrowseConnect, SQLGetConnectAttr, SQLGetFunctions,
             SQLNativeSql, SQLEndTranConnection, SQLGetInfo, Asks, dbcVars, statusVars,
             SQLSetConnectAttr
    <3>2. QED
      BY <3>1
  <2>4. PICK t \in Threads : FreeHandle(t) \/ ThreadStep(t)
    BY <2>2, <2>3 DEF Next
  <2>5. PICK d \in Connections : Connect(t, d)
    BY <2>4
       DEF FreeHandle, FreeEnv, FreeConnect, ThreadStep, SQLConnect,
           SQLDriverConnect, Checks, InitializeConnection, SQLDisconnect,
           ReleaseResources, Disconnects, Visits, Unlinks, Removes, Deletes,
           SQLEndTran, EndsAll, dbcVars, statusVars
  <2>6. UNCHANGED <<envVars, attr_map>> /\ \E p \in Chains : Opened(d, p)
    BY <2>5
       DEF Connect, NotBuilt, NotAttempted, NotOpened, Forgotten, statusVars, TypeOK
  <2>7. PICK had \in {driver_attr[d], Unset} :
           wrapped_env /\ SetsAttributes(d, had, TRUE) /\ open' = open \cup {d}
    BY <2>6 DEF Opened, Attempted
  <2>8. e = d
    BY <2>7
  <2>9. ASSUME NEW k \in Kinds, Kept(attr_map[e][k])
        PROVE  driver_attr'[e][k] = attr_map[e][k]
    <3>1. attr_map[e][k] # None /\ Given(attr_map[e][k], had[k]) = attr_map[e][k]
      BY <2>6, <2>9, HandlesAssumption DEF Kept, Given, Taken, envVars
    <3>2. QED
      BY <2>7, <2>8, <3>1 DEF SetsAttributes, TypeOK
  <2>10. env_attr' \notin Refused => driver_env_attr' = env_attr'
    BY <2>6, <2>7 DEF HandleInv, LibraryRecorded, envVars
  <2>11. QED
    BY <2>9, <2>10
<1>2. QED
  BY HandleAlways, <1>1, PTL DEF Spec, ConnectsWithSettings

-----------------------------------------------------------------------------
(* The bound buffers: the inductive invariant.                             *)

(* An item is bound to a buffer or not at all, a column never as a         *)
(* parameter, none by its kind to data at execution, and no two items to   *)
(* one buffer; an entry names a buffer.                                    *)
BindingsApart ==
    /\ \A i \in Items : IsTracked(i) => bound_buffers[i].app_ptr # NullPtr
    /\ \A i \in Items : binding[i].kind = "none" <=> binding[i].address = NullPtr
    /\ \A i \in Items : binding[i].kind # "at_exec"
    /\ \A c \in Columns : binding[c].kind \in {"none", "narrow", "wide"}
    /\ \A i, j \in Items :
          i # j /\ binding[i].address # NullPtr => binding[i].address # binding[j].address

(* The entry of i belongs to a binding that is no more.                    *)
Stale(i) == IsTracked(i) /\ ~Wide(binding[i].kind)

(* The entry of a wide column or output parameter has a local buffer; that *)
(* of an input parameter has none as long as its data came at execution.   *)
EntryKinds(i) ==
    CASE binding[i].kind = "wide_output" -> {"wide_output"}
      [] binding[i].kind # "wide_output" /\ i \in Columns -> {"wide"}
      [] OTHER -> {"wide", "at_exec"}

(* A parameter bound again by the wrapper has got a BufferLength.          *)
SameKind(k, l) == k = l \/ {k, l} \subseteq {"wide", "wide_unsized"}

EntryAsAsked(i) ==
    /\ IsTracked(i) /\ ~Stale(i) => /\ bound_buffers[i].app_ptr = binding[i].address
                                    /\ bound_buffers[i].kind \in EntryKinds(i)
    /\ binding[i].kind \in {"wide", "wide_output"} => IsTracked(i)
    /\ i \in Params /\ Wide(binding[i].kind) /\ i \notin text_seen =>
          bound_buffers[i].kind = "at_exec"

DriverAsAsked(i) ==
    driver[i] # Unbound /\ ~Stale(i) =>
        /\ driver[i].address = IF HasLocal(bound_buffers[i]) THEN i ELSE binding[i].address
        /\ SameKind(driver[i].kind, binding[i].kind)

(* Unless the driver refused, the entry of an item is that of its binding, *)
(* and the driver is bound to the local buffer or to the application's.    *)
BoundAsAsked == \A i \in Items \ refused : EntryAsAsked(i) /\ DriverAsAsked(i)

(* No parameter is refused or stale.                                       *)
ParamsIntact == \A p \in Params : p \notin refused /\ ~Stale(p)

(* The parameters data is asked for are bound to the application's memory, *)
(* and the flag tells whether the one asked for is wide, if it came at     *)
(* execution from the beginning.                                           *)
AskedAtExec ==
    /\ \A p \in unasked : driver[p].address \in AppBuffers
    /\ asked # NullPtr /\ ParamsIntact =>
          /\ put_data_char_conversion => Wide(driver[asked].kind)
          /\ Wide(driver[asked].kind) /\ asked \notin text_seen => put_data_char_conversion

(* Without an underlying statement nothing is bound on it.                 *)
NothingBound == ~wrapped_stmt => \A i \in Items : driver[i] = Unbound

BufferInv ==
    BindingsApart /\ BoundAsAsked /\ AskedAtExec /\ NothingBound /\ DriverBuffersLive

-----------------------------------------------------------------------------
(* Types. *)

Memories == [AppBuffers \cup Items -> Contents]
Bindings == [address : AppBuffers \cup {NullPtr}, kind : BufferKinds]
Entries == [app_ptr : AppBuffers \cup {NullPtr}, kind : BufferKinds, long : BOOLEAN]
DriverBindings == [address : AppBuffers \cup Items \cup {NullPtr, Freed}, kind : BufferKinds]

(* The constants for "nothing" are of their types.                         *)
LEMMA NothingType ==
    /\ Unbound \in Bindings \cap DriverBindings /\ NoBuffer \in Entries
    /\ Blank \in Contents
BY DEF Unbound, NoBuffer, Blank, Bindings, DriverBindings, Entries, Contents, BufferKinds

(* What each operator makes of the memory is memory.                       *)
LEMMA KeepType == ASSUME NEW mem \in Memories PROVE Keep(mem) \in Memories
BY NothingType DEF Keep, Memories

(* What is read, written and converted is memory too.                      *)
LEMMA WritesType ==
    ASSUME BufferTypeOK, BindingsApart
    PROVE  /\ ConvertedTexts \in Memories
           /\ \A row \in Rows : RowWritten(row) \in Memories
           /\ \A mem \in Memories : ConvertBoundColBuffersAfterFetch(mem) \in Memories
           /\ \A mem \in Memories : ConvertBoundParamBuffersAfterExecute(mem) \in Memories
           /\ \A mem \in Memories, out \in Rows : OutputsWritten(mem, out) \in Memories
<1> USE DEF Memories, Contents
<1>1. ConvertedTexts \in Memories
  <2>1. \A p \in Converted : bound_buffers[p].app_ptr \in AppBuffers
    BY DEF BufferTypeOK, BindingsApart, IsTracked, NoBuffer, Converted, Items
  <2>2. QED
    BY <2>1 DEF BufferTypeOK, ConvertedTexts
<1>2. ASSUME NEW row \in Rows PROVE RowWritten(row) \in Memories
  BY <1>2 DEF BufferTypeOK, RowWritten
<1>3. ASSUME NEW mem \in Memories
      PROVE  ConvertBoundColBuffersAfterFetch(mem) \in Memories
  BY <1>3 DEF BufferTypeOK, ConvertBoundColBuffersAfterFetch, Items
<1>4. ASSUME NEW mem \in Memories
      PROVE  ConvertBoundParamBuffersAfterExecute(mem) \in Memories
  BY <1>4 DEF BufferTypeOK, ConvertBoundParamBuffersAfterExecute, Outputs, Items
<1>5. ASSUME NEW mem \in Memories, NEW out \in Rows
      PROVE  OutputsWritten(mem, out) \in Memories
  BY <1>5 DEF BufferTypeOK, OutputsWritten
<1>6. QED
  BY <1>1, <1>2, <1>3, <1>4, <1>5

-----------------------------------------------------------------------------
(* Binding. *)

BoundKinds == {"none", "narrow", "wide", "wide_output", "wide_unsized"}

(* What SQLBindCol and SQLBindParameter do to the entry e of an item and   *)
(* to the address the driver is to be bound with: they make an entry,      *)
(* erase it, or leave it as it is.                                         *)
Consistent(i, b, kind, e, address) ==
    \/ /\ Wide(kind) /\ b # NullPtr
       /\ kind = "wide_unsized" => AtExec(i)
       /\ kind = "wide_output" => ~AtExec(i)
       /\ e = Entry(i, b, kind) /\ address = IF HasLocal(e) THEN i ELSE b
    \/ /\ e = NoBuffer /\ address = b /\ kind \notin {"wide", "wide_output"}
       /\ kind = "wide_unsized" => ~AtExec(i)
    \/ e = bound_buffers[i] /\ address = b /\ ~Wide(kind)

(* A parameter whose text is there when it is bound has been seen so.      *)
TextSeen(i) ==
    /\ text_seen' \subseteq Params
    /\ \A p \in Params \ {i} : p \in text_seen' <=> p \in text_seen
    /\ i \in Params /\ ~AtExec(i) => i \in text_seen'

(* Whether the driver accepts a binding or not, its buffers are live and   *)
(* its bindings those the application made.                                *)
LEMMA Rebinds ==
    ASSUME BufferTypeOK, BindingsApart, BoundAsAsked, DriverBuffersLive,
           NEW i \in Items, NEW b \in AppBuffers \cup {NullPtr}, NEW kind \in BoundKinds,
           NEW e, NEW address, NEW old,
           kind = "none" <=> b = NullPtr,
           i \in Columns => kind \in {"none", "narrow", "wide"},
           b # NullPtr => Available(b, i),
           Consistent(i, b, kind, e, address), TextSeen(i),
           bound_buffers' = [bound_buffers EXCEPT ![i] = e],
           DriverBinds(i, b, address, kind, old)
    PROVE  BindingsApart' /\ BoundAsAsked' /\ DriverBuffersLive'
<1> USE DEF Items
<1>1. /\ bound_buffers'[i] = e
      /\ \A j \in Items \ {i} : /\ bound_buffers'[j] = bound_buffers[j]
                                /\ binding'[j] = binding[j] /\ driver'[j] = driver[j]
                                /\ j \in refused' <=> j \in refused
  BY DEF BufferTypeOK, DriverBinds
<1>2. \/ /\ binding'[i] = [address |-> b, kind |-> kind] /\ i \notin refused'
         /\ driver'[i] = [address |-> address, kind |-> kind]
      \/ binding' = binding /\ i \in refused'
  BY DEF BufferTypeOK, DriverBinds
<1>3. e # NoBuffer => e.app_ptr # NullPtr
  BY NothingType DEF Consistent, BindingsApart, IsTracked, Entry, NoBuffer
<1>4. BindingsApart'
  <2>1. \A j \in Items : IsTracked(j)' => bound_buffers'[j].app_ptr # NullPtr
    BY <1>1, <1>3 DEF BindingsApart, IsTracked
  <2>2. \A j \in Items : binding'[j].kind = "none" <=> binding'[j].address = NullPtr
    BY <1>1, <1>2 DEF BindingsApart
  <2>3. \A c \in Columns : binding'[c].kind \in {"none", "narrow", "wide"}
    BY <1>1, <1>2 DEF BindingsApart
  <2>4. ASSUME NEW j \in Items, NEW k \in Items, j # k, binding'[j].address # NullPtr
        PROVE  binding'[j].address # binding'[k].address
    BY <1>1, <1>2, <2>4 DEF BindingsApart, Available
  <2>5. \A j \in Items : binding'[j].kind # "at_exec"
    BY <1>1, <1>2 DEF BindingsApart, BoundKinds
  <2>6. QED
    BY <2>1, <2>2, <2>3, <2>4, <2>5 DEF BindingsApart
<1>5. ASSUME NEW j \in Items \ refused', j # i
      PROVE  /\ EntryAsAsked(j)' /\ DriverAsAsked(j)'
             /\ driver'[j].address # Freed
             /\ driver'[j].address = j => HasLocal(bound_buffers'[j])
  <2>1. EntryAsAsked(j) /\ DriverAsAsked(j) /\ j \notin refused
    BY <1>1, <1>5 DEF BoundAsAsked
  <2>2. j \in Params => (j \in text_seen' <=> j \in text_seen)
    BY <1>5 DEF TextSeen
  <2>3. EntryAsAsked(j)' /\ DriverAsAsked(j)'
    BY <1>1, <1>5, <2>1, <2>2 DEF EntryAsAsked, DriverAsAsked, EntryKinds, IsTracked, Stale
  <2>4. QED
    BY <1>1, <1>5, <2>1, <2>3 DEF DriverBuffersLive
<1>6. ASSUME i \notin refused'
      PROVE  /\ EntryAsAsked(i)' /\ DriverAsAsked(i)'
             /\ driver'[i].address # Freed
             /\ driver'[i].address = i => HasLocal(bound_buffers'[i])
  <2>1. /\ binding'[i] = [address |-> b, kind |-> kind]
        /\ driver'[i] = [address |-> address, kind |-> kind]
    BY <1>2, <1>6
  <2>2. b # i /\ b # Freed /\ i # Freed
    BY BuffersAssumption
  <2>3. CASE /\ Wide(kind) /\ b # NullPtr
             /\ kind = "wide_unsized" => AtExec(i)
             /\ kind = "wide_output" => ~AtExec(i)
             /\ e = Entry(i, b, kind) /\ address = IF HasLocal(e) THEN i ELSE b
    <3>1. e.app_ptr = b /\ e.kind = IF AtExec(i) THEN "at_exec" ELSE kind
      BY <2>3 DEF Entry
    <3>2. AtExec(i) => i \notin Columns
      BY BuffersAssumption DEF AtExec
    <3>3. EntryAsAsked(i)'
      BY <1>1, <2>1, <2>3, <3>1, <3>2
         DEF EntryAsAsked, EntryKinds, IsTracked, NoBuffer, BoundKinds, Wide, TextSeen
    <3>4. DriverAsAsked(i)'
      BY <1>1, <2>1, <2>3 DEF DriverAsAsked, SameKind
    <3>5. QED
      BY <1>1, <2>1, <2>2, <2>3, <3>3, <3>4
  <2>4. CASE /\ e = NoBuffer /\ address = b /\ kind \notin {"wide", "wide_output"}
             /\ kind = "wide_unsized" => ~AtExec(i)
    <3>1. EntryAsAsked(i)'
      BY <1>1, <2>1, <2>4 DEF EntryAsAsked, IsTracked, BoundKinds, Wide, TextSeen
    <3>2. DriverAsAsked(i)'
      BY <1>1, <2>1, <2>4 DEF DriverAsAsked, SameKind, HasLocal, NoBuffer
    <3>3. QED
      BY <1>1, <2>1, <2>2, <2>4, <3>1, <3>2
  <2>5. CASE e = bound_buffers[i] /\ address = b /\ ~Wide(kind)
    <3>1. EntryAsAsked(i)'
      BY <1>1, <2>1, <2>5 DEF EntryAsAsked, IsTracked, Stale, Wide
    <3>2. DriverAsAsked(i)'
      BY <1>1, <2>1, <2>5 DEF DriverAsAsked, SameKind, HasLocal, NoBuffer, Stale, IsTracked
    <3>3. QED
      BY <1>1, <2>1, <2>2, <2>5, <3>1, <3>2
  <2>6. QED
    BY <2>3, <2>4, <2>5 DEF Consistent
<1>7. QED
  BY <1>4, <1>5, <1>6 DEF BoundAsAsked, DriverBuffersLive

(* They keep the types.                                                    *)
LEMMA RebindsType ==
    ASSUME BufferTypeOK, NEW i \in Items, NEW b \in AppBuffers \cup {NullPtr}, NEW kind \in BoundKinds,
           NEW e \in Entries, NEW address \in AppBuffers \cup Items \cup {NullPtr},
           NEW old \in DriverBindings, NEW mem \in Memories,
           e # NoBuffer => Wide(e.kind),
           bound_buffers' = [bound_buffers EXCEPT ![i] = e],
           DriverBinds(i, b, address, kind, old), memory' = Keep(mem), TextSeen(i),
           UNCHANGED <<indicator, wrapped_stmt, put_data_char_conversion, cursor, asked, unasked>>
    PROVE  BufferTypeOK'
<1>1. memory' \in Memories
  BY KeepType
<1>2. bound_buffers' \in [Items -> Entries]
  BY DEF BufferTypeOK, Entries
<1>3. \A j \in Items : IsTracked(j)' => Wide(bound_buffers'[j].kind)
  BY DEF BufferTypeOK, IsTracked
<1>4. binding' \in [Items -> Bindings] /\ driver' \in [Items -> DriverBindings]
  <2>1. /\ [address |-> b, kind |-> kind] \in Bindings
        /\ [address |-> address, kind |-> kind] \in DriverBindings
    BY DEF Bindings, DriverBindings, BoundKinds, BufferKinds
  <2>2. binding \in [Items -> Bindings] /\ driver \in [Items -> DriverBindings]
    BY DEF BufferTypeOK, Bindings, DriverBindings
  <2>3. QED
    BY <2>1, <2>2 DEF DriverBinds
<1>5. refused' \subseteq Items
  BY DEF BufferTypeOK, DriverBinds
<1>6. QED
  BY <1>1, <1>2, <1>3, <1>4, <1>5
     DEF BufferTypeOK, Memories, Entries, Bindings, DriverBindings, TextSeen

(* The driver's binding of an item whose local buffer is gone.             *)
LEMMA DanglingType ==
    ASSUME BufferTypeOK, NEW i \in Items
    PROVE  Dangling(i) \in DriverBindings /\ driver[i] \in DriverBindings
BY DEF BufferTypeOK, Dangling, DriverBindings

(* Binding an item other than a parameter that is asked for.               *)
LEMMA AskedKept ==
    ASSUME BufferTypeOK, AskedAtExec, NEW i \in Items,
           i \in Params => cursor # "need_data", TextSeen(i),
           \A j \in Items \ {i} : /\ bound_buffers'[j] = bound_buffers[j]
                                  /\ binding'[j] = binding[j] /\ driver'[j] = driver[j]
                                  /\ j \in refused' <=> j \in refused,
           UNCHANGED <<put_data_char_conversion, asked, unasked>>
    PROVE  AskedAtExec'
<1>1. CASE cursor # "need_data"
  BY <1>1 DEF BufferTypeOK, AskedAtExec
<1>2. CASE i \notin Params
  <2>1. ParamsIntact' <=> ParamsIntact
    BY <1>2 DEF ParamsIntact, Stale, IsTracked, Items
  <2>2. QED
    BY <1>2, <2>1, BuffersAssumption DEF BufferTypeOK, AskedAtExec, Items, TextSeen
<1>3. QED
  BY <1>1, <1>2

(* Every way to bind an item keeps the invariant.                          *)
LEMMA BindingStep ==
    ASSUME BufferTypeOK, BufferInv, NEW i \in Items, NEW b \in AppBuffers \cup {NullPtr},
           NEW kind \in BoundKinds,
           \/ /\ Wide(kind) /\ b # NullPtr /\ Tracks(i, b, kind)
              /\ kind = "wide_unsized" => AtExec(i)
           \/ /\ kind \notin {"wide", "wide_output"} /\ Untracks(i, b, kind)
              /\ kind = "wide_unsized" => ~AtExec(i)
           \/ ~Wide(kind) /\ PassesOn(i, b, kind),
           kind = "wide_output" => ~AtExec(i), TextSeen(i), wrapped_stmt,
           kind = "none" <=> b = NullPtr,
           i \in Columns => kind \in {"none", "narrow", "wide"},
           i \in Params => cursor # "need_data",
           b # NullPtr => Available(b, i),
           UNCHANGED <<indicator, wrapped_stmt, put_data_char_conversion, cursor, asked, unasked>>
    PROVE  BufferTypeOK' /\ BufferInv'
<1>1. PICK e \in Entries, address \in AppBuffers \cup Items \cup {NullPtr},
           old \in DriverBindings, mem \in Memories :
        /\ Consistent(i, b, kind, e, address)
        /\ e # NoBuffer => Wide(e.kind)
        /\ bound_buffers' = [bound_buffers EXCEPT ![i] = e]
        /\ DriverBinds(i, b, address, kind, old) /\ memory' = Keep(mem)
  <2>1. CASE /\ Wide(kind) /\ b # NullPtr /\ Tracks(i, b, kind)
             /\ kind = "wide_unsized" => AtExec(i)
    <3>1. Entry(i, b, kind) \in Entries /\ Wide(Entry(i, b, kind).kind)
      BY <2>1 DEF Entry, Entries, Wide, BufferKinds
    <3>2. [memory EXCEPT ![i] = Blank] \in Memories
      BY NothingType DEF BufferTypeOK, Memories
    <3>3. QED
      BY <2>1, <3>1, <3>2, DanglingType DEF Tracks, Consistent
  <2>2. CASE /\ kind \notin {"wide", "wide_output"} /\ Untracks(i, b, kind)
             /\ kind = "wide_unsized" => ~AtExec(i)
    BY <2>2, NothingType, DanglingType DEF Untracks, Consistent, BufferTypeOK, Memories
  <2>3. CASE ~Wide(kind) /\ PassesOn(i, b, kind)
    <3>1. bound_buffers[i] \in Entries /\ (bound_buffers[i] # NoBuffer => Wide(bound_buffers[i].kind))
      BY DEF BufferTypeOK, Entries, IsTracked
    <3>2. bound_buffers' = [bound_buffers EXCEPT ![i] = bound_buffers[i]]
      BY <2>3 DEF PassesOn, BufferTypeOK
    <3>3. QED
      BY <2>3, <3>1, <3>2, DanglingType DEF PassesOn, Consistent, BufferTypeOK, Memories
  <2>4. QED
    BY <2>1, <2>2, <2>3
<1>2. BufferTypeOK'
  BY <1>1, RebindsType
<1>3. BindingsApart' /\ BoundAsAsked' /\ DriverBuffersLive' /\ NothingBound'
  BY <1>1, Rebinds DEF BufferInv, NothingBound
<1>4. AskedAtExec'
  <2>1. \A j \in Items \ {i} : /\ bound_buffers'[j] = bound_buffers[j]
                               /\ binding'[j] = binding[j] /\ driver'[j] = driver[j]
                               /\ j \in refused' <=> j \in refused
    BY <1>1 DEF BufferTypeOK, DriverBinds
  <2>2. QED
    BY <2>1, AskedKept DEF BufferInv
<1>5. QED
  BY <1>2, <1>3, <1>4 DEF BufferInv

(* SQL_UNBIND and SQL_RESET_PARAMS leave no entry behind.                  *)
LEMMA ForgetsStep ==
    ASSUME BufferTypeOK, BufferInv, NEW items \in SUBSET Items, Forgets(items),
           put_data_char_conversion' \in BOOLEAN,
           \/ items = Columns /\ UNCHANGED put_data_char_conversion
           \/ items = Params /\ cursor # "need_data"
    PROVE  BufferTypeOK' /\ BufferInv'
<1>1. \A j \in Items \ items :
         /\ bound_buffers'[j] = bound_buffers[j] /\ binding'[j] = binding[j]
         /\ driver'[j] = driver[j]
         /\ j \in refused' <=> j \in refused
  BY DEF Forgets
<1>2. \A j \in items : /\ bound_buffers'[j] = NoBuffer /\ binding'[j] = Unbound
                       /\ driver'[j] = Unbound \/ j \in refused'
  BY DEF Forgets
<1>3. BufferTypeOK'
  <2>1. memory' \in Memories
    BY KeepType DEF Forgets, BufferTypeOK, Memories
  <2>2. bound_buffers' \in [Items -> Entries] /\ binding' \in [Items -> Bindings]
    BY NothingType DEF Forgets, BufferTypeOK, Entries, Bindings
  <2>3. driver' \in [Items -> DriverBindings] /\ refused' \subseteq Items
    BY NothingType, DanglingType DEF Forgets, BufferTypeOK
  <2>4. \A j \in Items : IsTracked(j)' => Wide(bound_buffers'[j].kind)
    BY <1>1, <1>2 DEF BufferTypeOK, IsTracked
  <2>5. QED
    BY <2>1, <2>2, <2>3, <2>4
       DEF Forgets, BufferTypeOK, Memories, Entries, Bindings, DriverBindings
<1>4. BindingsApart'
  <2>1. \A j \in Items : \/ /\ bound_buffers'[j] = bound_buffers[j]
                            /\ binding'[j] = binding[j]
                         \/ /\ bound_buffers'[j] = NoBuffer
                            /\ binding'[j].kind = "none" /\ binding'[j].address = NullPtr
    BY <1>1, <1>2 DEF Unbound
  <2>2. \A j \in Items : IsTracked(j)' => bound_buffers'[j].app_ptr # NullPtr
    BY <2>1 DEF BufferInv, BindingsApart, IsTracked
  <2>3. \A j \in Items : binding'[j].kind = "none" <=> binding'[j].address = NullPtr
    BY <2>1 DEF BufferInv, BindingsApart
  <2>4. \A c \in Columns : binding'[c].kind \in {"none", "narrow", "wide"}
    BY <2>1 DEF BufferInv, BindingsApart, Items
  <2>5. ASSUME NEW j \in Items, NEW k \in Items, j # k, binding'[j].address # NullPtr
        PROVE  binding'[j].address # binding'[k].address
    BY <2>1, <2>5 DEF BufferInv, BindingsApart
  <2>6. \A j \in Items : binding'[j].kind # "at_exec"
    BY <2>1 DEF BufferInv, BindingsApart
  <2>7. QED
    BY <2>2, <2>3, <2>4, <2>5, <2>6 DEF BindingsApart
<1>5. BoundAsAsked'
  <2> SUFFICES ASSUME NEW j \in Items \ refused'
               PROVE  EntryAsAsked(j)' /\ DriverAsAsked(j)'
    BY DEF BoundAsAsked
  <2>1. CASE j \in items
    BY <1>2, <2>1 DEF EntryAsAsked, DriverAsAsked, IsTracked, Unbound, Wide
  <2>2. CASE j \notin items
    <3>1. EntryAsAsked(j) /\ DriverAsAsked(j)
      BY <1>1, <2>2 DEF BufferInv, BoundAsAsked
    <3>2. j \in text_seen' <=> j \in text_seen
      BY <2>2 DEF Forgets
    <3>3. QED
      BY <1>1, <2>2, <3>1, <3>2 DEF EntryAsAsked, DriverAsAsked, EntryKinds, IsTracked, Stale
  <2>3. QED
    BY <2>1, <2>2
<1>6. DriverBuffersLive'
  <2>1. \A j \in items : j # NullPtr /\ NullPtr # Freed
    BY BuffersAssumption
  <2>2. QED
    BY <1>1, <1>2, <2>1 DEF BufferInv, DriverBuffersLive, Unbound
<1>7. AskedAtExec'
  <2>1. CASE cursor # "need_data"
    BY <2>1 DEF BufferTypeOK, BufferInv, AskedAtExec, Forgets
  <2>2. CASE items = Columns /\ UNCHANGED put_data_char_conversion
    <3>1. \A p \in Params : p \in Items \ items
      BY <2>2, BuffersAssumption DEF Items
    <3>2. ParamsIntact' <=> ParamsIntact
      BY <1>1, <3>1 DEF ParamsIntact, Stale, IsTracked
    <3>3. QED
      BY <1>1, <2>2, <3>1, <3>2, BuffersAssumption
         DEF BufferTypeOK, BufferInv, AskedAtExec, Forgets
  <2>3. QED
    BY <2>1, <2>2
<1>8. NothingBound'
  BY <1>1, <1>2 DEF Forgets, BufferInv, NothingBound
<1>9. QED
  BY <1>3, <1>4, <1>5, <1>6, <1>7, <1>8 DEF BufferInv

-----------------------------------------------------------------------------
(* Execution. *)

(* Before an execution, the entries and bindings of wide input parameters  *)
(* change as they may.                                                     *)
LEMMA ConvertStep ==
    ASSUME BufferTypeOK, BufferInv, ConvertBoundParamBuffersBeforeExecute
    PROVE  /\ bound_buffers' \in [Items -> Entries] /\ driver' \in [Items -> DriverBindings]
           /\ UNCHANGED <<binding, indicator>> /\ refused' \subseteq Items
           /\ text_seen' \subseteq Params
           /\ \A i \in Items : /\ bound_buffers'[i].kind = IF i \in Converted THEN "wide"
                                                          ELSE bound_buffers[i].kind
                               /\ bound_buffers'[i].app_ptr = bound_buffers[i].app_ptr
                               /\ IsTracked(i)' <=> IsTracked(i)
           /\ \A i \in Items \ refused' :
                 /\ i \notin refused
                 /\ driver'[i] = IF wrapped_stmt /\ i \in Converted
                                 THEN [address |-> i, kind |-> "wide"] ELSE driver[i]
           /\ ~wrapped_stmt => driver' = driver
           /\ BindingsApart' /\ BoundAsAsked' /\ DriverBuffersLive'
<1>1. PICK declined \in SUBSET (Converted \cap MayRefuse) :
        /\ driver' = [i \in Items |->
               CASE wrapped_stmt /\ i \in Converted \ declined ->
                        [address |-> i, kind |-> "wide"]
                 [] wrapped_stmt /\ i \in declined \cap Enlarged -> Dangling(i)
                 [] OTHER -> driver[i]]
        /\ refused' = IF wrapped_stmt THEN refused \cup declined ELSE refused
  BY DEF ConvertBoundParamBuffersBeforeExecute
<1>2. /\ UNCHANGED <<binding, indicator>>
      /\ text_seen' = text_seen \cup {p \in Params : ~AtExec(p)}
      /\ bound_buffers' = [p \in Items |->
               IF p \in Converted
               THEN [bound_buffers[p] EXCEPT !.kind = "wide", !.long = @ \/ p \in Enlarged]
               ELSE bound_buffers[p]]
  BY DEF ConvertBoundParamBuffersBeforeExecute
<1>3. /\ bound_buffers' \in [Items -> Entries]
      /\ \A i \in Items : /\ bound_buffers'[i].kind = IF i \in Converted THEN "wide"
                                                     ELSE bound_buffers[i].kind
                          /\ bound_buffers'[i].app_ptr = bound_buffers[i].app_ptr
  <2>1. \A i \in Items : /\ bound_buffers[i] \in Entries
                         /\ (i \in Enlarged) \in BOOLEAN
    BY DEF BufferTypeOK, Entries
  <2>2. ASSUME NEW e \in Entries, NEW more \in BOOLEAN
        PROVE  LET f == [e EXCEPT !.kind = "wide", !.long = @ \/ more]
               IN f \in Entries /\ f.kind = "wide" /\ f.app_ptr = e.app_ptr
    BY DEF Entries, BufferKinds
  <2>3. \A i \in Converted : i \in Items
    BY DEF Converted, Items
  <2>4. QED
    BY <1>2, <2>1, <2>2, <2>3
<1>4. \A i \in Items : IsTracked(i)' <=> IsTracked(i)
  <2>1. \A i \in Converted : bound_buffers'[i].kind = "wide" /\ IsTracked(i)
    BY <1>3 DEF Converted, Items, IsTracked, NoBuffer
  <2>2. \A i \in Items \ Converted : bound_buffers'[i] = bound_buffers[i]
    BY <1>2
  <2>3. QED
    <3>1. NoBuffer.kind # "wide"
      BY DEF NoBuffer
    <3>2. QED
      BY <2>1, <2>2, <3>1 DEF IsTracked
<1>5. driver' \in [Items -> DriverBindings] /\ refused' \subseteq Items
  <2>1. \A i \in Items : [address |-> i, kind |-> "wide"] \in DriverBindings
    BY DEF DriverBindings, BufferKinds
  <2>2. \A i \in Items : driver'[i] \in {driver[i], Dangling(i), [address |-> i, kind |-> "wide"]}
    BY <1>1
  <2>3. driver' \in [Items -> DriverBindings]
    <3>1. \A i \in Items : driver'[i] \in DriverBindings
      BY <2>1, <2>2, DanglingType
    <3>2. driver' = [i \in Items |-> driver'[i]]
      BY <1>1
    <3>3. QED
      BY <3>1, <3>2
  <2>4. QED
    BY <1>1, <2>3 DEF Converted, Items, BufferTypeOK
<1>6. BindingsApart' /\ text_seen' \subseteq Params
  BY <1>2, <1>3, <1>4 DEF BufferInv, BindingsApart, BufferTypeOK
<1>7. \A i \in Items \ refused' :
         /\ i \notin refused
         /\ driver'[i] = IF wrapped_stmt /\ i \in Converted
                         THEN [address |-> i, kind |-> "wide"] ELSE driver[i]
  <2> SUFFICES ASSUME NEW i \in Items \ refused'
               PROVE  /\ i \notin refused
                      /\ driver'[i] = IF wrapped_stmt /\ i \in Converted
                                      THEN [address |-> i, kind |-> "wide"] ELSE driver[i]
    OBVIOUS
  <2>1. i \notin refused /\ (wrapped_stmt => i \notin declined)
    BY <1>1
  <2>2. CASE ~wrapped_stmt \/ i \notin Converted
    BY <1>1, <2>1, <2>2
  <2>3. CASE wrapped_stmt /\ i \in Converted \ declined
    BY <1>1, <2>1, <2>3
  <2>4. QED
    BY <2>1, <2>2, <2>3
<1>8. \A i \in Items : Stale(i)' <=> Stale(i)
  BY <1>2, <1>4 DEF Stale
<1>9. \A i \in Items \ refused' :
         /\ EntryAsAsked(i)' /\ DriverAsAsked(i)'
         /\ driver'[i].address # Freed
         /\ driver'[i].address = i => HasLocal(bound_buffers'[i])
  <2> SUFFICES ASSUME NEW i \in Items \ refused'
               PROVE  /\ EntryAsAsked(i)' /\ DriverAsAsked(i)'
                      /\ driver'[i].address # Freed
                      /\ driver'[i].address = i => HasLocal(bound_buffers'[i])
    OBVIOUS
  <2>1. /\ i \notin refused /\ EntryAsAsked(i) /\ DriverAsAsked(i)
        /\ driver[i].address # Freed
        /\ driver[i].address = i => HasLocal(bound_buffers[i])
    BY <1>7 DEF BufferInv, BoundAsAsked, DriverBuffersLive
  <2>2. i # Freed
    BY BuffersAssumption
  <2>3. CASE i \in Converted
    <3>1. /\ bound_buffers'[i].kind = "wide" /\ HasLocal(bound_buffers'[i])
          /\ i \in text_seen' /\ i \in Params
          /\ bound_buffers[i].kind \in {"wide", "at_exec"}
      BY <1>2, <1>3, <2>3 DEF HasLocal, Converted
    <3>2. EntryAsAsked(i)'
      <4>1. i \notin Columns
        BY <3>1, BuffersAssumption
      <4>2. /\ binding'[i] = binding[i] /\ (IsTracked(i)' <=> IsTracked(i))
            /\ (Stale(i)' <=> Stale(i)) /\ bound_buffers'[i].app_ptr = bound_buffers[i].app_ptr
        BY <1>2, <1>3, <1>4, <1>8
      <4>3. IsTracked(i)' /\ ~Stale(i)' => bound_buffers'[i].kind \in EntryKinds(i)'
        <5>1. IsTracked(i) /\ ~Stale(i) => binding[i].kind # "wide_output"
          BY <2>1, <3>1 DEF EntryAsAsked, EntryKinds
        <5>2. QED
          BY <3>1, <4>1, <4>2, <5>1 DEF EntryKinds
      <4>4. QED
        BY <2>1, <3>1, <4>2, <4>3 DEF EntryAsAsked
    <3>3. DriverAsAsked(i)'
      <4>1. CASE wrapped_stmt
        <5>1. driver'[i] = [address |-> i, kind |-> "wide"]
          BY <1>7, <2>3, <4>1
        <5>2. IsTracked(i)
          BY <3>1 DEF IsTracked, NoBuffer
        <5>3. ~Stale(i) => binding[i].kind \in {"wide", "wide_unsized"}
          <6>1. ~Stale(i) => binding[i].kind # "wide_output"
            BY <2>1, <3>1, <5>2 DEF EntryAsAsked, EntryKinds
          <6>2. ~Stale(i) => Wide(binding[i].kind) /\ binding[i].kind # "at_exec"
            BY <5>2 DEF Stale, BufferInv, BindingsApart
          <6>3. QED
            BY <6>1, <6>2 DEF Wide
        <5>4. ~Stale(i)' => binding'[i].kind \in {"wide", "wide_unsized"}
          BY <1>2, <1>8, <5>3
        <5>5. QED
          BY <3>1, <5>1, <5>4 DEF DriverAsAsked, SameKind
      <4>2. CASE ~wrapped_stmt
        BY <1>7, <4>2 DEF DriverAsAsked, BufferInv, NothingBound
      <4>3. QED
        BY <4>1, <4>2
    <3>4. driver'[i].address # Freed
      <4>1. driver'[i] = driver[i] \/ driver'[i] = [address |-> i, kind |-> "wide"]
        BY <1>7
      <4>2. QED
        BY <2>1, <2>2, <4>1
    <3>5. QED
      BY <3>1, <3>2, <3>3, <3>4
  <2>4. CASE i \notin Converted
    <3>1. bound_buffers'[i] = bound_buffers[i] /\ driver'[i] = driver[i]
      BY <1>2, <1>7, <2>4
    <3>2. EntryAsAsked(i)'
      BY <1>2, <1>4, <1>8, <2>1, <3>1 DEF EntryAsAsked, EntryKinds
    <3>3. QED
      BY <1>2, <1>8, <2>1, <3>1, <3>2 DEF DriverAsAsked
  <2>5. QED
    BY <2>3, <2>4
<1>10. ~wrapped_stmt => driver' = driver
  BY <1>1 DEF BufferTypeOK
<1>11. QED
  BY <1>2, <1>3, <1>4, <1>5, <1>6, <1>7, <1>9, <1>10 DEF BoundAsAsked, DriverBuffersLive

(* Without a refusal and without a stale entry, the driver is bound as the *)
(* application asked.                                                      *)
LEMMA IntactBinding ==
    ASSUME BufferTypeOK, BufferInv, Intact, NEW i \in Items
    PROVE  /\ IsTracked(i) => /\ bound_buffers[i].app_ptr = binding[i].address
                              /\ bound_buffers[i].kind \in EntryKinds(i)
           /\ binding[i].kind \in {"wide", "wide_output"} => IsTracked(i)
           /\ driver[i] # Unbound =>
                 /\ driver[i].address = IF HasLocal(bound_buffers[i]) THEN i
                                        ELSE binding[i].address
                 /\ SameKind(driver[i].kind, binding[i].kind)
<1>1. i \notin refused /\ ~Stale(i)
  BY DEF Intact, Stale
<1>2. QED
  BY <1>1 DEF BufferInv, BoundAsAsked, EntryAsAsked, DriverAsAsked

(* No buffer of the application is the local buffer of an item, and those  *)
(* of two items differ.                                                    *)
LEMMA IntactApart ==
    ASSUME BufferTypeOK, BufferInv, Intact, NEW i \in Items,
           binding[i].kind # "none" \/ IsTracked(i)
    PROVE  /\ binding[i].address \in AppBuffers /\ binding[i].address \notin Items
           /\ \A j \in Items : bound_buffers[j].app_ptr = binding[i].address
                                 => j = i /\ IsTracked(i)
           /\ \A j \in Items : binding[j].address = binding[i].address => j = i
<1>1. binding[i].address # NullPtr
  BY IntactBinding DEF BufferInv, BindingsApart
<1>2. binding[i].address \in AppBuffers /\ binding[i].address \notin Items
  BY <1>1, BuffersAssumption DEF BufferTypeOK
<1>3. \A j \in Items : binding[j].address = binding[i].address => j = i
  BY <1>1 DEF BufferInv, BindingsApart
<1>4. ASSUME NEW j \in Items, bound_buffers[j].app_ptr = binding[i].address
      PROVE  j = i /\ IsTracked(i)
  <2>1. IsTracked(j)
    BY <1>1, <1>4 DEF IsTracked, NoBuffer
  <2>2. bound_buffers[j].app_ptr = binding[j].address
    BY <2>1, IntactBinding
  <2>3. QED
    BY <1>3, <1>4, <2>1, <2>2
<1>5. QED
  BY <1>2, <1>3, <1>4

(* What a prepared execution sends and receives.                           *)
LEMMA ExecutionConverts ==
    ASSUME BufferTypeOK, BufferInv, ConvertBoundParamBuffersBeforeExecute, wrapped_stmt, Intact',
           NEW out \in Rows, NEW p \in Params,
           memory' = ConvertBoundParamBuffersAfterExecute(
                         OutputsWritten(ConvertedTexts, out))
    PROVE  LET text == memory'[binding'[p].address] IN
           /\ p \in DOMAIN Sent(ConvertedTexts) =>
                 IF AtExec(p)' THEN p \in text_seen' /\ Wide(binding'[p].kind)
                 ELSE Sent(ConvertedTexts)[p] =
                          IF binding'[p].kind = "wide" \/ IsTracked(p)'
                          THEN [text EXCEPT !.encoding = "driver"] ELSE text
           /\ driver'[p].kind = "wide_output" => text = [value |-> out, encoding |-> "app"]
<1>1. p \in Items /\ Intact /\ refused = {} /\ refused' = {}
  BY ConvertStep DEF Intact, Items, ConvertBoundParamBuffersBeforeExecute
<1>2. binding' = binding /\ (IsTracked(p)' <=> IsTracked(p)) /\ (AtExec(p)' <=> AtExec(p))
  BY <1>1, ConvertStep DEF AtExec
<1> DEFINE a == binding[p].address
<1>3. /\ IsTracked(p) => bound_buffers[p].app_ptr = a /\ bound_buffers[p].kind \in EntryKinds(p)
      /\ IsTracked(p) => Wide(binding[p].kind)
      /\ binding[p].kind \in {"wide", "wide_output"} => IsTracked(p)
  BY <1>1, IntactBinding DEF Intact
<1>4. /\ EntryAsAsked(p)' /\ DriverAsAsked(p)'
      /\ ~Stale(p)'
  BY <1>1, ConvertStep DEF BoundAsAsked, Intact, Stale
<1>5. driver'[p] # Unbound =>
         /\ driver'[p].address = IF HasLocal(bound_buffers'[p]) THEN p ELSE a
         /\ SameKind(driver'[p].kind, binding[p].kind)
  BY <1>2, <1>4 DEF DriverAsAsked
<1>6. p \notin Converted => HasLocal(bound_buffers'[p]) = HasLocal(bound_buffers[p])
  BY <1>1, ConvertStep DEF HasLocal
<1>7. ASSUME driver'[p] # Unbound
      PROVE  /\ a \in AppBuffers /\ a \notin Items /\ a # p
             /\ \A q \in Items : bound_buffers[q].app_ptr = a => q = p /\ IsTracked(p)
  <2>1. ASSUME binding[p].kind = "none", ~IsTracked(p) PROVE FALSE
    <3>1. p \notin Converted /\ ~HasLocal(bound_buffers[p])
      BY <2>1 DEF Converted, HasLocal, IsTracked, NoBuffer
    <3>2. driver'[p].address = a /\ driver'[p].kind = "none"
      BY <1>5, <1>6, <1>7, <2>1, <3>1 DEF SameKind
    <3>3. a = NullPtr
      BY <1>1, <2>1 DEF BufferInv, BindingsApart
    <3>4. driver'[p] = [address |-> driver'[p].address, kind |-> driver'[p].kind]
      BY <1>1, ConvertStep DEF DriverBindings
    <3>5. QED
      BY <1>7, <3>2, <3>3, <3>4 DEF Unbound
  <2>2. QED
    BY <1>1, <2>1, IntactApart
<1>8. ASSUME p \in DOMAIN Sent(ConvertedTexts)
      PROVE  IF AtExec(p) THEN p \in text_seen' /\ Wide(binding[p].kind)
             ELSE Sent(ConvertedTexts)[p] =
                      IF binding[p].kind = "wide" \/ IsTracked(p)
                      THEN [memory'[a] EXCEPT !.encoding = "driver"] ELSE memory'[a]
  <2>1. Plain(p) /\ driver'[p].kind \notin {"none", "wide_output"} /\ driver'[p] # Unbound
    BY <1>8 DEF Sent, Plain, IsInput, Unbound
  <2>2. binding[p].kind \notin {"none", "wide_output"}
    BY <1>5, <2>1 DEF SameKind
  <2>3. IsTracked(p) => bound_buffers[p].kind \in {"wide", "at_exec"}
    <3>1. p \notin Columns
      BY BuffersAssumption
    <3>2. QED
      BY <1>3, <2>2, <3>1 DEF EntryKinds
  <2>4. ASSUME AtExec(p) PROVE p \in text_seen' /\ Wide(binding[p].kind)
    <3>1. driver'[p].address \notin AppBuffers
      BY <1>2, <2>1, <2>4 DEF Plain, Awaited, IsInput
    <3>2. HasLocal(bound_buffers'[p])
      BY <1>5, <1>7, <2>1, <3>1
    <3>3. IsTracked(p)' /\ bound_buffers'[p].kind # "at_exec"
      BY <3>2 DEF IsTracked, HasLocal, NoBuffer
    <3>4. QED
      BY <1>2, <1>3, <1>4, <3>3 DEF EntryAsAsked
  <2>5. ASSUME ~AtExec(p)
        PROVE  Sent(ConvertedTexts)[p] =
                   IF binding[p].kind = "wide" \/ IsTracked(p)
                   THEN [memory'[a] EXCEPT !.encoding = "driver"] ELSE memory'[a]
    <3>1. \A q \in Outputs : bound_buffers[q].app_ptr # a
      <4>1. ASSUME NEW q \in Outputs, bound_buffers[q].app_ptr = a PROVE FALSE
        <5>1. q = p /\ IsTracked(p)
          BY <1>7, <2>1, <4>1 DEF Outputs, Items
        <5>2. QED
          BY <2>3, <4>1, <5>1 DEF Outputs
      <4>2. QED
        BY <4>1
    <3>2. memory'[a] = memory[a] /\ ConvertedTexts[a] = memory[a]
      <4>1. a \in AppBuffers /\ a \notin Params /\ a \notin Converted
        BY <1>7, <2>1 DEF Items, Converted
      <4>2. OutputsWritten(ConvertedTexts, out)[a] = ConvertedTexts[a]
        BY <4>1 DEF OutputsWritten
      <4>3. QED
        BY <3>1, <4>1, <4>2 DEF ConvertBoundParamBuffersAfterExecute, ConvertedTexts
    <3>3. Sent(ConvertedTexts)[p] = ConvertedTexts[driver'[p].address]
      <4>1. driver'[p].address # Freed
        BY <1>1, ConvertStep DEF DriverBuffersLive
      <4>2. QED
        BY <2>1, <4>1 DEF Sent
    <3>4. CASE IsTracked(p)
      <4>1. p \in Converted /\ bound_buffers[p].app_ptr = a
        BY <1>3, <2>3, <2>5, <3>4 DEF Converted
      <4>2. driver'[p].address = p
        BY <1>1, <4>1, ConvertStep
      <4>3. ConvertedTexts[p] = [value |-> memory[a].value, encoding |-> "driver"]
        BY <1>1, <4>1 DEF ConvertedTexts
      <4>4. memory[a] = [value |-> memory[a].value, encoding |-> memory[a].encoding]
        BY <1>7, <2>1 DEF BufferTypeOK, Contents
      <4>5. QED
        BY <3>2, <3>3, <3>4, <4>2, <4>3, <4>4
    <3>5. CASE ~IsTracked(p)
      <4>1. p \notin Converted /\ ~HasLocal(bound_buffers[p])
        BY <3>5 DEF Converted, HasLocal, IsTracked, NoBuffer
      <4>2. driver'[p].address = a
        BY <1>5, <1>6, <2>1, <4>1
      <4>3. QED
        BY <1>3, <3>2, <3>3, <3>5, <4>2
    <3>6. QED
      BY <3>4, <3>5
  <2>6. QED
    BY <2>4, <2>5
<1>9. ASSUME driver'[p].kind = "wide_output"
      PROVE  memory'[a] = [value |-> out, encoding |-> "app"]
  <2>1. driver'[p] # Unbound /\ binding[p].kind = "wide_output"
    BY <1>5, <1>9 DEF Unbound, SameKind
  <2>2. IsTracked(p) /\ bound_buffers[p].app_ptr = a /\ bound_buffers[p].kind = "wide_output"
    BY <1>3, <2>1 DEF EntryKinds
  <2>3. p \in Outputs /\ \A q \in Outputs : bound_buffers[q].app_ptr = a => q = p
    BY <1>7, <2>1, <2>2 DEF Outputs, Items
  <2>4. driver'[p] = [address |-> p, kind |-> "wide_output"]
    <3>1. HasLocal(bound_buffers'[p])
      BY <1>1, <2>2, ConvertStep DEF HasLocal, Converted
    <3>2. driver'[p] = [address |-> driver'[p].address, kind |-> driver'[p].kind]
      BY <1>1, ConvertStep DEF DriverBindings
    <3>3. QED
      BY <1>5, <1>9, <2>1, <3>1, <3>2
  <2>5. OutputsWritten(ConvertedTexts, out)[p] = [value |-> out, encoding |-> "driver"]
    BY <1>1, <2>4 DEF OutputsWritten
  <2>6. a \in AppBuffers \cup Items
    BY <1>7, <2>1
  <2>7. QED
    BY <2>2, <2>3, <2>5, <2>6 DEF ConvertBoundParamBuffersAfterExecute
<1>10. QED
  BY <1>2, <1>8, <1>9

(* Nothing but an execution that succeeds delivers parameters, and nothing *)
(* but a fetch delivers a row.                                             *)
Delivered == FetchDelivers /\ (delivery.of = "prepared" => PreparedExecutionConverts)

(* A step that delivers nothing promises nothing.                          *)
LEMMA NothingDelivered == ASSUME delivery' = Nothing PROVE Delivered'
BY DEF Delivered, FetchDelivers, Nothing

(* An execution keeps the types.                                           *)
LEMMA AskingType ==
    ASSUME BufferTypeOK, ExecutionFails \/ AsksForData \/ \E how, mem, out : Runs(how, mem, out),
           cursor # "need_data"
    PROVE  /\ cursor' \in {"idle", "prepared", "open", "need_data"}
           /\ asked' \in Params \cup {NullPtr} /\ unasked' \subseteq Params
           /\ cursor' # "need_data" => asked' = NullPtr /\ unasked' = {}
           /\ asked' = NullPtr
           /\ \A p \in unasked' : driver'[p].address \in AppBuffers
BY DEF BufferTypeOK, ExecutionFails, AsksForData, Awaited, Runs

(* A prepared execution.                                                   *)
LEMMA ExecuteStep ==
    ASSUME BufferTypeOK, BufferInv, SQLExecute PROVE BufferTypeOK' /\ BufferInv' /\ Delivered'
<1>1. cursor # "need_data" /\ ConvertBoundParamBuffersBeforeExecute
  BY DEF SQLExecute
<1>2. \/ /\ memory' = ConvertedTexts
         /\ ExecutionFails \/ (wrapped_stmt /\ AsksForData)
      \/ \E out \in Rows :
             /\ wrapped_stmt /\ Runs("prepared", ConvertedTexts, out)
             /\ memory' = ConvertBoundParamBuffersAfterExecute(
                              OutputsWritten(ConvertedTexts, out))
  BY DEF SQLExecute
<1>3. memory' \in Memories
  <2>1. ConvertedTexts \in Memories
    BY WritesType DEF BufferInv
  <2>2. ASSUME NEW out \in Rows
        PROVE  ConvertBoundParamBuffersAfterExecute(OutputsWritten(ConvertedTexts, out))
                 \in Memories
    BY <2>1, WritesType DEF BufferInv
  <2>3. QED
    BY <1>2, <2>1, <2>2
<1>4. ExecutionFails \/ AsksForData \/ \E how, mem, out : Runs(how, mem, out)
  BY <1>2
<1>5. BufferTypeOK'
  <2>1. wrapped_stmt' \in BOOLEAN /\ UNCHANGED put_data_char_conversion
    BY DEF SQLExecute, BufferTypeOK
  <2>2. ~wrapped_stmt' => cursor' = "idle"
    BY <1>2 DEF SQLExecute, BufferTypeOK, ExecutionFails
  <2>3. \A i \in Items : IsTracked(i)' => Wide(bound_buffers'[i].kind)
    BY <1>1, ConvertStep DEF BufferTypeOK, Wide
  <2>4. QED
    BY <1>1, <1>3, <1>4, <2>1, <2>2, <2>3, ConvertStep, AskingType
       DEF BufferTypeOK, Memories, Entries, DriverBindings
<1>6. AskedAtExec'
  BY <1>1, <1>4, AskingType DEF AskedAtExec
<1>7. BufferInv'
  <2>1. ~wrapped_stmt' => ~wrapped_stmt
    BY DEF SQLExecute, BufferTypeOK
  <2>2. NothingBound'
    BY <1>1, <2>1, ConvertStep DEF BufferInv, NothingBound
  <2>3. QED
    BY <1>1, <1>6, <2>2, ConvertStep DEF BufferInv
<1>8. Delivered'
  <2>1. CASE delivery' = Nothing
    BY <2>1, NothingDelivered
  <2>2. ASSUME NEW out \in Rows, wrapped_stmt, Runs("prepared", ConvertedTexts, out),
               memory' = ConvertBoundParamBuffersAfterExecute(
                              OutputsWritten(ConvertedTexts, out))
        PROVE  Delivered'
    <3>1. /\ delivery'.of = "prepared" /\ delivery'.params = Sent(ConvertedTexts)
          /\ delivery'.out = out
      BY <2>2 DEF Runs
    <3>2. asked' = NullPtr
      BY <1>1, <1>4, AskingType
    <3>3. Intact' => PreparedExecutionConverts'
      BY <1>1, <2>2, <3>1, <3>2, ExecutionConverts DEF PreparedExecutionConverts
    <3>4. QED
      BY <3>1, <3>3 DEF Delivered, FetchDelivers, PreparedExecutionConverts
  <2>3. QED
    BY <1>2, <2>1, <2>2 DEF ExecutionFails, AsksForData
<1>9. QED
  BY <1>5, <1>7, <1>8

(* A direct execution converts nothing and promises nothing.               *)
LEMMA ExecDirectStep ==
    ASSUME BufferTypeOK, BufferInv, SQLExecDirect PROVE BufferTypeOK' /\ BufferInv' /\ Delivered'
<1>1. /\ cursor # "need_data"
      /\ UNCHANGED <<appVars, bound_buffers, put_data_char_conversion, driver, refused>>
  BY DEF SQLExecDirect
<1>2. \/ memory' = memory /\ (ExecutionFails \/ AsksForData)
      \/ \E out \in Rows : /\ Runs("direct", memory, out)
                           /\ memory' = OutputsWritten(memory, out)
  BY DEF SQLExecDirect
<1>3. memory' \in Memories
  <2>1. memory \in Memories
    BY DEF BufferTypeOK, Memories
  <2>2. QED
    BY <1>2, <2>1, WritesType DEF BufferInv
<1>4. ExecutionFails \/ AsksForData \/ \E how, mem, out : Runs(how, mem, out)
  BY <1>2
<1>5. BufferTypeOK'
  <2>1. wrapped_stmt' \in {wrapped_stmt, TRUE} /\ (cursor' # cursor => wrapped_stmt')
    BY Zenon DEF SQLExecDirect
  <2>2. wrapped_stmt' \in BOOLEAN
    BY <2>1 DEF BufferTypeOK
  <2>3. ~wrapped_stmt' => cursor' = "idle"
    <3>1. ~wrapped_stmt' => ~wrapped_stmt /\ cursor' = cursor
      BY <2>1 DEF BufferTypeOK
    <3>2. QED
      BY <3>1 DEF BufferTypeOK
  <2>4. QED
    BY <1>1, <1>3, <1>4, <2>2, <2>3, AskingType
       DEF BufferTypeOK, Memories, IsTracked, appVars
<1>6. BufferInv'
  <2>1. AskedAtExec'
    BY <1>1, <1>4, AskingType DEF AskedAtExec
  <2>2. BindingsApart' /\ BoundAsAsked' /\ DriverBuffersLive'
    BY <1>1
       DEF BufferInv, BindingsApart, BoundAsAsked, EntryAsAsked, EntryKinds, DriverAsAsked,
           DriverBuffersLive, IsTracked, Stale, appVars
  <2>3. NothingBound'
    <3>1. wrapped_stmt' \in {wrapped_stmt, TRUE}
      BY Zenon DEF SQLExecDirect
    <3>2. QED
      BY <1>1, <3>1 DEF BufferInv, BufferTypeOK, NothingBound
  <2>4. QED
    BY <2>1, <2>2, <2>3 DEF BufferInv
<1>7. Delivered'
  <2>1. delivery' = Nothing \/ delivery'.of = "direct"
    BY <1>2 DEF ExecutionFails, AsksForData, Runs
  <2>2. QED
    BY <2>1, NothingDelivered DEF Delivered, FetchDelivers
<1>8. QED
  BY <1>5, <1>6, <1>7

-----------------------------------------------------------------------------
(* Every other step. *)

(* Binding a column makes an entry or erases it, and the driver is given a *)
(* free buffer or the local one.                                           *)
LEMMA SQLBindColStep ==
    ASSUME BufferTypeOK, BufferInv, NEW c \in Columns, NEW b \in AppBuffers,
           NEW kind \in ColumnKinds, SQLBindCol(c, b, kind)
    PROVE  BufferTypeOK' /\ BufferInv' /\ Delivered'
<1>1. c \in Items /\ c \notin Params /\ kind \in {"narrow", "wide"} /\ b # NullPtr
  BY BuffersAssumption DEF Items
<1>2. kind \in BoundKinds
  BY <1>1 DEF BoundKinds
<1>3. IF kind = "wide" THEN Tracks(c, b, kind) ELSE PassesOn(c, b, kind)
  BY DEF SQLBindCol
<1>4. \/ /\ Wide(kind) /\ b # NullPtr /\ Tracks(c, b, kind)
         /\ kind \notin {"wide_unsized", "wide_output"}
      \/ ~Wide(kind) /\ PassesOn(c, b, kind)
  BY <1>1, <1>3 DEF Wide
<1>5. /\ Available(b, c) /\ delivery' = Nothing /\ TextSeen(c) /\ wrapped_stmt
      /\ UNCHANGED <<indicator, wrapped_stmt, put_data_char_conversion, cursor, asked, unasked>>
  BY <1>1 DEF SQLBindCol, BufferTypeOK, TextSeen
<1>6. kind # "none" /\ kind # "wide_output"
  BY <1>1
<1>7. BufferTypeOK' /\ BufferInv'
  BY <1>1, <1>2, <1>4, <1>5, <1>6, BindingStep
<1>8. QED
  BY <1>5, <1>7, NothingDelivered

(* Binding a column to no buffer unbinds it.                               *)
LEMMA SQLBindColNullStep ==
    ASSUME BufferTypeOK, BufferInv, NEW c \in Columns, SQLBindColNull(c)
    PROVE  BufferTypeOK' /\ BufferInv' /\ Delivered'
<1>1. c \in Items /\ c \notin Params /\ "none" \in BoundKinds
  BY BuffersAssumption DEF Items, BoundKinds
<1>2. /\ Untracks(c, NullPtr, "none") /\ delivery' = Nothing /\ TextSeen(c) /\ wrapped_stmt
      /\ UNCHANGED <<indicator, wrapped_stmt, put_data_char_conversion, cursor, asked, unasked>>
  BY <1>1 DEF SQLBindColNull, BufferTypeOK, TextSeen
<1>3. BufferTypeOK' /\ BufferInv'
  BY <1>1, <1>2, BindingStep
<1>4. QED
  BY <1>2, <1>3, NothingDelivered

(* Binding a parameter makes an entry if it is wide, and otherwise leaves  *)
(* the one it has.                                                         *)
LEMMA SQLBindParameterStep ==
    ASSUME BufferTypeOK, BufferInv, NEW p \in Params, NEW b \in AppBuffers,
           NEW kind \in ParamKinds, SQLBindParameter(p, b, kind)
    PROVE  BufferTypeOK' /\ BufferInv' /\ Delivered'
<1>1. /\ p \in Items /\ p \notin Columns /\ b # NullPtr
      /\ kind \in {"narrow", "wide", "wide_output", "wide_unsized"}
  BY BuffersAssumption DEF Items
<1>2. kind \in BoundKinds /\ kind # "none" /\ (kind = "wide_output" => ~AtExec(p))
  BY <1>1 DEF BoundKinds, SQLBindParameter
<1>3. (CASE kind = "narrow" -> PassesOn(p, b, kind)
         [] kind = "wide_unsized" /\ ~AtExec(p) -> Untracks(p, b, kind)
         [] OTHER -> Tracks(p, b, kind))
  BY DEF SQLBindParameter
<1>4. \/ /\ Wide(kind) /\ b # NullPtr /\ Tracks(p, b, kind)
         /\ kind = "wide_unsized" => AtExec(p)
      \/ /\ kind \notin {"wide", "wide_output"} /\ Untracks(p, b, kind)
         /\ kind = "wide_unsized" => ~AtExec(p)
      \/ ~Wide(kind) /\ PassesOn(p, b, kind)
  <2>1. CASE kind = "narrow"
    BY <1>3, <2>1 DEF Wide
  <2>2. CASE kind = "wide_unsized" /\ ~AtExec(p)
    BY <1>3, <2>2
  <2>3. CASE kind # "narrow" /\ ~(kind = "wide_unsized" /\ ~AtExec(p))
    BY <1>1, <1>3, <2>3 DEF Wide
  <2>4. QED
    BY <2>1, <2>2, <2>3
<1>5. /\ Available(b, p) /\ cursor # "need_data" /\ delivery' = Nothing /\ TextSeen(p)
      /\ wrapped_stmt
      /\ UNCHANGED <<indicator, wrapped_stmt, put_data_char_conversion, cursor, asked, unasked>>
  BY DEF SQLBindParameter, BufferTypeOK, TextSeen
<1>6. BufferTypeOK' /\ BufferInv'
  BY <1>1, <1>2, <1>4, <1>5, BindingStep
<1>7. QED
  BY <1>5, <1>6, NothingDelivered

(* SQL_UNBIND forgets all columns.                                         *)
LEMMA UnbindStep ==
    ASSUME BufferTypeOK, BufferInv, Unbind PROVE BufferTypeOK' /\ BufferInv' /\ Delivered'
<1>1. BufferTypeOK' /\ BufferInv'
  BY ForgetsStep DEF Unbind, Items, BufferTypeOK
<1>2. QED
  BY <1>1, NothingDelivered DEF Unbind, Forgets

(* SQL_RESET_PARAMS forgets all parameters.                                *)
LEMMA ResetParamsStep ==
    ASSUME BufferTypeOK, BufferInv, ResetParams PROVE BufferTypeOK' /\ BufferInv' /\ Delivered'
<1>1. BufferTypeOK' /\ BufferInv'
  BY ForgetsStep DEF ResetParams, Items
<1>2. QED
  BY <1>1, NothingDelivered DEF ResetParams, Forgets

(* A step that leaves the bindings and the parameters asked for alone      *)
(* keeps the invariant.                                                    *)
LEMMA BindingsKept ==
    ASSUME BufferTypeOK, BufferInv,
           UNCHANGED <<binding, text_seen, wrapped_stmt, bound_buffers, driver, refused,
                       asked, unasked, put_data_char_conversion>>
    PROVE  BufferInv'
BY DEF BufferInv, NothingBound, BindingsApart, BoundAsAsked, EntryAsAsked, EntryKinds, DriverAsAsked,
       AskedAtExec, DriverBuffersLive, ParamsIntact, Stale, IsTracked

(* The application writes to its own buffers only.                         *)
LEMMA WriteParamStep ==
    ASSUME BufferTypeOK, BufferInv, NEW p \in Params, NEW text \in Texts, WriteParam(p, text)
    PROVE  BufferTypeOK' /\ BufferInv' /\ Delivered'
<1>1. UNCHANGED <<appVars, stmtVars, driverVars>> /\ delivery' = Nothing
  BY DEF WriteParam
<1>2. memory' \in Memories
  <2>1. PICK encoding \in {"app", "plain"} :
           memory' = [memory EXCEPT ![binding[p].address] =
                         [value |-> text, encoding |-> encoding]]
    BY DEF WriteParam
  <2>2. [value |-> text, encoding |-> encoding] \in Contents
    BY DEF Contents
  <2>3. QED
    BY <2>1, <2>2 DEF BufferTypeOK, Memories
<1>3. BufferTypeOK'
  BY <1>1, <1>2 DEF BufferTypeOK, Memories, IsTracked, appVars, stmtVars, driverVars
<1>4. QED
  BY <1>1, <1>3, BindingsKept, NothingDelivered DEF appVars, stmtVars, driverVars

(* What an indicator says binds nothing.                                   *)
LEMMA SetIndicatorStep ==
    ASSUME BufferTypeOK, BufferInv, NEW p \in Params, NEW ind \in Indicators,
           SetIndicator(p, ind)
    PROVE  BufferTypeOK' /\ BufferInv' /\ Delivered'
<1>1. /\ UNCHANGED <<memory, binding, text_seen, stmtVars, driverVars>> /\ delivery' = Nothing
      /\ indicator' \in [Params -> Indicators]
  BY DEF SetIndicator, BufferTypeOK
<1>2. BufferTypeOK'
  BY <1>1 DEF BufferTypeOK, IsTracked, stmtVars, driverVars
<1>3. QED
  BY <1>1, <1>2, BindingsKept, NothingDelivered DEF stmtVars, driverVars

(* Preparing binds nothing.                                                *)
LEMMA SQLPrepareStep ==
    ASSUME BufferTypeOK, BufferInv, SQLPrepare PROVE BufferTypeOK' /\ BufferInv' /\ Delivered'
<1>1. BufferTypeOK'
  BY DEF BufferTypeOK, SQLPrepare, IsTracked, appVars, stmtVars
<1>2. QED
  BY <1>1, BindingsKept, NothingDelivered DEF SQLPrepare, appVars, stmtVars

(* The token of a parameter whose data comes at execution is a buffer that *)
(* is bound once: it is in the list if the parameter is wide.              *)
LEMMA TokenOfWide ==
    ASSUME BufferTypeOK, BufferInv, ParamsIntact, NEW p \in Params,
           driver[p].address \in AppBuffers
    PROVE  /\ IsWideToken(driver[p].address) => Wide(driver[p].kind)
           /\ Wide(driver[p].kind) /\ p \notin text_seen => IsWideToken(driver[p].address)
<1> DEFINE a == binding[p].address
<1>1. \A q \in Params : q \in Items /\ ~Stale(q) /\ EntryAsAsked(q) /\ DriverAsAsked(q)
  BY DEF ParamsIntact, Items, BufferInv, BoundAsAsked
<1>2. driver[p].address = a /\ SameKind(driver[p].kind, binding[p].kind) /\ a # NullPtr
  <2>1. driver[p].address \notin {NullPtr, p}
    BY BuffersAssumption DEF Items
  <2>2. driver[p] # Unbound
    BY <2>1 DEF Unbound
  <2>3. QED
    BY <1>1, <2>1, <2>2 DEF DriverAsAsked
<1>3. ASSUME IsWideToken(a) PROVE Wide(driver[p].kind)
  <2>1. PICK q \in Params : bound_buffers[q].app_ptr = a
    BY <1>3 DEF IsWideToken
  <2>2. IsTracked(q)
    BY <1>2, <2>1 DEF IsTracked, NoBuffer
  <2>3. binding[q].address = a
    BY <1>1, <2>1, <2>2 DEF EntryAsAsked
  <2>4. q = p
    BY <1>1, <1>2, <2>3 DEF BufferInv, BindingsApart
  <2>5. Wide(binding[p].kind)
    BY <1>1, <2>2, <2>4 DEF Stale
  <2>6. QED
    BY <1>2, <2>5 DEF SameKind, Wide
<1>4. ASSUME Wide(driver[p].kind), p \notin text_seen PROVE IsWideToken(a)
  <2>1. Wide(binding[p].kind)
    BY <1>2, <1>4 DEF SameKind, Wide
  <2>2. bound_buffers[p].kind = "at_exec"
    BY <1>1, <1>4, <2>1 DEF EntryAsAsked
  <2>3. IsTracked(p)
    BY <2>2 DEF IsTracked, NoBuffer
  <2>4. QED
    BY <1>1, <2>3 DEF EntryAsAsked, IsWideToken
<1>5. QED
  BY <1>2, <1>3, <1>4

(* The parameter data is asked for next is one whose data comes at         *)
(* execution, and the flag is that of its binding.                         *)
LEMMA SQLParamDataStep ==
    ASSUME BufferTypeOK, BufferInv, SQLParamData PROVE BufferTypeOK' /\ BufferInv' /\ Delivered'
<1>1. /\ wrapped_stmt /\ cursor = "need_data" /\ delivery' = Nothing
      /\ UNCHANGED <<memory, appVars, wrapped_stmt, bound_buffers, driver, refused>>
  BY Zenon DEF SQLParamData
<1>2. \/ \E p \in unasked :
            /\ asked' = p /\ unasked' = unasked \ {p} /\ cursor' = cursor
            /\ put_data_char_conversion' = IsWideToken(driver[p].address)
      \/ /\ cursor' \in {"open", "idle"}
         /\ asked' = NullPtr /\ unasked' = {} /\ put_data_char_conversion' = FALSE
  BY Zenon DEF SQLParamData
<1>3. /\ cursor' \in {"idle", "open", "need_data"} /\ put_data_char_conversion' \in BOOLEAN
      /\ asked' \in Params \cup {NullPtr} /\ unasked' \subseteq Params
      /\ cursor' # "need_data" => asked' = NullPtr /\ unasked' = {}
  <2>1. CASE \E p \in unasked :
               /\ asked' = p /\ unasked' = unasked \ {p} /\ cursor' = cursor
               /\ put_data_char_conversion' = IsWideToken(driver[p].address)
    BY <1>1, <2>1 DEF BufferTypeOK, IsWideToken
  <2>2. CASE /\ cursor' \in {"open", "idle"}
             /\ asked' = NullPtr /\ unasked' = {} /\ put_data_char_conversion' = FALSE
    BY <2>2
  <2>3. QED
    BY <1>2, <2>1, <2>2
<1>4. BufferTypeOK'
  BY <1>1, <1>3 DEF BufferTypeOK, IsTracked, appVars
<1>5. AskedAtExec'
  <2>1. (ParamsIntact' <=> ParamsIntact) /\ text_seen' = text_seen
    BY <1>1 DEF ParamsIntact, Stale, IsTracked, appVars
  <2>2. \A p \in unasked : driver[p].address \in AppBuffers /\ p \in Params
    BY DEF BufferInv, AskedAtExec, BufferTypeOK
  <2>3. ASSUME NEW p \in unasked, asked' = p, unasked' = unasked \ {p},
               put_data_char_conversion' = IsWideToken(driver[p].address)
        PROVE  AskedAtExec'
    <3>1. ParamsIntact =>
             /\ put_data_char_conversion' => Wide(driver[p].kind)
             /\ Wide(driver[p].kind) /\ p \notin text_seen => put_data_char_conversion'
      BY <2>2, <2>3, TokenOfWide
    <3>2. \A q \in unasked' : driver'[q].address \in AppBuffers
      BY <1>1, <2>2, <2>3
    <3>3. QED
      BY <1>1, <2>1, <2>3, <3>1, <3>2 DEF AskedAtExec
  <2>4. CASE asked' = NullPtr /\ unasked' = {}
    BY <2>4 DEF AskedAtExec
  <2>5. QED
    BY <1>2, <2>3, <2>4
<1>6. BindingsApart' /\ BoundAsAsked' /\ DriverBuffersLive' /\ NothingBound'
  BY <1>1
     DEF BufferInv, NothingBound, BindingsApart, BoundAsAsked, EntryAsAsked, EntryKinds, DriverAsAsked,
         DriverBuffersLive, IsTracked, Stale, appVars
<1>7. QED
  BY <1>1, <1>4, <1>5, <1>6, NothingDelivered DEF BufferInv

(* Sending a part of a parameter's data changes no binding.                *)
LEMMA SQLPutDataStep ==
    ASSUME BufferTypeOK, BufferInv, NEW text \in Texts, SQLPutData(text)
    PROVE  BufferTypeOK' /\ BufferInv' /\ Delivered'
<1>1. UNCHANGED <<memory, appVars, stmtVars, driverVars>> /\ delivery'.of = "put_data"
  BY DEF SQLPutData
<1>2. BufferTypeOK'
  BY <1>1 DEF BufferTypeOK, IsTracked, appVars, stmtVars, driverVars
<1>3. QED
  BY <1>1, <1>2, BindingsKept DEF appVars, stmtVars, driverVars, Delivered, FetchDelivers

(* Nothing is asked for any more.                                          *)
LEMMA NothingAsked ==
    ASSUME BufferTypeOK, BufferInv,
           UNCHANGED <<binding, text_seen, wrapped_stmt, bound_buffers, driver, refused>>,
           asked' = NullPtr, unasked' = {}
    PROVE  BufferInv'
BY DEF BufferInv, NothingBound, BindingsApart, BoundAsAsked, EntryAsAsked, EntryKinds, DriverAsAsked,
       AskedAtExec, DriverBuffersLive, Stale, IsTracked

(* A cancelled execution asks for no data.                                 *)
LEMMA SQLCancelStep ==
    ASSUME BufferTypeOK, BufferInv, SQLCancel PROVE BufferTypeOK' /\ BufferInv' /\ Delivered'
<1>1. BufferTypeOK'
  BY DEF BufferTypeOK, SQLCancel, IsTracked, appVars, stmtVars
<1>2. QED
  BY <1>1, NothingAsked, NothingDelivered DEF SQLCancel, appVars, stmtVars

(* Closing the cursor leaves the bindings alone.                           *)
LEMMA CloseCursorStep ==
    ASSUME BufferTypeOK, BufferInv, CloseCursor PROVE BufferTypeOK' /\ BufferInv' /\ Delivered'
<1>1. BufferTypeOK'
  BY DEF BufferTypeOK, CloseCursor, IsTracked, appVars, stmtVars
<1>2. QED
  BY <1>1, BindingsKept, NothingDelivered DEF CloseCursor, appVars, stmtVars

(* A statement that is allocated anew is bound to nothing.                 *)
LEMMA StatementLostStep ==
    ASSUME BufferTypeOK, BufferInv, StatementLost PROVE BufferTypeOK' /\ BufferInv' /\ Delivered'
<1>1. BufferTypeOK'
  BY NothingType DEF BufferTypeOK, StatementLost, IsTracked, DriverBindings, appVars
<1>2. \A i \in Items : driver'[i] = Unbound /\ i # NullPtr /\ NullPtr # Freed
  BY BuffersAssumption DEF StatementLost
<1>3. BufferInv'
  BY <1>2
     DEF BufferInv, NothingBound, BindingsApart, BoundAsAsked, EntryAsAsked, EntryKinds,
         DriverAsAsked, AskedAtExec, DriverBuffersLive, Stale, IsTracked, StatementLost, Unbound, appVars
<1>4. QED
  BY <1>1, <1>3, NothingDelivered DEF StatementLost

-----------------------------------------------------------------------------
(* Results. *)

(* Whatever is delivered, nothing but the memory changes.                  *)
LEMMA DeliversStep ==
    ASSUME BufferTypeOK, BufferInv, NEW how, NEW row \in Rows, Delivers(how, row),
           memory' \in Memories
    PROVE  BufferTypeOK' /\ BufferInv'
<1>1. BufferTypeOK'
  BY DEF BufferTypeOK, Delivers, IsTracked, appVars, stmtVars, driverVars, Memories
<1>2. QED
  BY <1>1, BindingsKept DEF Delivers, appVars, stmtVars, driverVars

(* A column is converted from its own local buffer, to the buffer of the   *)
(* application nobody else writes to.                                      *)
LEMMA FetchConverts ==
    ASSUME BufferTypeOK, BufferInv, Intact, NEW row \in Rows,
           NEW c \in Columns, driver[c] # Unbound
    PROVE  ConvertBoundColBuffersAfterFetch(RowWritten(row))[binding[c].address] =
               [value |-> row, encoding |-> IF Wide(binding[c].kind) THEN "app" ELSE "plain"]
<1> DEFINE a == binding[c].address
<1>1. c \in Items /\ Columns \subseteq Items
  BY DEF Items
<1>2. /\ driver[c].address = IF HasLocal(bound_buffers[c]) THEN c ELSE a
      /\ SameKind(driver[c].kind, binding[c].kind)
      /\ binding[c].kind \in {"none", "narrow", "wide"}
  BY <1>1, IntactBinding DEF BufferInv, BindingsApart
<1>3. binding[c].kind # "none" \/ IsTracked(c)
  <2>1. ~IsTracked(c) => ~HasLocal(bound_buffers[c])
    BY DEF HasLocal, IsTracked, NoBuffer
  <2>2. binding[c].kind = "none" => a = NullPtr
    BY <1>1 DEF BufferInv, BindingsApart
  <2>3. driver[c] = [address |-> driver[c].address, kind |-> driver[c].kind]
    BY <1>1 DEF BufferTypeOK
  <2>4. QED
    BY <1>2, <2>1, <2>2, <2>3 DEF Unbound, SameKind
<1>4. /\ a \in AppBuffers /\ a \notin Items
      /\ \A q \in Items : bound_buffers[q].app_ptr = a => q = c /\ IsTracked(c)
      /\ \A q \in Items : binding[q].address = a => q = c
  BY <1>1, <1>3, IntactApart
<1>5. \A q \in Columns : driver[q].address \in {a, c} => q = c
  <2> SUFFICES ASSUME NEW q \in Columns, driver[q].address \in {a, c} PROVE q = c
    OBVIOUS
  <2>1. driver[q] # Unbound
    <3>1. NullPtr \notin AppBuffers \cup Items
      BY BuffersAssumption
    <3>2. QED
      BY <1>1, <1>4, <3>1 DEF Unbound
  <2>2. driver[q].address = IF HasLocal(bound_buffers[q]) THEN q ELSE binding[q].address
    <3>1. q \in Items
      BY <1>1
    <3>2. QED
      BY <2>1, <3>1, IntactBinding
  <2>3. c # binding[q].address
    BY <1>1, BuffersAssumption DEF BufferTypeOK
  <2>4. QED
    BY <1>1, <1>4, <2>2, <2>3
<1>6. CASE binding[c].kind = "wide"
  <2>1. /\ IsTracked(c) /\ bound_buffers[c].app_ptr = a
        /\ bound_buffers[c].kind = "wide"
    BY <1>1, <1>6, IntactBinding DEF EntryKinds
  <2>2. driver[c].address = c
    BY <1>2, <2>1 DEF HasLocal
  <2>3. RowWritten(row)[c].value = row
    BY <1>1, <1>5, <2>2 DEF RowWritten
  <2>4. QED
    BY <1>1, <1>4, <1>6, <2>1, <2>3 DEF ConvertBoundColBuffersAfterFetch, Wide
<1>7. CASE binding[c].kind # "wide"
  <2>1. binding[c].kind \in {"none", "narrow"}
    BY <1>7 DEF BufferInv, BindingsApart
  <2>2. ~IsTracked(c)
    BY <1>1, <2>1 DEF Intact, Wide
  <2>3. binding[c].kind = "narrow" /\ driver[c].address = a /\ driver[c].kind = "narrow"
    BY <1>2, <1>3, <2>1, <2>2 DEF HasLocal, IsTracked, NoBuffer, SameKind
  <2>4. RowWritten(row)[a] = [value |-> row, encoding |-> "plain"]
    <3>1. (CHOOSE q \in Columns : driver[q].address = a) = c
      BY <1>5, <2>3
    <3>2. QED
      BY <1>4, <2>3, <3>1 DEF RowWritten, Wide
  <2>5. \A q \in Columns : bound_buffers[q].app_ptr # a
    BY <1>1, <1>4, <2>2
  <2>6. QED
    BY <1>4, <2>3, <2>4, <2>5 DEF ConvertBoundColBuffersAfterFetch, Wide
<1>8. QED
  BY <1>6, <1>7

(* A fetch writes to the buffers the driver is bound to and converts each  *)
(* wide column.                                                            *)
LEMMA FetchStep ==
    ASSUME BufferTypeOK, BufferInv, NEW row \in Rows, Delivers("fetch", row),
           memory' = ConvertBoundColBuffersAfterFetch(RowWritten(row))
    PROVE  BufferTypeOK' /\ BufferInv' /\ Delivered'
<1>1. memory' \in Memories
  BY WritesType DEF BufferInv
<1>2. BufferTypeOK' /\ BufferInv'
  BY <1>1, DeliversStep
<1>3. /\ delivery' = [of |-> "fetch", row |-> row]
      /\ UNCHANGED <<binding, bound_buffers, driver, refused>>
  BY DEF Delivers, appVars, stmtVars, driverVars
<1>4. Intact' <=> Intact
  BY <1>3 DEF Intact, IsTracked
<1>5. FetchDelivers'
  <2> SUFFICES ASSUME Intact, NEW c \in Columns, driver[c] # Unbound
               PROVE  memory'[binding[c].address] =
                        [value |-> row,
                         encoding |-> IF Wide(binding[c].kind) THEN "app" ELSE "plain"]
    BY <1>3, <1>4 DEF FetchDelivers
  <2>1. QED
    BY FetchConverts
<1>6. QED
  BY <1>2, <1>3, <1>5 DEF Delivered

(* What is refreshed is not converted.                                     *)
LEMMA RefreshStep ==
    ASSUME BufferTypeOK, BufferInv, NEW row \in Rows, Delivers("refresh", row),
           memory' = RowWritten(row)
    PROVE  BufferTypeOK' /\ BufferInv' /\ Delivered'
<1>1. BufferTypeOK' /\ BufferInv'
  BY WritesType, DeliversStep DEF BufferInv
<1>2. delivery'.of = "refresh"
  BY DEF Delivers
<1>3. QED
  BY <1>1, <1>2 DEF Delivered, FetchDelivers

-----------------------------------------------------------------------------
(* The theorems. *)

(* A new statement has no bindings at all.                                 *)
LEMMA InitBuffers == BufferInit => BufferTypeOK /\ BufferInv /\ Delivered
<1> SUFFICES ASSUME BufferInit PROVE BufferTypeOK /\ BufferInv /\ Delivered
  OBVIOUS
<1>1. BufferTypeOK
  BY NothingType DEF BufferInit, BufferTypeOK, Indicators, IsTracked, Bindings, Entries,
                     DriverBindings
<1>2. \A i \in Items : /\ binding[i] = Unbound /\ bound_buffers[i] = NoBuffer
                       /\ driver[i] = Unbound /\ i # NullPtr /\ NullPtr # Freed
  BY BuffersAssumption DEF BufferInit
<1>3. BufferInv
  BY <1>2 DEF BufferInit, BufferInv, NothingBound, BindingsApart, BoundAsAsked, EntryAsAsked, EntryKinds,
              DriverAsAsked, AskedAtExec, DriverBuffersLive, IsTracked, Unbound, Items, Wide
<1>4. Delivered
  BY DEF BufferInit, Delivered, FetchDelivers, Nothing
<1>5. QED
  BY <1>1, <1>3, <1>4

(* Every step keeps the invariant.                                         *)
LEMMA BufferStep ==
    BufferTypeOK /\ BufferInv /\ Delivered /\ [BufferNext]_bufferVars => BufferTypeOK' /\ BufferInv' /\ Delivered'
<1> SUFFICES ASSUME BufferTypeOK, BufferInv, Delivered, [BufferNext]_bufferVars
             PROVE  BufferTypeOK' /\ BufferInv' /\ Delivered'
  OBVIOUS
<1>1. CASE \E c \in Columns, b \in AppBuffers, kind \in ColumnKinds : SQLBindCol(c, b, kind)
  BY <1>1, SQLBindColStep
<1>2. CASE \E c \in Columns : SQLBindColNull(c)
  BY <1>2, SQLBindColNullStep
<1>3. CASE \E p \in Params, b \in AppBuffers, kind \in ParamKinds :
             SQLBindParameter(p, b, kind)
  BY <1>3, SQLBindParameterStep
<1>4. CASE \E p \in Params, text \in Texts : WriteParam(p, text)
  BY <1>4, WriteParamStep
<1>5. CASE Unbind
  BY <1>5, UnbindStep
<1>6. CASE ResetParams
  BY <1>6, ResetParamsStep
<1>7. CASE SQLPrepare
  BY <1>7, SQLPrepareStep
<1>8. CASE SQLExecute
  BY <1>8, ExecuteStep
<1>9. CASE SQLExecDirect
  BY <1>9, ExecDirectStep
<1>10. CASE SQLParamData
  BY <1>10, SQLParamDataStep
<1>11. CASE SQLCancel
  BY <1>11, SQLCancelStep
<1>12. CASE \E text \in Texts : SQLPutData(text)
  BY <1>12, SQLPutDataStep
<1>13. CASE \E row \in Rows : SQLFetch(row) \/ SQLFetchScroll(row) \/ SQLExtendedFetch(row)
  BY <1>13, FetchStep DEF SQLFetch, SQLFetchScroll, SQLExtendedFetch
<1>14. CASE \E row \in Rows : SQLSetPos(row) \/ SQLBulkOperations(row)
  BY <1>14, RefreshStep DEF SQLSetPos, SQLBulkOperations
<1>15. CASE CloseCursor
  BY <1>15, CloseCursorStep
<1>16. CASE StatementLost
  BY <1>16, StatementLostStep
<1>17. CASE UNCHANGED bufferVars
  <2>1. UNCHANGED <<memory, appVars, stmtVars, driverVars, delivery>>
    BY <1>17 DEF bufferVars
  <2>2. BufferTypeOK' /\ BufferInv'
    BY <2>1, BindingsKept DEF BufferTypeOK, IsTracked, appVars, stmtVars, driverVars
  <2>3. Delivered'
    BY <2>1
       DEF Delivered, FetchDelivers, PreparedExecutionConverts, Intact, IsTracked, AtExec,
           appVars, stmtVars, driverVars
  <2>4. QED
    BY <2>2, <2>3
<1>18. CASE \E p \in Params, ind \in Indicators : SetIndicator(p, ind)
  BY <1>18, SetIndicatorStep
<1>19. QED
  BY <1>1, <1>2, <1>3, <1>4, <1>5, <1>6, <1>7, <1>8, <1>9, <1>10, <1>11, <1>12,
     <1>13, <1>14, <1>15, <1>16, <1>17, <1>18 DEF BufferNext

(* The invariant holds in every behaviour.                                 *)
LEMMA BufferAlways == BufferSpec => [](BufferTypeOK /\ BufferInv /\ Delivered)
<1>1. QED
  BY InitBuffers, BufferStep, PTL DEF BufferSpec

(* The state of a statement's bindings is well-formed in every behaviour.  *)
THEOREM BuffersTypeCorrect == BufferSpec => []BufferTypeOK
<1>1. QED
  BY BufferAlways, PTL

(* The driver is never bound to a local buffer that is gone, unless it     *)
(* refused to be bound otherwise.                                          *)
THEOREM BuffersLive == BufferSpec => []DriverBuffersLive
<1>1. BufferInv => DriverBuffersLive
  BY DEF BufferInv
<1>2. QED
  BY <1>1, BufferAlways, PTL

(* Every fetch delivers to each column what the driver fetched, in the     *)
(* encoding of the application.                                            *)
THEOREM RowsDelivered == BufferSpec => []FetchDelivers
<1>1. Delivered => FetchDelivers
  BY DEF Delivered
<1>2. QED
  BY <1>1, BufferAlways, PTL

(* A prepared execution sends what the application had bound, and receives *)
(* what the driver returned, each in its encoding, whichever parameters    *)
(* the application announces to send at execution in the meantime, as long *)
(* as the indicator of none has changed that since it was bound.           *)
THEOREM ParametersConverted == BufferSpec => []PreparedExecutionConverts
<1>1. BufferInv /\ Delivered => PreparedExecutionConverts
  <2>1. Intact => ParamsIntact
    BY DEF Intact, ParamsIntact, Stale, Items
  <2>2. BufferInv /\ Intact /\ asked # NullPtr =>
           /\ put_data_char_conversion => Wide(driver[asked].kind)
           /\ Wide(driver[asked].kind) /\ asked \notin text_seen => put_data_char_conversion
    BY <2>1 DEF BufferInv, AskedAtExec
  <2>3. QED
    BY <2>2 DEF Delivered, PreparedExecutionConverts
<1>2. QED
  BY <1>1, BufferAlways, PTL
=============================================================================
