------------------------ MODULE TokenAuthenticationProofs ------------------------
(***************************************************************************)
(* Theorems about TokenAuthentication, for any connections, any way each   *)
(* authenticates, and any requests that arrive at the port of a login.     *)
(***************************************************************************)
EXTENDS TokenAuthentication, TLAPS

-----------------------------------------------------------------------------
(* The inductive invariant. *)

(* A call that gets credentials is made by a Connect that waits for it, of *)
(* a federated plugin, and gets to the places of its kind.                 *)
Placed(c) ==
    /\ ask[c].pc # "off" => pc[c] \in {"ensuring", "refreshing"}
    /\ pc[c] \in {"ensuring", "refreshing"} => kind[c] \in Federated
    /\ ask[c].cred # 0 => ask[c].pc = "done"
    /\ ask[c].pc \in {"saml", "stage", "sts"} => kind[c] \in SamlKinds
    /\ ask[c].pc \notin {"off", "saml", "stage", "browser", "sts", "done"} =>
         kind[c] = "sso"
    /\ ask[c].pc = "browser" /\ kind[c] \in SamlKinds => ask[c].todo # <<>>

(* It holds its lock while it asks AWS or the user, and the temporary file *)
(* is whole when it is renamed.                                            *)
Locked(c) ==
    /\ Exchanging(c) => saml_lock = c /\ ~Usable(cred_cache)
    /\ kind[c] = "sso" /\ ask[c].pc \notin {"off", "sso", "done"} => sso_lock = c
    /\ ask[c].pc = "rename" => file.tmp.content = "whole"

(* Where a plugin signs a token it has an auth_provider.                   *)
Provided(c) ==
    /\ kind[c] \notin {"sso", "secrets"} => provider[c] # None
    /\ pc[c] \in {"token", "sign", "sign_expired", "connect", "refresh",
                  "refreshing", "renew"} /\ kind[c] # "secrets" => provider[c] # None
    /\ IF kind[c] = "secrets"
       THEN pc[c] \in {"idle", "secret", "cached", "fetch", "connect"}
       ELSE pc[c] \notin {"secret", "cached", "fetch"}

(* After a refusal, what a call goes on with is of after the refusal.      *)
Renewed(c) ==
    /\ since[c] <= epoch
    /\ result[c] # "none" => pc[c] = "idle"
    /\ refresh[c] # "none" => pc[c] \in {"renew", "reconnect", "idle"}
    /\ refresh[c] # "none" => kind[c] # "secrets"
    /\ pc[c] = "reconnect" => offered[c].from = "new"
    /\ pc[c] = "connect" /\ kind[c] = "secrets" =>
         offered[c].from = "new" /\ offered[c].cred >= since[c]
    /\ pc[c] = "refreshing" => ask[c].cred = 0 \/ ask[c].cred >= since[c]
    /\ pc[c] = "refreshing" /\ kind[c] \in SamlKinds /\ Usable(cred_cache) =>
         cred_cache.cred >= since[c]
    /\ pc[c] = "renew" /\ refresh[c] = "done" => provider[c] >= since[c]
    /\ pc[c] = "reconnect" /\ refresh[c] = "done" => offered[c].cred >= since[c]
    /\ result[c] = "refused" =>
        /\ offered[c].from = "cache" => refresh[c] = "impossible"
        /\ refresh[c] = "done" \/ kind[c] = "secrets" => offered[c].cred >= since[c]

Local(c) == Placed(c) /\ Locked(c) /\ Provided(c) /\ Renewed(c)

(* A cache that is fresh holds a password.                                 *)
PasswordsHeld ==
    /\ token_cache.fresh => token_cache.cred # None
    /\ secrets_cache.fresh => secrets_cache.cred # None

AuthInv == /\ \A c \in Conns : Local(c)
           /\ PasswordsHeld /\ CacheFileWhole /\ ListenersJoined

-----------------------------------------------------------------------------
(* Types. *)

AskStates == [pc : Places, todo : Seq({"request", "browser"}), token : Tokens,
              cred : 0 .. MaxEpoch]
CredCaches == [cred : 0 .. MaxEpoch, fresh : BOOLEAN]
FilePairs == [cache : Files, tmp : Files]

(* The variables of Connect and its caches.                                *)
CallTypes ==
    /\ pc \in [Conns -> {"idle", "ensure", "ensuring", "token", "connect",
                         "sign", "sign_expired", "refresh", "refreshing",
                         "renew", "reconnect", "secret", "cached", "fetch"}]
    /\ provider \in [Conns -> 0 .. MaxEpoch \cup {None}]
    /\ offered \in [Conns -> [cred : 0 .. MaxEpoch, from : {"cache", "new"}]]
    /\ refresh \in [Conns -> {"none", "done", "impossible"}]
    /\ since \in [Conns -> 0 .. MaxEpoch]
    /\ result \in [Conns -> {"none", "ok", "refused", "unreachable", "client"}]
CacheTypes ==
    /\ token_cache \in [cred : 0 .. MaxEpoch \cup {None}, fresh : BOOLEAN]
    /\ secrets_cache \in [cred : 0 .. MaxEpoch \cup {None}, fresh : BOOLEAN]
    /\ secrets_lock \in Conns \cup {None}
    /\ calls \in 0 .. MaxCalls
FixedTypes == epoch \in 1 .. MaxEpoch /\ kind \in [Conns -> Kinds]
AwsTypes ==
    /\ cred_cache \in CredCaches
    /\ saml_lock \in Conns \cup {None} /\ sso_lock \in Conns \cup {None}
    /\ file \in FilePairs
    /\ ask \in [Conns -> AskStates]

(* The type invariant, in parts.                                           *)
LEMMA TypeParts ==
    TypeOK <=> LoginTypeOK /\ FixedTypes /\ AwsTypes /\ CallTypes /\ CacheTypes
BY DEF TypeOK, CredentialsTypeOK, CallTypes, CacheTypes, FixedTypes, AwsTypes,
       Epochs, 
       CredCaches, FilePairs, AskStates
(* The same of the next state.                                             *)
LEMMA TypePartsNext ==
    TypeOK' <=> LoginTypeOK' /\ FixedTypes' /\ AwsTypes' /\ CallTypes' /\ CacheTypes'
BY DEF TypeOK, CredentialsTypeOK, CallTypes, CacheTypes, FixedTypes, AwsTypes,
       Epochs, 
       CredCaches, FilePairs, AskStates

(* The constants for "nothing" are of their types.                         *)
LEMMA NothingTypes ==
    /\ NoCredentials \in CredCaches /\ NoToken \in Tokens
    /\ NoFile \in Files /\ Partial \in Files /\ \A t \in Tokens : Whole(t) \in Files
    /\ NotAsking \in AskStates
BY EpochAssumption
   DEF NoCredentials, NoToken, NoFile, Partial, Whole, NotAsking, CredCaches, 
     Tokens, Files, AskStates, Places

-----------------------------------------------------------------------------
(* The calls that get credentials. *)

(* Only the call of c moves: to p, with the credentials n.                 *)
Moved(c, p, n) ==
    /\ ask' \in [Conns -> AskStates]
    /\ ask'[c].pc = p /\ ask'[c].cred = n
    /\ \A d \in Conns \ {c} : ask'[d] = ask[d]

(* Going to another place keeps what is left to do and the credentials.    *)
LEMMA GoesMoves ==
    ASSUME AwsTypes, NEW c \in Conns, NEW p \in Places, Goes(c, p)
    PROVE  Moved(c, p, ask[c].cred) /\ ask'[c].todo = ask[c].todo
BY DEF AwsTypes, AskStates, Goes, Moved

(* So does holding a token.                                                *)
LEMMA HoldsMoves ==
    ASSUME AwsTypes, NEW c \in Conns, NEW p \in Places, NEW t \in Tokens, Holds(c, t, p)
    PROVE  Moved(c, p, ask[c].cred)
BY DEF AwsTypes, AskStates, Holds, Moved

(* Getting credentials ends the call.                                      *)
LEMMA GetsMoves ==
    ASSUME AwsTypes, NEW c \in Conns, NEW n \in 0 .. MaxEpoch, Gets(c, n)
    PROVE  Moved(c, "done", n)
<1>1. [NotAsking EXCEPT !.pc = "done", !.cred = n] \in AskStates
  BY NothingTypes DEF AskStates, Places
<1>2. QED
  BY <1>1 DEF AwsTypes, AskStates, Gets, Moved, NotAsking

(* An exchange starts at the first stage of the kind of plugin.            *)
LEMMA ExchangeMoves ==
    ASSUME AwsTypes, NEW c \in Conns, Exchange(c)
    PROVE  Moved(c, "stage", ask[c].cred)
<1>1. Stages(kind[c]) \in Seq({"request", "browser"})
  <2>1. /\ <<"browser">> \in Seq({"request", "browser"})
        /\ <<"request", "browser", "request">> \in Seq({"request", "browser"})
        /\ <<"request">> \in Seq({"request", "browser"})
    OBVIOUS
  <2>2. Stages(kind[c]) \in {<<"browser">>, <<"request", "browser", "request">>,
                             <<"request">>}
    BY DEF Stages
  <2>3. QED
    BY <2>1, <2>2
<1>2. QED
  BY <1>1 DEF AwsTypes, AskStates, Exchange, Moved, Places

(* The next stage is one that was left to do.                              *)
LEMMA NextStageMoves ==
    ASSUME AwsTypes, NEW c \in Conns, ask[c].todo # <<>>, NextStage(c)
    PROVE  Moved(c, "stage", ask[c].cred)
<1>1. Tail(ask[c].todo) \in Seq({"request", "browser"})
  BY DEF AwsTypes, AskStates
<1>2. QED
  BY <1>1 DEF AwsTypes, AskStates, NextStage, Moved, Places

-----------------------------------------------------------------------------
(* What a step of one connection leaves to the others. *)

Same(d) == /\ kind'[d] = kind[d] /\ pc'[d] = pc[d] /\ ask'[d] = ask[d]
           /\ provider'[d] = provider[d] /\ offered'[d] = offered[d]
           /\ refresh'[d] = refresh[d] /\ since'[d] = since[d] /\ result'[d] = result[d]

(* A lock stays with its holder, and so does what the lock protects.       *)
SharedKept(d) ==
    /\ epoch' \in Nat /\ epoch <= epoch'
    /\ saml_lock = d => saml_lock' = d
    /\ saml_lock = d /\ ~Usable(cred_cache) => ~Usable(cred_cache)'
    /\ sso_lock = d => sso_lock' = d
    /\ sso_lock = d => file'.tmp = file.tmp
    /\ Usable(cred_cache)' => \/ cred_cache'.cred = epoch
                              \/ Usable(cred_cache) /\ cred_cache'.cred = cred_cache.cred

(* A connection that does not move, and keeps its locks and what they      *)
(* protect, keeps its part of the invariant.                               *)
LEMMA OtherKept ==
    ASSUME TypeOK, NEW d \in Conns, Local(d), Same(d), SharedKept(d)
    PROVE  Local(d)'
<1>1. Placed(d)'
  BY DEF Local, Placed, Same
<1>2. Locked(d)'
  BY DEF Local, Placed, Locked, Same, SharedKept, Exchanging
<1>3. Provided(d)'
  BY DEF Local, Provided, Same
<1>4. Renewed(d)'
  <2>1. since[d] \in Nat /\ epoch \in Nat
    BY EpochAssumption, TypeParts DEF CallTypes, FixedTypes
  <2>2. pc[d] = "refreshing" /\ kind[d] \in SamlKinds /\ Usable(cred_cache)' =>
           cred_cache'.cred >= since[d]
    BY <2>1 DEF Local, Renewed, SharedKept
  <2>3. since[d] <= epoch'
    BY <2>1 DEF Local, Renewed, SharedKept
  <2>4. QED
    BY <2>2, <2>3 DEF Local, Renewed, Same
<1>5. QED
  BY <1>1, <1>2, <1>3, <1>4 DEF Local

-----------------------------------------------------------------------------
(* Getting credentials. *)

(* A step of the call of c: where it may get to, and what of its lock.     *)
AskStep(c, p, n) ==
    /\ Moved(c, p, n) /\ ask[c].pc # "off"
    /\ p \in {"saml", "stage", "sts"} => kind[c] \in SamlKinds
    /\ p \notin {"off", "saml", "stage", "browser", "sts", "done"} => kind[c] = "sso"
    /\ p = "browser" /\ kind[c] \in SamlKinds => ask'[c].todo # <<>>
    /\ n # 0 => /\ p = "done"
                /\ \/ n = epoch
                   \/ kind[c] \in SamlKinds /\ Usable(cred_cache) /\ n = cred_cache.cred
    /\ kind[c] \in SamlKinds /\ p \in {"stage", "browser", "sts"} =>
         saml_lock' = c /\ ~Usable(cred_cache)'
    /\ kind[c] = "sso" /\ p \notin {"off", "sso", "done"} => sso_lock' = c
    /\ p = "rename" => file'.tmp.content = "whole"

(* A step of one call keeps the parts of all connections.                  *)
LEMMA AskStepKeeps ==
    ASSUME TypeOK, AuthInv, NEW c \in Conns, NEW p \in Places, NEW n \in 0 .. MaxEpoch,
           AskStep(c, p, n), UNCHANGED <<callVars, cacheVars, fixedVars>>,
           \A d \in Conns \ {c} : SharedKept(d),
           Usable(cred_cache)' => \/ cred_cache'.cred = epoch
                                  \/ Usable(cred_cache) /\ cred_cache'.cred = cred_cache.cred
    PROVE  \A d \in Conns : Local(d)'
<1>1. UNCHANGED <<kind, epoch, pc, provider, offered, refresh, since, result>>
  BY DEF callVars, fixedVars
<1>2. ASSUME NEW d \in Conns \ {c} PROVE Local(d)'
  <2>1. Same(d)
    BY <1>1 DEF Same, AskStep, Moved
  <2>2. QED
    BY <2>1, OtherKept DEF AuthInv
<1>3. Local(c)
  BY DEF AuthInv
<1>4. ask'[c].pc = p /\ ask'[c].cred = n
  BY DEF AskStep, Moved
<1>5. Placed(c)'
  BY <1>1, <1>3, <1>4 DEF Local, Placed, AskStep
<1>6. Locked(c)'
  BY <1>1, <1>4 DEF Locked, Exchanging, AskStep
<1>7. Provided(c)'
  BY <1>1, <1>3 DEF Local, Provided
<1>8. Renewed(c)'
  <2>1. since[c] \in Nat /\ epoch \in Nat /\ since[c] <= epoch
    BY <1>3, EpochAssumption, TypeParts DEF CallTypes, FixedTypes, Local, Renewed
  <2>2. pc[c] = "refreshing" => n = 0 \/ n >= since[c]
    BY <1>3, <2>1 DEF Local, Renewed, AskStep
  <2>3. pc[c] = "refreshing" /\ kind[c] \in SamlKinds /\ Usable(cred_cache)' =>
           cred_cache'.cred >= since[c]
    BY <1>3, <2>1 DEF Local, Renewed
  <2>4. QED
    BY <1>1, <1>3, <1>4, <2>2, <2>3 DEF Local, Renewed
<1>9. QED
  BY <1>2, <1>3, <1>5, <1>6, <1>7, <1>8 DEF Local

(* A step of the call keeps the invariant if it keeps the types of what it *)
(* changes, the file whole and the listeners joined.                       *)
LEMMA AskStepDone ==
    ASSUME TypeOK, AuthInv, NEW c \in Conns, NEW p \in Places, NEW n \in 0 .. MaxEpoch,
           AskStep(c, p, n), UNCHANGED <<callVars, cacheVars, fixedVars>>,
           \A d \in Conns \ {c} : SharedKept(d),
           Usable(cred_cache)' => \/ cred_cache'.cred = epoch
                                  \/ Usable(cred_cache) /\ cred_cache'.cred = cred_cache.cred,
           cred_cache' \in CredCaches, file' \in FilePairs,
           saml_lock' \in Conns \cup {None}, sso_lock' \in Conns \cup {None},
           LoginTypeOK', CacheFileWhole', ListenersJoined'
    PROVE  TypeOK' /\ AuthInv'
<1>1. FixedTypes' /\ CallTypes' /\ CacheTypes'
  BY TypeParts DEF FixedTypes, CallTypes, CacheTypes, callVars, cacheVars, fixedVars
<1>2. AwsTypes'
  BY DEF AwsTypes, AskStep, Moved
<1>3. PasswordsHeld'
  BY DEF AuthInv, PasswordsHeld, cacheVars
<1>4. QED
  BY <1>1, <1>2, <1>3, TypePartsNext, AskStepKeeps DEF AuthInv

(* The place a call is at.                                                 *)
LEMMA AtPlace ==
    ASSUME TypeOK, AuthInv, NEW c \in Conns
    PROVE  /\ ask[c] \in AskStates /\ AwsTypes /\ FixedTypes
           /\ ask[c].pc # "done" => ask[c].cred = 0
           /\ Placed(c) /\ Locked(c)
           /\ epoch \in 0 .. MaxEpoch /\ epoch \in Nat
BY EpochAssumption, TypeParts DEF AuthInv, Local, Placed, AwsTypes, FixedTypes

(* Only the lock of a call that is over is released.                       *)
LEMMA ReleasesOwn ==
    ASSUME TypeOK, NEW c \in Conns, Releases(c)
    PROVE  /\ saml_lock' \in Conns \cup {None} /\ sso_lock' \in Conns \cup {None}
           /\ \A d \in Conns \ {c} : /\ saml_lock = d => saml_lock' = d
                                     /\ sso_lock = d => sso_lock' = d
           /\ ask'[c].pc # "done" => saml_lock' = saml_lock /\ sso_lock' = sso_lock
BY TypeParts DEF AwsTypes, Releases

(* What the login leaves alone.                                            *)
LEMMA LoginKept ==
    ASSUME TypeOK, AuthInv, UNCHANGED loginVars PROVE LoginTypeOK' /\ ListenersJoined'
BY TypeParts DEF LoginTypeOK, ListenersJoined, AuthInv, loginVars

(* A SAML plugin that finds usable credentials gets them; otherwise it     *)
(* takes its lock, and nobody has usable ones until it is done.            *)
LEMMA GetCredentialsStep ==
    ASSUME TypeOK, AuthInv, NEW c \in Conns, GetCredentials(c),
           UNCHANGED <<callVars, cacheVars, fixedVars>>
    PROVE  TypeOK' /\ AuthInv'
<1>1. /\ ask[c].pc = "saml" /\ saml_lock = None
      /\ UNCHANGED <<cred_cache, sso_lock, file, loginVars>>
  BY DEF GetCredentials, At
<1>2. ask[c].cred = 0 /\ kind[c] \in SamlKinds /\ cred_cache \in CredCaches
  BY <1>1, AtPlace DEF Placed, AwsTypes
<1>3. PICK p \in {"done", "stage"}, n \in 0 .. MaxEpoch :
         /\ Moved(c, p, n)
         /\ p = "done" => Usable(cred_cache) /\ n = cred_cache.cred /\ saml_lock' = saml_lock
         /\ p = "stage" => ~Usable(cred_cache) /\ n = 0 /\ saml_lock' = c
  <2>1. CASE Usable(cred_cache)
    BY <1>2, <2>1, AtPlace, GetsMoves DEF GetCredentials, CredCaches
  <2>2. CASE ~Usable(cred_cache)
    BY <1>2, <2>2, AtPlace, ExchangeMoves, EpochAssumption DEF GetCredentials
  <2>3. QED
    BY <2>1, <2>2
<1>4. p \in Places /\ c # None
  BY EpochAssumption DEF Places
<1>5. AskStep(c, p, n)
  BY <1>1, <1>2, <1>3 DEF AskStep, Usable, SamlKinds
<1>6. \A d \in Conns \ {c} : SharedKept(d)
  BY <1>1, EpochAssumption, AtPlace DEF SharedKept, fixedVars, Usable
<1>7. /\ cred_cache' \in CredCaches /\ file' \in FilePairs
      /\ saml_lock' \in Conns \cup {None} /\ sso_lock' \in Conns \cup {None}
  BY <1>1, <1>3, AtPlace DEF AwsTypes
<1>8. CacheFileWhole'
  BY <1>1 DEF AuthInv, CacheFileWhole
<1>9. QED
  BY <1>1, <1>4, <1>5, <1>6, <1>7, <1>8, LoginKept, AskStepDone DEF Usable

(* A step that leaves the login, the credentials and the file alone, or    *)
(* the file but for the cache.                                             *)
LEMMA PlainStep ==
    ASSUME TypeOK, AuthInv, NEW c \in Conns, NEW p \in Places, NEW n \in {0, epoch},
           Moved(c, p, n), n # 0 => p = "done", Releases(c),
           ask[c].pc \notin {"off", "done"},
           UNCHANGED <<callVars, cacheVars, fixedVars>>, UNCHANGED cred_cache,
           LoginTypeOK', ListenersJoined',
           file' \in FilePairs, file'.tmp = file.tmp, CacheFileWhole',
           \/ /\ kind[c] = "sso" /\ (ask[c].pc # "sso")
              /\ p \notin {"off", "saml", "stage", "sts", "rename", "sso"}
           \/ /\ kind[c] \in SamlKinds /\ ask[c].pc \in {"stage", "browser", "sts"}
              /\ p \in {"stage", "browser", "sts", "done"}
              /\ p = "browser" => ask'[c].todo # <<>>
    PROVE  TypeOK' /\ AuthInv'
<1>1. AskStep(c, p, n)
  <2>1. kind[c] \in SamlKinds => saml_lock = c /\ ~Usable(cred_cache)
    BY AtPlace DEF Locked, Exchanging, SamlKinds
  <2>2. kind[c] = "sso" => sso_lock = c
    BY AtPlace DEF Locked, SamlKinds
  <2>3. "sso" \notin SamlKinds
    BY DEF SamlKinds
  <2>4. ask'[c].pc = p
    BY DEF Moved
  <2>5. p # "done" => saml_lock' = saml_lock /\ sso_lock' = sso_lock
    BY <2>4, ReleasesOwn
  <2>6. n # 0 => n = epoch
    OBVIOUS
  <2>7. kind[c] \in SamlKinds /\ p \in {"stage", "browser", "sts"} =>
           saml_lock' = c /\ ~Usable(cred_cache)'
    BY <2>1, <2>5 DEF Usable
  <2>8. kind[c] = "sso" /\ p \notin {"off", "sso", "done"} => sso_lock' = c
    BY <2>2, <2>5
  <2>9. QED
    BY <2>3, <2>6, <2>7, <2>8 DEF AskStep
<1>2. n \in 0 .. MaxEpoch
  BY EpochAssumption, AtPlace
<1>3. \A d \in Conns \ {c} : SharedKept(d)
  BY ReleasesOwn, AtPlace DEF SharedKept, fixedVars, Usable
<1>4. cred_cache' \in CredCaches
  BY AtPlace DEF AwsTypes
<1>5. QED
  BY <1>1, <1>2, <1>3, <1>4, ReleasesOwn, AskStepDone DEF Usable

(* What a login that starts, or does not, makes of the listeners.          *)
LEMMA LoginStarts ==
    ASSUME TypeOK, AuthInv, NEW c \in Conns, LaunchServer(c) \/ RejectsAddress(c)
    PROVE  LoginTypeOK' /\ ListenersJoined'
<1>1. /\ [NoListener EXCEPT !.at = "binding"] \in
              [at : {"none", "binding", "listening", "over"},
               parser : {"request", "midway", "finished"},
               fields : SUBSET {"code", "saml", "mismatch"}, listening : BOOLEAN]
      /\ [NoListener EXCEPT !.at = "binding"].at = "binding"
  BY DEF NoListener
<1>2. CASE LaunchServer(c)
  BY <1>1, <1>2, TypeParts DEF LaunchServer, LoginTypeOK, ListenersJoined, AuthInv
<1>3. CASE RejectsAddress(c)
  BY <1>3, TypeParts DEF RejectsAddress, LoginTypeOK, ListenersJoined, AuthInv
<1>4. QED
  BY <1>2, <1>3

(* The next stage of an exchange is a request, a login or the call of STS. *)
LEMMA GetSamlAssertionStep ==
    ASSUME TypeOK, AuthInv, NEW c \in Conns, GetSamlAssertion(c),
           UNCHANGED <<callVars, cacheVars, fixedVars>>
    PROVE  TypeOK' /\ AuthInv'
<1>1. ask[c].pc = "stage" /\ Releases(c) /\ UNCHANGED <<cred_cache, file>>
  BY DEF GetSamlAssertion, At
<1>2. ask[c].cred = 0 /\ kind[c] \in SamlKinds
  BY <1>1, AtPlace DEF Placed
<1>3. PICK p \in {"sts", "browser", "stage", "done"} :
         Moved(c, p, 0) /\ (p = "browser" => ask'[c].todo # <<>>)
  <2>1. CASE ask[c].todo = <<>>
    BY <1>2, <2>1, AtPlace, GoesMoves DEF GetSamlAssertion, Places
  <2>2. CASE ask[c].todo # <<>> /\ Head(ask[c].todo) = "browser"
    BY <1>2, <2>2, AtPlace, GoesMoves DEF GetSamlAssertion, Places
  <2>3. CASE ask[c].todo # <<>> /\ Head(ask[c].todo) # "browser"
    BY <1>2, <2>3, AtPlace, NextStageMoves, GetsMoves, EpochAssumption
       DEF GetSamlAssertion
  <2>4. QED
    BY <2>1, <2>2, <2>3
<1>4. LoginTypeOK' /\ ListenersJoined'
  BY LoginKept, LoginStarts DEF GetSamlAssertion
<1>5. file' \in FilePairs /\ file'.tmp = file.tmp /\ CacheFileWhole'
  BY <1>1, AtPlace DEF AwsTypes, AuthInv, CacheFileWhole
<1>6. p \in Places /\ 0 \in {0, epoch} /\ ask[c].pc \notin {"off", "done"}
  BY <1>1 DEF Places
<1>7. QED
  BY <1>1, <1>2, <1>3, <1>4, <1>5, <1>6, PlainStep

(* The answer a login is for leads on to the next stage, any other to no   *)
(* credentials.                                                            *)
LEMMA ReadsAnswerStep ==
    ASSUME TypeOK, AuthInv, NEW c \in Conns, ReadsAnswer(c),
           UNCHANGED <<callVars, cacheVars, fixedVars>>
    PROVE  TypeOK' /\ AuthInv'
<1>1. ask[c].pc = "browser" /\ Releases(c) /\ UNCHANGED <<cred_cache, file, loginVars>>
  BY DEF ReadsAnswer, At
<1>2. ask[c].cred = 0 /\ (kind[c] \in SamlKinds \/ kind[c] = "sso")
  BY <1>1, AtPlace DEF Placed, Federated
<1>3. PICK p \in {"poll", "stage", "done"} :
         /\ Moved(c, p, 0)
         /\ p = "poll" => kind[c] = "sso"
         /\ p = "stage" => kind[c] \in SamlKinds
  <2>1. CASE answer[c] # Wanted(kind[c])
    BY <2>1, AtPlace, GetsMoves, EpochAssumption DEF ReadsAnswer
  <2>2. CASE answer[c] = Wanted(kind[c]) /\ kind[c] = "sso"
    BY <1>2, <2>2, AtPlace, GoesMoves DEF ReadsAnswer, Places
  <2>3. CASE answer[c] = Wanted(kind[c]) /\ kind[c] # "sso"
    <3>1. ask[c].todo # <<>> /\ NextStage(c)
      BY <1>1, <1>2, <2>3, AtPlace DEF ReadsAnswer, Placed
    <3>2. QED
      BY <1>2, <2>3, <3>1, AtPlace, NextStageMoves
  <2>4. QED
    BY <2>1, <2>2, <2>3
<1>4. LoginTypeOK' /\ ListenersJoined'
  BY <1>1, LoginKept
<1>5. file' \in FilePairs /\ file'.tmp = file.tmp /\ CacheFileWhole'
  BY <1>1, AtPlace DEF AwsTypes, AuthInv, CacheFileWhole
<1>6. p \in Places /\ 0 \in {0, epoch} /\ ask[c].pc \notin {"off", "done"}
  BY <1>1 DEF Places
<1>7. QED
  BY <1>1, <1>2, <1>3, <1>4, <1>5, <1>6, PlainStep

(* New credentials are of the present epoch.                               *)
LEMMA GetAwsCredentialsStep ==
    ASSUME TypeOK, AuthInv, NEW c \in Conns, GetAwsCredentials(c),
           UNCHANGED <<callVars, cacheVars, fixedVars>>
    PROVE  TypeOK' /\ AuthInv'
<1>1. ask[c].pc = "sts" /\ Releases(c) /\ UNCHANGED <<file, loginVars>>
  BY DEF GetAwsCredentials, At
<1>2. kind[c] \in SamlKinds /\ saml_lock = c
  BY <1>1, AtPlace DEF Placed, Locked, Exchanging
<1>3. PICK n \in {0, epoch} : /\ Moved(c, "done", n)
                              /\ \/ cred_cache' = [cred |-> epoch, fresh |-> TRUE]
                                 \/ cred_cache' = cred_cache
  BY AtPlace, GetsMoves, EpochAssumption DEF GetAwsCredentials
<1>4. AskStep(c, "done", n)
  BY <1>1, <1>2, <1>3 DEF AskStep
<1>5. \A d \in Conns \ {c} : SharedKept(d)
  BY <1>1, <1>2, <1>3, ReleasesOwn, AtPlace DEF SharedKept, fixedVars, Usable
<1>6. cred_cache' \in CredCaches /\ file' \in FilePairs /\ CacheFileWhole'
  <2>1. [cred |-> epoch, fresh |-> TRUE] \in CredCaches
    BY AtPlace DEF CredCaches
  <2>2. cred_cache \in CredCaches /\ file \in FilePairs /\ CacheFileWhole
    BY AtPlace DEF AwsTypes, AuthInv
  <2>3. QED
    BY <1>1, <1>3, <2>1, <2>2 DEF CacheFileWhole
<1>7. /\ "done" \in Places /\ n \in 0 .. MaxEpoch
      /\ Usable(cred_cache)' => \/ cred_cache'.cred = epoch
                                \/ Usable(cred_cache) /\ cred_cache'.cred = cred_cache.cred
  BY <1>3, EpochAssumption, AtPlace DEF Places, Usable
<1>8. QED
  BY <1>1, <1>4, <1>5, <1>6, <1>7, ReleasesOwn, LoginKept, AskStepDone

(* The lock of the token file is taken by one call only.                   *)
LEMMA TakesLockStep ==
    ASSUME TypeOK, AuthInv, NEW c \in Conns, TakesLock(c),
           UNCHANGED <<callVars, cacheVars, fixedVars>>
    PROVE  TypeOK' /\ AuthInv'
<1>1. /\ ask[c].pc = "sso" /\ sso_lock = None /\ sso_lock' = c
      /\ UNCHANGED <<cred_cache, saml_lock, file, loginVars>>
  BY DEF TakesLock, At
<1>2. ask[c].cred = 0 /\ kind[c] = "sso" /\ kind[c] \notin SamlKinds
  BY <1>1, AtPlace DEF Placed, SamlKinds
<1>3. PICK p \in {"cached", "refresh", "login"} : Moved(c, p, 0)
  <2>1. ReadCache \in Tokens
    BY AtPlace, NothingTypes DEF AwsTypes, FilePairs, Files, ReadCache
  <2>2. QED
    BY <1>2, <2>1, AtPlace, HoldsMoves DEF TakesLock, Places
<1>4. AskStep(c, p, 0)
  BY <1>1, <1>2, <1>3 DEF AskStep
<1>5. \A d \in Conns \ {c} : SharedKept(d)
  BY <1>1, EpochAssumption, AtPlace DEF SharedKept, fixedVars, Usable
<1>6. /\ cred_cache' \in CredCaches /\ file' \in FilePairs /\ CacheFileWhole'
      /\ saml_lock' \in Conns \cup {None} /\ sso_lock' \in Conns \cup {None}
  BY <1>1, AtPlace DEF AwsTypes, AuthInv, CacheFileWhole
<1>7. p \in Places /\ 0 \in 0 .. MaxEpoch
  BY EpochAssumption DEF Places
<1>8. QED
  BY <1>1, <1>4, <1>5, <1>6, <1>7, LoginKept, AskStepDone DEF Usable

(* The locks stay with a call that is not over.                            *)
LEMMA LocksStay ==
    ASSUME NEW c \in Conns, TypeOK, ask'[c].pc # "done", UNCHANGED <<saml_lock, sso_lock>>
    PROVE  Releases(c)
BY DEF Releases

(* Credentials that the portal gives out are those of the present epoch,   *)
(* and the lock is released with them.                                     *)
LEMMA GetRoleCredentialsStep ==
    ASSUME TypeOK, AuthInv, NEW c \in Conns, GetRoleCredentials(c),
           UNCHANGED <<callVars, cacheVars, fixedVars>>
    PROVE  TypeOK' /\ AuthInv'
<1>1. /\ ask[c].pc \in {"cached", "role"} /\ Releases(c)
      /\ UNCHANGED <<cred_cache, file, loginVars>>
  BY DEF GetRoleCredentials
<1>2. ask[c].cred = 0 /\ kind[c] = "sso"
  BY <1>1, AtPlace DEF Placed
<1>3. PICK p \in {"done", "delete"}, n \in {0, epoch} :
         Moved(c, p, n) /\ (n # 0 => p = "done")
  BY <1>2, AtPlace, GetsMoves, GoesMoves, EpochAssumption
     DEF GetRoleCredentials, Places
<1>4. LoginTypeOK' /\ ListenersJoined'
  BY <1>1, LoginKept
<1>5. file' \in FilePairs /\ file'.tmp = file.tmp /\ CacheFileWhole'
  BY <1>1, AtPlace DEF AwsTypes, AuthInv, CacheFileWhole
<1>6. p \in Places /\ ask[c].pc \notin {"off", "done", "sso"}
  BY <1>1 DEF Places
<1>7. QED
  BY <1>1, <1>2, <1>3, <1>4, <1>5, <1>6, PlainStep

(* A file that is deleted is not a partial one.                            *)
LEMMA DeleteCacheStep ==
    ASSUME TypeOK, AuthInv, NEW c \in Conns, DeleteCache(c),
           UNCHANGED <<callVars, cacheVars, fixedVars>>
    PROVE  TypeOK' /\ AuthInv'
<1>1. /\ ask[c].pc = "delete" /\ UNCHANGED <<cred_cache, saml_lock, sso_lock, loginVars>>
      /\ file' = [file EXCEPT !.cache = IF ReadCache.ours THEN NoFile ELSE @]
  BY DEF DeleteCache, At
<1>2. ask[c].cred = 0 /\ kind[c] = "sso"
  BY <1>1, AtPlace DEF Placed
<1>3. PICK p \in {"refresh", "login"} : Moved(c, p, 0)
  BY <1>2, AtPlace, GoesMoves DEF DeleteCache, Places
<1>4. LoginTypeOK' /\ ListenersJoined' /\ Releases(c)
  BY <1>1, <1>3, LoginKept, LocksStay DEF Moved
<1>5. file' \in FilePairs /\ file'.tmp = file.tmp /\ CacheFileWhole'
  BY <1>1, AtPlace, NothingTypes
     DEF AwsTypes, FilePairs, AuthInv, CacheFileWhole, NoFile
<1>6. p \in Places /\ 0 \in {0, epoch} /\ ask[c].pc \notin {"off", "done", "sso"}
  BY <1>1 DEF Places
<1>7. QED
  BY <1>1, <1>2, <1>3, <1>4, <1>5, <1>6, PlainStep

(* A new token is one.                                                     *)
LEMMA NewTokenType ==
    ASSUME TypeOK, AuthInv, NEW renewable \in BOOLEAN PROVE NewToken(renewable) \in Tokens
BY TypeParts, EpochAssumption DEF NewToken, Tokens, FixedTypes

(* A refreshed token is still to be written.                               *)
LEMMA RefreshAccessTokenStep ==
    ASSUME TypeOK, AuthInv, NEW c \in Conns, RefreshAccessToken(c),
           UNCHANGED <<callVars, cacheVars, fixedVars>>
    PROVE  TypeOK' /\ AuthInv'
<1>1. ask[c].pc = "refresh" /\ UNCHANGED <<cred_cache, saml_lock, sso_lock, file, loginVars>>
  BY DEF RefreshAccessToken, At
<1>2. ask[c].cred = 0 /\ kind[c] = "sso"
  BY <1>1, AtPlace DEF Placed
<1>3. PICK p \in {"truncate", "login"} : Moved(c, p, 0)
  BY <1>2, AtPlace, GoesMoves, HoldsMoves, NewTokenType
     DEF RefreshAccessToken, Places
<1>4. LoginTypeOK' /\ ListenersJoined' /\ Releases(c)
  BY <1>1, <1>3, LoginKept, LocksStay DEF Moved
<1>5. file' \in FilePairs /\ file'.tmp = file.tmp /\ CacheFileWhole'
  BY <1>1, AtPlace DEF AwsTypes, AuthInv, CacheFileWhole
<1>6. p \in Places /\ 0 \in {0, epoch} /\ ask[c].pc \notin {"off", "done", "sso"}
  BY <1>1 DEF Places
<1>7. QED
  BY <1>1, <1>2, <1>3, <1>4, <1>5, <1>6, PlainStep

(* An interactive login starts a listener that is not there yet.           *)
LEMMA InteractiveLoginStep ==
    ASSUME TypeOK, AuthInv, NEW c \in Conns, InteractiveLogin(c),
           UNCHANGED <<callVars, cacheVars, fixedVars>>
    PROVE  TypeOK' /\ AuthInv'
<1>1. ask[c].pc = "login" /\ Releases(c) /\ UNCHANGED <<cred_cache, file>>
  BY DEF InteractiveLogin, At
<1>2. ask[c].cred = 0 /\ kind[c] = "sso"
  BY <1>1, AtPlace DEF Placed
<1>3. PICK p \in {"browser", "done"} : Moved(c, p, 0)
  BY <1>2, AtPlace, GoesMoves, GetsMoves, EpochAssumption
     DEF InteractiveLogin, Places
<1>4. LoginTypeOK' /\ ListenersJoined'
  BY LoginKept, LoginStarts DEF InteractiveLogin
<1>5. file' \in FilePairs /\ file'.tmp = file.tmp /\ CacheFileWhole'
  BY <1>1, AtPlace DEF AwsTypes, AuthInv, CacheFileWhole
<1>6. p \in Places /\ 0 \in {0, epoch} /\ ask[c].pc \notin {"off", "done", "sso"}
  BY <1>1 DEF Places
<1>7. QED
  BY <1>1, <1>2, <1>3, <1>4, <1>5, <1>6, PlainStep

(* A login that succeeds brings a new token.                               *)
LEMMA CreateTokenStep ==
    ASSUME TypeOK, AuthInv, NEW c \in Conns, CreateToken(c),
           UNCHANGED <<callVars, cacheVars, fixedVars>>
    PROVE  TypeOK' /\ AuthInv'
<1>1. ask[c].pc = "poll" /\ Releases(c) /\ UNCHANGED <<cred_cache, file, loginVars>>
  BY DEF CreateToken, At
<1>2. ask[c].cred = 0 /\ kind[c] = "sso"
  BY <1>1, AtPlace DEF Placed
<1>3. PICK p \in {"truncate", "done"} : Moved(c, p, 0)
  BY <1>2, AtPlace, HoldsMoves, GetsMoves, NewTokenType, EpochAssumption
     DEF CreateToken, Places
<1>4. LoginTypeOK' /\ ListenersJoined'
  BY <1>1, LoginKept
<1>5. file' \in FilePairs /\ file'.tmp = file.tmp /\ CacheFileWhole'
  BY <1>1, AtPlace DEF AwsTypes, AuthInv, CacheFileWhole
<1>6. p \in Places /\ 0 \in {0, epoch} /\ ask[c].pc \notin {"off", "done", "sso"}
  BY <1>1 DEF Places
<1>7. QED
  BY <1>1, <1>2, <1>3, <1>4, <1>5, <1>6, PlainStep

(* The file is written under the lock, the temporary one first.            *)
LEMMA FileStep ==
    ASSUME TypeOK, AuthInv, NEW c \in Conns, NEW p \in {"write", "rename", "role"},
           ask[c].pc \in {"truncate", "write", "rename"}, Moved(c, p, 0),
           UNCHANGED <<callVars, cacheVars, fixedVars>>,
           UNCHANGED <<cred_cache, saml_lock, sso_lock, loginVars>>,
           file' \in FilePairs, CacheFileWhole', p = "rename" => file'.tmp.content = "whole"
    PROVE  TypeOK' /\ AuthInv'
<1>1. kind[c] = "sso" /\ kind[c] \notin SamlKinds /\ sso_lock = c
  BY AtPlace DEF Placed, Locked, SamlKinds
<1>2. AskStep(c, p, 0)
  BY <1>1 DEF AskStep
<1>3. \A d \in Conns \ {c} : SharedKept(d)
  BY <1>1, AtPlace DEF SharedKept, fixedVars, Usable
<1>4. /\ cred_cache' \in CredCaches
      /\ saml_lock' \in Conns \cup {None} /\ sso_lock' \in Conns \cup {None}
  BY AtPlace DEF AwsTypes
<1>5. p \in Places /\ 0 \in 0 .. MaxEpoch
  BY EpochAssumption DEF Places
<1>6. QED
  BY <1>2, <1>3, <1>4, <1>5, LoginKept, AskStepDone DEF Usable

(* A temporary file is truncated by the holder of the lock only.           *)
LEMMA TruncatesStep ==
    ASSUME TypeOK, AuthInv, NEW c \in Conns, Truncates(c),
           UNCHANGED <<callVars, cacheVars, fixedVars>>
    PROVE  TypeOK' /\ AuthInv'
<1>1. /\ ask[c].pc = "truncate" /\ UNCHANGED <<cred_cache, saml_lock, sso_lock, loginVars>>
      /\ \/ file' = [file EXCEPT !.tmp = Partial] /\ Goes(c, "write")
         \/ file' = file /\ Goes(c, "role")
  BY DEF Truncates, Writes, At
<1>2. PICK p \in {"write", "role"} : Moved(c, p, 0)
  BY <1>1, AtPlace, GoesMoves DEF Places
<1>3. file' \in FilePairs /\ CacheFileWhole'
  BY <1>1, AtPlace, NothingTypes DEF AwsTypes, FilePairs, AuthInv, CacheFileWhole
<1>4. QED
  BY <1>1, <1>2, <1>3, FileStep

(* Written to its end, the temporary file is whole.                        *)
LEMMA WritesTemporaryStep ==
    ASSUME TypeOK, AuthInv, NEW c \in Conns, WritesTemporary(c),
           UNCHANGED <<callVars, cacheVars, fixedVars>>
    PROVE  TypeOK' /\ AuthInv'
<1>1. /\ ask[c].pc = "write" /\ UNCHANGED <<cred_cache, saml_lock, sso_lock, loginVars>>
      /\ \/ file' = [file EXCEPT !.tmp = Whole(ask[c].token)] /\ Goes(c, "rename")
         \/ file' = [file EXCEPT !.tmp = NoFile] /\ Goes(c, "role")
  BY DEF WritesTemporary, Writes, NoTemporary, At
<1>2. PICK p \in {"rename", "role"} :
         Moved(c, p, 0) /\ (p = "rename" => file' = [file EXCEPT !.tmp = Whole(ask[c].token)])
  BY <1>1, AtPlace, GoesMoves DEF Places
<1>3. ask[c].token \in Tokens /\ file \in FilePairs
  BY AtPlace DEF AskStates, AwsTypes
<1>4. file' \in FilePairs /\ CacheFileWhole'
  BY <1>1, <1>3, NothingTypes DEF FilePairs, AuthInv, CacheFileWhole
<1>5. p = "rename" => file'.tmp.content = "whole"
  BY <1>2, <1>3 DEF FilePairs, Whole
<1>6. QED
  BY <1>1, <1>2, <1>4, <1>5, FileStep

(* What is renamed to the cache file is whole.                             *)
LEMMA RenamesStep ==
    ASSUME TypeOK, AuthInv, NEW c \in Conns, Renames(c),
           UNCHANGED <<callVars, cacheVars, fixedVars>>
    PROVE  TypeOK' /\ AuthInv'
<1>1. /\ ask[c].pc = "rename" /\ UNCHANGED <<cred_cache, saml_lock, sso_lock, loginVars>>
      /\ Goes(c, "role")
      /\ \/ file' = [cache |-> file.tmp, tmp |-> NoFile]
         \/ file' = [file EXCEPT !.tmp = NoFile]
  BY DEF Renames, Writes, NoTemporary, At
<1>2. Moved(c, "role", 0)
  BY <1>1, AtPlace, GoesMoves DEF Places
<1>3. file \in FilePairs /\ file.tmp.content = "whole"
  BY <1>1, AtPlace DEF AwsTypes, Locked
<1>4. file' \in FilePairs /\ CacheFileWhole'
  BY <1>1, <1>3, NothingTypes DEF FilePairs, AuthInv, CacheFileWhole
<1>5. QED
  BY <1>1, <1>2, <1>4, FileStep

-----------------------------------------------------------------------------
(* Steps that move no call: of the login, of time, of the server. *)

(* A step of nobody keeps the parts of all connections if the epoch only   *)
(* grows, and credentials only become unusable.                            *)
LEMMA NobodyMoves ==
    ASSUME TypeOK, AuthInv, UNCHANGED <<callVars, kind>>, \A d \in Conns : ask'[d] = ask[d],
           \A d \in Conns : SharedKept(d),
           LoginTypeOK', FixedTypes', AwsTypes', CacheTypes',
           PasswordsHeld', CacheFileWhole', ListenersJoined'
    PROVE  TypeOK' /\ AuthInv'
<1>1. \A d \in Conns : Same(d)
  BY DEF Same, callVars
<1>2. CallTypes'
  BY TypeParts DEF CallTypes, callVars
<1>3. \A d \in Conns : Local(d)'
  BY <1>1, OtherKept DEF AuthInv
<1>4. QED
  BY <1>2, <1>3, TypePartsNext DEF AuthInv

(* The steps of the browser and of its listener touch no connection.       *)
LEMMA LoginStep ==
    ASSUME TypeOK, AuthInv, UNCHANGED <<callVars, cacheVars, credentialVars, fixedVars>>,
           LoginTypeOK', ListenersJoined'
    PROVE  TypeOK' /\ AuthInv'
<1>1. AwsTypes' /\ FixedTypes' /\ CacheTypes'
  BY TypeParts
     DEF AwsTypes, FixedTypes, CacheTypes, cacheVars, credentialVars, fixedVars
<1>2. PasswordsHeld' /\ CacheFileWhole'
  BY DEF AuthInv, PasswordsHeld, CacheFileWhole, cacheVars, credentialVars
<1>3. \A d \in Conns : SharedKept(d) /\ ask'[d] = ask[d]
  BY AtPlace DEF SharedKept, credentialVars, fixedVars, Usable
<1>4. UNCHANGED <<callVars, kind>>
  BY DEF fixedVars
<1>5. QED
  BY <1>1, <1>2, <1>3, <1>4, NobodyMoves

(* The thread of a login and that of its listener join in the end.         *)
LEMMA ListenerStep ==
    ASSUME TypeOK, AuthInv, NEW c \in Conns,
           \/ LoginGoesOn(c) \/ WEBServerInit(c) \/ ListenerEnds(c) \/ HandleConnection(c)
    PROVE  LoginTypeOK' /\ ListenersJoined'
<1> DEFINE Listeners == [at : {"none", "binding", "listening", "over"},
                         parser : {"request", "midway", "finished"},
                         fields : SUBSET {"code", "saml", "mismatch"}, listening : BOOLEAN]
<1>1. LoginTypeOK /\ ListenersJoined /\ listener[c] \in Listeners
  BY TypeParts DEF AuthInv, LoginTypeOK
<1>2. CASE LoginGoesOn(c)
  <2>1. CASE LaunchBrowser(c) \/ GivesUpOnListener(c)
    BY <1>1, <2>1 DEF LaunchBrowser, GivesUpOnListener, LoginTypeOK, ListenersJoined
  <2>2. CASE Join(c)
    <3>1. NoListener \in Listeners /\ NoListener.at = "none" /\ Result(c) \in {"none", "code", "saml"}
      BY DEF NoListener, Result
    <3>2. QED
      BY <1>1, <2>2, <3>1 DEF Join, LoginTypeOK, ListenersJoined
  <2>3. QED
    BY <1>2, <2>1, <2>2 DEF LoginGoesOn
<1>3. CASE WEBServerInit(c)
  <2>1. PICK at \in {"listening", "over"}, on \in BOOLEAN :
           listener' = [listener EXCEPT ![c].at = at, ![c].listening = on]
    BY <1>3 DEF WEBServerInit, PortFree
  <2>2. /\ [listener[c] EXCEPT !.at = at, !.listening = on] \in Listeners
        /\ listener' = [listener EXCEPT ![c] = [listener[c] EXCEPT !.at = at, !.listening = on]]
    BY <1>1, <2>1 DEF LoginTypeOK
  <2>3. flow[c] # "off" /\ UNCHANGED <<flow, answer>>
    BY <1>1, <1>3 DEF WEBServerInit, ListenersJoined
  <2>4. LoginTypeOK'
    BY <1>1, <2>2, <2>3 DEF LoginTypeOK
  <2>5. \A d \in Conns \ {c} : listener'[d] = listener[d]
    BY <2>2, <1>1 DEF LoginTypeOK
  <2>6. QED
    BY <1>1, <2>3, <2>4, <2>5 DEF ListenersJoined
<1>4. CASE ListenerEnds(c)
  BY <1>1, <1>4 DEF ListenerEnds, LoginTypeOK, ListenersJoined
<1>5. CASE HandleConnection(c)
  <2>1. PICK request \in Requests : listener' = [listener EXCEPT ![c] = Parse(@, request)]
    BY <1>5 DEF HandleConnection
  <2>2. /\ Parse(listener[c], request) \in Listeners
        /\ Parse(listener[c], request).at = listener[c].at
    BY <1>1 DEF Parse, Finishes
  <2>3. QED
    BY <1>1, <1>5, <2>1, <2>2 DEF HandleConnection, LoginTypeOK, ListenersJoined
<1>6. QED
  BY <1>2, <1>3, <1>4, <1>5

(* Credentials and tokens that expire are not used any more.               *)
LEMMA ExpiresStep ==
    ASSUME TypeOK, AuthInv, Expires, UNCHANGED <<callVars, cacheVars, fixedVars>>
    PROVE  TypeOK' /\ AuthInv'
<1>1. /\ UNCHANGED <<saml_lock, sso_lock, ask, loginVars>>
      /\ \/ cred_cache' = [cred_cache EXCEPT !.fresh = FALSE] /\ file' = file
         \/ file' = [file EXCEPT !.cache.token.fresh = FALSE] /\ cred_cache' = cred_cache
  BY DEF Expires
<1>2. LoginTypeOK' /\ ListenersJoined'
  BY <1>1, LoginKept
<1>3. AwsTypes /\ FixedTypes /\ CacheTypes
  BY TypeParts
<1>4. /\ file' \in FilePairs /\ file'.tmp = file.tmp
      /\ file'.cache.content = file.cache.content
  <2>1. file \in FilePairs
    BY <1>3 DEF AwsTypes
  <2>2. CASE file' = file
    BY <2>1, <2>2
  <2>3. CASE file' = [file EXCEPT !.cache.token.fresh = FALSE]
    <3>1. [file.cache.token EXCEPT !.fresh = FALSE] \in Tokens
      BY <2>1 DEF FilePairs, Files, Tokens
    <3>2. /\ [file.cache EXCEPT !.token = [file.cache.token EXCEPT !.fresh = FALSE]] \in Files
          /\ file' = [file EXCEPT !.cache =
                         [file.cache EXCEPT !.token = [file.cache.token EXCEPT !.fresh = FALSE]]]
      BY <2>1, <2>3, <3>1 DEF FilePairs, Files
    <3>3. QED
      BY <2>1, <3>2 DEF FilePairs, Files
  <2>4. QED
    BY <1>1, <2>2, <2>3
<1>5. cred_cache' \in CredCaches /\ (Usable(cred_cache)' => cred_cache' = cred_cache)
  BY <1>1, <1>3 DEF AwsTypes, CredCaches, Usable
<1>6. AwsTypes' /\ FixedTypes' /\ CacheTypes'
  BY <1>1, <1>3, <1>4, <1>5
     DEF AwsTypes, FixedTypes, CacheTypes, cacheVars, fixedVars
<1>7. PasswordsHeld' /\ CacheFileWhole'
  BY <1>4 DEF AuthInv, PasswordsHeld, CacheFileWhole, cacheVars
<1>8. \A d \in Conns : SharedKept(d) /\ ask'[d] = ask[d]
  <2>1. epoch' = epoch /\ epoch \in Nat
    BY <1>3, EpochAssumption DEF fixedVars, FixedTypes
  <2>2. QED
    BY <1>1, <1>4, <1>5, <2>1 DEF SharedKept, Usable
<1>9. UNCHANGED <<callVars, kind>>
  BY DEF fixedVars
<1>10. QED
  BY <1>2, <1>6, <1>7, <1>8, <1>9, NobodyMoves

(* Passwords that expire stay the passwords they are.                      *)
LEMMA PasswordsExpireStep ==
    ASSUME TypeOK, AuthInv, PasswordsExpire PROVE TypeOK' /\ AuthInv'
<1>1. /\ UNCHANGED <<callVars, secrets_lock, awsVars, fixedVars>>
      /\ \/ token_cache' = [token_cache EXCEPT !.fresh = FALSE] /\ secrets_cache' = secrets_cache
         \/ secrets_cache' = [secrets_cache EXCEPT !.fresh = FALSE] /\ token_cache' = token_cache
  BY DEF PasswordsExpire
<1>2. LoginTypeOK' /\ ListenersJoined'
  BY <1>1, LoginKept DEF awsVars
<1>3. AwsTypes' /\ FixedTypes' /\ CacheFileWhole'
  BY <1>1, TypeParts
     DEF AwsTypes, FixedTypes, awsVars, credentialVars, fixedVars, AuthInv, CacheFileWhole
<1>4. CacheTypes' /\ PasswordsHeld'
  BY <1>1, TypeParts DEF CacheTypes, fixedVars, AuthInv, PasswordsHeld
<1>5. \A d \in Conns : SharedKept(d) /\ ask'[d] = ask[d]
  BY <1>1, AtPlace DEF SharedKept, awsVars, credentialVars, fixedVars, Usable
<1>6. UNCHANGED <<callVars, kind>>
  BY <1>1 DEF fixedVars
<1>7. QED
  BY <1>2, <1>3, <1>4, <1>5, <1>6, NobodyMoves

(* What is of after a refusal stays so.                                    *)
LEMMA RotatesStep ==
    ASSUME TypeOK, AuthInv, Rotates PROVE TypeOK' /\ AuthInv'
<1>1. /\ UNCHANGED <<callVars, cacheVars, awsVars, kind, calls>>
      /\ epoch < MaxEpoch /\ epoch' = epoch + 1
  BY DEF Rotates
<1>2. LoginTypeOK' /\ ListenersJoined'
  BY <1>1, LoginKept DEF awsVars
<1>3. AwsTypes' /\ CacheTypes' /\ CacheFileWhole' /\ PasswordsHeld'
  BY <1>1, TypeParts
     DEF AwsTypes, CacheTypes, awsVars, credentialVars, cacheVars, AuthInv, 
                         CacheFileWhole, PasswordsHeld
<1>4. FixedTypes' /\ epoch' \in Nat /\ epoch <= epoch'
  BY <1>1, TypeParts, EpochAssumption DEF FixedTypes
<1>5. \A d \in Conns : SharedKept(d) /\ ask'[d] = ask[d]
  BY <1>1, <1>4 DEF SharedKept, awsVars, credentialVars, Usable
<1>6. QED
  BY <1>1, <1>2, <1>3, <1>4, <1>5, NobodyMoves

-----------------------------------------------------------------------------
(* Connect. *)

(* A step of Connect that leaves AWS alone: what it makes of the call of c *)
(* and of the caches.                                                      *)
LEMMA CallDone ==
    ASSUME TypeOK, AuthInv, NEW c \in Conns, UNCHANGED <<awsVars, kind, epoch>>,
           \A d \in Conns \ {c} : Same(d), CallTypes', CacheTypes', PasswordsHeld',
           ask[c].pc = "off", pc'[c] \notin {"ensuring", "refreshing"},
           Provided(c)', Renewed(c)'
    PROVE  TypeOK' /\ AuthInv'
<1>1. UNCHANGED <<loginVars, cred_cache, saml_lock, sso_lock, file, ask>>
  BY DEF awsVars, credentialVars
<1>2. LoginTypeOK' /\ ListenersJoined'
  BY <1>1, LoginKept
<1>3. AwsTypes' /\ FixedTypes' /\ CacheFileWhole'
  BY <1>1, TypeParts DEF AwsTypes, FixedTypes, AuthInv, CacheFileWhole
<1>4. \A d \in Conns \ {c} : Local(d)'
  <2>1. \A d \in Conns \ {c} : SharedKept(d)
    BY <1>1, AtPlace DEF SharedKept, Usable
  <2>2. QED
    BY <2>1, OtherKept DEF AuthInv
<1>5. Placed(c)' /\ Locked(c)'
  BY <1>1, AtPlace DEF Placed, Locked, Exchanging
<1>6. Local(c)'
  BY <1>5 DEF Local
<1>7. QED
  BY <1>2, <1>3, <1>4, <1>6, TypePartsNext DEF AuthInv

(* Where a call is when it asks nobody.                                    *)
LEMMA AskOff ==
    ASSUME TypeOK, AuthInv, NEW c \in Conns, pc[c] \notin {"ensuring", "refreshing"}
    PROVE  ask[c].pc = "off" /\ ask[c].cred = 0
BY DEF AuthInv, Local, Placed

(* What a call starts with is of now.                                      *)
LEMMA ConnectCallStep ==
    ASSUME TypeOK, AuthInv, NEW c \in Conns, Connect(c)
    PROVE  TypeOK' /\ AuthInv'
<1>1. CallTypes /\ CacheTypes /\ FixedTypes /\ PasswordsHeld /\ Provided(c) /\ Renewed(c)
  BY TypeParts DEF AuthInv, Local
<1>2. /\ UNCHANGED <<awsVars, kind, epoch>>
      /\ pc[c] \notin {"ensuring", "refreshing"}
      /\ pc'[c] \notin {"ensuring", "refreshing"}
      /\ \A d \in Conns \ {c} : Same(d)
  BY DEF Connect, Moves, awsVars, credentialVars, Same
<1>3. CallTypes'
  BY <1>1, EpochAssumption
     DEF Connect, Moves, NewProviders, Nothing, CallTypes, FixedTypes
<1>4. CacheTypes' /\ PasswordsHeld'
  BY <1>1, CallsAssumption DEF Connect, CacheTypes, PasswordsHeld, cacheVars
<1>5. Provided(c)'
  <2>1. PICK p \in NewProviders(kind[c]) \cup {provider[c]} : provider'[c] = p
    BY DEF Connect
  <2>2. epoch # None /\ 0 # None /\ kind[c] \in Kinds
    BY <1>1, EpochAssumption DEF FixedTypes
  <2>3. kind[c] \in SamlKinds \cup {"iam", "iam_profile"} => None \notin NewProviders(kind[c])
    BY <2>2 DEF NewProviders
  <2>4. kind[c] \notin {"sso", "secrets"} => p # None
    BY <1>1, <2>2, <2>3 DEF Kinds, Provided
  <2>5. pc'[c] = IF kind[c] = "secrets" THEN "secret" ELSE "ensure"
    BY <1>1 DEF Connect, Moves, CallTypes
  <2>6. QED
    BY <1>2, <2>1, <2>4, <2>5 DEF Provided
<1>6. Renewed(c)'
  BY <1>3 DEF Connect, Moves, CallTypes, Renewed
<1>7. QED
  BY <1>2, <1>3, <1>4, <1>5, <1>6, AskOff, CallDone

(* A call that returns before it offers a password offers nothing.         *)
LEMMA ReturnsAtOnceStep ==
    ASSUME TypeOK, AuthInv, NEW c \in Conns, ReturnsAtOnce(c),
           pc[c] \in {"ensure", "secret", "fetch"}
    PROVE  TypeOK' /\ AuthInv'
<1>1. CallTypes /\ CacheTypes /\ FixedTypes /\ PasswordsHeld /\ Provided(c) /\ Renewed(c)
  BY TypeParts DEF AuthInv, Local
<1>2. /\ UNCHANGED <<awsVars, kind, epoch>>
      /\ pc[c] \notin {"ensuring", "refreshing"}
      /\ pc'[c] \notin {"ensuring", "refreshing"}
      /\ \A d \in Conns \ {c} : Same(d)
  BY DEF ReturnsAtOnce, Returns, Moves, awsVars, credentialVars, fixedVars, Same
<1>3. CallTypes'
  BY <1>1 DEF ReturnsAtOnce, Returns, Moves, CallTypes
<1>4. CacheTypes' /\ PasswordsHeld'
  BY <1>1 DEF ReturnsAtOnce, CacheTypes, PasswordsHeld, cacheVars, fixedVars
<1>5. Provided(c)'
  BY <1>1, <1>2 DEF ReturnsAtOnce, Returns, Moves, Provided
<1>6. Renewed(c)'
  BY <1>1, <1>2 DEF ReturnsAtOnce, Returns, Moves, CallTypes, Renewed
<1>7. QED
  BY <1>2, <1>3, <1>4, <1>5, <1>6, AskOff, CallDone

(* A password that has not expired is offered as cached; another is        *)
(* dropped.                                                                *)
LEMMA LookUpStep ==
    ASSUME TypeOK, AuthInv, NEW c \in Conns, LookUp(c)
    PROVE  TypeOK' /\ AuthInv'
<1>1. CallTypes /\ CacheTypes /\ FixedTypes /\ PasswordsHeld /\ Provided(c) /\ Renewed(c)
  BY TypeParts DEF AuthInv, Local
<1>2. /\ UNCHANGED <<awsVars, kind, epoch>>
      /\ pc[c] \notin {"ensuring", "refreshing"}
      /\ pc'[c] \notin {"ensuring", "refreshing"}
      /\ \A d \in Conns \ {c} : Same(d)
  BY <1>1
     DEF LookUp, Offers, Moves, CallTypes, awsVars, credentialVars, fixedVars, Same
<1>3. CallTypes'
  BY <1>1, EpochAssumption
     DEF LookUp, Offers, Moves, NoPassword, CallTypes, CacheTypes, FixedTypes,
         PasswordsHeld, fixedVars
<1>4. CacheTypes' /\ PasswordsHeld'
  <2>1. UNCHANGED <<secrets_cache, secrets_lock, calls>>
    BY DEF LookUp, fixedVars
  <2>2. /\ NoPassword \in [cred : 0 .. MaxEpoch \cup {None}, fresh : BOOLEAN]
        /\ ~NoPassword.fresh
    BY DEF NoPassword
  <2>3. token_cache' = token_cache \/ token_cache' = NoPassword
    BY DEF LookUp
  <2>4. QED
    BY <1>1, <2>1, <2>2, <2>3 DEF CacheTypes, PasswordsHeld
<1>5. Provided(c)'
  BY <1>1, <1>2 DEF LookUp, Offers, Moves, CallTypes, Provided
<1>6. Renewed(c)'
  BY <1>1, <1>2 DEF LookUp, Offers, Moves, CallTypes, Provided, Renewed
<1>7. QED
  BY <1>2, <1>3, <1>4, <1>5, <1>6, AskOff, CallDone

(* A token is signed anew with the credentials of the provider.            *)
LEMMA GenerateTokenStep ==
    ASSUME TypeOK, AuthInv, NEW c \in Conns, GenerateToken(c)
    PROVE  TypeOK' /\ AuthInv'
<1>1. CallTypes /\ CacheTypes /\ FixedTypes /\ PasswordsHeld /\ Provided(c) /\ Renewed(c)
  BY TypeParts DEF AuthInv, Local
<1>2. /\ UNCHANGED <<awsVars, kind, epoch>>
      /\ pc[c] \notin {"ensuring", "refreshing"}
      /\ pc'[c] \notin {"ensuring", "refreshing"}
      /\ \A d \in Conns \ {c} : Same(d)
  BY DEF GenerateToken, Offers, Moves, awsVars, credentialVars, fixedVars, Same
<1>3. CallTypes'
  BY <1>1 DEF GenerateToken, Offers, Moves, CallTypes, Provided
<1>4. CacheTypes' /\ PasswordsHeld'
  BY <1>1
     DEF GenerateToken, CallTypes, CacheTypes, PasswordsHeld, Provided, fixedVars
<1>5. Provided(c)'
  BY <1>1, <1>2 DEF GenerateToken, Offers, Moves, Provided
<1>6. Renewed(c)'
  BY <1>1, <1>2 DEF GenerateToken, Offers, Moves, CallTypes, Provided, Renewed
<1>7. QED
  BY <1>2, <1>3, <1>4, <1>5, <1>6, AskOff, CallDone

(* A cached token that is refused is not what is returned with.            *)
LEMMA TryConnectStep ==
    ASSUME TypeOK, AuthInv, NEW c \in Conns, TryConnect(c)
    PROVE  TypeOK' /\ AuthInv'
<1>1. CallTypes /\ CacheTypes /\ FixedTypes /\ PasswordsHeld /\ Provided(c) /\ Renewed(c)
  BY TypeParts DEF AuthInv, Local
<1>2. /\ UNCHANGED <<awsVars, kind, epoch>>
      /\ pc[c] \notin {"ensuring", "refreshing"}
      /\ pc'[c] \notin {"ensuring", "refreshing"}
      /\ \A d \in Conns \ {c} : Same(d)
  BY <1>1
     DEF TryConnect, Returns, Moves, CallTypes, awsVars, credentialVars, fixedVars,
         Same
<1>3. CallTypes'
  <2>1. PICK r \in Answers(c) :
           IF r = "refused" /\ offered[c].from = "cache"
           THEN /\ Moves(c, "refresh") /\ since' = [since EXCEPT ![c] = epoch]
                /\ UNCHANGED result
           ELSE Returns(c, r) /\ UNCHANGED since
    BY DEF TryConnect
  <2>2. r \in {"ok", "unreachable", "refused"} /\ epoch \in 0 .. MaxEpoch
    BY <1>1 DEF Answers, FixedTypes
  <2>3. pc' \in [Conns -> {"idle", "ensure", "ensuring", "token", "connect",
                          "sign", "sign_expired", "refresh", "refreshing",
                          "renew", "reconnect", "secret", "cached", "fetch"}]
    BY <1>1, <2>1 DEF Returns, Moves, CallTypes
  <2>4. /\ since' \in [Conns -> 0 .. MaxEpoch]
        /\ result' \in [Conns -> {"none", "ok", "refused", "unreachable", "client"}]
    BY <1>1, <2>1, <2>2 DEF Returns, CallTypes
  <2>5. QED
    BY <1>1, <2>3, <2>4 DEF TryConnect, CallTypes
<1>4. CacheTypes' /\ PasswordsHeld'
  BY <1>1 DEF TryConnect, CacheTypes, PasswordsHeld, cacheVars, fixedVars
<1>5. Provided(c)'
  <2>1. pc[c] = "connect" /\ provider' = provider
    BY DEF TryConnect
  <2>2. \/ pc' = [pc EXCEPT ![c] = "idle"]
        \/ pc' = [pc EXCEPT ![c] = "refresh"] /\ offered[c].from = "cache"
    BY DEF TryConnect, Returns, Moves
  <2>3. kind[c] = "secrets" => offered[c].from = "new"
    BY <1>1, <2>1 DEF Renewed
  <2>4. QED
    BY <1>1, <1>2, <2>1, <2>2, <2>3 DEF Provided, CallTypes
<1>6. Renewed(c)'
  BY <1>1, <1>2, <1>3 DEF TryConnect, Returns, Moves, CallTypes, Renewed
<1>7. QED
  BY <1>2, <1>3, <1>4, <1>5, <1>6, AskOff, CallDone

(* A second attempt returns whatever the server answers.                   *)
LEMMA TryAgainStep ==
    ASSUME TypeOK, AuthInv, NEW c \in Conns, TryAgain(c)
    PROVE  TypeOK' /\ AuthInv'
<1>1. CallTypes /\ CacheTypes /\ FixedTypes /\ PasswordsHeld /\ Provided(c) /\ Renewed(c)
  BY TypeParts DEF AuthInv, Local
<1>2. /\ UNCHANGED <<awsVars, kind, epoch>>
      /\ pc[c] \notin {"ensuring", "refreshing"}
      /\ pc'[c] \notin {"ensuring", "refreshing"}
      /\ \A d \in Conns \ {c} : Same(d)
  BY DEF TryAgain, Returns, Moves, awsVars, credentialVars, fixedVars, Same
<1>3. CallTypes'
  BY <1>1 DEF TryAgain, Answers, Returns, Moves, CallTypes
<1>4. CacheTypes' /\ PasswordsHeld'
  BY <1>1 DEF TryAgain, CacheTypes, PasswordsHeld, cacheVars, fixedVars
<1>5. Provided(c)'
  BY <1>1, <1>2 DEF TryAgain, Returns, Moves, Provided
<1>6. Renewed(c)'
  BY <1>1, <1>2 DEF TryAgain, Returns, Moves, CallTypes, Provided, Renewed
<1>7. QED
  BY <1>2, <1>3, <1>4, <1>5, <1>6, AskOff, CallDone

(* A cached secret is looked up under the lock.                            *)
LEMMA CachedSecretStep ==
    ASSUME TypeOK, AuthInv, NEW c \in Conns, CachedSecret(c)
    PROVE  TypeOK' /\ AuthInv'
<1>1. CallTypes /\ CacheTypes /\ FixedTypes /\ PasswordsHeld /\ Provided(c) /\ Renewed(c)
  BY TypeParts DEF AuthInv, Local
<1>2. /\ UNCHANGED <<awsVars, kind, epoch>>
      /\ pc[c] \notin {"ensuring", "refreshing"}
      /\ pc'[c] \notin {"ensuring", "refreshing"}
      /\ \A d \in Conns \ {c} : Same(d)
  BY <1>1
     DEF CachedSecret, Offers, Moves, CallTypes, awsVars, credentialVars, fixedVars,
         Same
<1>3. CallTypes'
  <2>1. secrets_cache.fresh => secrets_cache.cred \in 0 .. MaxEpoch
    BY <1>1 DEF CacheTypes, PasswordsHeld
  <2>2. CASE secrets_cache.fresh
    <3>1. [cred |-> secrets_cache.cred, from |-> "cache"]
             \in [cred : 0 .. MaxEpoch, from : {"cache", "new"}]
      BY <2>1, <2>2
    <3>2. QED
      BY <1>1, <3>1 DEF CachedSecret, Offers, Moves, CallTypes
  <2>3. CASE ~secrets_cache.fresh
    BY <1>1, <2>3 DEF CachedSecret, Moves, CallTypes
  <2>4. QED
    BY <2>2, <2>3
<1>4. CacheTypes' /\ PasswordsHeld'
  <2>1. UNCHANGED <<token_cache, calls>> /\ secrets_lock' \in {secrets_lock, c}
    BY DEF CachedSecret, fixedVars
  <2>2. /\ NoPassword \in [cred : 0 .. MaxEpoch \cup {None}, fresh : BOOLEAN]
        /\ ~NoPassword.fresh
    BY DEF NoPassword
  <2>3. secrets_cache' = secrets_cache \/ secrets_cache' = NoPassword
    BY DEF CachedSecret
  <2>4. QED
    BY <1>1, <2>1, <2>2, <2>3 DEF CacheTypes, PasswordsHeld
<1>5. Provided(c)'
  BY <1>1, <1>2 DEF CachedSecret, Offers, Moves, CallTypes, Provided
<1>6. Renewed(c)'
  BY <1>1, <1>2 DEF CachedSecret, Offers, Moves, CallTypes, Renewed
<1>7. QED
  BY <1>2, <1>3, <1>4, <1>5, <1>6, AskOff, CallDone

(* A cached secret that is refused is fetched again, after the refusal.    *)
LEMMA TryCachedSecretStep ==
    ASSUME TypeOK, AuthInv, NEW c \in Conns, TryCachedSecret(c)
    PROVE  TypeOK' /\ AuthInv'
<1>1. CallTypes /\ CacheTypes /\ FixedTypes /\ PasswordsHeld /\ Provided(c) /\ Renewed(c)
  BY TypeParts DEF AuthInv, Local
<1>2. /\ UNCHANGED <<awsVars, kind, epoch>>
      /\ pc[c] \notin {"ensuring", "refreshing"}
      /\ pc'[c] \notin {"ensuring", "refreshing"}
      /\ \A d \in Conns \ {c} : Same(d)
  BY <1>1
     DEF TryCachedSecret, Returns, Moves, CallTypes, awsVars, credentialVars,
         fixedVars, Same
<1>3. CallTypes'
  <2>1. PICK r \in Answers(c) :
           IF r = "ok" THEN Returns(c, r) /\ UNCHANGED since
           ELSE /\ Moves(c, "fetch") /\ since' = [since EXCEPT ![c] = epoch]
                /\ UNCHANGED result
    BY DEF TryCachedSecret
  <2>2. epoch \in 0 .. MaxEpoch
    BY <1>1 DEF FixedTypes
  <2>3. pc' \in [Conns -> {"idle", "ensure", "ensuring", "token", "connect",
                          "sign", "sign_expired", "refresh", "refreshing",
                          "renew", "reconnect", "secret", "cached", "fetch"}]
    BY <1>1, <2>1 DEF Returns, Moves, CallTypes
  <2>4. /\ since' \in [Conns -> 0 .. MaxEpoch]
        /\ result' \in [Conns -> {"none", "ok", "refused", "unreachable", "client"}]
    BY <1>1, <2>1, <2>2 DEF Returns, CallTypes
  <2>5. QED
    BY <1>1, <2>3, <2>4 DEF TryCachedSecret, CallTypes
<1>4. CacheTypes' /\ PasswordsHeld'
  BY <1>1 DEF TryCachedSecret, CacheTypes, PasswordsHeld, fixedVars
<1>5. Provided(c)'
  BY <1>1, <1>2 DEF TryCachedSecret, Returns, Moves, CallTypes, Provided
<1>6. Renewed(c)'
  BY <1>1, <1>2, <1>3 DEF TryCachedSecret, Returns, Moves, CallTypes, Renewed
<1>7. QED
  BY <1>2, <1>3, <1>4, <1>5, <1>6, AskOff, CallDone

(* A secret that is fetched is of the present epoch.                       *)
LEMMA GetSecretValueStep ==
    ASSUME TypeOK, AuthInv, NEW c \in Conns, GetSecretValue(c)
    PROVE  TypeOK' /\ AuthInv'
<1>1. CallTypes /\ CacheTypes /\ FixedTypes /\ PasswordsHeld /\ Provided(c) /\ Renewed(c)
  BY TypeParts DEF AuthInv, Local
<1>2. /\ UNCHANGED <<awsVars, kind, epoch>>
      /\ pc[c] \notin {"ensuring", "refreshing"}
      /\ pc'[c] \notin {"ensuring", "refreshing"}
      /\ \A d \in Conns \ {c} : Same(d)
  BY DEF GetSecretValue, Offers, Moves, awsVars, credentialVars, fixedVars, Same
<1>3. CallTypes'
  BY <1>1 DEF GetSecretValue, Offers, Moves, CallTypes, FixedTypes
<1>4. CacheTypes' /\ PasswordsHeld'
  BY <1>1, EpochAssumption
     DEF GetSecretValue, CacheTypes, FixedTypes, PasswordsHeld, fixedVars
<1>5. Provided(c)'
  BY <1>1, <1>2 DEF GetSecretValue, Offers, Moves, Provided
<1>6. Renewed(c)'
  BY <1>1, <1>2 DEF GetSecretValue, Offers, CallTypes, Renewed
<1>7. QED
  BY <1>2, <1>3, <1>4, <1>5, <1>6, AskOff, CallDone

-----------------------------------------------------------------------------
(* Connect and the credentials. *)

(* The call that gets credentials begins or is over: Connect goes on.      *)
LEMMA AskMoves ==
    ASSUME TypeOK, AuthInv, NEW c \in Conns, UNCHANGED <<loginVars, cred_cache, sso_lock, file>>,
           UNCHANGED <<cacheVars, fixedVars>>, saml_lock' = saml_lock, CallTypes',
           \A d \in Conns \ {c} : Same(d), ask' \in [Conns -> AskStates],
           ask[c].pc \in {"off", "done"}, ask'[c].pc \in {"off", "saml", "sso"},
           Placed(c)', Provided(c)', Renewed(c)'
    PROVE  TypeOK' /\ AuthInv'
<1>1. UNCHANGED <<kind, epoch>> /\ AwsTypes
  BY AtPlace DEF fixedVars
<1>2. LoginTypeOK' /\ ListenersJoined'
  BY LoginKept
<1>3. AwsTypes' /\ FixedTypes' /\ CacheTypes' /\ CacheFileWhole' /\ PasswordsHeld'
  BY TypeParts DEF AwsTypes, FixedTypes, CacheTypes, cacheVars, fixedVars, AuthInv,
                   CacheFileWhole, PasswordsHeld
<1>4. \A d \in Conns \ {c} : Local(d)'
  <2>1. \A d \in Conns \ {c} : SharedKept(d)
    BY <1>1, AtPlace DEF SharedKept
  <2>2. QED
    BY <2>1, OtherKept DEF AuthInv
<1>5. Locked(c)'
  BY DEF Placed, Locked, Exchanging, SamlKinds
<1>6. Local(c)'
  BY <1>5 DEF Local
<1>7. QED
  BY <1>2, <1>3, <1>4, <1>6, TypePartsNext DEF AuthInv

(* An answer is no longer there once it was taken.                         *)
LEMMA AnsweredMoves ==
    ASSUME TypeOK, AuthInv, NEW c \in Conns, Answered(c)
    PROVE  /\ ask[c].pc = "done" /\ Moved(c, "off", 0)
           /\ ask[c].cred \in 0 .. MaxEpoch
<1>1. NotAsking.pc = "off" /\ NotAsking.cred = 0
  BY DEF NotAsking
<1>2. QED
  BY <1>1, AtPlace, NothingTypes DEF Answered, At, AwsTypes, Moved, AskStates

(* A call for credentials starts at the place of its kind.                 *)
LEMMA AsksMoves ==
    ASSUME TypeOK, AuthInv, NEW c \in Conns, NEW then, Asks(c, then),
           kind[c] \in Federated, pc[c] \notin {"ensuring", "refreshing"}
    PROVE  \E p \in {"saml", "sso"} : /\ Moved(c, p, 0)
                                      /\ p = "sso" <=> kind[c] = "sso"
<1>1. ask[c].cred = 0 /\ ask \in [Conns -> AskStates]
  BY AskOff, AtPlace DEF AwsTypes
<1>2. QED
  BY <1>1 DEF Asks, AskStates, Moved, Places

(* The credentials asked for before a connection may be cached.            *)
LEMMA EnsureCredentialsStep ==
    ASSUME TypeOK, AuthInv, NEW c \in Conns, EnsureCredentials(c)
    PROVE  TypeOK' /\ AuthInv'
<1>1. CallTypes /\ CacheTypes /\ FixedTypes /\ PasswordsHeld /\ Provided(c) /\ Renewed(c)
  BY TypeParts DEF AuthInv, Local
<1>2. /\ pc[c] = "ensure" /\ kind' = kind /\ epoch' = epoch
      /\ UNCHANGED <<provider, offered, refresh, since, cacheVars, loginVars,
                     cred_cache, saml_lock, sso_lock, file, fixedVars>>
  BY DEF EnsureCredentials, fixedVars
<1>3. ask[c].pc = "off" /\ ask[c].cred = 0 /\ kind[c] # "secrets"
  BY <1>1, <1>2, AskOff DEF Provided
<1>4. CASE Satisfied(c)
  <2>1. pc' = [pc EXCEPT ![c] = "token"] /\ UNCHANGED <<result, ask>>
    BY <1>4 DEF EnsureCredentials, Moves
  <2>2. provider[c] # None
    BY <1>1, <1>3, <1>4 DEF Satisfied, Provided
  <2>3. Provided(c)' /\ Renewed(c)' /\ CallTypes'
    BY <1>1, <1>2, <2>1, <2>2 DEF CallTypes, Provided, Renewed
  <2>4. \A d \in Conns \ {c} : Same(d)
    BY <1>2, <2>1 DEF Same
  <2>5. UNCHANGED awsVars /\ CacheTypes' /\ PasswordsHeld'
    BY <1>1, <1>2, <2>1
       DEF awsVars, credentialVars, CacheTypes, PasswordsHeld, cacheVars, fixedVars
  <2>6. pc'[c] \notin {"ensuring", "refreshing"}
    BY <1>1, <2>1 DEF CallTypes
  <2>7. QED
    BY <1>2, <1>3, <2>3, <2>4, <2>5, <2>6, CallDone
<1>5. CASE ~Satisfied(c) /\ kind[c] \in Federated
  <2>1. Asks(c, "ensuring") /\ pc' = [pc EXCEPT ![c] = "ensuring"] /\ result' = result
    BY <1>5 DEF EnsureCredentials, Asks, Moves
  <2>2. PICK p \in {"saml", "sso"} : /\ Moved(c, p, 0)
                                     /\ p = "sso" <=> kind[c] = "sso"
    BY <1>2, <1>5, <2>1, AsksMoves
  <2>3. CallTypes' /\ pc'[c] = "ensuring"
    BY <1>1, <1>2, <2>1 DEF CallTypes
  <2>4. \A d \in Conns \ {c} : Same(d)
    BY <1>2, <2>1, <2>2 DEF Same, Moved
  <2>5. Placed(c)'
    BY <1>2, <1>5, <2>2, <2>3 DEF Placed, Moved, Federated
  <2>6. Provided(c)' /\ Renewed(c)'
    BY <1>1, <1>2, <2>1 DEF Provided, Renewed
  <2>7. QED
    BY <1>2, <1>3, <2>2, <2>3, <2>4, <2>5, <2>6, AskMoves DEF Moved
<1>6. CASE ~Satisfied(c) /\ kind[c] \notin Federated
  <2>1. /\ pc' = [pc EXCEPT ![c] = "idle"] /\ result' = [result EXCEPT ![c] = "client"]
        /\ UNCHANGED ask
    BY <1>6 DEF EnsureCredentials, Returns, Moves
  <2>2. Provided(c)' /\ Renewed(c)' /\ CallTypes'
    BY <1>1, <1>2, <2>1 DEF CallTypes, Provided, Renewed
  <2>3. \A d \in Conns \ {c} : Same(d)
    BY <1>2, <2>1 DEF Same
  <2>4. UNCHANGED awsVars /\ CacheTypes' /\ PasswordsHeld'
    BY <1>1, <1>2, <2>1
       DEF awsVars, credentialVars, CacheTypes, PasswordsHeld, cacheVars, fixedVars
  <2>5. pc'[c] \notin {"ensuring", "refreshing"}
    BY <1>1, <2>1 DEF CallTypes
  <2>6. QED
    BY <1>2, <1>3, <2>2, <2>3, <2>4, <2>5, CallDone
<1>7. QED
  BY <1>4, <1>5, <1>6

(* Connect goes on with the credentials it got, or fails without.          *)
LEMMA EnsuredStep ==
    ASSUME TypeOK, AuthInv, NEW c \in Conns, Ensured(c)
    PROVE  TypeOK' /\ AuthInv'
<1>1. CallTypes /\ FixedTypes /\ Provided(c) /\ Renewed(c)
  BY TypeParts DEF AuthInv, Local
<1>2. /\ pc[c] = "ensuring" /\ kind' = kind /\ epoch' = epoch
      /\ UNCHANGED <<offered, refresh, since, cacheVars, loginVars,
                     cred_cache, saml_lock, sso_lock, file, fixedVars>>
  BY DEF Ensured, fixedVars
<1>3. ask[c].pc = "done" /\ Moved(c, "off", 0) /\ ask[c].cred \in 0 .. MaxEpoch
  BY AnsweredMoves DEF Ensured
<1>4. kind[c] \in Federated /\ kind[c] # "secrets"
  BY <1>2, AtPlace DEF Placed, Federated, SamlKinds
<1>5. \/ /\ pc' = [pc EXCEPT ![c] = "idle"] /\ result' = [result EXCEPT ![c] = "client"]
         /\ UNCHANGED provider
      \/ /\ pc' = [pc EXCEPT ![c] = "token"] /\ UNCHANGED result
         /\ provider' = [provider EXCEPT ![c] = ask[c].cred]
  BY DEF Ensured, Returns, Moves, Keeps
<1>6. CallTypes' /\ pc'[c] \in {"idle", "token"}
  BY <1>1, <1>2, <1>3, <1>5 DEF CallTypes
<1>7. \A d \in Conns \ {c} : Same(d)
  BY <1>1, <1>2, <1>3, <1>5 DEF Same, CallTypes, Moved
<1>8. Placed(c)'
  BY <1>3, <1>6 DEF Placed, Moved
<1>9. Provided(c)'
  <2>1. ask[c].cred # None
    BY <1>3, EpochAssumption
  <2>2. QED
    BY <1>1, <1>2, <1>5, <2>1 DEF Provided, CallTypes
<1>10. Renewed(c)'
  BY <1>1, <1>2, <1>5 DEF Renewed, CallTypes
<1>11. QED
  BY <1>2, <1>3, <1>6, <1>7, <1>8, <1>9, <1>10, AskMoves DEF Moved

(* The refreshed credentials are of after the refusal.                     *)
LEMMA RefreshedStep ==
    ASSUME TypeOK, AuthInv, NEW c \in Conns, Refreshed(c)
    PROVE  TypeOK' /\ AuthInv'
<1>1. CallTypes /\ FixedTypes /\ Provided(c) /\ Renewed(c)
  BY TypeParts DEF AuthInv, Local
<1>2. /\ pc[c] = "refreshing" /\ kind' = kind /\ epoch' = epoch
      /\ UNCHANGED <<offered, since, cacheVars, loginVars,
                     cred_cache, saml_lock, sso_lock, file, fixedVars>>
  BY DEF Refreshed, fixedVars
<1>3. ask[c].pc = "done" /\ Moved(c, "off", 0) /\ ask[c].cred \in 0 .. MaxEpoch
  BY AnsweredMoves DEF Refreshed
<1>4. kind[c] \in Federated /\ kind[c] # "secrets"
  BY <1>2, AtPlace DEF Placed, Federated, SamlKinds
<1>5. \/ /\ pc' = [pc EXCEPT ![c] = "idle"] /\ result' = [result EXCEPT ![c] = "refused"]
         /\ refresh' = [refresh EXCEPT ![c] = "impossible"] /\ UNCHANGED provider
      \/ /\ ask[c].cred # 0
         /\ pc' = [pc EXCEPT ![c] = "renew"] /\ UNCHANGED result
         /\ refresh' = [refresh EXCEPT ![c] = "done"]
         /\ provider' = [provider EXCEPT ![c] = ask[c].cred]
  BY DEF Refreshed, Returns, Moves, Keeps
<1>6. CallTypes' /\ pc'[c] \in {"idle", "renew"}
  BY <1>1, <1>2, <1>3, <1>5 DEF CallTypes
<1>7. \A d \in Conns \ {c} : Same(d)
  BY <1>1, <1>2, <1>3, <1>5 DEF Same, CallTypes, Moved
<1>8. Placed(c)'
  BY <1>3, <1>6 DEF Placed, Moved
<1>9. Provided(c)'
  <2>1. ask[c].cred # None
    BY <1>3, EpochAssumption
  <2>2. QED
    BY <1>1, <1>2, <1>5, <2>1 DEF Provided, CallTypes
<1>10. Renewed(c)'
  <2>1. ask[c].cred # 0 => ask[c].cred >= since[c]
    BY <1>1, <1>2 DEF Renewed
  <2>2. QED
    BY <1>1, <1>2, <1>4, <1>5 DEF Renewed, CallTypes
<1>11. QED
  BY <1>2, <1>3, <1>6, <1>7, <1>8, <1>9, <1>10, AskMoves DEF Moved

(* What was asked for before the refusal is not taken for what is asked    *)
(* for after it: the cache of a SAML plugin is emptied.                    *)
LEMMA RefreshCredentialsStep ==
    ASSUME TypeOK, AuthInv, NEW c \in Conns, RefreshCredentials(c)
    PROVE  TypeOK' /\ AuthInv'
<1>1. /\ CallTypes /\ CacheTypes /\ FixedTypes /\ AwsTypes
      /\ PasswordsHeld /\ Provided(c) /\ Renewed(c)
  BY TypeParts DEF AuthInv, Local
<1>2. /\ pc[c] = "refresh" /\ kind' = kind /\ epoch' = epoch
      /\ UNCHANGED <<provider, offered, refresh, since, result, cacheVars, loginVars,
                     sso_lock, file, fixedVars>>
  BY DEF RefreshCredentials, fixedVars
<1>3. ask[c].pc = "off" /\ ask[c].cred = 0 /\ kind[c] # "secrets"
  BY <1>1, <1>2, AskOff DEF Provided
<1>4. /\ saml_lock' = saml_lock
      /\ \/ cred_cache' = cred_cache /\ kind[c] \notin SamlKinds
         \/ cred_cache' = NoCredentials /\ saml_lock = None
  BY DEF RefreshCredentials, InvalidateCachedCredentials
<1>5. ~Usable(NoCredentials)
  BY DEF Usable, NoCredentials
<1>6. PICK p \in {"off", "saml", "sso"} :
         /\ Moved(c, p, 0) /\ pc' = [pc EXCEPT ![c] = IF p = "off" THEN "renew" ELSE "refreshing"]
         /\ p # "off" => kind[c] \in Federated
         /\ p = "saml" => kind[c] \in SamlKinds
         /\ p = "sso" => kind[c] = "sso"
  <2>1. CASE kind[c] \in Federated
    <3>1. Asks(c, "refreshing") /\ pc' = [pc EXCEPT ![c] = "refreshing"]
      BY <2>1 DEF RefreshCredentials, Asks, Moves
    <3>2. PICK p \in {"saml", "sso"} : /\ Moved(c, p, 0)
                                       /\ p = "sso" <=> kind[c] = "sso"
      BY <1>2, <2>1, <3>1, AsksMoves
    <3>3. QED
      BY <2>1, <3>1, <3>2 DEF Federated
  <2>2. CASE kind[c] \notin Federated
    BY <1>1, <1>3, <2>2 DEF RefreshCredentials, Moves, Moved, AwsTypes
  <2>3. QED
    BY <2>1, <2>2
<1>7. LoginTypeOK' /\ ListenersJoined'
  BY <1>2, LoginKept
<1>8. CallTypes' /\ FixedTypes' /\ CacheTypes'
  BY <1>1, <1>2, <1>6 DEF CallTypes, FixedTypes, CacheTypes, cacheVars, fixedVars
<1>9. AwsTypes' /\ CacheFileWhole' /\ PasswordsHeld'
  BY <1>1, <1>2, <1>4, <1>6, NothingTypes
     DEF AwsTypes, Moved, AuthInv, CacheFileWhole, PasswordsHeld, cacheVars
<1>10. \A d \in Conns \ {c} : Local(d)'
  <2>1. \A d \in Conns \ {c} : Same(d)
    BY <1>2, <1>6 DEF Same, Moved
  <2>2. ~Usable(cred_cache)' \/ cred_cache' = cred_cache
    BY <1>4, <1>5
  <2>3. \A d \in Conns \ {c} : SharedKept(d)
    BY <1>2, <1>4, <2>2, AtPlace DEF SharedKept
  <2>4. QED
    BY <2>1, <2>3, OtherKept DEF AuthInv
<1>11. pc'[c] = IF p = "off" THEN "renew" ELSE "refreshing"
  BY <1>1, <1>6 DEF CallTypes
<1>12. Placed(c)'
  BY <1>2, <1>6, <1>11 DEF Placed, Moved
<1>13. Locked(c)'
  BY <1>2, <1>6 DEF Locked, Exchanging, Moved, SamlKinds
<1>14. Provided(c)'
  BY <1>1, <1>2, <1>11 DEF Provided
<1>15. Renewed(c)'
  <2>1. refresh[c] = "none" /\ result[c] = "none"
    BY <1>1, <1>2 DEF Renewed
  <2>2. kind[c] \in SamlKinds => ~Usable(cred_cache)'
    BY <1>4, <1>5
  <2>3. QED
    BY <1>1, <1>2, <1>6, <2>2 DEF Renewed, Moved
<1>16. QED
  BY <1>7, <1>8, <1>9, <1>10, <1>12, <1>13, <1>14, <1>15, TypePartsNext
     DEF AuthInv, Local

(* Of what a process had, nothing but the file is left.                    *)
LEMMA CrashStep ==
    ASSUME TypeOK, AuthInv, Crash PROVE TypeOK' /\ AuthInv'
<1>1. /\ pc' = All("idle") /\ offered' = All(Nothing) /\ refresh' = All("none")
      /\ since' = All(0) /\ result' = All("none")
      /\ provider' = [c \in Conns |-> CHOOSE p \in NewProviders(kind[c]) : TRUE]
      /\ token_cache' = NoPassword /\ secrets_cache' = NoPassword
      /\ secrets_lock' = None /\ UNCHANGED <<kind, epoch, calls, file>>
      /\ cred_cache' = NoCredentials /\ saml_lock' = None /\ sso_lock' = None
      /\ ask' = [c \in Conns |-> NotAsking]
      /\ flow' = [c \in Conns |-> "off"] /\ listener' = [c \in Conns |-> NoListener]
      /\ answer' = [c \in Conns |-> "none"]
  BY DEF Crash, CredentialsLost
<1>2. AwsTypes /\ FixedTypes /\ CacheTypes
  BY TypeParts
<1>3. LoginTypeOK' /\ ListenersJoined'
  BY <1>1 DEF LoginTypeOK, ListenersJoined, NoListener
<1>4. AwsTypes' /\ FixedTypes'
  BY <1>1, <1>2, NothingTypes DEF AwsTypes, FixedTypes
<1>5. /\ NoPassword \in [cred : 0 .. MaxEpoch \cup {None}, fresh : BOOLEAN]
      /\ ~NoPassword.fresh
  BY DEF NoPassword
<1>6. CacheTypes' /\ PasswordsHeld' /\ CacheFileWhole'
  BY <1>1, <1>2, <1>5 DEF CacheTypes, PasswordsHeld, CacheFileWhole, AuthInv
<1>7. \A c \in Conns : /\ provider'[c] \in 0 .. MaxEpoch \cup {None}
                       /\ kind[c] \notin {"sso", "secrets"} => provider'[c] # None
  <2> SUFFICES ASSUME NEW c \in Conns
               PROVE  /\ provider'[c] \in 0 .. MaxEpoch \cup {None}
                      /\ kind[c] \notin {"sso", "secrets"} => provider'[c] # None
    OBVIOUS
  <2>1. epoch \in 0 .. MaxEpoch /\ 0 \in 0 .. MaxEpoch /\ None \notin 0 .. MaxEpoch
    BY <1>2, EpochAssumption DEF FixedTypes
  <2>2. kind[c] \in Kinds
    BY <1>2 DEF FixedTypes
  <2>3. \/ NewProviders(kind[c]) = {0, epoch} \/ NewProviders(kind[c]) = {0}
        \/ NewProviders(kind[c]) = {None} /\ kind[c] \in {"sso", "secrets"}
    BY <2>2 DEF NewProviders, Kinds
  <2>4. provider'[c] \in NewProviders(kind[c])
    BY <1>1, <2>3
  <2>5. QED
    BY <2>1, <2>3, <2>4
<1>8. CallTypes'
  <2>1. Nothing \in [cred : 0 .. MaxEpoch, from : {"cache", "new"}] /\ 0 \in 0 .. MaxEpoch
    BY EpochAssumption DEF Nothing
  <2>2. provider' \in [Conns -> 0 .. MaxEpoch \cup {None}]
    BY <1>1, <1>7
  <2>3. QED
    BY <1>1, <2>1, <2>2 DEF CallTypes, All
<1>9. ASSUME NEW c \in Conns PROVE Local(c)'
  <2>1. /\ ask'[c].pc = "off" /\ ask'[c].cred = 0 /\ pc'[c] = "idle" /\ since'[c] = 0
        /\ refresh'[c] = "none" /\ result'[c] = "none"
    BY <1>1 DEF All, NotAsking
  <2>2. Placed(c)' /\ Locked(c)'
    BY <2>1 DEF Placed, Locked, Exchanging
  <2>3. Provided(c)'
    BY <1>1, <1>7, <2>1 DEF Provided
  <2>4. Renewed(c)'
    BY <1>1, <1>2, <2>1 DEF Renewed, FixedTypes
  <2>5. QED
    BY <2>2, <2>3, <2>4 DEF Local
<1>10. QED
  BY <1>3, <1>4, <1>6, <1>8, <1>9, TypePartsNext DEF AuthInv

-----------------------------------------------------------------------------
(* The theorems. *)

(* At first nobody connects, and there are no passwords.                   *)
LEMMA InitAuth == Init => TypeOK /\ AuthInv
<1> SUFFICES ASSUME Init PROVE TypeOK /\ AuthInv
  OBVIOUS
<1>1. /\ kind \in [Conns -> Kinds] /\ epoch = 1 /\ 1 \in 0 .. MaxEpoch /\ 0 \in 0 .. MaxEpoch
  BY SetupsAssumption, EpochAssumption DEF Init, CredentialsInit
<1>2. FixedTypes
  BY <1>1, EpochAssumption DEF FixedTypes
<1>3. LoginTypeOK /\ ListenersJoined
  BY DEF Init, CredentialsInit, LoginInit, LoginTypeOK, ListenersJoined, NoListener
<1>4. file \in FilePairs /\ CacheFileWhole
  <2>1. LoginOfTheCli \in Tokens
    BY EpochAssumption DEF LoginOfTheCli, Tokens
  <2>2. NoFile \in Files /\ Whole(LoginOfTheCli) \in Files
    BY <2>1, NothingTypes
  <2>3. file \in [cache : {NoFile, Whole(LoginOfTheCli)}, tmp : {NoFile}]
    BY DEF Init, CredentialsInit
  <2>4. NoFile.content # "partial" /\ Whole(LoginOfTheCli).content # "partial"
    BY DEF NoFile, Whole
  <2>5. QED
    BY <2>2, <2>3, <2>4 DEF FilePairs, CacheFileWhole
<1>5. AwsTypes
  BY <1>4, NothingTypes DEF Init, CredentialsInit, AwsTypes
<1>6. /\ NoPassword \in [cred : 0 .. MaxEpoch \cup {None}, fresh : BOOLEAN]
      /\ ~NoPassword.fresh
  BY DEF NoPassword
<1>7. CacheTypes /\ PasswordsHeld
  BY <1>6, CallsAssumption DEF Init, CacheTypes, PasswordsHeld
<1>8. CallTypes
  <2>1. Nothing \in [cred : 0 .. MaxEpoch, from : {"cache", "new"}]
    BY <1>1 DEF Nothing
  <2>2. provider \in [Conns -> {0, None}]
    BY DEF Init
  <2>3. QED
    BY <1>1, <2>1, <2>2 DEF Init, CallTypes, All
<1>9. ASSUME NEW c \in Conns PROVE Local(c)
  <2>1. /\ ask[c].pc = "off" /\ ask[c].cred = 0 /\ pc[c] = "idle" /\ since[c] = 0
        /\ refresh[c] = "none" /\ result[c] = "none"
    BY DEF Init, CredentialsInit, All, NotAsking
  <2>2. Placed(c) /\ Locked(c)
    BY <2>1 DEF Placed, Locked, Exchanging
  <2>3. Provided(c)
    <3>1. provider[c] \in NewProviders(kind[c]) /\ kind[c] \in Kinds
      BY <1>1 DEF Init
    <3>2. None \notin {0, epoch}
      BY <1>1, EpochAssumption
    <3>3. QED
      BY <2>1, <3>1, <3>2 DEF Provided, NewProviders, Kinds
  <2>4. Renewed(c)
    BY <1>1, <2>1 DEF Renewed
  <2>5. QED
    BY <2>2, <2>3, <2>4 DEF Local
<1>10. QED
  BY <1>2, <1>3, <1>4, <1>5, <1>7, <1>8, <1>9, TypeParts DEF AuthInv

(* Every step keeps the invariant.                                         *)
LEMMA AuthStep == TypeOK /\ AuthInv /\ [Next]_vars => TypeOK' /\ AuthInv'
<1> SUFFICES ASSUME TypeOK, AuthInv, [Next]_vars PROVE TypeOK' /\ AuthInv'
  OBVIOUS
<1>1. ASSUME NEW c \in Conns, CredentialStep(c), UNCHANGED <<callVars, cacheVars, fixedVars>>
      PROVE  TypeOK' /\ AuthInv'
  <2>1. CASE /\ LoginGoesOn(c) \/ WEBServerInit(c) \/ ListenerEnds(c)
             /\ UNCHANGED credentialVars
    BY <1>1, <2>1, ListenerStep, LoginStep
  <2>2. CASE \/ GetCredentials(c) \/ GetSamlAssertion(c) \/ ReadsAnswer(c)
             \/ GetAwsCredentials(c)
    BY <1>1, <2>2, GetCredentialsStep, GetSamlAssertionStep, ReadsAnswerStep,
       GetAwsCredentialsStep
  <2>3. CASE \/ TakesLock(c) \/ GetRoleCredentials(c) \/ DeleteCache(c)
             \/ RefreshAccessToken(c)
    BY <1>1, <2>3, TakesLockStep, GetRoleCredentialsStep, DeleteCacheStep,
       RefreshAccessTokenStep
  <2>4. CASE \/ InteractiveLogin(c) \/ CreateToken(c) \/ Truncates(c)
             \/ WritesTemporary(c) \/ Renames(c)
    BY <1>1, <2>4, InteractiveLoginStep, CreateTokenStep, TruncatesStep,
       WritesTemporaryStep, RenamesStep
  <2>5. QED
    BY <1>1, <2>1, <2>2, <2>3, <2>4 DEF CredentialStep
<1>2. ASSUME NEW c \in Conns, ConnectStep(c) PROVE TypeOK' /\ AuthInv'
  <2>1. CASE \/ EnsureCredentials(c) \/ Ensured(c) \/ LookUp(c) \/ GenerateToken(c)
             \/ TryConnect(c) \/ RefreshCredentials(c)
    BY <2>1, EnsureCredentialsStep, EnsuredStep, LookUpStep, GenerateTokenStep,
       TryConnectStep, RefreshCredentialsStep
  <2>2. CASE \/ Refreshed(c) \/ TryAgain(c) \/ CachedSecret(c)
             \/ TryCachedSecret(c) \/ GetSecretValue(c)
    BY <2>2, RefreshedStep, TryAgainStep, CachedSecretStep, TryCachedSecretStep,
       GetSecretValueStep
  <2>3. QED
    BY <1>1, <1>2, <2>1, <2>2 DEF ConnectStep
<1>3. CASE \E c \in Conns : \/ Connect(c) \/ ValidateRequiredParams(c)
                            \/ NotInitialized(c) \/ FetchFails(c)
  BY <1>3, ConnectCallStep, ReturnsAtOnceStep
     DEF ValidateRequiredParams, NotInitialized, FetchFails
<1>4. ASSUME NEW c \in Conns, HandleConnection(c),
             UNCHANGED <<callVars, cacheVars, credentialVars, fixedVars>>
      PROVE  TypeOK' /\ AuthInv'
  BY <1>4, ListenerStep, LoginStep
<1>5. CASE Expires /\ UNCHANGED <<callVars, cacheVars, fixedVars>>
  BY <1>5, ExpiresStep
<1>6. CASE PasswordsExpire \/ Rotates \/ Crash
  BY <1>6, PasswordsExpireStep, RotatesStep, CrashStep
<1>7. CASE UNCHANGED vars
  <2>1. UNCHANGED <<callVars, cacheVars, credentialVars, fixedVars, loginVars>>
    BY <1>7 DEF vars, awsVars
  <2>2. QED
    BY <2>1, LoginKept, LoginStep
<1>8. QED
  BY <1>2, <1>3, <1>4, <1>5, <1>6, <1>7 DEF Next

(* The invariant holds in every behaviour.                                 *)
LEMMA AuthAlways == Spec => [](TypeOK /\ AuthInv)
<1>1. QED
  BY InitAuth, AuthStep, PTL DEF Spec

(* The state of the authentication plugins is well-formed.                 *)
THEOREM TypeCorrect == Spec => []TypeOK
<1>1. QED
  BY AuthAlways, PTL

(* The user is asked once, whatever number of connections wait.            *)
THEOREM AskedOnce == Spec => []OneExchange
<1>1. TypeOK /\ AuthInv => OneExchange
  <2> SUFFICES ASSUME AuthInv, NEW c \in Conns, Exchanging(c)
               PROVE  /\ \A d \in Conns \ {c} : ~Exchanging(d)
                      /\ ~Usable(cred_cache)
    BY DEF OneExchange
  <2>1. \A d \in Conns : Exchanging(d) => saml_lock = d /\ ~Usable(cred_cache)
    BY DEF AuthInv, Local, Locked
  <2>2. QED
    BY <2>1
<1>2. QED
  BY <1>1, AuthAlways, PTL

(* The file that keeps the login is whole, whenever the process ends.      *)
THEOREM FileWhole == Spec => []CacheFileWhole
<1>1. AuthInv => CacheFileWhole
  BY DEF AuthInv
<1>2. QED
  BY <1>1, AuthAlways, PTL

(* No listener outlives the login that started it.                         *)
THEOREM NoListenerLeft == Spec => []ListenersJoined
<1>1. AuthInv => ListenersJoined
  BY DEF AuthInv
<1>2. QED
  BY <1>1, AuthAlways, PTL

(* A connection is not refused for a password that was known to be old.    *)
THEOREM RefusalIsFinal == Spec => []RefusedIsRenewed
<1>1. AuthInv => RefusedIsRenewed
  BY DEF AuthInv, Local, Renewed, RefusedIsRenewed
<1>2. QED
  BY <1>1, AuthAlways, PTL

==================================================================================
