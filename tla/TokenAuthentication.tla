-------------------------- MODULE TokenAuthentication --------------------------
(***************************************************************************)
(* Connect of the authentication plugins (driver/plugin: iam, federated,   *)
(* secrets_manager), the last but one of a chain: it puts a password into  *)
(* the attributes of the connection and calls the default plugin.          *)
(*                                                                         *)
(* BaseTokenAuthPlugin::Connect makes sure that there are AWS credentials, *)
(* takes a token from the cache of the process or signs one with them, and *)
(* when a cached one is refused gets new credentials and tries once more.  *)
(* SecretsManagerPlugin::Connect does the like with a cached secret.       *)
(* All connections are to one server and user, so that they share a token. *)
(***************************************************************************)
EXTENDS AwsCredentials

CONSTANTS
    Setups,          \* the authentication of each connection: [Conns -> Kinds]
    MaxCalls         \* bound: calls of Connect

ASSUME SetupsAssumption == Setups \subseteq [Conns -> Kinds]
ASSUME CallsAssumption == MaxCalls \in Nat

VARIABLES
    pc,              \* of a connection: how far Connect is
    provider,        \* the credentials of its auth_provider, None without one
    offered,         \* the password the server is asked with, its origin
    refresh,         \* RefreshCredentials: "none", "done", "impossible"
    since,           \* history: the epoch when the call found itself refused
    result,          \* of the last call
    token_cache, secrets_cache,
    secrets_lock,    \* secrets_cache_mutex
    calls

callVars == <<pc, provider, offered, refresh, since, result>>
cacheVars == <<token_cache, secrets_cache, secrets_lock>>
awsVars == <<loginVars, credentialVars>>
fixedVars == <<kind, epoch, calls>>
vars == <<callVars, cacheVars, awsVars, fixedVars>>

NoPassword == [cred |-> None, fresh |-> FALSE]
All(v) == [c \in Conns |-> v]
Nothing == [cred |-> 0, from |-> "new"]

(* What a new plugin has: the credentials of the environment or of the     *)
(* profile for IAM, empty ones until a SAML login, none before that of SSO.*)
NewProviders(k) ==
    CASE k \in {"iam", "iam_profile"} -> {0, epoch}
      [] k \in SamlKinds -> {0}
      [] OTHER -> {None}

Init ==
    /\ CredentialsInit(Setups)
    /\ pc = All("idle") /\ offered = All(Nothing) /\ refresh = All("none")
    /\ since = All(0) /\ result = All("none")
    /\ provider \in [Conns -> {0, None}]
    /\ \A c \in Conns : provider[c] \in NewProviders(kind[c])
    /\ token_cache = NoPassword /\ secrets_cache = NoPassword
    /\ secrets_lock = None /\ calls = 0

TypeOK ==
    /\ CredentialsTypeOK
    /\ pc \in [Conns -> {"idle", "ensure", "ensuring", "token", "connect",
                         "sign", "sign_expired", "refresh", "refreshing",
                         "renew", "reconnect", "secret", "cached", "fetch"}]
    /\ provider \in [Conns -> 0 .. MaxEpoch \cup {None}]
    /\ offered \in [Conns -> [cred : 0 .. MaxEpoch, from : {"cache", "new"}]]
    /\ refresh \in [Conns -> {"none", "done", "impossible"}]
    /\ since \in [Conns -> 0 .. MaxEpoch]
    /\ result \in [Conns -> {"none", "ok", "refused", "unreachable", "client"}]
    /\ {token_cache, secrets_cache} \subseteq
         [cred : 0 .. MaxEpoch \cup {None}, fresh : BOOLEAN]
    /\ secrets_lock \in Conns \cup {None}
    /\ calls \in 0 .. MaxCalls

-----------------------------------------------------------------------------
(* Connect is called and returns.                                          *)

Moves(c, p) == pc' = [pc EXCEPT ![c] = p]
Returns(c, r) == Moves(c, "idle") /\ result' = [result EXCEPT ![c] = r]

(* A handle that is new has a new plugin; one that is connected again has  *)
(* that of its first connection.                                           *)
Connect(c) ==
    /\ pc[c] = "idle" /\ calls < MaxCalls /\ calls' = calls + 1
    /\ Moves(c, IF kind[c] = "secrets" THEN "secret" ELSE "ensure")
    /\ \E p \in NewProviders(kind[c]) \cup {provider[c]} :
         provider' = [provider EXCEPT ![c] = p]
    /\ since' = [since EXCEPT ![c] = epoch]
    /\ refresh' = [refresh EXCEPT ![c] = "none"]
    /\ offered' = [offered EXCEPT ![c] = Nothing]
    /\ result' = [result EXCEPT ![c] = "none"]
    /\ UNCHANGED <<cacheVars, awsVars, kind, epoch>>

ReturnsAtOnce(c) ==
    /\ Returns(c, "client")
    /\ UNCHANGED <<provider, offered, refresh, since, cacheVars, awsVars, fixedVars>>

(* Parameters are missing, which Secrets Manager finds when it is made.    *)
ValidateRequiredParams(c) == pc[c] = "ensure" /\ ReturnsAtOnce(c)
NotInitialized(c) == pc[c] = "secret" /\ ReturnsAtOnce(c)

(* The call that gets credentials is made, and is over.                    *)
Asks(c, then) ==
    /\ ask' = [ask EXCEPT ![c].pc = IF kind[c] = "sso" THEN "sso" ELSE "saml"]
    /\ Moves(c, then)
Answered(c) == At(c, "done") /\ ask' = [ask EXCEPT ![c] = NotAsking]
Keeps(c, cred) == provider' = [provider EXCEPT ![c] = cred]

-----------------------------------------------------------------------------
(* Before a token. *)

Federated == SamlKinds \cup {"sso"}

Satisfied(c) ==
    CASE kind[c] = "sso" -> provider[c] # None
      [] kind[c] = "iam" -> TRUE
      [] OTHER -> provider[c] # 0

EnsureCredentials(c) ==
    /\ pc[c] = "ensure"
    /\ IF Satisfied(c) THEN Moves(c, "token") /\ UNCHANGED <<result, ask>>
       ELSE IF kind[c] \in Federated THEN Asks(c, "ensuring") /\ UNCHANGED result
       ELSE Returns(c, "client") /\ UNCHANGED ask
    /\ UNCHANGED <<provider, offered, refresh, since, cacheVars, loginVars,
                   cred_cache, saml_lock, sso_lock, file, fixedVars>>

Ensured(c) ==
    /\ pc[c] = "ensuring" /\ Answered(c)
    /\ IF ask[c].cred = 0 THEN Returns(c, "client") /\ UNCHANGED provider
       ELSE Keeps(c, ask[c].cred) /\ Moves(c, "token") /\ UNCHANGED result
    /\ UNCHANGED <<offered, refresh, since, cacheVars, loginVars,
                   cred_cache, saml_lock, sso_lock, file, fixedVars>>

(* GetToken.  A token found expired lends its time to the one that takes   *)
(* its place, which is so expired from the start.                          *)
Offers(c, cred, from, then) ==
    /\ offered' = [offered EXCEPT ![c] = [cred |-> cred, from |-> from]]
    /\ Moves(c, then)

LookUp(c) ==
    /\ pc[c] = "token"
    /\ IF token_cache.fresh
       THEN Offers(c, token_cache.cred, "cache", "connect") /\ UNCHANGED token_cache
       ELSE /\ Moves(c, IF token_cache = NoPassword THEN "sign" ELSE "sign_expired")
            /\ token_cache' = NoPassword /\ UNCHANGED offered
    /\ UNCHANGED <<provider, refresh, since, result, secrets_cache, secrets_lock,
                   awsVars, fixedVars>>

GenerateToken(c) ==
    /\ pc[c] \in {"sign", "sign_expired", "renew"}
    /\ Offers(c, provider[c], "new", IF pc[c] = "renew" THEN "reconnect" ELSE "connect")
    /\ token_cache' = [cred |-> provider[c], fresh |-> pc[c] # "sign_expired"]
    /\ UNCHANGED <<provider, refresh, since, result, secrets_cache, secrets_lock,
                   awsVars, fixedVars>>

(* What the next plugin answers.                                           *)
Answers(c) == IF offered[c].cred = epoch THEN {"ok", "unreachable"}
              ELSE {"refused", "unreachable"}

TryConnect(c) ==
    /\ pc[c] = "connect"
    /\ \E r \in Answers(c) :
         IF r = "refused" /\ offered[c].from = "cache"
         THEN /\ Moves(c, "refresh") /\ since' = [since EXCEPT ![c] = epoch]
              /\ UNCHANGED result
         ELSE Returns(c, r) /\ UNCHANGED since
    /\ UNCHANGED <<provider, offered, refresh, cacheVars, awsVars, fixedVars>>

TryAgain(c) ==
    /\ pc[c] = "reconnect" /\ \E r \in Answers(c) : Returns(c, r)
    /\ UNCHANGED <<provider, offered, refresh, since, cacheVars, awsVars, fixedVars>>

-----------------------------------------------------------------------------
(* After a cached token was refused: RefreshCredentials.                   *)

KeepsCachedCredentials(c) ==   \* mutant: SAML asks without invalidating
    /\ pc[c] = "refresh"
    /\ IF kind[c] \in Federated THEN Asks(c, "refreshing")
       ELSE Moves(c, "renew") /\ UNCHANGED ask
    /\ UNCHANGED <<provider, offered, refresh, since, result, cacheVars, loginVars,
                   cred_cache, saml_lock, sso_lock, file, fixedVars>>
RefreshCredentials(c) ==
    /\ pc[c] = "refresh"
    /\ IF kind[c] \in Federated THEN Asks(c, "refreshing")
       ELSE Moves(c, "renew") /\ UNCHANGED ask
    /\ IF kind[c] \in SamlKinds THEN InvalidateCachedCredentials
       ELSE UNCHANGED <<cred_cache, saml_lock>>
    /\ UNCHANGED <<provider, offered, refresh, since, result, cacheVars, loginVars,
                   sso_lock, file, fixedVars>>

Refreshed(c) ==
    /\ pc[c] = "refreshing" /\ Answered(c)
    /\ IF ask[c].cred = 0
       THEN /\ refresh' = [refresh EXCEPT ![c] = "impossible"]
            /\ Returns(c, "refused") /\ UNCHANGED provider
       ELSE /\ refresh' = [refresh EXCEPT ![c] = "done"]
            /\ Keeps(c, ask[c].cred) /\ Moves(c, "renew") /\ UNCHANGED result
    /\ UNCHANGED <<offered, since, cacheVars, loginVars,
                   cred_cache, saml_lock, sso_lock, file, fixedVars>>

-----------------------------------------------------------------------------
(* Secrets Manager.  A cached secret is tried with the lock of the cache   *)
(* held; when that fails, for any reason, the secret is fetched.           *)

CachedSecret(c) ==
    /\ pc[c] = "secret" /\ secrets_lock = None
    /\ IF secrets_cache.fresh
       THEN /\ Offers(c, secrets_cache.cred, "cache", "cached")
            /\ secrets_lock' = c /\ UNCHANGED secrets_cache
       ELSE /\ Moves(c, "fetch") /\ secrets_cache' = NoPassword
            /\ UNCHANGED <<offered, secrets_lock>>
    /\ UNCHANGED <<provider, refresh, since, result, token_cache, awsVars, fixedVars>>

TryCachedSecret(c) ==
    /\ pc[c] = "cached" /\ secrets_lock' = None
    /\ \E r \in Answers(c) :
         IF r = "ok" THEN Returns(c, r) /\ UNCHANGED since
         ELSE /\ Moves(c, "fetch") /\ since' = [since EXCEPT ![c] = epoch]
              /\ UNCHANGED result
    /\ UNCHANGED <<provider, offered, refresh, token_cache, secrets_cache, awsVars,
                   fixedVars>>

(* The secret has no such keys, or there is none to be had.                *)
FetchFails(c) == pc[c] = "fetch" /\ ReturnsAtOnce(c)
GetSecretValue(c) ==
    /\ pc[c] = "fetch" /\ secrets_lock = None
    /\ Offers(c, epoch, "new", "connect")
    /\ secrets_cache' = [cred |-> epoch, fresh |-> TRUE]
    /\ UNCHANGED <<provider, refresh, since, result, token_cache, secrets_lock,
                   awsVars, fixedVars>>

-----------------------------------------------------------------------------
(* What is kept expires, credentials are revoked and the password of the   *)
(* secret rotates, the process ends and starts again.                      *)

PasswordsExpire ==
    /\ \/ token_cache' = [token_cache EXCEPT !.fresh = FALSE] /\ UNCHANGED secrets_cache
       \/ secrets_cache' = [secrets_cache EXCEPT !.fresh = FALSE] /\ UNCHANGED token_cache
    /\ UNCHANGED <<callVars, secrets_lock, awsVars, fixedVars>>

Rotates ==
    /\ epoch < MaxEpoch /\ epoch' = epoch + 1
    /\ UNCHANGED <<callVars, cacheVars, awsVars, kind, calls>>

Crash ==
    /\ CredentialsLost
    /\ pc' = All("idle") /\ offered' = All(Nothing) /\ refresh' = All("none")
    /\ since' = All(0) /\ result' = All("none")
    /\ provider' = [c \in Conns |-> CHOOSE p \in NewProviders(kind[c]) : TRUE]
    /\ token_cache' = NoPassword /\ secrets_cache' = NoPassword
    /\ secrets_lock' = None
    /\ UNCHANGED <<kind, epoch, calls>>

ConnectStep(c) ==
    \/ EnsureCredentials(c) \/ Ensured(c) \/ LookUp(c) \/ GenerateToken(c)
    \/ TryConnect(c) \/ RefreshCredentials(c) \/ Refreshed(c) \/ TryAgain(c)
    \/ CachedSecret(c) \/ TryCachedSecret(c) \/ GetSecretValue(c)
    \/ CredentialStep(c) /\ UNCHANGED <<callVars, cacheVars, fixedVars>>

Next ==
    \/ \E c \in Conns :
         \/ Connect(c) \/ ValidateRequiredParams(c) \/ NotInitialized(c)
         \/ FetchFails(c) \/ ConnectStep(c)
         \/ /\ HandleConnection(c)
            /\ UNCHANGED <<callVars, cacheVars, credentialVars, fixedVars>>
    \/ Expires /\ UNCHANGED <<callVars, cacheVars, fixedVars>>
    \/ PasswordsExpire \/ Rotates \/ Crash

(* Each connection has a thread that goes on with a call, and a login a    *)
(* thread that listens until its time is up; the server and AWS answer.    *)
Spec == Init /\ [][Next]_vars /\ \A c \in Conns : WF_vars(ConnectStep(c))

(* A password that is refused is not one from a cache, unless there were   *)
(* no credentials for a new one; and the new one that is tried after the   *)
(* cached one was refused is not as old: it is signed with credentials, or *)
(* is the secret, of after the refusal (base_token_auth_plugin.cpp:145,    *)
(* base_saml_auth_plugin.cpp:59, secrets_manager_plugin.cpp:141).          *)
RefusedIsRenewed ==
    \A c \in Conns : result[c] = "refused" =>
        /\ offered[c].from = "cache" => refresh[c] = "impossible"
        /\ refresh[c] = "done" \/ kind[c] = "secrets" => offered[c].cred >= since[c]

(* A call of Connect returns: no login, lock or listener that it waits for *)
(* is left behind by another.                                              *)
ConnectReturns == \A c \in Conns : pc[c] # "idle" ~> pc[c] = "idle"
===============================================================================
