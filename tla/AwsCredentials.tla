---------------------------- MODULE AwsCredentials ----------------------------
(***************************************************************************)
(* How a federated plugin gets AWS credentials                             *)
(* (driver/plugin/federated): SamlUtil::GetCredentials exchanges a SAML    *)
(* assertion for them (ADFS, Okta), SsoBrowserLoginUtil::GetAwsCredentials *)
(* an access token of IAM Identity Center, which it keeps in a file.  Each *)
(* holds a lock of the process until it is done.                           *)
(*                                                                         *)
(* A credential, a session of Identity Center and a database password are  *)
(* the epoch they were issued in: AWS and the database accept those of the *)
(* present epoch.  0 stands for none.                                      *)
(***************************************************************************)
EXTENDS BrowserLogin, Sequences

CONSTANTS
    Interactive,     \* connections with allow_interactive_auth
    MaxEpoch,        \* bound: epochs, one more than revocations
    None

ASSUME InteractiveAssumption == Interactive \subseteq Conns
ASSUME EpochAssumption ==
    MaxEpoch \in Nat \ {0} /\ None \notin Conns \cup 0 .. MaxEpoch

SamlKinds == {"adfs", "okta", "okta_totp", "okta_browser"}
Kinds == SamlKinds \cup {"sso", "iam", "iam_profile", "secrets"}

Epochs == 1 .. MaxEpoch

VARIABLES
    kind,            \* RDS_AUTH_TYPE of a connection, with its options
    epoch,
    cred_cache,      \* the credentials of the role, shared by connections
    saml_lock,       \* cred_cache_mutex_: who holds it
    sso_lock,        \* cache_mutex_
    file,            \* the cache file of Identity Center, and the temporary
    ask              \* of a connection: the call that gets credentials

credentialVars == <<cred_cache, saml_lock, sso_lock, file, ask>>

NoCredentials == [cred |-> 0, fresh |-> FALSE]
NoToken == [session |-> 0, fresh |-> FALSE, refresh |-> FALSE, ours |-> FALSE]
NoFile == [content |-> "none", token |-> NoToken]
Partial == [content |-> "partial", token |-> NoToken]
Whole(t) == [content |-> "whole", token |-> t]
LoginOfTheCli == [session |-> 1, fresh |-> TRUE, refresh |-> TRUE, ours |-> FALSE]
NotAsking == [pc |-> "off", todo |-> <<>>, token |-> NoToken, cred |-> 0]

CredentialsInit(setups) ==
    /\ LoginInit /\ epoch = 1
    /\ kind \in setups
    /\ cred_cache = NoCredentials /\ saml_lock = None /\ sso_lock = None
    /\ file \in [cache : {NoFile, Whole(LoginOfTheCli)}, tmp : {NoFile}]
    /\ (\A c \in Conns : kind[c] # "sso") => file.cache = NoFile
    /\ ask = [c \in Conns |-> NotAsking]

Tokens == [session : 0 .. MaxEpoch, fresh : BOOLEAN, refresh : BOOLEAN,
           ours : BOOLEAN]
Files == [content : {"none", "partial", "whole"}, token : Tokens]

Places == {"off", "saml", "stage", "browser", "sts", "sso", "cached", "delete",
           "refresh", "login", "poll", "truncate", "write", "rename", "role",
           "done"}

CredentialsTypeOK ==
    /\ LoginTypeOK /\ epoch \in Epochs
    /\ kind \in [Conns -> Kinds]
    /\ cred_cache \in [cred : 0 .. MaxEpoch, fresh : BOOLEAN]
    /\ {saml_lock, sso_lock} \subseteq Conns \cup {None}
    /\ file \in [cache : Files, tmp : Files]
    /\ ask \in [Conns -> [pc : Places, todo : Seq({"request", "browser"}),
                         token : Tokens, cred : 0 .. MaxEpoch]]

-----------------------------------------------------------------------------
(* The steps of such a call. *)

At(c, pc) == ask[c].pc = pc
Goes(c, pc) == ask' = [ask EXCEPT ![c].pc = pc]
Holds(c, t, pc) == ask' = [ask EXCEPT ![c].pc = pc, ![c].token = t]
Gets(c, cred) == ask' = [ask EXCEPT ![c] = [NotAsking EXCEPT !.pc = "done",
                                                            !.cred = cred]]

(* The locks go with the call.                                             *)
ReleasesOnSuccess(c) ==        \* mutant: not when it gets no credentials
    LET over == ask'[c].pc = "done" /\ ask'[c].cred # 0
    IN /\ saml_lock' = IF over /\ saml_lock = c THEN None ELSE saml_lock
       /\ sso_lock' = IF over /\ sso_lock = c THEN None ELSE sso_lock
Releases(c) ==
    LET over == ask'[c].pc = "done"
    IN /\ saml_lock' = IF over /\ saml_lock = c THEN None ELSE saml_lock
       /\ sso_lock' = IF over /\ sso_lock = c THEN None ELSE sso_lock

-----------------------------------------------------------------------------
(* SAML.  What GetSamlAssertion takes: requests to the identity provider,  *)
(* the approval on a device it polls for, a login in the browser.          *)
Stages(k) ==
    CASE k = "okta_browser" -> <<"browser">>
      [] k = "okta_totp" -> <<"request", "browser", "request">>
      [] OTHER -> <<"request">>

Usable(cached) == cached.cred # 0 /\ cached.fresh

Exchange(c) == ask' = [ask EXCEPT ![c].pc = "stage",
                                  ![c].todo = Stages(kind[c])]

LooksUnlocked(c) ==            \* mutant: the lock is for the exchange only
    /\ At(c, "saml")
    /\ IF Usable(cred_cache)
       THEN Gets(c, cred_cache.cred) /\ UNCHANGED saml_lock
       ELSE Exchange(c) /\ saml_lock' = c
    /\ UNCHANGED <<cred_cache, sso_lock, file, loginVars>>
GetCredentials(c) ==
    /\ At(c, "saml") /\ saml_lock = None
    /\ IF Usable(cred_cache)
       THEN Gets(c, cred_cache.cred) /\ UNCHANGED saml_lock
       ELSE Exchange(c) /\ saml_lock' = c
    /\ UNCHANGED <<cred_cache, sso_lock, file, loginVars>>

NextStage(c) == ask' = [ask EXCEPT ![c].pc = "stage", ![c].todo = Tail(@)]

(* Without an assertion STS is still asked, and refuses.                   *)
GetSamlAssertion(c) ==
    /\ At(c, "stage")
    /\ IF ask[c].todo = <<>> THEN Goes(c, "sts") /\ UNCHANGED loginVars
       ELSE IF Head(ask[c].todo) = "browser"
       THEN Goes(c, "browser") /\ (LaunchServer(c) \/ RejectsAddress(c))
       ELSE (NextStage(c) \/ Gets(c, 0)) /\ UNCHANGED loginVars
    /\ Releases(c) /\ UNCHANGED <<cred_cache, file>>

Wanted(k) == IF k = "okta_browser" THEN "saml" ELSE "code"

(* The login in the browser is over, with or without what it was for.      *)
ReadsAnswer(c) ==
    /\ At(c, "browser") /\ flow[c] = "off"
    /\ IF answer[c] # Wanted(kind[c]) THEN Gets(c, 0)
       ELSE IF kind[c] = "sso" THEN Goes(c, "poll")
       ELSE NextStage(c)
    /\ Releases(c) /\ UNCHANGED <<cred_cache, file, loginVars>>

GetAwsCredentials(c) ==
    /\ At(c, "sts")
    /\ \/ /\ Gets(c, epoch)
          /\ cred_cache' = [cred |-> epoch, fresh |-> TRUE]
       \/ Gets(c, 0) /\ UNCHANGED cred_cache
    /\ Releases(c) /\ UNCHANGED <<file, loginVars>>

InvalidateCachedCredentials ==
    /\ saml_lock = None /\ cred_cache' = NoCredentials /\ UNCHANGED saml_lock

-----------------------------------------------------------------------------
(* IAM Identity Center. *)

ReadCache == IF file.cache.content = "whole" THEN file.cache.token ELSE NoToken

TakesLock(c) ==
    /\ At(c, "sso") /\ sso_lock = None /\ sso_lock' = c
    /\ Holds(c, ReadCache, IF ReadCache.fresh THEN "cached"
                           ELSE IF ReadCache.refresh THEN "refresh"
                           ELSE "login")
    /\ UNCHANGED <<cred_cache, saml_lock, file, loginVars>>

(* A token that is refused is dropped; any other error ends the call.      *)
GetRoleCredentials(c) ==
    /\ ask[c].pc \in {"cached", "role"}
    /\ \/ ask[c].token.session = epoch /\ Gets(c, epoch)
       \/ At(c, "cached") /\ ask[c].token.session # epoch /\ Goes(c, "delete")
       \/ Gets(c, 0)
    /\ Releases(c) /\ UNCHANGED <<cred_cache, file, loginVars>>

(* Only a file the wrapper has written is removed.                         *)
DeleteCache(c) ==
    /\ At(c, "delete")
    /\ file' = [file EXCEPT !.cache = IF ReadCache.ours THEN NoFile ELSE @]
    /\ Goes(c, IF ask[c].token.refresh THEN "refresh" ELSE "login")
    /\ UNCHANGED <<cred_cache, saml_lock, sso_lock, loginVars>>

NewToken(refresh) == [session |-> epoch, fresh |-> TRUE, refresh |-> refresh,
                      ours |-> TRUE]

RefreshAccessToken(c) ==
    /\ At(c, "refresh")
    /\ Holds(c, NewToken(TRUE), "truncate") \/ Goes(c, "login")
    /\ UNCHANGED <<cred_cache, saml_lock, sso_lock, file, loginVars>>

(* The browser opens only where the application permits it.                *)
InteractiveLogin(c) ==
    /\ At(c, "login")
    /\ \/ Gets(c, 0) /\ UNCHANGED loginVars
       \/ /\ c \in Interactive /\ Goes(c, "browser")
          /\ LaunchServer(c) \/ RejectsAddress(c)
    /\ Releases(c) /\ UNCHANGED <<cred_cache, file>>

(* The code is exchanged for a token, which is polled for.                 *)
CreateToken(c) ==
    /\ At(c, "poll")
    /\ \/ \E refresh \in BOOLEAN : Holds(c, NewToken(refresh), "truncate")
       \/ Gets(c, 0)
    /\ Releases(c) /\ UNCHANGED <<cred_cache, file, loginVars>>

(* WriteCache: a failure of a step is ignored, but for the temporary file. *)
Writes(c, then, written, failed) ==
    /\ \/ file' = written /\ Goes(c, then)
       \/ file' = failed /\ Goes(c, "role")
    /\ UNCHANGED <<cred_cache, saml_lock, sso_lock, loginVars>>

NoTemporary == [file EXCEPT !.tmp = NoFile]

TruncatesCache(c) ==           \* mutant: the cache file itself is written
    /\ At(c, "truncate")
    /\ Writes(c, "write", [file EXCEPT !.tmp = Partial, !.cache = Partial], file)
Truncates(c) ==
    /\ At(c, "truncate")
    /\ Writes(c, "write", [file EXCEPT !.tmp = Partial], file)
WritesTemporary(c) ==
    /\ At(c, "write")
    /\ Writes(c, "rename", [file EXCEPT !.tmp = Whole(ask[c].token)],
              NoTemporary)
Renames(c) ==
    /\ At(c, "rename")
    /\ Writes(c, "role", [cache |-> file.tmp, tmp |-> NoFile], NoTemporary)

-----------------------------------------------------------------------------
CredentialStep(c) ==
    \/ /\ LoginGoesOn(c) \/ WEBServerInit(c) \/ ListenerEnds(c)
       /\ UNCHANGED credentialVars
    \/ GetCredentials(c) \/ GetSamlAssertion(c) \/ ReadsAnswer(c)
    \/ GetAwsCredentials(c) \/ TakesLock(c) \/ GetRoleCredentials(c)
    \/ DeleteCache(c) \/ RefreshAccessToken(c) \/ InteractiveLogin(c)
    \/ CreateToken(c) \/ Truncates(c) \/ WritesTemporary(c) \/ Renames(c)

(* Time passes for what is kept, or the process ends.                      *)
Expires ==
    /\ \/ cred_cache' = [cred_cache EXCEPT !.fresh = FALSE] /\ UNCHANGED file
       \/ /\ file' = [file EXCEPT !.cache.token.fresh = FALSE]
          /\ UNCHANGED cred_cache
    /\ UNCHANGED <<saml_lock, sso_lock, ask, loginVars>>

CredentialsLost ==
    /\ flow' = [c \in Conns |-> "off"] /\ UNCHANGED file
    /\ listener' = [c \in Conns |-> NoListener]
    /\ answer' = [c \in Conns |-> "none"]
    /\ cred_cache' = NoCredentials /\ saml_lock' = None /\ sso_lock' = None
    /\ ask' = [c \in Conns |-> NotAsking]

(* The user is asked once: while one connection exchanges an assertion, no *)
(* other does, and none has credentials in the cache to use instead.  (The *)
(* lock is held through the exchange, saml_util.cpp:111.)                  *)
Exchanging(c) == kind[c] \in SamlKinds /\ ask[c].pc \in {"stage", "browser", "sts"}
OneExchange ==
    \A c \in Conns : Exchanging(c) =>
        /\ \A d \in Conns \ {c} : ~Exchanging(d)
        /\ ~Usable(cred_cache)

(* The file that keeps the login is never seen half written, whenever the  *)
(* process ends ("write owner-only to a temp file, then atomic rename",    *)
(* sso_browser_login_util.cpp:533).                                        *)
CacheFileWhole == file.cache.content # "partial"
===============================================================================
