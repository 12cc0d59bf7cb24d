----------------------------- MODULE BrowserLogin -----------------------------
(***************************************************************************)
(* The browser login of the federated plugins: BrowserAuthFlow opens the   *)
(* page of the identity provider and waits for the listener (WEBServer),   *)
(* a thread of its own, which answers the browser on a local port until    *)
(* the parser has a whole request, the login is cancelled or its time is   *)
(* up (driver/plugin/federated/browser_auth_flow.cpp, http).               *)
(*                                                                         *)
(* A connection runs one login at a time.  All of them use the same port,  *)
(* which is the default of every plugin.                                   *)
(***************************************************************************)
EXTENDS Naturals, FiniteSets

CONSTANTS
    Conns,           \* connections, each used by a thread of its own
    Requests         \* what may arrive at the port

RequestKinds == {
    "code",          \* the redirect of this login
    "other_login",   \* one that bears the state of another
    "denied",        \* one without a code
    "saml",          \* the form with the assertion
    "page",          \* a request for the page
    "cut_off",       \* a form whose end comes too late, or never
    "garbled", "silent"}

ASSUME RequestsAssumption == Requests \subseteq RequestKinds

VARIABLES
    flow,            \* of a connection: how far RunBrowserFlow is
    listener,        \* the thread, and what it has
    answer           \* BrowserFlowResult: "none", "code" or "saml"

loginVars == <<flow, listener, answer>>

NoListener == [at |-> "none", parser |-> "request", fields |-> {},
               listening |-> FALSE]

LoginInit ==
    /\ flow = [c \in Conns |-> "off"]
    /\ listener = [c \in Conns |-> NoListener]
    /\ answer = [c \in Conns |-> "none"]

LoginTypeOK ==
    /\ flow \in [Conns -> {"off", "starting", "joining", "abandoned"}]
    /\ listener \in [Conns ->
            [at : {"none", "binding", "listening", "over"},
             parser : {"request", "midway", "finished"},
             fields : SUBSET {"code", "saml", "mismatch"},
             listening : BOOLEAN]]
    /\ answer \in [Conns -> {"none", "code", "saml"}]

-----------------------------------------------------------------------------
(* The listener thread. *)

PortFree == \A c \in Conns : listener[c].at # "listening"

WEBServerInit(c) ==
    /\ listener[c].at = "binding"
    /\ listener' = [listener EXCEPT
            ![c].at = IF PortFree THEN "listening" ELSE "over",
            ![c].listening = PortFree]
    /\ UNCHANGED <<flow, answer>>

Finishes(l, fields) == [l EXCEPT !.parser = "finished", !.fields = fields]

(* The parser keeps its state from one request to the next: after one that *)
(* was cut off it takes each first line for a header or a body.            *)
Parse(l, request) ==
    IF l.parser # "request" THEN l
    ELSE CASE request = "cut_off"     -> [l EXCEPT !.parser = "midway"]
           [] request = "code"        -> Finishes(l, {"code"})
           [] request = "other_login" -> Finishes(l, {"code", "mismatch"})
           [] request = "denied"      -> Finishes(l, {})
           [] request = "saml"        -> Finishes(l, {"saml"})
           [] OTHER -> l

HandleConnection(c) ==
    /\ listener[c].at = "listening" /\ listener[c].parser # "finished"
    /\ \E request \in Requests :
         listener' = [listener EXCEPT ![c] = Parse(@, request)]
    /\ UNCHANGED <<flow, answer>>

(* The loop ends with the request, when it is cancelled, or at its time    *)
(* limit.  Cancelling it only makes it end sooner and is left out.         *)
ListenerEnds(c) ==
    /\ listener[c].at = "listening"
    /\ listener' = [listener EXCEPT ![c].at = "over"]
    /\ UNCHANGED <<flow, answer>>

RetrieveAuthCode(l) == "code" \in l.fields /\ "mismatch" \notin l.fields
RetrieveSamlResponse(l) == "saml" \in l.fields

-----------------------------------------------------------------------------
(* RunBrowserFlow. *)

(* The listener starts, unless the address is not one to open.             *)
LaunchServer(c) ==
    /\ flow[c] = "off" /\ flow' = [flow EXCEPT ![c] = "starting"]
    /\ listener' = [listener EXCEPT ![c] = [NoListener EXCEPT !.at = "binding"]]
    /\ UNCHANGED answer
RejectsAddress(c) ==
    /\ flow[c] = "off"
    /\ answer' = [answer EXCEPT ![c] = "none"]
    /\ UNCHANGED <<flow, listener>>

(* Whether the browser opens or not the listener is waited for; if that    *)
(* throws, what it has is left.                                            *)
LaunchBrowser(c) ==
    /\ flow[c] = "starting" /\ listener[c].listening
    /\ \E next \in {"joining", "abandoned"} : flow' = [flow EXCEPT ![c] = next]
    /\ UNCHANGED <<listener, answer>>

(* It is not listening after ten seconds.                                  *)
GivesUpOnListener(c) ==
    /\ flow[c] = "starting" /\ ~listener[c].listening
    /\ flow' = [flow EXCEPT ![c] = "abandoned"]
    /\ UNCHANGED <<listener, answer>>

Result(c) ==
    IF flow[c] = "abandoned" THEN "none"
    ELSE IF RetrieveAuthCode(listener[c]) THEN "code"
    ELSE IF RetrieveSamlResponse(listener[c]) THEN "saml"
    ELSE "none"

LeavesWhenAbandoned(c) ==      \* mutant: only a login that goes on is joined
    /\ flow[c] \in {"abandoned", "joining"}
    /\ flow[c] = "joining" => listener[c].at = "over"
    /\ flow' = [flow EXCEPT ![c] = "off"]
    /\ answer' = [answer EXCEPT ![c] = Result(c)]
    /\ UNCHANGED listener
Join(c) ==
    /\ flow[c] \in {"abandoned", "joining"} /\ listener[c].at = "over"
    /\ flow' = [flow EXCEPT ![c] = "off"]
    /\ answer' = [answer EXCEPT ![c] = Result(c)]
    /\ listener' = [listener EXCEPT ![c] = NoListener]

LoginGoesOn(c) ==
    \/ LaunchBrowser(c) \/ GivesUpOnListener(c) \/ Join(c)

(* No listener outlives the login that started it: its thread is joined on *)
(* every way out of RunBrowserFlow, and the port is free for the next one. *)
ListenersJoined ==
    \A c \in Conns : flow[c] = "off" => listener[c].at = "none"
===============================================================================
