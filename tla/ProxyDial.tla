------------------------------ MODULE ProxyDial ------------------------------
(***************************************************************************)
(* internal/proxy: from a link to a tunnel.  NewDialer accepts the link or *)
(* refuses it; DialContext connects to the proxy and goes through the      *)
(* handshake of its protocol, a script of steps whose replies may add      *)
(* steps.  A step on the connection runs in a helper goroutine of          *)
(* withContextIO, which obeys the context, or without one, which does not. *)
(*                                                                         *)
(* The server may answer anything, or nothing, at every step.              *)
(***************************************************************************)
EXTENDS Naturals, Sequences

\* A link by what NewDialer distinguishes.  "security" is the value after the
\* default of its protocol; "extra" is a flow (vless) or an alterId (vmess).
Links == [scheme : {"http", "https", "socks", "ss", "trojan", "vless", "vmess", "tuic"},
          parses : BOOLEAN,
          port : {"missing", "zero", "given"},
          user : {"none", "malformed", "good"},
          network : {"tcp", "raw", "ws", "grpc"},
          security : {"none", "tls", "reality", "xtls"},
          extra : BOOLEAN,
          cipher : {"aead", "xaead", "stream", "unknown"}]

(***************************************************************************)
(* The constructors: which links they accept.  A missing port gets a       *)
(* default, except in vmess, which accepts port zero.                      *)
(***************************************************************************)
normalizeUUID(l) == l.user = "good"
cipherInfo(l) == l.cipher # "unknown"
parseLink(l) == l.parses /\ l.port # "zero"
parseVMessLink(l) == l.parses /\ l.port # "missing" /\ l.user # "none"
parseShadowsocksLink(l) == l.parses /\ l.port # "zero" /\ l.user = "good"
validateVLESSParams(l) ==
    l.security \in {"none", "tls"} /\ l.network \in {"tcp", "raw", "ws"} /\ ~l.extra

NewHTTPDialer(l) == parseLink(l)
NewSOCKS5Dialer(l) == parseLink(l)
NewShadowsocksDialer(l) == parseShadowsocksLink(l) /\ cipherInfo(l)
NewTrojanDialer(l) ==
    /\ parseLink(l)
    /\ l.user # "none"
    /\ l.security # "reality"
    /\ l.network \in {"tcp", "ws"}
NewVLESSDialer(l) == parseLink(l) /\ normalizeUUID(l) /\ validateVLESSParams(l)
NewVMessDialer(l) ==
    /\ parseVMessLink(l)
    /\ normalizeUUID(l)
    /\ l.cipher # "unknown"
    /\ ~l.extra
    /\ l.network \in {"tcp", "ws"}

Accepts(l) ==
    CASE l.scheme \in {"http", "https"} -> NewHTTPDialer(l)
      [] l.scheme = "socks"  -> NewSOCKS5Dialer(l)
      [] l.scheme = "ss"     -> NewShadowsocksDialer(l)
      [] l.scheme = "trojan" -> NewTrojanDialer(l)
      [] l.scheme = "vless"  -> NewVLESSDialer(l)
      [] l.scheme = "vmess"  -> NewVMessDialer(l)
      [] OTHER -> FALSE

\* What of the link the tunnel depends on: the encoding of the payload, and
\* whether it travels in WebSocket frames.
Route(l) ==
    [layer |-> CASE l.scheme = "vmess" -> "vmess"
                 [] l.scheme = "ss" -> l.cipher
                 [] OTHER -> "plain",
     ws |-> l.scheme \in {"trojan", "vless", "vmess"} /\ l.network = "ws"]

NoRoute == [layer |-> "plain", ws |-> FALSE]

(***************************************************************************)
(* The steps of DialContext.  "network" and "target" check an argument.    *)
(***************************************************************************)
TLS(l) ==
    IF \/ l.scheme = "https"
       \/ l.scheme \in {"trojan", "vless", "vmess"} /\ l.security = "tls"
    THEN <<"tls">> ELSE <<>>
wsHandshake(l) == IF Route(l).ws THEN <<"upgrade", "wsStatus", "wsHeader">> ELSE <<>>

HTTPConnect   == <<"connect", "status", "header">>
SOCKS5Request == <<"target", "request", "reply">>
TrojanRequest == <<"target", "request">>
VLESSRequest  == <<"target", "request", "version">>
Negotiate     == <<"greeting", "method">>

HTTPDial(l)   == <<"network", "tcp">> \o TLS(l) \o HTTPConnect
SOCKS5Dial(l) == <<"network", "tcp">> \o Negotiate \o SOCKS5Request
SSDial(l)     == <<"tcp", "target", "salt">>
TrojanDial(l) == <<"network", "tcp">> \o TLS(l) \o wsHandshake(l) \o TrojanRequest
VLESSDial(l)  == <<"network", "tcp">> \o TLS(l) \o wsHandshake(l) \o VLESSRequest
VMessDial(l)  == <<"network", "target", "tcp">> \o TLS(l) \o wsHandshake(l)

Script(l) ==
    CASE l.scheme \in {"http", "https"} -> HTTPDial(l)
      [] l.scheme = "socks"  -> SOCKS5Dial(l)
      [] l.scheme = "ss"     -> SSDial(l)
      [] l.scheme = "trojan" -> TrojanDial(l)
      [] l.scheme = "vless"  -> VLESSDial(l)
      [] l.scheme = "vmess"  -> VMessDial(l)

Dialers == {[route |-> Route(l), script |-> Script(l)] : l \in {k \in Links : Accepts(k)}}

Checks    == {"network", "target"}
Upgrade   == {"upgrade", "wsStatus", "wsHeader"}
Guarded   == Upgrade \cup {"connect", "status", "header", "greeting", "method", "auth",
                           "authReply", "request", "reply", "domain", "version", "addons"}
Unguarded == {"address", "salt"}
Steps     == Checks \cup Guarded \cup Unguarded \cup {"tcp", "tls"}

Authenticate == <<"auth", "authReply">>

\* The steps that a good reply to a step may add in front of the others.
Further(step) ==
    CASE step = "method" -> {<<>>, Authenticate}
      [] step = "reply" -> {<<"address">>, <<"domain", "address">>}
      [] step = "version" -> {<<>>, <<"addons">>}
      [] step \in {"header", "wsHeader"} -> {<<>>, <<step>>}
      [] OTHER -> {<<>>}

VARIABLES
    route,    \* the route of the accepted link
    timed,    \* whether the context has a deadline
    ctx,      \* "live", "cancelled" or "expired"
    todo,     \* the steps left; the first is the current one
    phase,    \* "link", "idle", "select" or "draining" in withContextIO, "returned"
    helper,   \* the goroutine of withContextIO: "none", "busy", or its result
    conn,     \* the connection to the proxy: "none", "open" or "closed"
    deadline, \* of the connection: "none", "ctx" or "past"
    outcome,  \* "none", "refused", "conn", "error" or "panic"
    lost      \* the tunnel's first bytes stayed in a discarded buffer

dialVars == <<route, timed, ctx, todo, phase, helper, conn, deadline, outcome, lost>>

DialInit ==
    /\ route = NoRoute
    /\ timed \in BOOLEAN
    /\ ctx = "live"
    /\ todo = <<>>
    /\ phase = "link"
    /\ helper = "none"
    /\ conn = "none"
    /\ deadline = "none"
    /\ outcome = "none"
    /\ lost = FALSE

NewDialer ==
    /\ phase = "link"
    /\ \/ \E d \in Dialers : /\ route' = d.route
                             /\ todo' = d.script
                             /\ phase' = "idle"
                             /\ UNCHANGED outcome
       \/ /\ outcome' = "refused"
          /\ phase' = "returned"
          /\ UNCHANGED <<route, todo>>
    /\ UNCHANGED <<timed, ctx, helper, conn, deadline, lost>>

At(steps) == phase = "idle" /\ todo # <<>> /\ Head(todo) \in steps

\* A failed step closes the connection, but for the upgrade: there conn has
\* been overwritten with the nil that wsHandshake returned, and conn.Close()
\* panics.
Fail ==
    /\ phase' = "returned"
    /\ outcome' = IF Head(todo) \in Upgrade THEN "panic" ELSE "error"
    /\ conn' = IF conn = "open" /\ Head(todo) \notin Upgrade THEN "closed" ELSE conn
    /\ UNCHANGED <<todo, lost>>

\* The reader of an HTTP response is dropped with what it has buffered.
Advance(more) ==
    /\ phase' = "idle"
    /\ todo' = more \o Tail(todo)
    /\ lost' \in IF Head(todo) = "header" /\ more = <<>> THEN BOOLEAN ELSE {lost}
    /\ UNCHANGED <<conn, outcome>>

Check ==
    /\ At(Checks)
    /\ Advance(<<>>) \/ Fail
    /\ UNCHANGED <<route, timed, ctx, helper, deadline>>

\* dialTCP gives up after 15 seconds or with the context.
DialTCP ==
    /\ At({"tcp"})
    /\ \/ ctx = "live" /\ conn' = "open" /\ todo' = Tail(todo) /\ UNCHANGED <<phase, outcome, lost>>
       \/ Fail
    /\ UNCHANGED <<route, timed, ctx, helper, deadline>>

\* HandshakeContext of crypto/tls: the server answers, or the context ends.
HandshakeTLS ==
    /\ At({"tls"})
    /\ ctx = "live"
    /\ Advance(<<>>) \/ Fail
    /\ UNCHANGED <<route, timed, ctx, helper, deadline>>

InterruptTLS ==
    /\ At({"tls"})
    /\ ctx # "live"
    /\ Fail
    /\ UNCHANGED <<route, timed, ctx, helper, deadline>>

BeginIO ==
    /\ At(Guarded)
    /\ IF ctx # "live"
       THEN Fail /\ UNCHANGED <<helper, deadline>>
       ELSE /\ deadline' = IF timed THEN "ctx" ELSE deadline
            /\ helper' = "busy"
            /\ phase' = "select"
            /\ UNCHANGED <<todo, conn, outcome, lost>>
    /\ UNCHANGED <<route, timed, ctx>>

HelperEnds(result) ==
    /\ helper = "busy"
    /\ helper' = result
    /\ UNCHANGED <<route, timed, ctx, todo, phase, conn, deadline, outcome, lost>>

ServerAnswers == HelperEnds("ok")
ServerFails   == HelperEnds("failed")

HelperTimesOut ==
    /\ deadline = "past" \/ (deadline = "ctx" /\ ctx = "expired")
    /\ HelperEnds("failed")

\* Mutant: the deadline of the context is not cleared.
TakeResultOnly ==
    /\ phase = "select"
    /\ helper \in {"ok", "failed"}
    /\ \/ Fail
       \/ helper = "ok" /\ \E more \in Further(Head(todo)) : Advance(more)
    /\ helper' = "none"
    /\ UNCHANGED <<route, timed, ctx, deadline>>

\* select takes the result; the deferred call clears a deadline of the context.
\* The step that reads the reply may find it malformed or negative.
TakeResult ==
    /\ phase = "select"
    /\ helper \in {"ok", "failed"}
    /\ \/ Fail
       \/ helper = "ok" /\ \E more \in Further(Head(todo)) : Advance(more)
    /\ helper' = "none"
    /\ deadline' = IF timed THEN "none" ELSE deadline
    /\ UNCHANGED <<route, timed, ctx>>

\* Mutant: the deadline is not moved to the past.
TakeDoneAndWait ==
    /\ phase = "select"
    /\ ctx # "live"
    /\ phase' = "draining"
    /\ UNCHANGED <<route, timed, ctx, todo, helper, conn, deadline, outcome, lost>>

\* select takes ctx.Done(), even when there is a result.
TakeDone ==
    /\ phase = "select"
    /\ ctx # "live"
    /\ deadline' = "past"
    /\ phase' = "draining"
    /\ UNCHANGED <<route, timed, ctx, todo, helper, conn, outcome, lost>>

Drained ==
    /\ phase = "draining"
    /\ helper \in {"ok", "failed"}
    /\ helper' = "none"
    /\ deadline' = "none"
    /\ Fail
    /\ UNCHANGED <<route, timed, ctx>>

\* The bound address of a socks5 reply is read without regard to the context.
SkipAddress ==
    /\ At({"address"})
    /\ Advance(<<>>) \/ Fail
    /\ UNCHANGED <<route, timed, ctx, helper, deadline>>

\* So is the salt written, which a new connection takes at once.
WriteSalt ==
    /\ At({"salt"})
    /\ Advance(<<>>) \/ Fail
    /\ UNCHANGED <<route, timed, ctx, helper, deadline>>

\* The tunnel has nothing to do with the context, which is forgotten.
Return ==
    /\ phase = "idle"
    /\ todo = <<>>
    /\ phase' = "returned"
    /\ outcome' = "conn"
    /\ timed' = FALSE
    /\ ctx' = "live"
    /\ UNCHANGED <<route, todo, helper, conn, deadline, lost>>

ContextEnds ==
    /\ outcome = "none"
    /\ ctx = "live"
    /\ ctx' \in {"cancelled"} \cup (IF timed THEN {"expired"} ELSE {})
    /\ UNCHANGED <<route, timed, todo, phase, helper, conn, deadline, outcome, lost>>

Dialing == \/ NewDialer \/ Check \/ DialTCP \/ BeginIO \/ TakeResult \/ TakeDone
           \/ Drained \/ WriteSalt \/ Return \/ HelperTimesOut \/ InterruptTLS

DialNext == Dialing \/ HandshakeTLS \/ ServerAnswers \/ ServerFails \/ SkipAddress \/ ContextEnds

DialSpec == DialInit /\ [][DialNext]_dialVars

\* The caller runs, deadlines fire and crypto/tls obeys the context; a server
\* need not answer.
DialFairness == WF_dialVars(Dialing)

(***************************************************************************)
(* Properties.                                                             *)
(***************************************************************************)
DialTypeOK ==
    /\ route \in [layer : {"plain", "vmess", "aead", "xaead", "stream"}, ws : BOOLEAN]
    /\ timed \in BOOLEAN
    /\ ctx \in {"live", "cancelled", "expired"}
    /\ todo \in Seq(Steps)
    /\ phase \in {"link", "idle", "select", "draining", "returned"}
    /\ helper \in {"none", "busy", "ok", "failed"}
    /\ conn \in {"none", "open", "closed"}
    /\ deadline \in {"none", "ctx", "past"}
    /\ outcome \in {"none", "refused", "conn", "error", "panic"}
    /\ lost \in BOOLEAN

\* Whatever select chose on the way, DialContext hands over an open connection
\* that no helper goroutine still uses and no deadline of the handshake will
\* strike (withContextIO clears it on each of its three ways out), and a dial
\* that fails leaves no connection behind.  The exception is a rejected
\* WebSocket upgrade, which panics with the connection open (trojan.go:80,
\* vless.go:117, vmess.go:168).
HandshakeEndsClean ==
    /\ outcome = "conn" => conn = "open" /\ helper = "none" /\ deadline = "none"
    /\ outcome = "error" => conn # "open" /\ helper = "none"
    /\ outcome = "panic" => route.ws \/ route.layer = "xaead"

\* A dial ends soon after its context (ioctx.go:16: "Proxy handshakes must
\* never outlive their context"), unless it waits for the bound address of a
\* socks5 reply, which socks.go:152 reads past withContextIO.
ContextEndsDial ==
    (ctx # "live") ~> (outcome # "none" \/ At({"address"}))
==============================================================================
