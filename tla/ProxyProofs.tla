----------------------------- MODULE ProxyProofs -----------------------------
(***************************************************************************)
(* Proofs about ProxyStream: for every link, whatever the server answers   *)
(* and whenever the context ends, DialContext hands over a clean           *)
(* connection or leaves none, and the tunnel does not touch it.  Read      *)
(* returns what was sent, in order, for any number of units, however the   *)
(* server frames them.                                                     *)
(***************************************************************************)
EXTENDS ProxyStream, TLAPS

Elems(s) == {s[i] : i \in DOMAIN s}

\* What a script must be for the handshake to end well: it connects, it upgrades
\* only where the transport is a WebSocket, and it reads the header of an HTTP
\* reply only where the payload is plain.
GoodScript(r, s) ==
    /\ s \in Seq(Steps)
    /\ "tcp" \in Elems(s)
    /\ (\E u \in Upgrade : u \in Elems(s)) => r.ws
    /\ "header" \in Elems(s) => r = NoRoute

\* What the steps of withContextIO and of the dialers keep.
DialInv ==
    /\ DialTypeOK
    /\ phase = "returned" <=> outcome # "none"
    /\ phase \in {"link", "idle"} => helper = "none" /\ deadline = "none"
    /\ phase \in {"select", "draining"} => todo # <<>> /\ Head(todo) \in Guarded
    /\ deadline = "past" => phase = "draining"
    /\ deadline = "ctx" => timed
    /\ phase \notin {"link", "returned"} => (conn = "open" \/ "tcp" \in Elems(todo))
    /\ phase \notin {"link", "returned"} => ((\E u \in Upgrade : u \in Elems(todo)) => route.ws)
    /\ phase \notin {"link", "returned"} => ("header" \in Elems(todo) => route = NoRoute)
    /\ phase = "link" => conn = "none" /\ ~lost
    /\ lost => route = NoRoute
    /\ route.ws => route.layer \in {"plain", "vmess"}
    /\ HandshakeEndsClean

\* The elements of sequences put behind one another.
LEMMA ElemsConcat ==
    ASSUME NEW S, NEW s \in Seq(S), NEW t \in Seq(S)
    PROVE  s \o t \in Seq(S) /\ Elems(s \o t) = Elems(s) \cup Elems(t)
<1>1. s \o t \in Seq(S) OBVIOUS
<1>2. ASSUME NEW x \in Elems(s \o t) PROVE x \in Elems(s) \cup Elems(t)
  <2>1. PICK i \in DOMAIN (s \o t) : x = (s \o t)[i] BY <1>2 DEF Elems
  <2>2. CASE i <= Len(s)
    <3>1. i \in DOMAIN s /\ x = s[i] BY <2>1, <2>2
    <3> QED BY <3>1 DEF Elems
  <2>3. CASE i > Len(s)
    <3>1. i - Len(s) \in DOMAIN t /\ x = t[i - Len(s)] BY <2>1, <2>3
    <3> QED BY <3>1 DEF Elems
  <2> QED BY <2>1, <2>2, <2>3
<1>3. ASSUME NEW i \in DOMAIN s PROVE s[i] \in Elems(s \o t)
  <2>1. i \in DOMAIN (s \o t) /\ (s \o t)[i] = s[i] OBVIOUS
  <2> QED BY <2>1 DEF Elems
<1>4. ASSUME NEW i \in DOMAIN t PROVE t[i] \in Elems(s \o t)
  <2>1. i + Len(s) \in DOMAIN (s \o t) /\ (s \o t)[i + Len(s)] = t[i] OBVIOUS
  <2> QED BY <2>1 DEF Elems
<1>5. Elems(s) \subseteq Elems(s \o t) BY <1>3 DEF Elems
<1>6. Elems(t) \subseteq Elems(s \o t) BY <1>4 DEF Elems
<1> QED BY <1>1, <1>2, <1>5, <1>6

\* The elements of a sequence are its first one and those of its tail.
LEMMA ElemsTail ==
    ASSUME NEW S, NEW s \in Seq(S), s # <<>>
    PROVE  Tail(s) \in Seq(S) /\ Head(s) \in S /\ Elems(s) = {Head(s)} \cup Elems(Tail(s))
<1>1. Tail(s) \in Seq(S) /\ Head(s) \in S /\ s = <<Head(s)>> \o Tail(s) OBVIOUS
<1>2. <<Head(s)>> \in Seq(S) BY <1>1
<1>3. Elems(<<Head(s)>>) = {Head(s)} BY DEF Elems
<1>4. Elems(<<Head(s)>> \o Tail(s)) = Elems(<<Head(s)>>) \cup Elems(Tail(s))
  BY <1>1, <1>2, ElemsConcat
<1> QED BY <1>1, <1>3, <1>4

\* The elements of the sequences that scripts and replies are made of.
LEMMA Elems0 == \A S : <<>> \in Seq(S) /\ Elems(<<>>) = {}
BY DEF Elems

\* One element.
LEMMA Elems1 == \A S : \A a \in S : <<a>> \in Seq(S) /\ Elems(<<a>>) = {a}
BY DEF Elems

\* Two elements.
LEMMA Elems2 == \A S : \A a, b \in S : <<a, b>> \in Seq(S) /\ Elems(<<a, b>>) = {a, b}
<1> SUFFICES ASSUME NEW S, NEW a \in S, NEW b \in S
             PROVE  <<a, b>> \in Seq(S) /\ Elems(<<a, b>>) = {a, b}
  OBVIOUS
<1>1. DOMAIN <<a, b>> = {1, 2} OBVIOUS
<1> QED BY <1>1 DEF Elems

\* Three elements.
LEMMA Elems3 ==
    \A S : \A a, b, c \in S : <<a, b, c>> \in Seq(S) /\ Elems(<<a, b, c>>) = {a, b, c}
<1> SUFFICES ASSUME NEW S, NEW a \in S, NEW b \in S, NEW c \in S
             PROVE  <<a, b, c>> \in Seq(S) /\ Elems(<<a, b, c>>) = {a, b, c}
  OBVIOUS
<1>1. DOMAIN <<a, b, c>> = {1, 2, 3} OBVIOUS
<1> QED BY <1>1 DEF Elems

\* The parts of the scripts, as sequences of steps.
LEMMA ScriptParts ==
    ASSUME NEW l
    PROVE  /\ TLS(l) \in Seq(Steps) /\ Elems(TLS(l)) \subseteq {"tls"}
           /\ wsHandshake(l) \in Seq(Steps) /\ Elems(wsHandshake(l)) \subseteq Upgrade
           /\ ~Route(l).ws => Elems(wsHandshake(l)) = {}
<1> DEFINE hs == <<"upgrade", "wsStatus", "wsHeader">>
<1>1. "tls" \in Steps /\ Upgrade \subseteq Steps BY DEF Steps, Guarded
<1>2. "upgrade" \in Upgrade /\ "wsStatus" \in Upgrade /\ "wsHeader" \in Upgrade BY DEF Upgrade
<1>3. <<"tls">> \in Seq(Steps) /\ Elems(<<"tls">>) = {"tls"} BY <1>1, Elems1
<1>4. <<>> \in Seq(Steps) /\ Elems(<<>>) = {} BY Elems0
<1>5. hs \in Seq(Steps) /\ Elems(hs) = {"upgrade", "wsStatus", "wsHeader"} BY <1>1, <1>2, Elems3
<1> HIDE DEF hs
<1>6. TLS(l) \in {<<"tls">>, <<>>} BY DEF TLS
<1>7. wsHandshake(l) = IF Route(l).ws THEN hs ELSE <<>> BY DEF wsHandshake, hs
<1> QED BY <1>2, <1>3, <1>4, <1>5, <1>6, <1>7

\* Three scripts behind one another ...
LEMMA Concat3 ==
    \A r, s, t \in Seq(Steps) :
        r \o s \o t \in Seq(Steps) /\ Elems(r \o s \o t) = Elems(r) \cup Elems(s) \cup Elems(t)
<1> SUFFICES ASSUME NEW r \in Seq(Steps), NEW s \in Seq(Steps), NEW t \in Seq(Steps)
             PROVE  /\ r \o s \o t \in Seq(Steps)
                    /\ Elems(r \o s \o t) = Elems(r) \cup Elems(s) \cup Elems(t)
  OBVIOUS
<1> DEFINE q == r \o s
<1>1. q \in Seq(Steps) /\ Elems(q) = Elems(r) \cup Elems(s) BY ElemsConcat
<1> HIDE DEF q
<1>2. q \o t \in Seq(Steps) /\ Elems(q \o t) = Elems(q) \cup Elems(t) BY <1>1, ElemsConcat
<1> QED BY <1>1, <1>2 DEF q

\* ... and four.
LEMMA Concat4 ==
    \A r, s, t, u \in Seq(Steps) :
        /\ r \o s \o t \o u \in Seq(Steps)
        /\ Elems(r \o s \o t \o u) = Elems(r) \cup Elems(s) \cup Elems(t) \cup Elems(u)
<1> SUFFICES ASSUME NEW r \in Seq(Steps), NEW s \in Seq(Steps), NEW t \in Seq(Steps),
                    NEW u \in Seq(Steps)
             PROVE  /\ r \o s \o t \o u \in Seq(Steps)
                    /\ Elems(r \o s \o t \o u)
                           = Elems(r) \cup Elems(s) \cup Elems(t) \cup Elems(u)
  OBVIOUS
<1> DEFINE q == r \o s \o t
<1>1. q \in Seq(Steps) /\ Elems(q) = Elems(r) \cup Elems(s) \cup Elems(t) BY Concat3
<1> HIDE DEF q
<1>2. q \o u \in Seq(Steps) /\ Elems(q \o u) = Elems(q) \cup Elems(u) BY <1>1, ElemsConcat
<1> QED BY <1>1, <1>2 DEF q

\* Every script of a dialer is a good one.
LEMMA ScriptsAreGood ==
    ASSUME NEW l \in Links, Accepts(l)
    PROVE  GoodScript(Route(l), Script(l))
<1> DEFINE P2 == <<"network", "tcp">>
           P3 == <<"network", "target", "tcp">>
<1>0. /\ "network" \in Steps /\ "tcp" \in Steps /\ "target" \in Steps /\ "connect" \in Steps
      /\ "status" \in Steps /\ "header" \in Steps /\ "request" \in Steps /\ "reply" \in Steps
      /\ "version" \in Steps /\ "greeting" \in Steps /\ "method" \in Steps /\ "salt" \in Steps
  BY DEF Steps, Checks, Guarded, Unguarded
<1>1. P2 \in Seq(Steps) /\ Elems(P2) = {"network", "tcp"} BY <1>0, Elems2
<1>2. P3 \in Seq(Steps) /\ Elems(P3) = {"network", "target", "tcp"} BY <1>0, Elems3
<1>3. HTTPConnect \in Seq(Steps) /\ Elems(HTTPConnect) = {"connect", "status", "header"}
  BY <1>0, Elems3 DEF HTTPConnect
<1>4. SOCKS5Request \in Seq(Steps) /\ Elems(SOCKS5Request) = {"target", "request", "reply"}
  BY <1>0, Elems3 DEF SOCKS5Request
<1>5. TrojanRequest \in Seq(Steps) /\ Elems(TrojanRequest) = {"target", "request"}
  BY <1>0, Elems2 DEF TrojanRequest
<1>6. VLESSRequest \in Seq(Steps) /\ Elems(VLESSRequest) = {"target", "request", "version"}
  BY <1>0, Elems3 DEF VLESSRequest
<1>7. Negotiate \in Seq(Steps) /\ Elems(Negotiate) = {"greeting", "method"}
  BY <1>0, Elems2 DEF Negotiate
<1>8. SSDial(l) \in Seq(Steps) /\ Elems(SSDial(l)) = {"tcp", "target", "salt"}
  BY <1>0, Elems3 DEF SSDial
<1> HIDE DEF P2, P3
<1>9. TLS(l) \in Seq(Steps) /\ wsHandshake(l) \in Seq(Steps) BY ScriptParts
<1>10. /\ HTTPDial(l) \in Seq(Steps)
       /\ Elems(HTTPDial(l)) = Elems(P2) \cup Elems(TLS(l)) \cup Elems(HTTPConnect)
  <2>1. HTTPDial(l) = P2 \o TLS(l) \o HTTPConnect BY DEF HTTPDial, P2
  <2>2. /\ P2 \o TLS(l) \o HTTPConnect \in Seq(Steps)
        /\ Elems(P2 \o TLS(l) \o HTTPConnect) = Elems(P2) \cup Elems(TLS(l)) \cup Elems(HTTPConnect)
    BY <1>1, <1>3, <1>9, Concat3
  <2> QED BY <2>1, <2>2, Zenon
<1>11. /\ SOCKS5Dial(l) \in Seq(Steps)
       /\ Elems(SOCKS5Dial(l)) = Elems(P2) \cup Elems(Negotiate) \cup Elems(SOCKS5Request)
  <2>1. SOCKS5Dial(l) = P2 \o Negotiate \o SOCKS5Request BY DEF SOCKS5Dial, P2
  <2>2. /\ P2 \o Negotiate \o SOCKS5Request \in Seq(Steps)
        /\ Elems(P2 \o Negotiate \o SOCKS5Request)
               = Elems(P2) \cup Elems(Negotiate) \cup Elems(SOCKS5Request)
    BY <1>1, <1>4, <1>7, Concat3
  <2> QED BY <2>1, <2>2, Zenon
<1>13. /\ TrojanDial(l) \in Seq(Steps)
       /\ Elems(TrojanDial(l))
              = Elems(P2) \cup Elems(TLS(l)) \cup Elems(wsHandshake(l)) \cup Elems(TrojanRequest)
  <2>1. TrojanDial(l) = P2 \o TLS(l) \o wsHandshake(l) \o TrojanRequest BY DEF TrojanDial, P2
  <2>2. /\ P2 \o TLS(l) \o wsHandshake(l) \o TrojanRequest \in Seq(Steps)
        /\ Elems(P2 \o TLS(l) \o wsHandshake(l) \o TrojanRequest)
              = Elems(P2) \cup Elems(TLS(l)) \cup Elems(wsHandshake(l)) \cup Elems(TrojanRequest)
    BY <1>1, <1>5, <1>9, Concat4
  <2> QED BY <2>1, <2>2, Zenon
<1>14. /\ VLESSDial(l) \in Seq(Steps)
       /\ Elems(VLESSDial(l))
              = Elems(P2) \cup Elems(TLS(l)) \cup Elems(wsHandshake(l)) \cup Elems(VLESSRequest)
  <2>1. VLESSDial(l) = P2 \o TLS(l) \o wsHandshake(l) \o VLESSRequest BY DEF VLESSDial, P2
  <2>2. /\ P2 \o TLS(l) \o wsHandshake(l) \o VLESSRequest \in Seq(Steps)
        /\ Elems(P2 \o TLS(l) \o wsHandshake(l) \o VLESSRequest)
              = Elems(P2) \cup Elems(TLS(l)) \cup Elems(wsHandshake(l)) \cup Elems(VLESSRequest)
    BY <1>1, <1>6, <1>9, Concat4
  <2> QED BY <2>1, <2>2, Zenon
<1>15. /\ VMessDial(l) \in Seq(Steps)
       /\ Elems(VMessDial(l)) = Elems(P3) \cup Elems(TLS(l)) \cup Elems(wsHandshake(l))
  <2>1. VMessDial(l) = P3 \o TLS(l) \o wsHandshake(l) BY DEF VMessDial, P3
  <2>2. /\ P3 \o TLS(l) \o wsHandshake(l) \in Seq(Steps)
        /\ Elems(P3 \o TLS(l) \o wsHandshake(l)) = Elems(P3) \cup Elems(TLS(l)) \cup Elems(wsHandshake(l))
    BY <1>2, <1>9, Concat3
  <2> QED BY <2>1, <2>2, Zenon
<1>16. l.scheme \in {"http", "https", "socks", "ss", "trojan", "vless", "vmess"}
  BY DEF Accepts, Links
<1>17. CASE l.scheme \in {"http", "https"}
  <2>1. Script(l) = HTTPDial(l) /\ Route(l) = NoRoute BY <1>17 DEF Script, Route, NoRoute
  <2> QED BY <2>1, <1>10, <1>1, <1>3, ScriptParts DEF GoodScript, Upgrade
<1>18. CASE l.scheme = "socks"
  BY <1>18, <1>11, <1>1, <1>4, <1>7 DEF GoodScript, Script, Upgrade
<1>19. CASE l.scheme = "ss"
  BY <1>19, <1>8 DEF GoodScript, Script, Upgrade
<1>20. CASE l.scheme = "trojan"
  BY <1>20, <1>13, <1>1, <1>5, ScriptParts DEF GoodScript, Script, Upgrade
<1>21. CASE l.scheme = "vless"
  BY <1>21, <1>14, <1>1, <1>6, ScriptParts DEF GoodScript, Script, Upgrade
<1>22. CASE l.scheme = "vmess"
  BY <1>22, <1>15, <1>2, ScriptParts DEF GoodScript, Script, Upgrade
<1> QED BY <1>16, <1>17, <1>18, <1>19, <1>20, <1>21, <1>22

\* What NewDialer gives to DialContext.
LEMMA DialersAreGood ==
    ASSUME NEW d \in Dialers
    PROVE  /\ GoodScript(d.route, d.script)
           /\ d.route \in [layer : {"plain", "vmess", "aead", "xaead", "stream"}, ws : BOOLEAN]
           /\ d.route.ws => d.route.layer \in {"plain", "vmess"}
<1>1. PICK l \in {k \in Links : Accepts(k)} : d = [route |-> Route(l), script |-> Script(l)]
  BY DEF Dialers
<1>2. d.route = Route(l) /\ d.script = Script(l) BY <1>1
<1>3. GoodScript(Route(l), Script(l)) BY <1>1, ScriptsAreGood
<1>4. Route(l) \in [layer : {"plain", "vmess", "aead", "xaead", "stream"}, ws : BOOLEAN]
  <2>1. l.scheme = "ss" => l.cipher \in {"aead", "xaead", "stream"}
    BY <1>1 DEF Accepts, NewShadowsocksDialer, cipherInfo, Links
  <2> QED BY <2>1 DEF Route
<1>5. Route(l).ws => Route(l).layer \in {"plain", "vmess"} BY DEF Route
<1> QED BY <1>2, <1>3, <1>4, <1>5

\* The steps that a reply adds do not upgrade, unless an upgrade is under way.
LEMMA FurtherSteps ==
    ASSUME NEW step \in Steps, NEW more \in Further(step)
    PROVE  /\ more \in Seq(Steps)
           /\ (\E u \in Upgrade : u \in Elems(more)) => step \in Upgrade
           /\ "header" \in Elems(more) => step = "header"
<1>0. /\ "auth" \in Steps /\ "authReply" \in Steps /\ "address" \in Steps /\ "domain" \in Steps
      /\ "addons" \in Steps
  BY DEF Steps, Guarded, Unguarded
<1>1. <<>> \in Seq(Steps) /\ Elems(<<>>) = {} BY Elems0
<1>2. Authenticate \in Seq(Steps) /\ Elems(Authenticate) = {"auth", "authReply"}
  BY <1>0, Elems2 DEF Authenticate
<1>3. <<"address">> \in Seq(Steps) /\ Elems(<<"address">>) = {"address"} BY <1>0, Elems1
<1>4. <<"domain", "address">> \in Seq(Steps) /\ Elems(<<"domain", "address">>) = {"domain", "address"}
  BY <1>0, Elems2
<1>5. <<"addons">> \in Seq(Steps) /\ Elems(<<"addons">>) = {"addons"} BY <1>0, Elems1
<1>6. <<step>> \in Seq(Steps) /\ Elems(<<step>>) = {step} BY Elems1
<1>7. more \in {<<>>, Authenticate, <<"address">>, <<"domain", "address">>, <<"addons">>, <<step>>}
  BY DEF Further
<1>8. more \in Seq(Steps) BY <1>1, <1>2, <1>3, <1>4, <1>5, <1>6, <1>7
<1>9. \/ Elems(more) \subseteq {"auth", "authReply", "address", "domain", "addons"}
      \/ Elems(more) = {step}
  BY <1>1, <1>2, <1>3, <1>4, <1>5, <1>6, <1>7
<1> QED BY <1>8, <1>9 DEF Upgrade

\* A step that fails, from a phase in which nobody else uses the connection
\* when it returns.
LEMMA FailKeeps ==
    ASSUME DialInv, phase \notin {"link", "returned"}, todo # <<>>, Fail,
           helper' = "none", deadline' \in {"none", "ctx"}, deadline' = "ctx" => timed',
           timed' \in BOOLEAN, ctx' \in {"live", "cancelled", "expired"}, UNCHANGED route
    PROVE  DialInv'
<1> USE DEF DialInv, DialTypeOK, HandshakeEndsClean
<1>1. Head(todo) \in Elems(todo) BY ElemsTail
<1>2. outcome' = "panic" => route.ws BY <1>1 DEF Fail
<1>3. outcome' = "error" => conn' # "open" BY DEF Fail
<1> QED BY <1>2, <1>3 DEF Fail

\* A step that succeeds: the script goes on without it.
LEMMA AdvanceKeeps ==
    ASSUME DialInv, phase \notin {"link", "returned"}, todo # <<>>, Head(todo) # "tcp",
           NEW more \in Further(Head(todo)), Advance(more),
           helper' = "none", deadline' = "none",
           timed' \in BOOLEAN, ctx' \in {"live", "cancelled", "expired"}, UNCHANGED route
    PROVE  DialInv'
<1> USE DEF DialInv, DialTypeOK, HandshakeEndsClean
<1>1. /\ Tail(todo) \in Seq(Steps) /\ Head(todo) \in Steps
      /\ Elems(todo) = {Head(todo)} \cup Elems(Tail(todo))
  BY ElemsTail
<1>2. /\ more \in Seq(Steps)
      /\ (\E u \in Upgrade : u \in Elems(more)) => Head(todo) \in Upgrade
      /\ "header" \in Elems(more) => Head(todo) = "header"
  BY <1>1, FurtherSteps
<1>3. todo' \in Seq(Steps) /\ Elems(todo') = Elems(more) \cup Elems(Tail(todo))
  <2>1. more \in Seq(Steps) /\ Tail(todo) \in Seq(Steps) BY <1>1, <1>2
  <2>2. todo' = more \o Tail(todo) BY DEF Advance
  <2>3. /\ more \o Tail(todo) \in Seq(Steps)
        /\ Elems(more \o Tail(todo)) = Elems(more) \cup Elems(Tail(todo))
    BY ONLY <2>1, ElemsConcat
  <2> QED BY ONLY <2>2, <2>3
<1>4. (conn' = "open" \/ "tcp" \in Elems(todo')) BY <1>1, <1>3 DEF Advance
<1>5. (\E u \in Upgrade : u \in Elems(todo')) => route.ws BY <1>1, <1>2, <1>3
<1>8. "header" \in Elems(todo') => route = NoRoute
  BY <1>1, <1>2, <1>3
<1>9. lost' => route = NoRoute BY <1>1 DEF Advance
<1>6. phase' = "idle" /\ outcome' = "none" /\ conn' \in {"none", "open", "closed"} BY DEF Advance
<1>7. lost' \in BOOLEAN BY DEF Advance
<1> QED BY <1>3, <1>4, <1>5, <1>6, <1>7, <1>8, <1>9

\* A step of a dial keeps the invariant.
LEMMA DialStep == DialInv /\ DialNext => DialInv'
<1> SUFFICES ASSUME DialInv, DialNext PROVE DialInv' OBVIOUS
<1>0. Checks \cup {"tls", "address", "salt"} \subseteq Steps \ {"tcp"} /\ "tcp" \notin Guarded
      /\ Guarded \subseteq Steps
  BY DEF Steps, Checks, Guarded, Unguarded, Upgrade
<1>1. CASE NewDialer
  <2> USE DEF DialInv, DialTypeOK, HandshakeEndsClean
  <2>1. ASSUME NEW d \in Dialers, route' = d.route, todo' = d.script, phase' = "idle",
               UNCHANGED outcome
        PROVE  DialInv'
    <3>1. /\ GoodScript(d.route, d.script)
          /\ d.route \in [layer : {"plain", "vmess", "aead", "xaead", "stream"}, ws : BOOLEAN]
          /\ d.route.ws => d.route.layer \in {"plain", "vmess"}
      BY DialersAreGood
    <3>2. /\ phase = "link" /\ ~lost /\ outcome = "none" /\ phase' = "idle"
          /\ UNCHANGED <<timed, ctx, helper, conn, deadline, lost, outcome>>
      BY <1>1, <2>1 DEF NewDialer
    <3> QED BY <2>1, <3>1, <3>2 DEF GoodScript
  <2>2. CASE outcome' = "refused" /\ phase' = "returned" /\ UNCHANGED <<route, todo>>
    BY <1>1, <2>2 DEF NewDialer
  <2> QED BY <1>1, <2>1, <2>2 DEF NewDialer
<1>2. ASSUME NEW S \in SUBSET (Checks \cup {"tls", "address", "salt"}), At(S), Advance(<<>>) \/ Fail,
             UNCHANGED <<route, timed, ctx, helper, deadline>>
      PROVE  DialInv'
  <2>1. /\ phase \notin {"link", "returned"} /\ todo # <<>> /\ Head(todo) # "tcp"
        /\ helper' = "none" /\ deadline' = "none" /\ UNCHANGED route
        /\ timed' \in BOOLEAN /\ ctx' \in {"live", "cancelled", "expired"}
    BY <1>2 DEF At, Checks, DialInv, DialTypeOK
  <2>2. CASE Fail BY <2>1, <2>2, FailKeeps
  <2>3. CASE Advance(<<>>)
    <3>1. <<>> \in Further(Head(todo)) BY <1>2 DEF Further, At, Checks
    <3> QED BY <2>1, <2>3, <3>1, AdvanceKeeps
  <2> QED BY <1>2, <2>2, <2>3
<1>3. CASE Check BY <1>2, <1>3 DEF Check
<1>4. CASE DialTCP
  <2>1. /\ phase \notin {"link", "returned"} /\ todo # <<>> /\ Head(todo) = "tcp"
        /\ helper' = "none" /\ deadline' = "none" /\ UNCHANGED route
        /\ timed' \in BOOLEAN /\ ctx' \in {"live", "cancelled", "expired"}
    BY <1>4 DEF DialTCP, At, DialInv, DialTypeOK
  <2>2. CASE Fail BY <2>1, <2>2, FailKeeps
  <2>3. CASE ctx = "live" /\ conn' = "open" /\ todo' = Tail(todo) /\ UNCHANGED <<phase, outcome, lost>>
    <3>1. Tail(todo) \in Seq(Steps) /\ Elems(todo) = {Head(todo)} \cup Elems(Tail(todo))
      BY <2>1, ElemsTail DEF DialInv, DialTypeOK
    <3>2. phase = "idle" BY <1>4 DEF DialTCP, At
    <3> QED BY <1>4, <2>1, <2>3, <3>1, <3>2
            DEF DialTCP, DialInv, DialTypeOK, HandshakeEndsClean
  <2> QED BY <1>4, <2>2, <2>3 DEF DialTCP
<1>5. CASE HandshakeTLS BY <1>2, <1>5 DEF HandshakeTLS
<1>6. CASE InterruptTLS BY <1>2, <1>6 DEF InterruptTLS
<1>7. CASE SkipAddress BY <1>2, <1>7 DEF SkipAddress
<1>8. CASE WriteSalt BY <1>2, <1>8 DEF WriteSalt
<1>9. CASE BeginIO
  <2>1. /\ phase = "idle" /\ todo # <<>> /\ Head(todo) \in Guarded
        /\ helper = "none" /\ deadline = "none" /\ outcome = "none"
    BY <1>9 DEF BeginIO, At, DialInv, DialTypeOK
  <2>2. CASE ctx # "live"
    <3>1. /\ Fail /\ UNCHANGED <<helper, deadline, route, timed, ctx>> BY <1>9, <2>2 DEF BeginIO
    <3> QED BY <2>1, <3>1, FailKeeps DEF DialInv, DialTypeOK
  <2>3. CASE ctx = "live"
    BY <1>9, <2>1, <2>3 DEF BeginIO, DialInv, DialTypeOK, HandshakeEndsClean
  <2> QED BY <2>2, <2>3
<1>10. ASSUME NEW result \in {"ok", "failed"}, HelperEnds(result) PROVE DialInv'
  BY <1>10 DEF HelperEnds, DialInv, DialTypeOK, HandshakeEndsClean
<1>11. CASE ServerAnswers BY <1>10, <1>11 DEF ServerAnswers
<1>12. CASE ServerFails BY <1>10, <1>12 DEF ServerFails
<1>13. CASE HelperTimesOut BY <1>10, <1>13 DEF HelperTimesOut
<1>14. CASE TakeResult
  <2>1. /\ phase = "select" /\ todo # <<>> /\ Head(todo) # "tcp"
        /\ helper' = "none" /\ deadline' = "none" /\ UNCHANGED route
        /\ timed' \in BOOLEAN /\ ctx' \in {"live", "cancelled", "expired"}
    BY <1>0, <1>14 DEF TakeResult, DialInv, DialTypeOK
  <2>2. CASE Fail BY <2>1, <2>2, FailKeeps
  <2>3. ASSUME NEW more \in Further(Head(todo)), Advance(more) PROVE DialInv'
    BY <2>1, <2>3, AdvanceKeeps
  <2> QED BY <1>14, <2>2, <2>3 DEF TakeResult
<1>15. CASE TakeDone
  BY <1>15 DEF TakeDone, DialInv, DialTypeOK, HandshakeEndsClean
<1>16. CASE Drained
  <2>1. /\ phase = "draining" /\ todo # <<>> /\ helper' = "none" /\ deadline' = "none"
        /\ Fail /\ UNCHANGED route
        /\ timed' \in BOOLEAN /\ ctx' \in {"live", "cancelled", "expired"}
    BY <1>16 DEF Drained, DialInv, DialTypeOK
  <2> QED BY <2>1, FailKeeps
<1>17. CASE Return
  <2>1. Elems(<<>>) = {} BY Elems0
  <2>2. conn = "open" /\ helper = "none" /\ deadline = "none" BY <1>17, <2>1 DEF Return, DialInv
  <2> QED BY <1>17, <2>2 DEF Return, DialInv, DialTypeOK, HandshakeEndsClean
<1>18. CASE ContextEnds
  BY <1>18 DEF ContextEnds, DialInv, DialTypeOK, HandshakeEndsClean
<1> QED BY <1>1, <1>3, <1>4, <1>5, <1>6, <1>7, <1>8, <1>9, <1>11, <1>12, <1>13, <1>14, <1>15,
           <1>16, <1>17, <1>18 DEF DialNext, Dialing

\* A step of the tunnel keeps it too: only a panic of Write touches what the
\* dial left.
LEMMA TunnelStep == DialInv /\ StreamNext => DialInv'
<1> SUFFICES ASSUME DialInv, StreamNext PROVE DialInv' OBVIOUS
<1>1. CASE WriteXAEAD
  BY <1>1 DEF WriteXAEAD, Open, DialInv, DialTypeOK, HandshakeEndsClean
<1>2. CASE UNCHANGED dialVars
  BY <1>2 DEF dialVars, DialInv, DialTypeOK, HandshakeEndsClean
<1>3. WriteXAEAD \/ UNCHANGED dialVars
  BY DEF StreamNext, PeerSend, Read, ReceiveRaw, ReceivePending, ReadFrameHead, ReadFrameBody,
         CutRead, WritePong, Write, WritePart, CutWrite
<1> QED BY <1>1, <1>2, <1>3

\* Before a link is known there is neither a connection nor a deadline.
LEMMA TunnelStart == TunnelInit => DialInv
<1>1. /\ NoRoute \in [layer : {"plain", "vmess", "aead", "xaead", "stream"}, ws : BOOLEAN]
      /\ ~NoRoute.ws
  BY DEF NoRoute
<1>2. <<>> \in Seq(Steps) BY Elems0
<1> QED BY <1>1, <1>2 DEF TunnelInit, DialInit, DialInv, DialTypeOK, HandshakeEndsClean

\* The dial's part of the state keeps its types, and the invariant holds.
THEOREM DialKeeps == TunnelSpec => []DialInv
<1>1. DialInv /\ [(DialNext /\ UNCHANGED streamVars) \/ StreamNext]_tunnelVars => DialInv'
  <2> SUFFICES ASSUME DialInv, [(DialNext /\ UNCHANGED streamVars) \/ StreamNext]_tunnelVars
               PROVE  DialInv'
    OBVIOUS
  <2>1. CASE UNCHANGED tunnelVars
    BY <2>1 DEF tunnelVars, dialVars, DialInv, DialTypeOK, HandshakeEndsClean
  <2> QED BY <2>1, DialStep, TunnelStep
<1> QED BY <1>1, TunnelStart, PTL DEF TunnelSpec

\* withContextIO clears its deadline and waits for its goroutine on each of its
\* three ways out, and a dial that fails closes what it opened.
THEOREM DialEndsClean == TunnelSpec => []HandshakeEndsClean
<1>1. DialInv => HandshakeEndsClean BY DEF DialInv
<1> QED BY <1>1, DialKeeps, PTL
-----------------------------------------------------------------------------
(* What Read returns.  The pieces that one side sends are numbered, as the *)
(* units are that they carry.                                              *)

Layers     == {"plain", "vmess", "aead", "stream"}
PieceKinds == {"headerLength", "header", "length", "body", "salt", "sealedLength",
               "sealedBody", "data", "junk"}
AnyPiece   == [k : PieceKinds, n : Nat]

\* The number of the last piece before unit i, and of the last one with m units.
Before(layer, i) ==
    CASE layer = "vmess" -> 2 * i
      [] layer = "aead" -> 2 * i - 1
      [] layer = "stream" -> i
      [] OTHER -> i - 1
EndOf(layer, m) == IF m = 0 THEN 0 ELSE Before(layer, m + 1)

\* Piece p of a layer: the header or the salt, and then the chunks.
Nth(layer, p) ==
    CASE layer = "vmess" -> IF p = 1 THEN Piece("headerLength", 0)
                            ELSE IF p = 2 THEN Piece("header", 0)
                            ELSE IF p % 2 = 1 THEN Piece("length", 0)
                            ELSE Piece("body", (p \div 2) - 1)
      [] layer = "aead" -> IF p = 1 THEN Piece("salt", 0)
                           ELSE Piece(IF p % 2 = 0 THEN "sealedLength" ELSE "sealedBody", p - 1)
      [] layer = "stream" -> IF p = 1 THEN Piece("salt", 0) ELSE Piece("data", p - 1)
      [] OTHER -> Piece("data", p)

LastKind(layer) ==
    CASE layer = "vmess" -> "body" [] layer = "aead" -> "sealedBody" [] OTHER -> "data"

\* The nonces used up by the first d pieces.
Opened(layer, d) ==
    CASE layer = "vmess" -> IF d < 2 THEN 0 ELSE (d \div 2) - 1
      [] layer = "aead" -> IF d = 0 THEN 0 ELSE d - 1
      [] OTHER -> 0

\* The pieces after number "from" up to number "to".
Line(layer, s, from, to) ==
    /\ s \in Seq(AnyPiece)
    /\ Len(s) = to - from
    /\ \A i \in 1..Len(s) : s[i] = Nth(layer, from + i)

\* The sealed pieces that a server which has sent m units may have sent.
LegalIn(m) == {p \in AnyPiece : /\ p.k = "body" => p.n \in 1..m
                                /\ p.k = "sealedBody" => \E i \in 1..m : p.n = 2 * i}

\* What a sequence is.
LEMMA SeqFacts ==
    ASSUME NEW S, NEW s \in Seq(S)
    PROVE  /\ Len(s) \in Nat /\ DOMAIN s = 1..Len(s)
           /\ \A i \in 1..Len(s) : s[i] \in S
OBVIOUS

\* Two sequences behind one another.
LEMMA Concatenation ==
    ASSUME NEW S, NEW s \in Seq(S), NEW t \in Seq(S)
    PROVE  /\ s \o t \in Seq(S) /\ Len(s \o t) = Len(s) + Len(t)
           /\ \A i \in 1..Len(s) : (s \o t)[i] = s[i]
           /\ \A i \in 1..Len(t) : (s \o t)[Len(s) + i] = t[i]
OBVIOUS

\* The first element of a sequence, and the others.
LEMMA TailOf ==
    ASSUME NEW S, NEW s \in Seq(S), Len(s) > 0
    PROVE  /\ Head(s) = s[1] /\ Head(s) \in S /\ Tail(s) \in Seq(S) /\ Len(Tail(s)) = Len(s) - 1
           /\ \A i \in 1..(Len(s) - 1) : Tail(s)[i] = s[i + 1]
OBVIOUS

\* The pieces of a line without the first one.
LEMMA LineStarts ==
    ASSUME NEW layer, NEW s, NEW from \in Nat, NEW to \in Nat, Line(layer, s, from, to), s # <<>>
    PROVE  /\ Head(s) = Nth(layer, from + 1) /\ Head(s) \in AnyPiece
           /\ from + 1 <= to
           /\ Line(layer, Tail(s), from + 1, to)
<1>1. /\ s \in Seq(AnyPiece) /\ Len(s) = to - from /\ Len(s) > 0
      /\ \A i \in 1..Len(s) : s[i] = Nth(layer, from + i)
  <2>1. s \in Seq(AnyPiece) /\ Len(s) = to - from BY DEF Line
  <2>2. DOMAIN s = 1..Len(s) /\ Len(s) > 0 BY <2>1
  <2> QED BY <2>1, <2>2 DEF Line
<1>2. /\ Head(s) = s[1] /\ Head(s) \in AnyPiece /\ Tail(s) \in Seq(AnyPiece) /\ Len(Tail(s)) = Len(s) - 1
      /\ \A i \in 1..Len(Tail(s)) : Tail(s)[i] = s[i + 1]
  BY <1>1, TailOf
<1>3. \A i \in 1..Len(Tail(s)) : Tail(s)[i] = Nth(layer, (from + 1) + i)
  <2> SUFFICES ASSUME NEW i \in 1..Len(Tail(s)) PROVE Tail(s)[i] = Nth(layer, (from + 1) + i) OBVIOUS
  <2>1. i + 1 \in 1..Len(s) /\ from + (i + 1) = (from + 1) + i BY <1>1, <1>2
  <2> QED BY <1>1, <1>2, <2>1
<1>4. DOMAIN Tail(s) = 1..Len(Tail(s)) BY <1>2
<1>5. Line(layer, Tail(s), from + 1, to) BY <1>1, <1>2, <1>3, <1>4 DEF Line
<1> QED BY <1>1, <1>2, <1>5

\* A line goes on with the line that starts where it ends.
LEMMA LineGoesOn ==
    ASSUME NEW layer, NEW s, NEW t, NEW x \in Nat, NEW y \in Nat, NEW z \in Nat,
           Line(layer, s, x, y), Line(layer, t, y, z)
    PROVE  Line(layer, s \o t, x, z)
<1>1. /\ s \in Seq(AnyPiece) /\ Len(s) = y - x /\ t \in Seq(AnyPiece) /\ Len(t) = z - y
      /\ \A i \in 1..Len(s) : s[i] = Nth(layer, x + i)
      /\ \A i \in 1..Len(t) : t[i] = Nth(layer, y + i)
  BY DEF Line
<1>2. s \in Seq(AnyPiece) /\ t \in Seq(AnyPiece) /\ Len(s) \in Nat /\ Len(t) \in Nat BY <1>1
<1>3. /\ s \o t \in Seq(AnyPiece) /\ Len(s \o t) = Len(s) + Len(t)
      /\ \A i \in 1..Len(s) : (s \o t)[i] = s[i]
      /\ \A i \in 1..Len(t) : (s \o t)[Len(s) + i] = t[i]
  BY ONLY <1>2, Concatenation
<1>4. ASSUME NEW i \in 1..Len(s \o t) PROVE (s \o t)[i] = Nth(layer, x + i)
  <2>1. CASE i \in 1..Len(s) BY <1>1, <1>3, <2>1
  <2>2. CASE i \notin 1..Len(s)
    <3>1. i - Len(s) \in 1..Len(t) /\ y + (i - Len(s)) = x + i /\ Len(s) + (i - Len(s)) = i
      BY <1>1, <1>2, <1>3, <2>2
    <3>2. (s \o t)[Len(s) + (i - Len(s))] = t[i - Len(s)] BY <1>3, <3>1
    <3>3. t[i - Len(s)] = Nth(layer, y + (i - Len(s))) BY <1>1, <3>1
    <3> QED BY <3>1, <3>2, <3>3
  <2> QED BY <2>1, <2>2
<1>5. Len(s \o t) = z - x BY <1>1, <1>3
<1> QED BY <1>3, <1>4, <1>5 DEF Line

\* Nothing is a line that ends where it starts.
LEMMA EmptyLine ==
    \A layer : \A x \in Nat : Line(layer, <<>>, x, x)
BY DEF Line

\* The parts that chunks are made of, as sequences.
LEMMA OnePiece ==
    ASSUME NEW S, NEW a \in S
    PROVE  /\ <<a>> \in Seq(S) /\ Len(<<a>>) = 1 /\ DOMAIN <<a>> = {1} /\ <<a>>[1] = a
OBVIOUS

\* Two pieces.
LEMMA TwoPieces ==
    ASSUME NEW S, NEW a \in S, NEW b \in S
    PROVE  /\ <<a, b>> \in Seq(S) /\ Len(<<a, b>>) = 2 /\ DOMAIN <<a, b>> = {1, 2}
           /\ <<a, b>>[1] = a /\ <<a, b>>[2] = b
<1>1. DOMAIN <<a, b>> = {1, 2} OBVIOUS
<1> QED BY <1>1

\* The chunk of a unit.
LEMMA ChunkOf ==
    ASSUME NEW layer \in Layers, NEW i \in Nat, i > 0
    PROVE  /\ Before(layer, i) \in Nat /\ Before(layer, i + 1) \in Nat
           /\ Line(layer, Chunk(layer, i), Before(layer, i), Before(layer, i + 1))
           /\ Chunk(layer, i) \in Seq(LegalIn(i))
           /\ Chunk(layer, i) # <<>>
           /\ Chunk(layer, i)[Len(Chunk(layer, i))].k = LastKind(layer)
           /\ UnitOf(Nth(layer, Before(layer, i + 1))) = i
<1> DEFINE c == Chunk(layer, i)
<1>1. CASE layer = "vmess"
  <2> DEFINE a == Piece("length", 0)
             b == Piece("body", i)
  <2>1. c = <<a, b>> /\ Before(layer, i) = 2 * i /\ Before(layer, i + 1) = 2 * i + 2
    BY <1>1 DEF Chunk, VMessChunk, Before
  <2>2. a \in LegalIn(i) /\ b \in LegalIn(i) /\ a \in AnyPiece /\ b \in AnyPiece /\ b.k = "body"
        /\ UnitOf(b) = i
    BY DEF LegalIn, AnyPiece, PieceKinds, Piece, UnitOf
  <2>3. Nth(layer, 2 * i + 1) = a /\ Nth(layer, 2 * i + 2) = b
    <3>1. (2 * i + 1) % 2 = 1 /\ (2 * i + 2) % 2 = 0 /\ (2 * i + 2) \div 2 = i + 1 OBVIOUS
    <3> QED BY <1>1, <3>1 DEF Nth
  <2> HIDE DEF a, b
  <2>4. <<a, b>> \in Seq(LegalIn(i)) /\ <<a, b>> \in Seq(AnyPiece) /\ Len(<<a, b>>) = 2
        /\ DOMAIN <<a, b>> = {1, 2} /\ <<a, b>>[1] = a /\ <<a, b>>[2] = b
    BY <2>2, TwoPieces
  <2>5. Line(layer, c, 2 * i, 2 * i + 2) BY <2>1, <2>3, <2>4 DEF Line
  <2>6. LastKind(layer) = "body" BY <1>1 DEF LastKind
  <2>7. c # <<>> /\ c[Len(c)] = b /\ c \in Seq(LegalIn(i)) BY <2>1, <2>4
  <2> HIDE DEF c
  <2>8. Before(layer, i) \in Nat /\ Before(layer, i + 1) \in Nat BY <2>1
  <2>9. Line(layer, c, Before(layer, i), Before(layer, i + 1)) BY <2>1, <2>5
  <2>10. UnitOf(Nth(layer, Before(layer, i + 1))) = i BY <2>1, <2>2, <2>3
  <2> QED BY <2>2, <2>6, <2>7, <2>8, <2>9, <2>10 DEF c
<1>2. CASE layer = "aead"
  <2> DEFINE a == Piece("sealedLength", 2 * i - 1)
             b == Piece("sealedBody", 2 * i)
  <2>1. c = <<a, b>> /\ Before(layer, i) = 2 * i - 1 /\ Before(layer, i + 1) = 2 * i + 1
    BY <1>2 DEF Chunk, AEADChunk, Before
  <2>2. a \in LegalIn(i) /\ b \in LegalIn(i) /\ a \in AnyPiece /\ b \in AnyPiece /\ b.k = "sealedBody"
        /\ UnitOf(b) = i
    <3>1. (2 * i) \div 2 = i /\ 2 * i \in Nat /\ 2 * i - 1 \in Nat OBVIOUS
    <3> QED BY <3>1 DEF LegalIn, AnyPiece, PieceKinds, Piece, UnitOf
  <2>3. Nth(layer, 2 * i) = a /\ Nth(layer, 2 * i + 1) = b
    <3>1. (2 * i) % 2 = 0 /\ (2 * i + 1) % 2 = 1 /\ 2 * i # 1 /\ 2 * i + 1 # 1 OBVIOUS
    <3> QED BY <1>2, <3>1 DEF Nth
  <2> HIDE DEF a, b
  <2>4. <<a, b>> \in Seq(LegalIn(i)) /\ <<a, b>> \in Seq(AnyPiece) /\ Len(<<a, b>>) = 2
        /\ DOMAIN <<a, b>> = {1, 2} /\ <<a, b>>[1] = a /\ <<a, b>>[2] = b
    BY <2>2, TwoPieces
  <2>5. Line(layer, c, 2 * i - 1, 2 * i + 1) BY <2>1, <2>3, <2>4 DEF Line
  <2>6. LastKind(layer) = "sealedBody" BY <1>2 DEF LastKind
  <2>7. c # <<>> /\ c[Len(c)] = b /\ c \in Seq(LegalIn(i)) BY <2>1, <2>4
  <2> HIDE DEF c
  <2>8. Before(layer, i) \in Nat /\ Before(layer, i + 1) \in Nat BY <2>1
  <2>9. Line(layer, c, Before(layer, i), Before(layer, i + 1)) BY <2>1, <2>5
  <2>10. UnitOf(Nth(layer, Before(layer, i + 1))) = i BY <2>1, <2>2, <2>3
  <2> QED BY <2>2, <2>6, <2>7, <2>8, <2>9, <2>10 DEF c
<1>3. CASE layer \in {"plain", "stream"}
  <2> DEFINE a == Piece("data", i)
             x == Before(layer, i)
  <2>1. c = <<a>> /\ x \in Nat /\ Before(layer, i + 1) = x + 1
    BY <1>3 DEF Chunk, Before
  <2>2. a \in LegalIn(i) /\ a \in AnyPiece /\ a.k = "data" /\ UnitOf(a) = i
    BY DEF LegalIn, AnyPiece, PieceKinds, Piece, UnitOf
  <2>3. Nth(layer, x + 1) = a BY <1>3 DEF Nth, Before
  <2> HIDE DEF a, x
  <2>4. <<a>> \in Seq(LegalIn(i)) /\ <<a>> \in Seq(AnyPiece) /\ Len(<<a>>) = 1
        /\ DOMAIN <<a>> = {1} /\ <<a>>[1] = a
    BY <2>2, OnePiece
  <2>5. Line(layer, c, x, x + 1) BY <2>1, <2>3, <2>4 DEF Line
  <2> QED BY <1>3, <2>1, <2>2, <2>3, <2>4, <2>5 DEF LastKind, x
<1> QED BY <1>1, <1>2, <1>3 DEF Layers

\* What opens the direction.
LEMMA HeaderOf ==
    ASSUME NEW layer \in Layers, NEW m \in Nat
    PROVE  /\ Line(layer, ReplyHeader(layer), 0, Before(layer, 1))
           /\ ReplyHeader(layer) \in Seq(LegalIn(m))
<1>1. CASE layer = "vmess"
  <2> DEFINE a == Piece("headerLength", 0)
             b == Piece("header", 0)
  <2>1. ReplyHeader(layer) = <<a, b>> /\ Before(layer, 1) = 2
    BY <1>1 DEF ReplyHeader, VMessHeader, Before
  <2>2. a \in LegalIn(m) /\ b \in LegalIn(m) /\ a \in AnyPiece /\ b \in AnyPiece
    BY DEF LegalIn, AnyPiece, PieceKinds, Piece
  <2>3. Nth(layer, 1) = a /\ Nth(layer, 2) = b BY <1>1 DEF Nth
  <2> HIDE DEF a, b
  <2>4. <<a, b>> \in Seq(LegalIn(m)) /\ <<a, b>> \in Seq(AnyPiece) /\ Len(<<a, b>>) = 2
        /\ DOMAIN <<a, b>> = {1, 2} /\ <<a, b>>[1] = a /\ <<a, b>>[2] = b
    BY <2>2, TwoPieces
  <2> QED BY <2>1, <2>3, <2>4 DEF Line
<1>2. CASE layer \in {"aead", "stream"}
  <2> DEFINE a == Piece("salt", 0)
  <2>1. ReplyHeader(layer) = <<a>> /\ Before(layer, 1) = 1
    BY <1>2 DEF ReplyHeader, Salt, Before
  <2>2. a \in LegalIn(m) /\ a \in AnyPiece BY DEF LegalIn, AnyPiece, PieceKinds, Piece
  <2>3. Nth(layer, 1) = a BY <1>2 DEF Nth
  <2> HIDE DEF a
  <2>4. <<a>> \in Seq(LegalIn(m)) /\ <<a>> \in Seq(AnyPiece) /\ Len(<<a>>) = 1
        /\ DOMAIN <<a>> = {1} /\ <<a>>[1] = a
    BY <2>2, OnePiece
  <2> QED BY <2>1, <2>3, <2>4 DEF Line
<1>3. CASE layer = "plain"
  <2>1. ReplyHeader(layer) = <<>> /\ Before(layer, 1) = 0 BY <1>3 DEF ReplyHeader, Before
  <2> QED BY <2>1, EmptyLine
<1> QED BY <1>1, <1>2, <1>3 DEF Layers

\* The pieces of the next unit, with what opens the direction before the first.
Pieces(layer, first, i) == (IF first THEN ReplyHeader(layer) ELSE <<>>) \o Chunk(layer, i)

\* The pieces of unit m + 1 follow those of the first m units, and are legal then.
LEMMA NextPieces ==
    ASSUME NEW layer \in Layers, NEW m \in Nat
    PROVE  LET s == Pieces(layer, m = 0, m + 1)
           IN  /\ EndOf(layer, m) \in Nat /\ EndOf(layer, m + 1) \in Nat
               /\ EndOf(layer, m) < EndOf(layer, m + 1)
               /\ Line(layer, s, EndOf(layer, m), EndOf(layer, m + 1))
               /\ s \in Seq(LegalIn(m + 1)) /\ s # <<>>
               /\ s[Len(s)].k = LastKind(layer)
               /\ UnitOf(Nth(layer, EndOf(layer, m + 1))) = m + 1
<1> DEFINE c == Chunk(layer, m + 1)
           h == ReplyHeader(layer)
           s == Pieces(layer, m = 0, m + 1)
<1>1. /\ Before(layer, m + 1) \in Nat /\ Before(layer, (m + 1) + 1) \in Nat
      /\ Line(layer, c, Before(layer, m + 1), Before(layer, (m + 1) + 1))
      /\ c \in Seq(LegalIn(m + 1)) /\ c # <<>> /\ c[Len(c)].k = LastKind(layer)
      /\ UnitOf(Nth(layer, Before(layer, (m + 1) + 1))) = m + 1
  <2>1. m + 1 \in Nat /\ m + 1 > 0 OBVIOUS
  <2> QED BY <2>1, ChunkOf
<1>2. Line(layer, h, 0, Before(layer, 1)) /\ h \in Seq(LegalIn(m + 1)) BY HeaderOf
<1>3. EndOf(layer, m + 1) = Before(layer, (m + 1) + 1) BY DEF EndOf
<1> HIDE DEF c, h
<1>4. CASE m = 0
  <2>1. s = h \o c /\ EndOf(layer, m) = 0 BY <1>4 DEF Pieces, EndOf, c, h
  <2>2. Line(layer, h \o c, 0, Before(layer, (m + 1) + 1)) BY <1>1, <1>2, <1>4, LineGoesOn
  <2>3. h \o c \in Seq(LegalIn(m + 1)) /\ h \o c # <<>> /\ (h \o c)[Len(h \o c)] = c[Len(c)]
    BY <1>1, <1>2
  <2>4. Len(h \o c) > 0 /\ Len(h \o c) = Before(layer, (m + 1) + 1) - 0
    BY <2>2, <2>3 DEF Line
  <2>5. EndOf(layer, m) < EndOf(layer, m + 1) BY <1>1, <1>3, <2>1, <2>3, <2>4
  <2>6. Line(layer, s, EndOf(layer, m), EndOf(layer, m + 1)) BY <1>3, <2>1, <2>2
  <2>7. s \in Seq(LegalIn(m + 1)) /\ s # <<>> /\ s[Len(s)].k = LastKind(layer) BY <1>1, <2>1, <2>3
  <2> HIDE DEF s
  <2> QED BY <1>1, <1>3, <2>1, <2>5, <2>6, <2>7 DEF s
<1>5. CASE m # 0
  <2>1. s = c /\ EndOf(layer, m) = Before(layer, m + 1) BY <1>1, <1>5 DEF Pieces, EndOf, c
  <2>2. Len(c) > 0 /\ Len(c) = Before(layer, (m + 1) + 1) - Before(layer, m + 1)
    BY <1>1 DEF Line
  <2> QED BY <1>1, <1>3, <2>1, <2>2
<1> QED BY <1>4, <1>5

\* The kinds that a Read wants are those of the next unit.
LEMMA KindsOfNext ==
    ASSUME NEW layer \in Layers, NEW m \in Nat
    PROVE  LET w == Kinds(Pieces(layer, m = 0, 1))
               d == EndOf(layer, m)
           IN  /\ w \in Seq(PieceKinds) /\ Len(w) = EndOf(layer, m + 1) - d
               /\ \A i \in DOMAIN w : w[i] = Nth(layer, d + i).k
               /\ w # <<>> /\ w[Len(w)] = LastKind(layer)
<1> DEFINE s == Pieces(layer, m = 0, 1)
           t == Pieces(layer, m = 0, m + 1)
           d == EndOf(layer, m)
<1>1. /\ s \in Seq(AnyPiece) /\ t \in Seq(AnyPiece) /\ Len(s) = Len(t)
      /\ \A i \in 1..Len(s) : s[i].k = t[i].k
  <2> DEFINE b == Chunk(layer, 1)
             c == Chunk(layer, m + 1)
             h == IF m = 0 THEN ReplyHeader(layer) ELSE <<>>
  <2>1. b \in Seq(AnyPiece) /\ c \in Seq(AnyPiece)
    <3>1. Line(layer, b, Before(layer, 1), Before(layer, 2)) BY ChunkOf
    <3>2. Line(layer, c, Before(layer, m + 1), Before(layer, (m + 1) + 1)) BY ChunkOf
    <3> QED BY <3>1, <3>2 DEF Line
  <2>2. h \in Seq(AnyPiece) BY HeaderOf DEF Line
  <2>3. Len(b) = Len(c) /\ \A i \in DOMAIN b : b[i].k = c[i].k
    <3>1. CASE layer = "vmess"
      <4>1. b = <<Piece("length", 0), Piece("body", 1)>> /\ c = <<Piece("length", 0), Piece("body", m + 1)>>
        BY <3>1 DEF Chunk, VMessChunk
      <4> QED BY <4>1 DEF Piece
    <3>2. CASE layer = "aead"
      <4>1. b = <<Piece("sealedLength", 2 * 1 - 1), Piece("sealedBody", 2 * 1)>>
            /\ c = <<Piece("sealedLength", 2 * (m + 1) - 1), Piece("sealedBody", 2 * (m + 1))>>
        BY <3>2 DEF Chunk, AEADChunk
      <4> QED BY <4>1 DEF Piece
    <3>3. CASE layer \in {"plain", "stream"}
      <4>1. b = <<Piece("data", 1)>> /\ c = <<Piece("data", m + 1)>> BY <3>3 DEF Chunk
      <4> QED BY <4>1 DEF Piece
    <3> QED BY <3>1, <3>2, <3>3 DEF Layers
  <2>4. s = h \o b /\ t = h \o c BY DEF Pieces
  <2> HIDE DEF s, t, b, c, h
  <2>5. Len(h) \in Nat /\ Len(b) \in Nat /\ DOMAIN b = 1..Len(b) BY <2>1, <2>2
  <2>6. /\ h \o b \in Seq(AnyPiece) /\ Len(h \o b) = Len(h) + Len(b)
        /\ \A i \in 1..Len(h) : (h \o b)[i] = h[i]
        /\ \A i \in 1..Len(b) : (h \o b)[Len(h) + i] = b[i]
    BY <2>1, <2>2, Concatenation
  <2>7. /\ h \o c \in Seq(AnyPiece) /\ Len(h \o c) = Len(h) + Len(b)
        /\ \A i \in 1..Len(h) : (h \o c)[i] = h[i]
        /\ \A i \in 1..Len(b) : (h \o c)[Len(h) + i] = c[i]
    BY <2>1, <2>2, <2>3, Concatenation
  <2>8. ASSUME NEW i \in 1..(Len(h) + Len(b)) PROVE (h \o b)[i].k = (h \o c)[i].k
    <3>1. CASE i \in 1..Len(h) BY <2>6, <2>7, <3>1
    <3>2. CASE i \notin 1..Len(h)
      <4>1. i - Len(h) \in 1..Len(b) /\ Len(h) + (i - Len(h)) = i BY <2>5, <3>2
      <4>2. (h \o b)[i] = b[i - Len(h)] /\ (h \o c)[i] = c[i - Len(h)] BY <2>6, <2>7, <4>1
      <4> QED BY <2>3, <2>5, <4>1, <4>2
    <3> QED BY <3>1, <3>2
  <2> QED BY <2>4, <2>6, <2>7, <2>8
<1>2. /\ EndOf(layer, m + 1) \in Nat /\ d \in Nat /\ d < EndOf(layer, m + 1)
      /\ Line(layer, t, d, EndOf(layer, m + 1)) /\ t # <<>>
      /\ t[Len(t)].k = LastKind(layer)
  BY NextPieces
<1> HIDE DEF s, t, d
<1>3. /\ Kinds(s) \in Seq(PieceKinds) /\ Len(Kinds(s)) = Len(s) /\ DOMAIN Kinds(s) = DOMAIN s
      /\ \A i \in DOMAIN s : Kinds(s)[i] = s[i].k
  <2>1. DOMAIN s = 1..Len(s) /\ Len(s) \in Nat /\ \A i \in 1..Len(s) : s[i] \in AnyPiece
    BY <1>1, SeqFacts
  <2>2. Kinds(s) = [i \in 1..Len(s) |-> s[i].k] BY <2>1 DEF Kinds
  <2>3. \A i \in 1..Len(s) : s[i].k \in PieceKinds BY <2>1 DEF AnyPiece
  <2> QED BY <2>1, <2>2, <2>3
<1>4. DOMAIN s = 1..Len(s) /\ DOMAIN t = 1..Len(t) BY <1>1
<1>5. Len(s) = EndOf(layer, m + 1) - d /\ \A i \in DOMAIN s : s[i].k = Nth(layer, d + i).k
  BY <1>1, <1>2, <1>4 DEF Line
<1>6. Kinds(s)[Len(Kinds(s))] = LastKind(layer) /\ Kinds(s) # <<>>
  BY <1>1, <1>2, <1>3, <1>4, <1>5
<1> QED BY <1>3, <1>5, <1>6 DEF s, d

\* The parts of frames, as their pieces are legal.
PartsIn(m) == [part : {"head", "body"}, op : {"binary", "continuation", "ping", ""},
               fin : BOOLEAN, pieces : Seq(LegalIn(m))]

\* Frames of which none is torn: heads are followed by bodies, and a ping has no
\* payload.
IsHead(p) == p.part = "head" /\ p.op # "" /\ p.pieces = <<>>
Framed(w) ==
    \A j \in 1..Len(w) :
        IF j % 2 = 1
        THEN /\ IsHead(w[j])
             /\ j < Len(w)
             /\ w[j].op = "ping" => w[j + 1].pieces = <<>>
        ELSE w[j].part = "body"

\* Frames with the pieces after number "from" up to number "to" of a layer.
Carries(layer, w, from, to) ==
    \E off \in [1..(Len(w) + 1) -> Nat] :
        /\ off[1] = from /\ off[Len(w) + 1] = to
        /\ \A j \in 1..(Len(w) + 1) : off[j] <= to
        /\ \A j \in 1..Len(w) : Line(layer, w[j].pieces, off[j], off[j + 1])

\* Frames behind frames.
LEMMA FramesGoOn ==
    ASSUME NEW m, NEW v \in Seq(PartsIn(m)), NEW w \in Seq(PartsIn(m)), Framed(v), Framed(w)
    PROVE  Framed(v \o w)
<1>1. /\ v \o w \in Seq(PartsIn(m)) /\ Len(v \o w) = Len(v) + Len(w)
      /\ \A i \in 1..Len(v) : (v \o w)[i] = v[i]
      /\ \A i \in 1..Len(w) : (v \o w)[Len(v) + i] = w[i]
  BY Concatenation
<1>2. Len(v) \in Nat /\ Len(w) \in Nat BY SeqFacts
<1>3. Len(v) % 2 = 0
  <2>1. CASE Len(v) = 0 BY <2>1
  <2>2. CASE Len(v) > 0
    <3>1. Len(v) \in 1..Len(v) /\ ~(Len(v) < Len(v)) BY <1>2, <2>2
    <3>2. Len(v) % 2 # 1 BY <3>1 DEF Framed
    <3> QED BY <1>2, <3>2
  <2> QED BY <1>2, <2>1, <2>2
<1> SUFFICES ASSUME NEW j \in 1..(Len(v) + Len(w))
             PROVE  IF j % 2 = 1
                    THEN /\ IsHead((v \o w)[j])
                         /\ j < Len(v) + Len(w)
                         /\ (v \o w)[j].op = "ping" => (v \o w)[j + 1].pieces = <<>>
                    ELSE (v \o w)[j].part = "body"
  BY <1>1 DEF Framed
<1>4. CASE j \in 1..Len(v)
  <2>1. CASE j % 2 = 1
    <3>1. IsHead(v[j]) /\ j < Len(v) /\ (v[j].op = "ping" => v[j + 1].pieces = <<>>)
      BY <1>4, <2>1 DEF Framed
    <3>2. j + 1 \in 1..Len(v) BY <1>2, <1>4, <3>1
    <3> QED BY <1>1, <1>2, <1>4, <2>1, <3>1, <3>2
  <2>2. CASE j % 2 # 1 BY <1>1, <1>4, <2>2 DEF Framed
  <2> QED BY <2>1, <2>2
<1>5. CASE j \notin 1..Len(v)
  <2> DEFINE i == j - Len(v)
  <2>1. i \in 1..Len(w) /\ Len(v) + i = j /\ (i % 2 = 1 <=> j % 2 = 1) BY <1>2, <1>3, <1>5
  <2>2. (v \o w)[j] = w[i]
    <3>1. (v \o w)[Len(v) + i] = w[i] BY <1>1, <2>1
    <3> QED BY <2>1, <3>1
  <2>3. CASE j % 2 = 1
    <3>1. IsHead(w[i]) /\ i < Len(w) /\ (w[i].op = "ping" => w[i + 1].pieces = <<>>)
      BY <2>1, <2>3 DEF Framed
    <3>2. i + 1 \in 1..Len(w) /\ Len(v) + (i + 1) = j + 1 BY <1>2, <2>1, <3>1
    <3>3. (v \o w)[Len(v) + (i + 1)] = w[i + 1] BY <1>1, <3>2
    <3>4. j < Len(v) + Len(w) BY <1>2, <2>1, <3>1
    <3>5. (v \o w)[j + 1] = w[i + 1] BY <3>2, <3>3
    <3> HIDE DEF i
    <3> QED BY <2>2, <2>3, <3>1, <3>4, <3>5
  <2>4. CASE j % 2 # 1
    <3>1. w[i].part = "body" BY <2>1, <2>4 DEF Framed
    <3> QED BY <2>2, <2>4, <3>1
  <2> QED BY <2>3, <2>4
<1> QED BY <1>4, <1>5

\* What they carry goes on, too.
LEMMA CarriesOn ==
    ASSUME NEW m, NEW v \in Seq(PartsIn(m)), NEW w \in Seq(PartsIn(m)), NEW layer,
           NEW x, NEW y, NEW z, Carries(layer, v, x, y), Carries(layer, w, y, z)
    PROVE  Carries(layer, v \o w, x, z)
<1>1. /\ v \o w \in Seq(PartsIn(m)) /\ Len(v \o w) = Len(v) + Len(w)
      /\ \A i \in 1..Len(v) : (v \o w)[i] = v[i]
      /\ \A i \in 1..Len(w) : (v \o w)[Len(v) + i] = w[i]
  BY Concatenation
<1>2. Len(v) \in Nat /\ Len(w) \in Nat BY SeqFacts
<1>3. PICK a \in [1..(Len(v) + 1) -> Nat] :
          /\ a[1] = x /\ a[Len(v) + 1] = y
          /\ \A j \in 1..(Len(v) + 1) : a[j] <= y
          /\ \A j \in 1..Len(v) : Line(layer, v[j].pieces, a[j], a[j + 1])
  BY DEF Carries
<1>4. PICK b \in [1..(Len(w) + 1) -> Nat] :
          /\ b[1] = y /\ b[Len(w) + 1] = z
          /\ \A j \in 1..(Len(w) + 1) : b[j] <= z
          /\ \A j \in 1..Len(w) : Line(layer, w[j].pieces, b[j], b[j + 1])
  BY DEF Carries
<1> DEFINE n == Len(v)
           o == Len(w)
           off == [j \in 1..(n + o + 1) |-> IF j <= n THEN a[j] ELSE b[j - n]]
<1>5. off \in [1..(n + o + 1) -> Nat]
  <2> SUFFICES ASSUME NEW j \in 1..(n + o + 1) PROVE (IF j <= n THEN a[j] ELSE b[j - n]) \in Nat
    OBVIOUS
  <2>1. j <= n => j \in 1..(n + 1) BY <1>2
  <2>2. ~(j <= n) => j - n \in 1..(o + 1) BY <1>2
  <2> QED BY <1>3, <1>4, <2>1, <2>2
<1>6. /\ \A j \in 1..(n + 1) : off[j] = a[j]
      /\ \A j \in 1..(o + 1) : off[n + j] = b[j]
  <2>1. ASSUME NEW j \in 1..(n + 1) PROVE off[j] = a[j]
    <3>1. CASE j <= n
      <4>1. j \in 1..(n + o + 1) BY <1>2, <3>1
      <4> QED BY <3>1, <4>1
    <3>2. CASE ~(j <= n)
      <4>1. j = n + 1 /\ j \in 1..(n + o + 1) /\ j - n = 1 BY <1>2, <3>2
      <4>2. off[j] = b[1] BY <3>2, <4>1
      <4> QED BY <4>1, <4>2, <1>3, <1>4
    <3> QED BY <3>1, <3>2
  <2>2. ASSUME NEW j \in 1..(o + 1) PROVE off[n + j] = b[j]
    <3>1. n + j \in 1..(n + o + 1) /\ ~(n + j <= n) /\ (n + j) - n = j BY <1>2
    <3> QED BY <3>1
  <2> QED BY <2>1, <2>2
<1>7. \A j \in 1..Len(v \o w) : Line(layer, (v \o w)[j].pieces, off[j], off[j + 1])
  <2> SUFFICES ASSUME NEW j \in 1..(n + o)
               PROVE  Line(layer, (v \o w)[j].pieces, off[j], off[j + 1])
    BY <1>1
  <2> HIDE DEF off
  <2>1. CASE j \in 1..n
    <3>1. j \in 1..(n + 1) /\ j + 1 \in 1..(n + 1) BY <1>2, <2>1
    <3>2. Line(layer, v[j].pieces, a[j], a[j + 1]) BY <1>3, <2>1
    <3> QED BY <1>1, <1>6, <2>1, <3>1, <3>2
  <2>2. CASE j \notin 1..n
    <3>1. /\ j - n \in 1..o /\ j - n \in 1..(o + 1) /\ (j - n) + 1 \in 1..(o + 1)
          /\ n + (j - n) = j /\ n + ((j - n) + 1) = j + 1
      BY <1>2, <2>2
    <3>2. Line(layer, w[j - n].pieces, b[j - n], b[(j - n) + 1]) BY <1>4, <3>1
    <3>3. (v \o w)[n + (j - n)] = w[j - n] BY <1>1, <3>1
    <3>4. off[n + (j - n)] = b[j - n] BY <1>6, <3>1
    <3>5. off[n + ((j - n) + 1)] = b[(j - n) + 1] BY <1>6, <3>1
    <3> QED BY <3>1, <3>2, <3>3, <3>4, <3>5
  <2> QED BY <2>1, <2>2
<1>8. off[1] = x /\ off[Len(v \o w) + 1] = z
  <2>1. 1 \in 1..(n + 1) /\ o + 1 \in 1..(o + 1) /\ n + (o + 1) = (n + o) + 1 BY <1>2
  <2> HIDE DEF off
  <2>2. off[1] = a[1] /\ off[n + (o + 1)] = b[o + 1] BY <1>6, <2>1
  <2> QED BY <1>1, <1>3, <1>4, <2>1, <2>2
<1>9. off \in [1..(Len(v \o w) + 1) -> Nat] BY <1>1, <1>5
<1>10. \A j \in 1..(Len(v \o w) + 1) : off[j] <= z
  <2> SUFFICES ASSUME NEW j \in 1..(n + o + 1) PROVE off[j] <= z BY <1>1
  <2>1. y <= z /\ y \in Nat /\ z \in Nat
    <3>1. 1 \in 1..(o + 1) /\ o + 1 \in 1..(o + 1) BY <1>2
    <3> QED BY <1>4, <3>1
  <2>2. CASE j <= n
    <3>1. j \in 1..(n + 1) BY <1>2, <2>2
    <3>2. off[j] = a[j] /\ a[j] <= y /\ a[j] \in Nat BY <1>3, <1>6, <3>1
    <3> HIDE DEF off
    <3> QED BY <2>1, <3>2
  <2>3. CASE ~(j <= n)
    <3>1. j - n \in 1..(o + 1) /\ n + (j - n) = j BY <1>2, <2>3
    <3>2. off[n + (j - n)] = b[j - n] /\ b[j - n] <= z BY <1>4, <1>6, <3>1
    <3> HIDE DEF off
    <3> QED BY <3>1, <3>2
  <2> QED BY <2>2, <2>3
<1> HIDE DEF off
<1> QED BY <1>7, <1>8, <1>9, <1>10 DEF Carries

\* Frames without their first part.
LEMMA CarriesRest ==
    ASSUME NEW m, NEW w \in Seq(PartsIn(m)), w # <<>>, NEW layer, NEW x, NEW z,
           Carries(layer, w, x, z)
    PROVE  \E y \in Nat : Line(layer, Head(w).pieces, x, y) /\ Carries(layer, Tail(w), y, z)
<1>0. Len(w) > 0 BY SeqFacts
<1>1. /\ Head(w) = w[1] /\ Tail(w) \in Seq(PartsIn(m)) /\ Len(Tail(w)) = Len(w) - 1
      /\ \A i \in 1..(Len(w) - 1) : Tail(w)[i] = w[i + 1]
      /\ Len(w) \in Nat
  BY <1>0, TailOf, SeqFacts
<1>2. PICK a \in [1..(Len(w) + 1) -> Nat] :
          /\ a[1] = x /\ a[Len(w) + 1] = z
          /\ \A j \in 1..(Len(w) + 1) : a[j] <= z
          /\ \A j \in 1..Len(w) : Line(layer, w[j].pieces, a[j], a[j + 1])
  BY DEF Carries
<1> DEFINE off == [j \in 1..(Len(Tail(w)) + 1) |-> a[j + 1]]
<1>3. \A j \in 1..Len(w) : j \in 1..(Len(w) + 1) /\ j + 1 \in 1..(Len(w) + 1) BY <1>1
<1>4. off \in [1..(Len(Tail(w)) + 1) -> Nat] BY <1>1, <1>2, <1>3
<1>5. off[1] = a[2] /\ off[Len(Tail(w)) + 1] = z
  <2>1. Len(Tail(w)) + 1 = Len(w) /\ 1 \in 1..Len(w) /\ Len(w) \in 1..Len(w) BY <1>0, <1>1
  <2> QED BY <1>2, <2>1
<1>6. \A j \in 1..Len(Tail(w)) : Line(layer, Tail(w)[j].pieces, off[j], off[j + 1])
  <2> SUFFICES ASSUME NEW j \in 1..(Len(w) - 1)
               PROVE  Line(layer, Tail(w)[j].pieces, off[j], off[j + 1])
    BY <1>1
  <2>1. /\ j + 1 \in 1..Len(w) /\ j \in 1..(Len(Tail(w)) + 1) /\ j + 1 \in 1..(Len(Tail(w)) + 1)
    BY <1>1
  <2>2. Line(layer, w[j + 1].pieces, a[j + 1], a[(j + 1) + 1]) BY <1>2, <2>1
  <2> QED BY <1>1, <2>1, <2>2
<1>10. \A j \in 1..(Len(Tail(w)) + 1) : off[j] <= z
  <2> SUFFICES ASSUME NEW j \in 1..(Len(Tail(w)) + 1) PROVE a[j + 1] <= z OBVIOUS
  <2>1. j + 1 \in 1..(Len(w) + 1) BY <1>1
  <2> QED BY <1>2, <2>1
<1> HIDE DEF off
<1>7. Carries(layer, Tail(w), a[2], z) BY <1>4, <1>5, <1>6, <1>10 DEF Carries
<1>8. Line(layer, w[1].pieces, a[1], a[2])
  <2>1. 1 \in 1..Len(w) /\ 1 + 1 = 2 BY <1>0, <1>1
  <2> QED BY <1>2, <2>1
<1>9. a[2] \in Nat
  <2>1. 2 \in 1..(Len(w) + 1) BY <1>0, <1>1
  <2> QED BY <1>2, <2>1
<1> QED BY <1>1, <1>2, <1>7, <1>8, <1>9

\* Frames do not go back.
LEMMA CarriesUp ==
    ASSUME NEW m, NEW w \in Seq(PartsIn(m)), NEW layer, NEW y, NEW z, Carries(layer, w, y, z)
    PROVE  y \in Nat /\ z \in Nat /\ y <= z
<1>1. 1 \in 1..(Len(w) + 1) /\ Len(w) + 1 \in 1..(Len(w) + 1) BY SeqFacts
<1> QED BY <1>1 DEF Carries

\* No frames carry nothing, and an end that is a start.
LEMMA NoFrames ==
    /\ Framed(<<>>)
    /\ \A layer : \A x \in Nat : Carries(layer, <<>>, x, x)
    /\ \A m : <<>> \in Seq(PartsIn(m))
<1>1. Len(<<>>) = 0 /\ 1..0 = {} OBVIOUS
<1>2. ASSUME NEW layer, NEW x \in Nat PROVE Carries(layer, <<>>, x, x)
  <2>1. [j \in 1..1 |-> x] \in [1..(Len(<<>>) + 1) -> Nat] BY <1>1
  <2>2. [j \in 1..1 |-> x][1] = x /\ [j \in 1..1 |-> x][Len(<<>>) + 1] = x
    <3>1. 1 \in 1..1 /\ Len(<<>>) + 1 = 1 OBVIOUS
    <3> QED BY <3>1
  <2>3. \A j \in 1..Len(<<>>) : FALSE BY <1>1
  <2>4. \A j \in 1..(Len(<<>>) + 1) : [i \in 1..1 |-> x][j] <= x BY <1>1
  <2> QED BY <2>1, <2>2, <2>3, <2>4 DEF Carries
<1> QED BY <1>1, <1>2 DEF Framed

\* One frame.
LEMMA OneFrame ==
    ASSUME NEW layer, NEW m, NEW op \in {"binary", "continuation", "ping"}, NEW fin \in BOOLEAN,
           NEW s, s \in Seq(LegalIn(m)), op = "ping" => s = <<>>,
           NEW x \in Nat, NEW y \in Nat, Line(layer, s, x, y)
    PROVE  LET w == <<FrameHead(op, fin), FrameBody(s)>>
           IN  w \in Seq(PartsIn(m)) /\ Framed(w) /\ Carries(layer, w, x, y)
<1> DEFINE h == FrameHead(op, fin)
           b == FrameBody(s)
<1>1. h \in PartsIn(m) /\ b \in PartsIn(m)
  <2>1. <<>> \in Seq(LegalIn(m)) OBVIOUS
  <2> QED BY <2>1 DEF PartsIn, FrameHead, FrameBody
<1>2. IsHead(h) /\ b.part = "body" /\ b.pieces = s /\ h.pieces = <<>> /\ h.op = op
  BY DEF FrameHead, FrameBody, IsHead
<1> HIDE DEF h, b
<1>3. /\ <<h, b>> \in Seq(PartsIn(m)) /\ Len(<<h, b>>) = 2
      /\ <<h, b>>[1] = h /\ <<h, b>>[2] = b
  BY <1>1, TwoPieces
<1>4. \A j \in 1..2 : j = 1 \/ j = 2 OBVIOUS
<1>5. Framed(<<h, b>>)
  <2>1. 1 % 2 = 1 /\ 2 % 2 # 1 /\ 1 + 1 = 2 /\ 1 < 2 OBVIOUS
  <2>2. \A j \in 1..2 : IF j % 2 = 1
                        THEN /\ IsHead(<<h, b>>[j])
                             /\ j < 2
                             /\ <<h, b>>[j].op = "ping" => <<h, b>>[j + 1].pieces = <<>>
                        ELSE <<h, b>>[j].part = "body"
    BY <1>2, <1>3, <1>4, <2>1
  <2> QED BY <1>3, <2>2 DEF Framed
<1>6. Carries(layer, <<h, b>>, x, y)
  <2> DEFINE off == [j \in 1..3 |-> IF j = 3 THEN y ELSE x]
  <2>1. off \in [1..(Len(<<h, b>>) + 1) -> Nat] BY <1>3
  <2>2. off[1] = x /\ off[2] = x /\ off[3] = y OBVIOUS
  <2>6. \A j \in 1..(Len(<<h, b>>) + 1) : off[j] <= y
    <3>1. Len(s) \in Nat /\ Len(s) = y - x BY DEF Line
    <3>2. x <= y BY <3>1
    <3> QED BY <1>3, <3>2
  <2> HIDE DEF off
  <2>3. Line(layer, <<>>, x, x) BY EmptyLine
  <2>4. \A j \in 1..2 : Line(layer, <<h, b>>[j].pieces, off[j], off[j + 1])
    <3>1. Line(layer, <<h, b>>[1].pieces, off[1], off[2]) BY <1>2, <1>3, <2>2, <2>3
    <3>2. Line(layer, <<h, b>>[2].pieces, off[2], off[3]) BY <1>2, <1>3, <2>2
    <3>3. 1 + 1 = 2 /\ 2 + 1 = 3 OBVIOUS
    <3> QED BY <1>4, <3>1, <3>2, <3>3
  <2>5. off[Len(<<h, b>>) + 1] = y BY <1>3, <2>2
  <2> QED BY <1>3, <2>1, <2>2, <2>4, <2>5, <2>6 DEF Carries
<1> QED BY <1>3, <1>5, <1>6 DEF h, b

\* However the server frames pieces, the frames carry them.
LEMMA FramingsCarry ==
    ASSUME NEW layer, NEW m, NEW s \in Seq(LegalIn(m)), s # <<>>,
           NEW x \in Nat, NEW y \in Nat, Line(layer, s, x, y), NEW f \in Framings(s)
    PROVE  f \in Seq(PartsIn(m)) /\ Framed(f) /\ Carries(layer, f, x, y)
<1>1. /\ Len(s) > 0 /\ Head(s) \in LegalIn(m) /\ Tail(s) \in Seq(LegalIn(m)) BY TailOf, SeqFacts
<1>2. CASE f = <<FrameHead("binary", TRUE), FrameBody(s)>> BY <1>2, OneFrame
<1>3. ASSUME NEW ping \in {<<>>, Ping},
             f = <<FrameHead("binary", FALSE), FrameBody(<<Head(s)>>)>> \o ping
                     \o <<FrameHead("continuation", TRUE), FrameBody(Tail(s))>>
      PROVE  f \in Seq(PartsIn(m)) /\ Framed(f) /\ Carries(layer, f, x, y)
  <2> DEFINE first == <<FrameHead("binary", FALSE), FrameBody(<<Head(s)>>)>>
             last  == <<FrameHead("continuation", TRUE), FrameBody(Tail(s))>>
  <2>1. /\ Head(s) = Nth(layer, x + 1) /\ Head(s) \in AnyPiece /\ x + 1 <= y
        /\ Line(layer, Tail(s), x + 1, y)
    BY LineStarts
  <2>0. x + 1 \in Nat OBVIOUS
  <2>2. <<Head(s)>> \in Seq(LegalIn(m)) /\ Line(layer, <<Head(s)>>, x, x + 1)
    <3>1. /\ <<Head(s)>> \in Seq(AnyPiece) /\ Len(<<Head(s)>>) = 1 /\ <<Head(s)>>[1] = Head(s)
      BY <2>1, OnePiece
    <3>2. <<Head(s)>> \in Seq(LegalIn(m)) BY <1>1, OnePiece
    <3>3. \A i \in 1..1 : i = 1 OBVIOUS
    <3> QED BY <2>1, <3>1, <3>2, <3>3 DEF Line
  <2>3. first \in Seq(PartsIn(m)) /\ Framed(first) /\ Carries(layer, first, x, x + 1)
    BY <2>0, <2>2, OneFrame
  <2>4. last \in Seq(PartsIn(m)) /\ Framed(last) /\ Carries(layer, last, x + 1, y)
    BY <1>1, <2>0, <2>1, OneFrame
  <2>5. ping \in Seq(PartsIn(m)) /\ Framed(ping) /\ Carries(layer, ping, x + 1, x + 1)
    <3>1. CASE ping = <<>> BY <3>1, NoFrames
    <3>2. CASE ping = Ping
      <4>1. Ping = <<FrameHead("ping", TRUE), FrameBody(<<>>)>> BY DEF Ping
      <4>2. <<>> \in Seq(LegalIn(m)) /\ Line(layer, <<>>, x + 1, x + 1) BY <2>0, EmptyLine
      <4> QED BY <2>0, <3>2, <4>1, <4>2, OneFrame
    <3> QED BY <3>1, <3>2
  <2> HIDE DEF first, last
  <2> DEFINE more == first \o ping
  <2>6. more \in Seq(PartsIn(m)) /\ Framed(more) /\ Carries(layer, more, x, x + 1)
    BY <2>3, <2>5, Concatenation, FramesGoOn, CarriesOn
  <2>7. f = more \o last BY <1>3 DEF first, last
  <2> HIDE DEF more
  <2> QED BY <2>4, <2>6, <2>7, Concatenation, FramesGoOn, CarriesOn
<1> QED BY <1>2, <1>3 DEF Framings

\* Nothing was sent or read yet.
Untouched ==
    /\ peerSent = 0 /\ inbox = <<>> /\ frame = <<>> /\ fragments = <<>> /\ pending = <<>>
    /\ want = <<>> /\ reader = "fresh" /\ count = 0 /\ got = <<>> /\ cuts = 0

\* What every piece may be, wherever it is, and what a Read still wants.
StreamTypes ==
    /\ peerSent \in Nat /\ count \in Nat /\ cuts \in Nat
    /\ got \in Seq(Nat)
    /\ want \in Seq(PieceKinds)
    /\ reader \in {"fresh", "opened", "failed"}
    /\ pending \in Seq(LegalIn(peerSent))
    /\ fragments \in Seq(LegalIn(peerSent))
    /\ route.ws => inbox \in Seq(PartsIn(peerSent)) /\ frame \in Seq(PartsIn(peerSent)) /\ Len(frame) <= 1
    /\ ~route.ws => /\ inbox \in Seq(LegalIn(peerSent))
                    /\ frame = <<>> /\ pending = <<>> /\ fragments = <<>>
    /\ want # <<>> => /\ reader = "opened"
                      /\ want[Len(want)] = LastKind(route.layer)
    /\ route.layer = "xaead" => Untouched
    /\ phase # "returned" => Untouched

\* The pieces read so far, if no Read was cut, and the pieces sent.
Used    == EndOf(route.layer, IF want = <<>> THEN Len(got) ELSE Len(got) + 1) - Len(want)
AllSent == EndOf(route.layer, peerSent)

\* As long as nothing is cut or lost, the reader is in step with the server ...
ReaderInStep ==
    /\ reader # "failed"
    /\ (reader = "fresh") <=> (got = <<>> /\ want = <<>>)
    /\ \A i \in 1..Len(got) : got[i] = i
    /\ Len(got) <= peerSent
    /\ Len(want) <= EndOf(route.layer, Len(got) + 1) - EndOf(route.layer, Len(got))
    /\ \A i \in 1..Len(want) : want[i] = Nth(route.layer, Used + i).k
    /\ count = Opened(route.layer, Used)

\* ... and what it has not read yet is on its way, in this order.
FramesInStep ==
    /\ \E x, y \in Nat : /\ Line(route.layer, pending, Used, x)
                         /\ Line(route.layer, fragments, x, y)
                         /\ Carries(route.layer, frame \o inbox, y, AllSent)
    /\ frame # <<>> => pending = <<>>
    /\ Framed(frame \o inbox)

InStep ==
    /\ ReaderInStep
    /\ IF route.ws THEN FramesInStep ELSE Line(route.layer, inbox, Used, AllSent)

\* Units increase, and were sent.
Genuine ==
    /\ \A i \in 1..Len(got) : got[i] \in 1..peerSent
    /\ \A i, j \in 1..Len(got) : i < j => got[i] < got[j]

\* In a sealed layer, a nonce is never used again.
SealedOrder ==
    /\ Genuine
    /\ \A i \in 1..Len(got) : IF route.layer = "vmess" THEN got[i] <= count ELSE 2 * got[i] <= count

\* Without frames and seals, nothing is read twice.
Past == AllSent - Len(inbox)
RawOrder ==
    /\ Genuine
    /\ Past \in Nat
    /\ Line(route.layer, inbox, Past, AllSent)
    /\ \A i \in 1..Len(got) : got[i] <= IF route.layer = "plain" THEN Past ELSE Past - 1
    /\ route.layer = "stream" =>
           /\ reader = "opened" /\ Len(want) <= 1 => Past >= 1
           /\ Len(want) > 1 => Len(want) = 2 /\ Head(want) = "salt"

StreamInv ==
    /\ StreamTypes
    /\ cuts = 0 /\ ~lost => InStep
    /\ route.layer \in {"vmess", "aead"} => SealedOrder
    /\ route.layer \in {"plain", "stream"} /\ ~route.ws => RawOrder

\* What may be sent by a server that has sent m units may be sent after them.
LEMMA LegalGrows ==
    ASSUME NEW m \in Nat
    PROVE  /\ LegalIn(m) \subseteq LegalIn(m + 1)
           /\ \A s \in Seq(LegalIn(m)) : s \in Seq(LegalIn(m + 1))
           /\ \A w \in Seq(PartsIn(m)) : w \in Seq(PartsIn(m + 1))
<1>1. LegalIn(m) \subseteq LegalIn(m + 1)
  <2>1. 1..m \subseteq 1..(m + 1) OBVIOUS
  <2> QED BY <2>1 DEF LegalIn
<1>2. \A s \in Seq(LegalIn(m)) : s \in Seq(LegalIn(m + 1)) BY <1>1
<1>3. PartsIn(m) \subseteq PartsIn(m + 1) BY <1>2 DEF PartsIn
<1>4. \A w \in Seq(PartsIn(m)) : w \in Seq(PartsIn(m + 1)) BY <1>3
<1> QED BY <1>1, <1>2, <1>4

\* Two ways for a piece that the layer gets: it is what the Read wants, or the
\* Read ends without a unit.
LEMMA ReceiveCases ==
    ASSUME StreamTypes, want # <<>>, NEW piece \in LegalIn(peerSent), Receive(piece)
    PROVE  LET sealed == Head(want) \in {"body", "sealedLength", "sealedBody"}
           IN  /\ count' \in {count, count + 1} /\ (sealed => count' = count + 1)
               /\ \/ /\ Head(want) # "data" => piece.k = Head(want)
                     /\ sealed => piece.n = count + 1
                     /\ want' = Tail(want) /\ reader' = reader /\ frame' = frame
                     /\ got' = IF Len(want) = 1 THEN Append(got, UnitOf(piece)) ELSE got
                  \/ /\ want' = <<>> /\ frame' = <<>> /\ got' = got
                     /\ reader' \in {reader, "failed"}
BY DEF Receive, ReadFails

\* A piece that may have been sent has a unit.
LEMMA UnitIsNat ==
    ASSUME NEW m \in Nat, NEW piece \in LegalIn(m)
    PROVE  UnitOf(piece) \in Nat
<1>1. piece.n \in Nat BY DEF LegalIn, AnyPiece
<1>2. piece.n \div 2 \in Nat BY <1>1
<1> QED BY <1>1, <1>2 DEF UnitOf

\* The types of what a received piece changes.
LEMMA ReceiveTypes ==
    ASSUME StreamTypes, want # <<>>, NEW piece \in LegalIn(peerSent), Receive(piece)
    PROVE  /\ want' \in Seq(PieceKinds) /\ count' \in Nat /\ got' \in Seq(Nat)
           /\ reader' \in {"fresh", "opened", "failed"}
           /\ want' # <<>> => reader' = "opened" /\ want'[Len(want')] = LastKind(route.layer)
           /\ frame' = frame \/ frame' = <<>>
<1>1. /\ want \in Seq(PieceKinds) /\ count \in Nat /\ got \in Seq(Nat) /\ peerSent \in Nat
      /\ reader = "opened" /\ want[Len(want)] = LastKind(route.layer)
  BY DEF StreamTypes
<1>2. /\ Len(want) > 0 /\ Len(want) \in Nat /\ Tail(want) \in Seq(PieceKinds)
      /\ Len(Tail(want)) = Len(want) - 1
      /\ \A i \in 1..(Len(want) - 1) : Tail(want)[i] = want[i + 1]
  <2>1. Len(want) > 0 /\ Len(want) \in Nat BY <1>1
  <2> QED BY <1>1, <2>1, TailOf
<1>3. Tail(want) # <<>> => Tail(want)[Len(Tail(want))] = want[Len(want)]
  <2>1. ASSUME Tail(want) # <<>> PROVE Len(want) - 1 \in 1..(Len(want) - 1)
    <3>1. Len(Tail(want)) > 0 BY <1>2, <2>1
    <3> QED BY <1>2, <3>1
  <2> QED BY <1>2, <2>1
<1>4. Append(got, UnitOf(piece)) \in Seq(Nat) BY <1>1, UnitIsNat
<1>5. count' \in {count, count + 1} BY ReceiveCases
<1>6. CASE /\ want' = Tail(want) /\ reader' = reader /\ frame' = frame
           /\ got' = IF Len(want) = 1 THEN Append(got, UnitOf(piece)) ELSE got
  BY <1>1, <1>2, <1>3, <1>4, <1>5, <1>6
<1>7. CASE /\ want' = <<>> /\ frame' = <<>> /\ got' = got /\ reader' \in {reader, "failed"}
  BY <1>1, <1>5, <1>7
<1> QED BY <1>6, <1>7, ReceiveCases

\* A Read wants the pieces of one unit.
LEMMA ReadTypes ==
    ASSUME DialInv, StreamTypes, Read
    PROVE  /\ route.layer \in Layers
           /\ want' = Kinds(Pieces(route.layer, reader = "fresh", 1))
           /\ want' \in Seq(PieceKinds) /\ want' # <<>>
           /\ want'[Len(want')] = LastKind(route.layer)
<1>1. route.layer \in Layers BY DEF DialInv, DialTypeOK, Read, Layers
<1>2. want' = Kinds(Pieces(route.layer, reader = "fresh", 1)) BY DEF Read, Pieces
<1>3. PICK m \in {0, 1} : (m = 0) <=> (reader = "fresh")
  <2>1. (0 = 0) /\ ~(1 = 0) OBVIOUS
  <2> QED BY <2>1
<1>4. m \in Nat /\ want' = Kinds(Pieces(route.layer, m = 0, 1)) BY <1>2, <1>3
<1>5. /\ Kinds(Pieces(route.layer, m = 0, 1)) \in Seq(PieceKinds)
      /\ Kinds(Pieces(route.layer, m = 0, 1)) # <<>>
      /\ Kinds(Pieces(route.layer, m = 0, 1))[Len(Kinds(Pieces(route.layer, m = 0, 1)))]
             = LastKind(route.layer)
  BY <1>1, <1>4, KindsOfNext
<1> QED BY <1>1, <1>2, <1>4, <1>5

\* The server sends the pieces of the next unit, in whatever frames.
LEMMA SendTypes ==
    ASSUME DialInv, StreamTypes, PeerSend
    PROVE  LET s == Pieces(route.layer, peerSent = 0, peerSent + 1)
           IN  /\ route.layer \in Layers /\ peerSent' = peerSent + 1
               /\ \/ lost /\ peerSent = 0 /\ inbox' = inbox
                  \/ ~lost \/ peerSent # 0
               /\ ~(lost /\ peerSent = 0) =>
                      IF route.ws THEN \E f \in Framings(s) : inbox' = inbox \o f
                                  ELSE inbox' = inbox \o s
<1>1. route.layer \in Layers BY DEF DialInv, DialTypeOK, PeerSend, Layers
<1> QED BY <1>1 DEF PeerSend, Pieces

\* The types hold in each step of the tunnel.
LEMMA StreamTypesKept ==
    ASSUME DialInv, StreamTypes, StreamNext
    PROVE  StreamTypes'
<1>0. phase # "returned" => ~Open BY DEF Open, DialInv
<1>1. CASE PeerSend
  <2> DEFINE s == Pieces(route.layer, peerSent = 0, peerSent + 1)
  <2>1. /\ route.layer \in Layers /\ route.layer # "xaead" /\ phase = "returned"
        /\ peerSent' = peerSent + 1 /\ peerSent \in Nat
        /\ UNCHANGED <<route, phase, frame, fragments, pending, want, reader, count, got, cuts>>
    BY <1>0, <1>1, SendTypes DEF PeerSend, dialVars, StreamTypes
  <2>2. s \in Seq(LegalIn(peerSent + 1)) /\ s # <<>>
        /\ Line(route.layer, s, EndOf(route.layer, peerSent), EndOf(route.layer, peerSent + 1))
        /\ EndOf(route.layer, peerSent) \in Nat /\ EndOf(route.layer, peerSent + 1) \in Nat
    BY <2>1, NextPieces
  <2> HIDE DEF s
  <2>3. CASE route.ws
    <3>1. inbox \in Seq(PartsIn(peerSent + 1)) /\ frame \in Seq(PartsIn(peerSent + 1))
      BY <2>1, <2>3, LegalGrows DEF StreamTypes
    <3>2. inbox' \in Seq(PartsIn(peerSent + 1))
      <4>1. CASE lost /\ peerSent = 0 BY <1>1, <3>1, <4>1, SendTypes
      <4>2. CASE ~(lost /\ peerSent = 0)
        <5>1. PICK f \in Framings(s) : inbox' = inbox \o f BY <1>1, <2>3, <4>2, SendTypes DEF s
        <5>2. f \in Seq(PartsIn(peerSent + 1)) BY <2>2, FramingsCarry
        <5> QED BY <3>1, <5>1, <5>2, Concatenation
      <4> QED BY <4>1, <4>2
    <3>3. pending \in Seq(LegalIn(peerSent + 1)) /\ fragments \in Seq(LegalIn(peerSent + 1))
      BY <2>1, LegalGrows DEF StreamTypes
    <3> QED BY <2>1, <2>3, <3>1, <3>2, <3>3 DEF StreamTypes
  <2>4. CASE ~route.ws
    <3>1. inbox \in Seq(LegalIn(peerSent + 1)) BY <2>1, <2>4, LegalGrows DEF StreamTypes
    <3>2. inbox' \in Seq(LegalIn(peerSent + 1))
      <4>1. CASE lost /\ peerSent = 0 BY <1>1, <3>1, <4>1, SendTypes
      <4>2. CASE ~(lost /\ peerSent = 0)
        <5>1. inbox' = inbox \o s BY <1>1, <2>4, <4>2, SendTypes DEF s
        <5> QED BY <2>2, <3>1, <5>1, Concatenation
      <4> QED BY <4>1, <4>2
    <3>3. pending \in Seq(LegalIn(peerSent + 1)) /\ fragments \in Seq(LegalIn(peerSent + 1))
      BY <2>1, LegalGrows DEF StreamTypes
    <3> QED BY <2>1, <2>4, <3>2, <3>3 DEF StreamTypes
  <2> QED BY <2>3, <2>4
<1>2. CASE Read
  <2>1. /\ phase = "returned" /\ route.layer # "xaead" /\ reader' = "opened"
        /\ UNCHANGED <<route, phase, inbox, frame, fragments, pending, count, got, cuts, peerSent>>
    BY <1>0, <1>2 DEF Read, dialVars
  <2>2. want' \in Seq(PieceKinds) /\ want'[Len(want')] = LastKind(route.layer) BY <1>2, ReadTypes
  <2> QED BY <2>1, <2>2 DEF StreamTypes
<1>3. ASSUME want # <<>> PROVE phase = "returned" /\ route.layer # "xaead"
  BY <1>3 DEF StreamTypes, Untouched
<1>4. CASE ReceiveRaw
  <2>1. /\ want # <<>> /\ ~route.ws /\ inbox # <<>> /\ Receive(Head(inbox)) /\ inbox' = Tail(inbox)
        /\ UNCHANGED <<route, phase, fragments, pending, cuts, peerSent>>
    BY <1>4 DEF ReceiveRaw, dialVars
  <2>2. Head(inbox) \in LegalIn(peerSent) /\ Tail(inbox) \in Seq(LegalIn(peerSent))
    BY <2>1 DEF StreamTypes
  <2> QED BY <1>3, <2>1, <2>2, ReceiveTypes DEF StreamTypes
<1>5. CASE ReceivePending
  <2>1. /\ want # <<>> /\ pending # <<>> /\ Receive(Head(pending)) /\ pending' = Tail(pending)
        /\ UNCHANGED <<route, phase, inbox, fragments, cuts, peerSent>>
    BY <1>5 DEF ReceivePending, dialVars
  <2>2. Head(pending) \in LegalIn(peerSent) /\ Tail(pending) \in Seq(LegalIn(peerSent)) /\ route.ws
    BY <2>1 DEF StreamTypes
  <2>3. frame' \in Seq(PartsIn(peerSent)) /\ Len(frame') <= 1
    <3>1. frame' = frame \/ frame' = <<>> BY <2>1, <2>2, ReceiveTypes
    <3>2. frame \in Seq(PartsIn(peerSent)) /\ Len(frame) <= 1 BY <2>2 DEF StreamTypes
    <3>3. <<>> \in Seq(PartsIn(peerSent)) /\ Len(<<>>) <= 1 OBVIOUS
    <3> QED BY <3>1, <3>2, <3>3
  <2> QED BY <1>3, <2>1, <2>2, <2>3, ReceiveTypes DEF StreamTypes
<1>6. CASE ReadFrameHead
  <2>1. /\ want # <<>> /\ route.ws /\ inbox # <<>> /\ inbox' = Tail(inbox)
        /\ UNCHANGED <<route, phase, fragments, count, got, cuts, peerSent>>
    BY <1>6 DEF ReadFrameHead, dialVars
  <2>2. Head(inbox) \in PartsIn(peerSent) /\ Tail(inbox) \in Seq(PartsIn(peerSent))
    BY <2>1 DEF StreamTypes
  <2>3. Junk \in LegalIn(peerSent) BY DEF Junk, Piece, LegalIn, AnyPiece, PieceKinds
  <2>4. CASE frame' = <<Head(inbox)>> /\ UNCHANGED <<want, reader, pending>>
    <3>1. frame' \in Seq(PartsIn(peerSent)) /\ Len(frame') <= 1 BY <2>2, <2>4
    <3> QED BY <1>3, <2>1, <2>2, <2>4, <3>1 DEF StreamTypes
  <2>5. CASE pending' = <<Junk>> /\ UNCHANGED <<want, reader, frame>>
    <3>1. pending' \in Seq(LegalIn(peerSent)) BY <2>3, <2>5
    <3> QED BY <1>3, <2>1, <2>2, <2>5, <3>1 DEF StreamTypes
  <2>6. CASE ReadFails /\ UNCHANGED pending
    <3>1. want' = <<>> /\ frame' = <<>> /\ reader' \in {reader, "failed"} BY <2>6 DEF ReadFails
    <3>2. want' \in Seq(PieceKinds) /\ frame' \in Seq(PartsIn(peerSent)) /\ Len(frame') <= 1 BY <3>1
    <3> QED BY <1>3, <2>1, <2>2, <2>6, <3>1, <3>2 DEF StreamTypes
  <2> QED BY <1>6, <2>4, <2>5, <2>6 DEF ReadFrameHead
<1>7. CASE ReadFrameBody
  <2>1. /\ want # <<>> /\ frame # <<>> /\ inbox # <<>> /\ inbox' = Tail(inbox) /\ frame' = <<>>
        /\ UNCHANGED <<route, phase, want, reader, count, got, cuts, peerSent>>
    BY <1>7 DEF ReadFrameBody, dialVars
  <2>2. /\ route.ws /\ Head(inbox) \in PartsIn(peerSent) /\ Tail(inbox) \in Seq(PartsIn(peerSent))
    BY <2>1 DEF StreamTypes
  <2>3. Head(inbox).pieces \in Seq(LegalIn(peerSent)) BY <2>2 DEF PartsIn
  <2>4. fragments \o Head(inbox).pieces \in Seq(LegalIn(peerSent))
    BY <2>3, Concatenation DEF StreamTypes
  <2>5. pending' \in Seq(LegalIn(peerSent)) /\ fragments' \in Seq(LegalIn(peerSent))
    <3> DEFINE message == fragments \o Head(inbox).pieces
    <3>1. pending' \in {pending, message, <<>>} /\ fragments' \in {fragments, message, <<>>}
      BY <1>7 DEF ReadFrameBody
    <3>2. pending \in Seq(LegalIn(peerSent)) /\ fragments \in Seq(LegalIn(peerSent))
      BY DEF StreamTypes
    <3>3. <<>> \in Seq(LegalIn(peerSent)) OBVIOUS
    <3>4. message \in Seq(LegalIn(peerSent)) BY <2>4
    <3> HIDE DEF message
    <3> QED BY <3>1, <3>2, <3>3, <3>4
  <2>6. frame' \in Seq(PartsIn(peerSent)) /\ Len(frame') <= 1 BY <2>1
  <2> QED BY <1>3, <2>1, <2>2, <2>5, <2>6 DEF StreamTypes
<1>8. CASE CutRead
  <2>1. /\ want # <<>> /\ cuts' = cuts + 1 /\ want' = <<>> /\ frame' = <<>>
        /\ reader' \in {reader, "failed"}
        /\ UNCHANGED <<route, phase, inbox, fragments, pending, count, got, peerSent>>
    BY <1>8 DEF CutRead, ReadFails, dialVars
  <2>2. /\ want' \in Seq(PieceKinds) /\ cuts' \in Nat
        /\ frame' \in Seq(PartsIn(peerSent)) /\ Len(frame') <= 1
    BY <2>1 DEF StreamTypes
  <2> QED BY <1>3, <2>1, <2>2 DEF StreamTypes
<1>9. CASE UNCHANGED <<route, phase, readVars, peerSent>>
  BY <1>9 DEF readVars, StreamTypes, Untouched
<1>10. WritePong \/ Write \/ WritePart \/ CutWrite => UNCHANGED <<route, phase, readVars, peerSent>>
  BY DEF WritePong, Write, WritePart, CutWrite, dialVars
<1>11. WriteXAEAD => UNCHANGED <<route, phase, readVars, peerSent>>
  BY DEF WriteXAEAD, streamVars
<1> QED BY <1>1, <1>2, <1>4, <1>5, <1>6, <1>7, <1>8, <1>9, <1>10, <1>11 DEF StreamNext

\* One more unit, which is larger than those before it.
LEMMA GenuineGrows ==
    ASSUME got \in Seq(Nat), Genuine, NEW u \in 1..peerSent,
           \A i \in 1..Len(got) : got[i] < u,
           got' = Append(got, u), UNCHANGED peerSent
    PROVE  Genuine'
<1>1. /\ Len(got') = Len(got) + 1 /\ Len(got) \in Nat
      /\ \A i \in 1..Len(got) : got'[i] = got[i]
      /\ got'[Len(got) + 1] = u
  OBVIOUS
<1>2. \A i \in 1..(Len(got) + 1) : i \in 1..Len(got) \/ i = Len(got) + 1 BY <1>1
<1>3. \A i \in 1..Len(got') : got'[i] \in 1..peerSent' BY <1>1, <1>2 DEF Genuine
<1>4. ASSUME NEW i \in 1..Len(got'), NEW j \in 1..Len(got'), i < j PROVE got'[i] < got'[j]
  <2>1. i \in 1..Len(got) BY <1>1, <1>4
  <2>2. CASE j \in 1..Len(got) BY <1>1, <1>4, <2>1, <2>2 DEF Genuine
  <2>3. CASE j = Len(got) + 1 BY <1>1, <2>1, <2>3
  <2> QED BY <1>1, <1>2, <2>2, <2>3
<1> QED BY <1>3, <1>4 DEF Genuine

\* The last piece of a unit in a sealed layer opens with a nonce of its own.
LEMMA SealedReceive ==
    ASSUME StreamTypes, SealedOrder, route.layer \in {"vmess", "aead"}, want # <<>>,
           NEW piece \in LegalIn(peerSent), Receive(piece), UNCHANGED <<route, peerSent>>
    PROVE  SealedOrder'
<1>1. /\ got \in Seq(Nat) /\ count \in Nat /\ count' \in Nat /\ peerSent \in Nat
      /\ want \in Seq(PieceKinds) /\ want[Len(want)] = LastKind(route.layer)
  BY ReceiveTypes DEF StreamTypes
<1>2. CASE got' = got
  <2>1. count' >= count BY <1>1, ReceiveCases
  <2>2. Genuine' BY <1>2 DEF SealedOrder, Genuine
  <2>3. \A i \in 1..Len(got) : got[i] \in Nat BY <1>1
  <2>4. \A i \in 1..Len(got') : IF route.layer = "vmess" THEN got'[i] <= count' ELSE 2 * got'[i] <= count'
    BY <1>1, <1>2, <2>1, <2>3 DEF SealedOrder
  <2> QED BY <2>2, <2>4 DEF SealedOrder
<1>3. CASE got' # got
  <2> DEFINE u == UnitOf(piece)
  <2>1. /\ Len(want) = 1 /\ got' = Append(got, u)
        /\ Head(want) # "data" => piece.k = Head(want)
        /\ Head(want) \in {"body", "sealedLength", "sealedBody"} =>
               piece.n = count + 1 /\ count' = count + 1
    BY <1>3, ReceiveCases
  <2>2. Head(want) = LastKind(route.layer) BY <1>1, <2>1
  <2>3. piece.k = LastKind(route.layer) /\ piece.n = count + 1 /\ count' = count + 1
    BY <2>1, <2>2 DEF LastKind
  <2>4. /\ u \in 1..peerSent
        /\ u = IF route.layer = "vmess" THEN count + 1 ELSE (count + 1) \div 2
        /\ route.layer = "aead" => 2 * u = count + 1
    <3>1. CASE route.layer = "vmess"
      <4>1. piece.k = "body" BY <2>3, <3>1 DEF LastKind
      <4> QED BY <2>3, <3>1, <4>1 DEF UnitOf, LegalIn
    <3>2. CASE route.layer = "aead"
      <4>1. piece.k = "sealedBody" BY <2>3, <3>2 DEF LastKind
      <4>2. PICK i \in 1..peerSent : piece.n = 2 * i BY <4>1 DEF LegalIn
      <4>3. u = i /\ 2 * i = count + 1
        <5>1. (2 * i) \div 2 = i BY <1>1
        <5> QED BY <2>3, <4>1, <4>2, <5>1 DEF UnitOf
      <4> QED BY <2>3, <3>2, <4>1, <4>2, <4>3 DEF UnitOf
    <3> QED BY <3>1, <3>2
  <2> HIDE DEF u
  <2>5. u \in Nat /\ \A i \in 1..Len(got) : got[i] \in Nat BY <1>1, <2>4
  <2>6. \A i \in 1..Len(got) : got[i] < u
    BY <1>1, <2>4, <2>5 DEF SealedOrder
  <2>7. Genuine' BY <1>1, <2>1, <2>4, <2>6, GenuineGrows DEF SealedOrder
  <2>8. /\ Len(got') = Len(got) + 1 /\ Len(got) \in Nat
        /\ \A i \in 1..Len(got) : got'[i] = got[i]
        /\ got'[Len(got) + 1] = u
    BY <1>1, <2>1, <2>5
  <2>9. ASSUME NEW i \in 1..Len(got')
        PROVE  IF route.layer = "vmess" THEN got'[i] <= count' ELSE 2 * got'[i] <= count'
    <3>1. CASE i \in 1..Len(got) BY <1>1, <2>3, <2>5, <2>8, <3>1 DEF SealedOrder
    <3>2. CASE i = Len(got) + 1 BY <1>1, <2>3, <2>4, <2>5, <2>8, <3>2
    <3> QED BY <2>8, <3>1, <3>2
  <2> QED BY <2>7, <2>9 DEF SealedOrder
<1> QED BY <1>2, <1>3

\* Units stay in order in a sealed layer, whatever is cut.
LEMMA SealedKept ==
    ASSUME DialInv, StreamTypes, StreamNext, route.layer \in {"vmess", "aead"}, SealedOrder
    PROVE  SealedOrder'
<1>1. CASE ReceiveRaw
  <2>1. /\ want # <<>> /\ inbox \in Seq(LegalIn(peerSent)) /\ inbox # <<>>
        /\ Receive(Head(inbox)) /\ UNCHANGED <<route, peerSent>>
    BY <1>1 DEF ReceiveRaw, dialVars, StreamTypes
  <2> QED BY <2>1, SealedReceive
<1>2. CASE ReceivePending
  <2>1. /\ want # <<>> /\ pending \in Seq(LegalIn(peerSent)) /\ pending # <<>>
        /\ Receive(Head(pending)) /\ UNCHANGED <<route, peerSent>>
    BY <1>2 DEF ReceivePending, dialVars, StreamTypes
  <2> QED BY <2>1, SealedReceive
<1>3. CASE UNCHANGED <<route, got, count>> /\ peerSent' \in {peerSent, peerSent + 1}
  <2>1. 1..peerSent \subseteq 1..peerSent' BY <1>3 DEF StreamTypes
  <2> QED BY <1>3, <2>1 DEF SealedOrder, Genuine
<1>4. PeerSend \/ Read \/ ReadFrameHead \/ ReadFrameBody \/ CutRead
          => UNCHANGED <<route, got, count>> /\ peerSent' \in {peerSent, peerSent + 1}
  BY DEF PeerSend, Read, ReadFrameHead, ReadFrameBody, CutRead, dialVars
<1>5. WritePong \/ Write \/ WritePart \/ CutWrite \/ WriteXAEAD
          => UNCHANGED <<route, got, count, peerSent>>
  BY DEF WritePong, Write, WritePart, CutWrite, WriteXAEAD, streamVars, dialVars, readVars
<1> QED BY <1>1, <1>2, <1>3, <1>4, <1>5 DEF StreamNext

\* A piece without a frame and without a seal.
LEMMA RawReceive ==
    ASSUME StreamTypes, RawOrder, route.layer \in {"plain", "stream"}, ~route.ws, ReceiveRaw
    PROVE  RawOrder'
<1>1. /\ want # <<>> /\ inbox # <<>> /\ Receive(Head(inbox)) /\ inbox' = Tail(inbox)
      /\ UNCHANGED <<route, peerSent>>
  BY DEF ReceiveRaw, dialVars
<1>2. /\ inbox \in Seq(LegalIn(peerSent)) /\ Head(inbox) \in LegalIn(peerSent)
      /\ Len(inbox) \in Nat /\ Len(inbox) > 0 /\ Len(inbox') = Len(inbox) - 1
      /\ got \in Seq(Nat) /\ peerSent \in Nat
      /\ want \in Seq(PieceKinds) /\ reader = "opened" /\ want[Len(want)] = LastKind(route.layer)
  BY <1>1 DEF StreamTypes
<1>3. Past \in Nat /\ AllSent \in Nat /\ AllSent' = AllSent /\ Past' = Past + 1
  <2>1. AllSent \in Nat BY <1>2 DEF AllSent, EndOf, Before
  <2>2. AllSent' = AllSent BY <1>1 DEF AllSent
  <2> QED BY <1>2, <2>1, <2>2 DEF Past, RawOrder
<1>4. /\ Head(inbox) = Nth(route.layer, Past + 1) /\ Past + 1 <= AllSent
      /\ Line(route.layer, inbox', Past + 1, AllSent)
  BY <1>1, <1>3, LineStarts DEF RawOrder
<1>5. reader' \in {reader, "failed"} /\ (want' = <<>> \/ want' = Tail(want))
  BY <1>1, <1>2, ReceiveCases
<1>6. route.layer = "stream" =>
          /\ reader' = "opened" /\ Len(want') <= 1 => Past' >= 1
          /\ Len(want') > 1 => Len(want') = 2 /\ Head(want') = "salt"
  <2>1. Past' >= 1 BY <1>3
  <2>2. route.layer = "stream" => Len(want) <= 2 BY <1>2 DEF RawOrder
  <2>3. Len(want') < Len(want) BY <1>1, <1>2, <1>5
  <2>4. Len(want') \in Nat BY <1>1, <1>2, ReceiveTypes
  <2> QED BY <1>2, <2>1, <2>2, <2>3, <2>4
<1>7. CASE got' = got
  <2>1. \A i \in 1..Len(got) : got[i] \in Nat BY <1>2
  <2>2. \A i \in 1..Len(got') : got'[i] <= IF route'.layer = "plain" THEN Past' ELSE Past' - 1
    BY <1>1, <1>3, <1>7, <2>1 DEF RawOrder
  <2>3. Genuine' BY <1>1, <1>7 DEF RawOrder, Genuine
  <2> QED BY <1>1, <1>3, <1>4, <1>6, <2>2, <2>3 DEF RawOrder
<1>8. CASE got' # got
  <2> DEFINE u == IF route.layer = "plain" THEN Past + 1 ELSE Past
  <2>1. Len(want) = 1 /\ got' = Append(got, UnitOf(Head(inbox)))
    BY <1>1, <1>2, <1>8, ReceiveCases
  <2>2. UnitOf(Head(inbox)) = u
    <3>1. CASE route.layer = "plain" BY <1>3, <1>4, <3>1 DEF Nth, UnitOf, Piece
    <3>2. CASE route.layer = "stream"
      <4>1. Past >= 1 BY <1>2, <2>1, <3>2 DEF RawOrder
      <4> QED BY <1>3, <1>4, <3>2, <4>1 DEF Nth, UnitOf, Piece
    <3> QED BY <3>1, <3>2
  <2>3. u \in 1..peerSent
    <3>1. CASE route.layer = "plain"
      <4>1. AllSent = peerSent BY <1>2, <3>1 DEF AllSent, EndOf, Before
      <4> QED BY <1>2, <1>3, <1>4, <3>1, <4>1
    <3>2. CASE route.layer = "stream"
      <4>1. Past >= 1 BY <1>2, <2>1, <3>2 DEF RawOrder
      <4>2. AllSent = IF peerSent = 0 THEN 0 ELSE peerSent + 1 BY <1>2, <3>2 DEF AllSent, EndOf, Before
      <4> QED BY <1>2, <1>3, <1>4, <3>2, <4>1, <4>2
    <3> QED BY <3>1, <3>2
  <2>4. \A i \in 1..Len(got) : got[i] \in Nat /\ got[i] < u BY <1>2, <1>3 DEF RawOrder
  <2>5. u <= (IF route.layer = "plain" THEN Past' ELSE Past' - 1) /\ u \in Nat BY <1>3, <2>3
  <2> HIDE DEF u
  <2>6. Genuine' BY <1>1, <1>2, <2>1, <2>2, <2>3, <2>4, GenuineGrows DEF RawOrder
  <2>7. /\ Len(got') = Len(got) + 1 /\ Len(got) \in Nat
        /\ \A i \in 1..Len(got) : got'[i] = got[i]
        /\ got'[Len(got) + 1] = u
    BY <1>2, <2>1, <2>2, <2>5
  <2>8. ASSUME NEW i \in 1..Len(got')
        PROVE  got'[i] <= IF route'.layer = "plain" THEN Past' ELSE Past' - 1
    <3>1. CASE i \in 1..Len(got) BY <1>1, <1>3, <2>4, <2>5, <2>7, <3>1 DEF RawOrder
    <3>2. CASE i = Len(got) + 1 BY <1>1, <2>5, <2>7, <3>2
    <3> QED BY <2>7, <3>1, <3>2
  <2> QED BY <1>1, <1>3, <1>4, <1>6, <2>6, <2>8 DEF RawOrder
<1> QED BY <1>7, <1>8

\* Units stay in order without frames and seals, whatever is cut.
LEMMA RawKept ==
    ASSUME DialInv, StreamTypes, StreamNext, route.layer \in {"plain", "stream"}, ~route.ws, RawOrder
    PROVE  RawOrder'
<1>0. peerSent \in Nat /\ want \in Seq(PieceKinds) BY DEF StreamTypes
<1>1. CASE PeerSend
  <2> DEFINE s == Pieces(route.layer, peerSent = 0, peerSent + 1)
  <2>1. /\ route.layer \in Layers /\ peerSent' = peerSent + 1
        /\ UNCHANGED <<route, want, reader, got>>
    BY <1>1, SendTypes DEF PeerSend, dialVars
  <2>2. /\ s \in Seq(LegalIn(peerSent + 1))
        /\ Line(route.layer, s, EndOf(route.layer, peerSent), EndOf(route.layer, peerSent + 1))
        /\ EndOf(route.layer, peerSent) \in Nat /\ EndOf(route.layer, peerSent + 1) \in Nat
        /\ EndOf(route.layer, peerSent) < EndOf(route.layer, peerSent + 1)
    BY <1>0, <2>1, NextPieces
  <2>3. AllSent = EndOf(route.layer, peerSent) /\ AllSent' = EndOf(route.layer, peerSent + 1)
    BY <2>1 DEF AllSent
  <2> HIDE DEF s
  <2>4. /\ Past' \in Nat /\ Past' >= Past /\ Line(route.layer, inbox', Past', AllSent')
    <3>1. CASE ~(lost /\ peerSent = 0)
      <4>1. inbox' = inbox \o s BY <1>1, <3>1, SendTypes DEF s
      <4>2. Line(route.layer, inbox', Past, AllSent')
        BY <2>2, <2>3, <4>1, LineGoesOn DEF RawOrder
      <4>3. Past' = Past
        <5>1. Len(inbox') = AllSent' - Past BY <4>2 DEF Line
        <5>2. Past \in Nat BY DEF RawOrder
        <5> QED BY <2>2, <2>3, <5>1, <5>2 DEF Past
      <4> QED BY <4>2, <4>3 DEF RawOrder
    <3>2. CASE lost /\ peerSent = 0
      <4>1. AllSent = 0 BY <2>3, <3>2 DEF EndOf
      <4>2. inbox \in Seq(AnyPiece) /\ Len(inbox) = AllSent - Past /\ Past \in Nat
        BY DEF RawOrder, Line
      <4>3. inbox = <<>> /\ Past = 0 BY <4>1, <4>2
      <4>4. inbox' = <<>> BY <1>1, <3>2, <4>3, SendTypes
      <4>5. Past' = AllSent' BY <2>2, <2>3, <4>4 DEF Past
      <4> QED BY <2>2, <2>3, <4>3, <4>4, <4>5, EmptyLine
    <3> QED BY <3>1, <3>2
  <2>5. Genuine'
    <3>1. 1..peerSent \subseteq 1..peerSent' BY <1>0, <2>1
    <3> QED BY <2>1, <3>1 DEF RawOrder, Genuine
  <2>6. \A i \in 1..Len(got) : got[i] \in Nat BY DEF StreamTypes
  <2>7. \A i \in 1..Len(got') : got'[i] <= IF route'.layer = "plain" THEN Past' ELSE Past' - 1
    BY <2>1, <2>4, <2>6 DEF RawOrder
  <2>8. route.layer = "stream" /\ reader' = "opened" /\ Len(want') <= 1 => Past' >= 1
    BY <2>1, <2>4 DEF RawOrder
  <2> QED BY <2>1, <2>4, <2>5, <2>7, <2>8 DEF RawOrder
<1>2. CASE Read
  <2>1. /\ UNCHANGED <<route, got, inbox, peerSent>> /\ want = <<>> /\ reader # "failed"
        /\ reader' = "opened"
    BY <1>2 DEF Read, dialVars
  <2>2. route.layer \in Layers /\ want' = Kinds(Pieces(route.layer, reader = "fresh", 1))
    BY <1>2, ReadTypes
  <2>3. Past' = Past /\ AllSent' = AllSent BY <2>1 DEF Past, AllSent
  <2>4. ASSUME route.layer = "stream"
        PROVE  /\ Len(want') <= 1 => Past >= 1
               /\ Len(want') > 1 => Len(want') = 2 /\ Head(want') = "salt"
    <3>1. CASE reader = "fresh"
      <4>1. want' = Kinds(Pieces(route.layer, 0 = 0, 1)) BY <2>2, <3>1
      <4>2. /\ want' \in Seq(PieceKinds) /\ Len(want') = EndOf(route.layer, 0 + 1) - EndOf(route.layer, 0)
            /\ \A i \in DOMAIN want' : want'[i] = Nth(route.layer, EndOf(route.layer, 0) + i).k
        BY <2>2, <4>1, KindsOfNext
      <4>3. Len(want') = 2 BY <2>4, <4>2 DEF EndOf, Before
      <4>4. want'[1] = Nth(route.layer, 0 + 1).k
        <5>1. 1 \in DOMAIN want' BY <4>2, <4>3
        <5> QED BY <4>2, <5>1 DEF EndOf
      <4>5. want'[1] = "salt" BY <2>4, <4>4 DEF Nth, Piece
      <4>6. want' \in Seq(PieceKinds) /\ Len(want') > 0 BY <4>2, <4>3
      <4>7. Head(want') = want'[1] BY <4>6, TailOf
      <4> QED BY <4>3, <4>5, <4>7
    <3>2. CASE reader # "fresh"
      <4>1. want' = Kinds(Pieces(route.layer, 1 = 0, 1)) BY <2>2, <3>2
      <4>2. Len(want') = EndOf(route.layer, 1 + 1) - EndOf(route.layer, 1)
        BY <2>2, <4>1, KindsOfNext
      <4>3. Len(want') = 1 BY <2>4, <4>2 DEF EndOf, Before
      <4>4. reader = "opened" BY <2>1, <3>2 DEF StreamTypes
      <4>5. Past >= 1 BY <2>1, <2>4, <4>4 DEF RawOrder
      <4> QED BY <4>3, <4>5
    <3> QED BY <3>1, <3>2
  <2> QED BY <2>1, <2>3, <2>4 DEF RawOrder, Genuine
<1>3. CASE ReceiveRaw BY <1>3, RawReceive
<1>4. ReceivePending \/ ReadFrameHead \/ ReadFrameBody => FALSE
  BY DEF ReceivePending, ReadFrameHead, ReadFrameBody, StreamTypes
<1>5. CASE CutRead
  <2>1. /\ want # <<>> /\ want' = <<>> /\ UNCHANGED <<route, got, inbox, peerSent>>
        /\ reader' = IF Head(want) = "salt" THEN "failed" ELSE reader
    BY <1>5 DEF CutRead, ReadFails, dialVars
  <2>2. Past' = Past /\ AllSent' = AllSent BY <2>1 DEF Past, AllSent
  <2>3. Len(want) > 0 /\ Len(want) \in Nat BY <1>0, <2>1
  <2>4. route.layer = "stream" /\ reader' = "opened" => Past >= 1
    <3>1. CASE Len(want) <= 1 BY <2>1, <3>1 DEF RawOrder
    <3>2. CASE Len(want) > 1 BY <2>1, <3>2 DEF RawOrder
    <3> QED BY <2>3, <3>1, <3>2
  <2> QED BY <2>1, <2>2, <2>4 DEF RawOrder, Genuine
<1>6. CASE UNCHANGED <<route, got, inbox, peerSent, want, reader>>
  BY <1>6 DEF RawOrder, Genuine, Past, AllSent
<1>7. WritePong \/ Write \/ WritePart \/ CutWrite \/ WriteXAEAD
          => UNCHANGED <<route, got, inbox, peerSent, want, reader>>
  BY DEF WritePong, Write, WritePart, CutWrite, WriteXAEAD, streamVars, dialVars, readVars
<1> QED BY <1>1, <1>2, <1>3, <1>4, <1>5, <1>6, <1>7 DEF StreamNext

\* Two sequences are the same when their elements are.
LEMMA SameSeq ==
    ASSUME NEW S, NEW s \in Seq(S), NEW t \in Seq(S), Len(s) = Len(t),
           \A i \in 1..Len(s) : s[i] = t[i]
    PROVE  s = t
OBVIOUS

\* A sequence with elements is not empty.
LEMMA NotEmpty ==
    ASSUME NEW S, NEW s \in Seq(S), Len(s) > 0
    PROVE  s # <<>>
OBVIOUS

\* It does not matter which of three sequences are put together first.
LEMMA Regroup ==
    ASSUME NEW S, NEW r \in Seq(S), NEW s \in Seq(S), NEW t \in Seq(S)
    PROVE  r \o (s \o t) = (r \o s) \o t
OBVIOUS

\* The next number of units takes more pieces.
LEMMA EndsGrow ==
    ASSUME NEW layer \in Layers, NEW m \in Nat, NEW n \in Nat
    PROVE  /\ EndOf(layer, m) \in Nat
           /\ EndOf(layer, m) <= EndOf(layer, n) => m <= n
BY DEF EndOf, Before, Layers

\* A sealed piece has the next nonce, and others use none.
LEMMA NonceOfNext ==
    ASSUME NEW layer \in Layers, NEW d \in Nat
    PROVE  LET p == Nth(layer, d + 1)
           IN  IF p.k \in {"body", "sealedLength", "sealedBody"}
               THEN p.n = Opened(layer, d) + 1 /\ Opened(layer, d + 1) = Opened(layer, d) + 1
               ELSE Opened(layer, d + 1) = Opened(layer, d)
<1>1. CASE layer = "vmess"
  <2>1. CASE d = 0 BY <1>1, <2>1 DEF Nth, Piece, Opened
  <2>2. CASE d = 1 BY <1>1, <2>2 DEF Nth, Piece, Opened
  <2>3. CASE d >= 2 /\ d % 2 = 0
    <3>1. (d + 1) % 2 = 1 /\ (d + 1) \div 2 = d \div 2 BY <2>3
    <3> QED BY <1>1, <2>3, <3>1 DEF Nth, Piece, Opened
  <2>4. CASE d >= 2 /\ d % 2 # 0
    <3>1. (d + 1) % 2 = 0 /\ (d + 1) \div 2 = (d \div 2) + 1 /\ d \div 2 \in Nat BY <2>4
    <3> QED BY <1>1, <2>4, <3>1 DEF Nth, Piece, Opened
  <2> QED BY <2>1, <2>2, <2>3, <2>4
<1>2. CASE layer = "aead"
  <2>1. CASE d = 0 BY <1>2, <2>1 DEF Nth, Piece, Opened
  <2>2. CASE d > 0 BY <1>2, <2>2 DEF Nth, Piece, Opened
  <2> QED BY <2>1, <2>2
<1>3. CASE layer \in {"plain", "stream"} BY <1>3 DEF Nth, Piece, Opened
<1> QED BY <1>1, <1>2, <1>3 DEF Layers

\* The piece behind those used is the next that the reader wants, opens, and
\* leaves it in step.
LEMMA ReceiveInStep ==
    ASSUME StreamTypes, ReaderInStep, route.layer \in Layers, want # <<>>,
           NEW piece \in LegalIn(peerSent), piece = Nth(route.layer, Used + 1),
           Used + 1 <= AllSent, Receive(piece), UNCHANGED <<route, peerSent>>
    PROVE  ReaderInStep' /\ Used' = Used + 1 /\ frame' = frame
<1> DEFINE l == route.layer
           n == Len(got)
           d == Used
<1>1. /\ want \in Seq(PieceKinds) /\ Len(want) \in Nat /\ Len(want) > 0
      /\ got \in Seq(Nat) /\ n \in Nat /\ peerSent \in Nat /\ count \in Nat
      /\ Head(want) = want[1] /\ Tail(want) \in Seq(PieceKinds) /\ Len(Tail(want)) = Len(want) - 1
      /\ \A i \in 1..(Len(want) - 1) : Tail(want)[i] = want[i + 1]
  <2>1. want \in Seq(PieceKinds) /\ got \in Seq(Nat) /\ peerSent \in Nat /\ count \in Nat
    BY DEF StreamTypes
  <2>2. Len(want) > 0 /\ Len(want) \in Nat BY <2>1
  <2> QED BY <2>1, <2>2, TailOf
<1>2. /\ d = EndOf(l, n + 1) - Len(want)
      /\ EndOf(l, n) \in Nat /\ EndOf(l, n + 1) \in Nat /\ EndOf(l, n) < EndOf(l, n + 1)
      /\ UnitOf(Nth(l, EndOf(l, n + 1))) = n + 1
  BY <1>1, NextPieces DEF Used
<1>3. d \in Nat /\ d >= EndOf(l, n) BY <1>1, <1>2 DEF ReaderInStep
<1>4. want[1] = Nth(l, d + 1).k
  <2>1. 1 \in 1..Len(want) BY <1>1
  <2> QED BY <2>1 DEF ReaderInStep
<1>5. piece.k = Head(want) BY <1>1, <1>4
<1>6. /\ count = Opened(l, d)
      /\ (piece.k \in {"body", "sealedLength", "sealedBody"}) =>
             piece.n = Opened(l, d) + 1 /\ Opened(l, d + 1) = Opened(l, d) + 1
      /\ (piece.k \notin {"body", "sealedLength", "sealedBody"}) => Opened(l, d + 1) = Opened(l, d)
  <2>1. count = Opened(l, d) BY DEF ReaderInStep
  <2> QED BY <1>3, <2>1, NonceOfNext
<1>7. /\ want' = Tail(want) /\ frame' = frame /\ reader' = reader
      /\ got' = IF Len(want) = 1 THEN Append(got, UnitOf(piece)) ELSE got
      /\ count' = Opened(l, d + 1)
  BY <1>1, <1>5, <1>6 DEF Receive
<1>8. reader = "opened" BY DEF StreamTypes
<1>9. l' = l BY DEF l
<1> HIDE DEF l, n, d
<1>10. CASE Len(want) = 1
  <2>1. want' = <<>> /\ d + 1 = EndOf(l, n + 1) BY <1>1, <1>2, <1>7, <1>10
  <2>2. got' = Append(got, n + 1) BY <1>2, <1>7, <1>10, <2>1 DEF l, d
  <2>3. /\ Len(got') = n + 1 /\ got' # <<>>
        /\ \A i \in 1..n : got'[i] = got[i]
        /\ got'[n + 1] = n + 1
    BY <1>1, <2>2 DEF n
  <2>4. Used' = d + 1
    <3>1. Used' = EndOf(l', IF want' = <<>> THEN Len(got') ELSE Len(got') + 1) - Len(want')
      BY DEF Used, l
    <3>2. Len(<<>>) = 0 OBVIOUS
    <3> QED BY <1>2, <1>9, <2>1, <2>3, <3>1, <3>2
  <2>5. \A i \in 1..Len(got') : got'[i] = i
    <3>1. \A i \in 1..(n + 1) : i \in 1..n \/ i = n + 1 BY <1>1
    <3>2. \A i \in 1..n : got[i] = i BY DEF ReaderInStep, n
    <3> QED BY <2>3, <3>1, <3>2
  <2>6. Len(got') <= peerSent'
    <3>1. EndOf(l, n + 1) <= EndOf(l, peerSent) BY <2>1 DEF AllSent, l, d
    <3> QED BY <1>1, <2>3, <3>1, EndsGrow DEF l
  <2>7. Len(want') = 0 /\ \A i \in 1..Len(want') : FALSE BY <2>1
  <2>8. EndOf(l, Len(got') + 1) - EndOf(l, Len(got')) >= 0
    <3>1. n + 1 \in Nat BY <1>1
    <3>2. EndOf(l, n + 1) \in Nat /\ EndOf(l, (n + 1) + 1) \in Nat
          /\ EndOf(l, n + 1) < EndOf(l, (n + 1) + 1)
      BY <3>1, NextPieces DEF l
    <3> QED BY <2>3, <3>2
  <2>9. /\ reader' # "failed" /\ reader' # "fresh" BY <1>7, <1>8
  <2>10. count' = Opened(l', Used') BY <1>7, <1>9, <2>4
  <2>11. ReaderInStep'
    BY <1>9, <2>1, <2>3, <2>5, <2>6, <2>7, <2>8, <2>9, <2>10 DEF ReaderInStep, l
  <2> QED BY <1>7, <2>4, <2>11 DEF d
<1>11. CASE Len(want) # 1
  <2>1. /\ want' # <<>> /\ got' = got /\ Len(want') = Len(want) - 1
        /\ \A i \in 1..Len(want') : want'[i] = want[i + 1]
    <3>1. Len(Tail(want)) = Len(want) - 1 /\ Len(Tail(want)) > 0 BY <1>1, <1>11
    <3>2. Tail(want) # <<>> BY <1>1, <3>1, NotEmpty
    <3> QED BY <1>1, <1>7, <1>11, <3>1, <3>2
  <2>2. Used' = d + 1
    <3>1. Used' = EndOf(l', IF want' = <<>> THEN Len(got') ELSE Len(got') + 1) - Len(want')
      BY DEF Used, l
    <3> QED BY <1>1, <1>2, <1>9, <2>1, <3>1 DEF n
  <2>3. \A i \in 1..Len(want') : want'[i] = Nth(l', Used' + i).k
    <3> SUFFICES ASSUME NEW i \in 1..Len(want') PROVE want'[i] = Nth(l, (d + 1) + i).k
      BY <1>9, <2>2
    <3>1. i + 1 \in 1..Len(want) /\ d + (i + 1) = (d + 1) + i BY <1>1, <1>3, <2>1
    <3>2. want[i + 1] = Nth(l, d + (i + 1)).k BY <3>1 DEF ReaderInStep, l, d
    <3> QED BY <2>1, <3>1, <3>2
  <2>4. Len(want') <= EndOf(l', Len(got') + 1) - EndOf(l', Len(got'))
    BY <1>1, <1>2, <1>9, <2>1 DEF ReaderInStep, l, n
  <2>5. reader' # "failed" /\ reader' # "fresh" BY <1>7, <1>8
  <2>6. count' = Opened(l', Used') BY <1>7, <1>9, <2>2
  <2>7. ReaderInStep' BY <2>1, <2>3, <2>4, <2>5, <2>6 DEF ReaderInStep, l
  <2> QED BY <1>7, <2>2, <2>7 DEF d
<1> QED BY <1>10, <1>11

\* A position in the sequence of pieces is a number.
LEMMA UsedIsNat ==
    ASSUME StreamTypes, ReaderInStep, route.layer \in Layers
    PROVE  Used \in Nat /\ AllSent \in Nat
<1> DEFINE l == route.layer
<1>1. Len(want) <= EndOf(l, Len(got) + 1) - EndOf(l, Len(got)) BY DEF ReaderInStep
<1>2. Len(want) \in Nat /\ Len(got) \in Nat /\ peerSent \in Nat BY DEF StreamTypes
<1>3. /\ EndOf(l, Len(got) + 1) \in Nat /\ EndOf(l, Len(got)) \in Nat /\ EndOf(l, peerSent) \in Nat
  BY <1>2, NextPieces
<1>4. want = <<>> => Len(want) = 0 OBVIOUS
<1> HIDE DEF l
<1> QED BY <1>1, <1>2, <1>3, <1>4 DEF Used, AllSent, l

\* A unit more is on its way.
LEMMA SendInStep ==
    ASSUME DialInv, StreamTypes, InStep, ~lost, PeerSend
    PROVE  InStep'
<1> DEFINE l == route.layer
           s == Pieces(l, peerSent = 0, peerSent + 1)
<1>1. /\ l \in Layers /\ peerSent \in Nat /\ peerSent' = peerSent + 1
      /\ UNCHANGED <<route, frame, fragments, pending, want, reader, count, got, cuts>>
  BY SendTypes DEF PeerSend, dialVars, StreamTypes
<1>2. /\ s \in Seq(LegalIn(peerSent + 1)) /\ s # <<>>
      /\ Line(l, s, AllSent, AllSent') /\ AllSent \in Nat /\ AllSent' \in Nat
  BY <1>1, NextPieces DEF AllSent
<1>3. IF route.ws THEN \E f \in Framings(s) : inbox' = inbox \o f ELSE inbox' = inbox \o s
  BY SendTypes
<1> HIDE DEF s
<1>4. Used' = Used BY <1>1 DEF Used
<1>5. ReaderInStep'
  <2>1. Len(got) <= peerSent' /\ Len(got) \in Nat BY <1>1 DEF InStep, ReaderInStep, StreamTypes
  <2> QED BY <1>1, <1>4, <2>1 DEF InStep, ReaderInStep
<1>6. CASE route.ws
  <2>1. PICK f \in Framings(s) : inbox' = inbox \o f BY <1>3, <1>6
  <2>2. f \in Seq(PartsIn(peerSent + 1)) /\ Framed(f) /\ Carries(l, f, AllSent, AllSent')
    BY <1>2, FramingsCarry
  <2>3. inbox \in Seq(PartsIn(peerSent + 1)) /\ frame \in Seq(PartsIn(peerSent + 1))
    BY <1>1, <1>6, LegalGrows DEF StreamTypes
  <2> DEFINE w == frame \o inbox
  <2>4. w \in Seq(PartsIn(peerSent + 1)) BY <2>3, Concatenation
  <2>5. frame' \o inbox' = w \o f BY <1>1, <2>1, <2>2, <2>3, Regroup
  <2>6. Framed(w) BY <1>6 DEF InStep, FramesInStep
  <2>7. PICK x, y \in Nat : Line(l, pending, Used, x) /\ Line(l, fragments, x, y) /\ Carries(l, w, y, AllSent)
    BY <1>6 DEF InStep, FramesInStep
  <2> HIDE DEF w, l
  <2>8. Framed(w \o f) BY <2>2, <2>4, <2>6, FramesGoOn
  <2>9. Carries(l, w \o f, y, AllSent') BY <2>2, <2>4, <2>7, CarriesOn
  <2>10. frame' # <<>> => pending' = <<>> BY <1>1, <1>6 DEF InStep, FramesInStep
  <2>11. FramesInStep' BY <1>1, <1>4, <2>5, <2>7, <2>8, <2>9, <2>10 DEF FramesInStep, l
  <2> QED BY <1>1, <1>5, <1>6, <2>11 DEF InStep
<1>7. CASE ~route.ws
  <2>1. inbox' = inbox \o s BY <1>3, <1>7
  <2>2. Line(l, inbox, Used, AllSent) BY <1>7 DEF InStep
  <2>3. Used \in Nat BY <1>1, UsedIsNat DEF InStep
  <2>4. Line(l, inbox \o s, Used, AllSent') BY <1>2, <2>2, <2>3, LineGoesOn
  <2> QED BY <1>1, <1>4, <1>5, <1>7, <2>1, <2>4 DEF InStep
<1> QED BY <1>6, <1>7

\* A Read begins with what it needs of the next unit.
LEMMA ReadInStep ==
    ASSUME DialInv, StreamTypes, InStep, Read
    PROVE  InStep'
<1> DEFINE l == route.layer
           n == Len(got)
<1>1. /\ l \in Layers /\ want' = Kinds(Pieces(l, reader = "fresh", 1)) /\ want' # <<>>
  BY ReadTypes
<1>2. /\ want = <<>> /\ reader' = "opened"
      /\ UNCHANGED <<route, inbox, frame, fragments, pending, count, got, cuts, peerSent>>
  BY DEF Read, dialVars
<1>3. n \in Nat /\ ((n = 0) <=> (reader = "fresh"))
  <2>1. got \in Seq(Nat) BY DEF StreamTypes
  <2>2. (reader = "fresh") <=> (got = <<>>) BY <1>2 DEF InStep, ReaderInStep
  <2> QED BY <2>1, <2>2
<1>4. want' = Kinds(Pieces(l, n = 0, 1)) BY <1>1, <1>3
<1>5. /\ want' \in Seq(PieceKinds) /\ Len(want') = EndOf(l, n + 1) - EndOf(l, n)
      /\ \A i \in DOMAIN want' : want'[i] = Nth(l, EndOf(l, n) + i).k
      /\ EndOf(l, n) \in Nat /\ EndOf(l, n + 1) \in Nat
  <2> HIDE DEF l, n
  <2>1. /\ Kinds(Pieces(l, n = 0, 1)) \in Seq(PieceKinds)
        /\ Len(Kinds(Pieces(l, n = 0, 1))) = EndOf(l, n + 1) - EndOf(l, n)
        /\ \A i \in DOMAIN Kinds(Pieces(l, n = 0, 1)) :
               Kinds(Pieces(l, n = 0, 1))[i] = Nth(l, EndOf(l, n) + i).k
    BY <1>1, <1>3, KindsOfNext
  <2>2. EndOf(l, n) \in Nat /\ EndOf(l, n + 1) \in Nat BY <1>1, <1>3, NextPieces
  <2> QED BY <1>4, <2>1, <2>2
<1>6. Used = EndOf(l, n) /\ Used' = EndOf(l, n)
  <2>1. Len(<<>>) = 0 OBVIOUS
  <2>2. Used = EndOf(l, n) BY <1>2, <1>5, <2>1 DEF Used
  <2>3. Used' = EndOf(l, n + 1) - Len(want') BY <1>1, <1>2 DEF Used
  <2> QED BY <1>5, <2>2, <2>3
<1>7. \A i \in 1..Len(want') : want'[i] = Nth(l, Used' + i).k
  <2>1. DOMAIN want' = 1..Len(want') BY <1>5
  <2> QED BY <1>5, <1>6, <2>1
<1>8. ReaderInStep' BY <1>1, <1>2, <1>5, <1>6, <1>7 DEF InStep, ReaderInStep
<1>9. AllSent' = AllSent BY <1>2 DEF AllSent
<1> QED BY <1>2, <1>6, <1>8, <1>9 DEF InStep, FramesInStep

\* Raw pieces and those of a message that was read are the next ones.
LEMMA PiecesInStep ==
    ASSUME DialInv, StreamTypes, InStep, ReceiveRaw \/ ReceivePending
    PROVE  InStep'
<1>0. /\ want # <<>> /\ UNCHANGED <<route, peerSent>> /\ route.layer \in Layers
      /\ Used \in Nat /\ AllSent \in Nat
  <2>1. want # <<>> /\ UNCHANGED <<route, peerSent>> BY DEF ReceiveRaw, ReceivePending, dialVars
  <2>2. route.layer \in Layers BY <2>1 DEF DialInv, DialTypeOK, Layers, StreamTypes, Untouched
  <2> QED BY <2>1, <2>2, UsedIsNat DEF InStep
<1>1. CASE ReceiveRaw
  <2>1. /\ ~route.ws /\ inbox # <<>> /\ Receive(Head(inbox)) /\ inbox' = Tail(inbox)
    BY <1>1 DEF ReceiveRaw
  <2>2. Head(inbox) \in LegalIn(peerSent) BY <2>1 DEF StreamTypes
  <2>3. /\ Head(inbox) = Nth(route.layer, Used + 1) /\ Used + 1 <= AllSent
        /\ Line(route.layer, inbox', Used + 1, AllSent)
    BY <1>0, <2>1, LineStarts DEF InStep
  <2>4. ReaderInStep' /\ Used' = Used + 1 BY <1>0, <2>1, <2>2, <2>3, ReceiveInStep DEF InStep
  <2>5. AllSent' = AllSent BY <1>0 DEF AllSent
  <2> QED BY <1>0, <2>1, <2>3, <2>4, <2>5 DEF InStep
<1>2. CASE ReceivePending
  <2>1. /\ pending # <<>> /\ Receive(Head(pending)) /\ pending' = Tail(pending)
        /\ UNCHANGED <<inbox, fragments>>
    BY <1>2 DEF ReceivePending
  <2>2. route.ws /\ Head(pending) \in LegalIn(peerSent) BY <2>1 DEF StreamTypes
  <2>3. PICK x, y \in Nat : /\ Line(route.layer, pending, Used, x)
                            /\ Line(route.layer, fragments, x, y)
                            /\ Carries(route.layer, frame \o inbox, y, AllSent)
    BY <2>2 DEF InStep, FramesInStep
  <2>4. /\ Head(pending) = Nth(route.layer, Used + 1) /\ Used + 1 <= x
        /\ Line(route.layer, pending', Used + 1, x)
    BY <1>0, <2>1, <2>3, LineStarts
  <2>5. x <= y /\ y <= AllSent
    <3>1. x <= y
      <4>1. Len(fragments) = y - x /\ Len(fragments) \in Nat BY <2>3 DEF Line
      <4> QED BY <4>1
    <3>2. frame \o inbox \in Seq(PartsIn(peerSent)) BY <2>2, Concatenation DEF StreamTypes
    <3>3. y <= AllSent BY <2>3, <3>2, CarriesUp
    <3> QED BY <3>1, <3>3
  <2>6. /\ ReaderInStep' /\ Used' = Used + 1 /\ frame' = frame
    <3>1. Used + 1 <= AllSent BY <1>0, <2>4, <2>5
    <3> QED BY <1>0, <2>1, <2>2, <2>4, <3>1, ReceiveInStep DEF InStep
  <2>7. AllSent' = AllSent BY <1>0 DEF AllSent
  <2>8. frame' = <<>> BY <2>1, <2>2, <2>6 DEF InStep, FramesInStep
  <2>9. FramesInStep'
    <3>1. Framed(frame' \o inbox') BY <2>1, <2>2, <2>6 DEF InStep, FramesInStep
    <3>2. /\ Line(route'.layer, pending', Used', x) /\ Line(route'.layer, fragments', x, y)
          /\ Carries(route'.layer, frame' \o inbox', y, AllSent')
      BY <1>0, <2>1, <2>3, <2>4, <2>6, <2>7
    <3> QED BY <2>8, <3>1, <3>2 DEF FramesInStep
  <2> QED BY <1>0, <2>2, <2>6, <2>9 DEF InStep
<1> QED BY <1>1, <1>2

\* Behind a frame there are frames.
LEMMA FramedRest ==
    ASSUME NEW m, NEW w \in Seq(PartsIn(m)), w # <<>>, Framed(w)
    PROVE  /\ Len(w) >= 2 /\ IsHead(w[1]) /\ w[2].part = "body" /\ w[2] \in PartsIn(m)
           /\ w[1] \in PartsIn(m)
           /\ w[1].op = "ping" => w[2].pieces = <<>>
           /\ Tail(w) # <<>> /\ Head(Tail(w)) = w[2]
           /\ Tail(Tail(w)) \in Seq(PartsIn(m)) /\ Framed(Tail(Tail(w)))
<1>1. Len(w) \in Nat /\ Len(w) > 0 BY SeqFacts
<1>2. 1 \in 1..Len(w) /\ 1 % 2 = 1 /\ 2 % 2 # 1 /\ 1 + 1 = 2 BY <1>1
<1>3. IsHead(w[1]) /\ 1 < Len(w) /\ (w[1].op = "ping" => w[2].pieces = <<>>)
  BY <1>2 DEF Framed
<1>4. 2 \in 1..Len(w) BY <1>1, <1>3
<1>5. w[2].part = "body" BY <1>2, <1>4 DEF Framed
<1>6. w[1] \in PartsIn(m) /\ w[2] \in PartsIn(m) BY <1>2, <1>4, SeqFacts
<1> DEFINE t == Tail(w)
           u == Tail(t)
<1>7. /\ t \in Seq(PartsIn(m)) /\ Len(t) = Len(w) - 1
      /\ \A i \in 1..(Len(w) - 1) : t[i] = w[i + 1]
  BY <1>1, TailOf
<1> HIDE DEF t
<1>8. Len(t) > 0 /\ t # <<>> BY <1>1, <1>3, <1>7
<1>9. /\ u \in Seq(PartsIn(m)) /\ Len(u) = Len(t) - 1 /\ Head(t) = t[1]
      /\ \A i \in 1..(Len(t) - 1) : u[i] = t[i + 1]
  BY <1>7, <1>8, TailOf
<1> HIDE DEF u
<1>10. Head(t) = w[2] BY <1>1, <1>3, <1>7, <1>9
<1>11. \A i \in 1..Len(u) : u[i] = w[i + 2]
  <2> SUFFICES ASSUME NEW i \in 1..Len(u) PROVE u[i] = w[i + 2] OBVIOUS
  <2>1. i \in 1..(Len(t) - 1) /\ i + 1 \in 1..(Len(w) - 1) /\ (i + 1) + 1 = i + 2
    BY <1>1, <1>7, <1>9
  <2>2. u[i] = t[i + 1] BY <1>9, <2>1
  <2>3. t[i + 1] = w[(i + 1) + 1] BY <1>7, <2>1
  <2> QED BY <2>1, <2>2, <2>3
<1>12. Framed(u)
  <2> SUFFICES ASSUME NEW j \in 1..Len(u)
               PROVE  IF j % 2 = 1
                      THEN /\ IsHead(u[j])
                           /\ j < Len(u)
                           /\ u[j].op = "ping" => u[j + 1].pieces = <<>>
                      ELSE u[j].part = "body"
    BY DEF Framed
  <2>1. j + 2 \in 1..Len(w) /\ (j % 2 = 1 <=> (j + 2) % 2 = 1) /\ (j + 1) + 2 = (j + 2) + 1
        /\ Len(u) + 2 = Len(w) /\ Len(u) \in Nat
    BY <1>1, <1>7, <1>9
  <2>2. u[j] = w[j + 2] BY <1>11
  <2>3. CASE j % 2 = 1
    <3>1. /\ IsHead(w[j + 2]) /\ j + 2 < Len(w)
          /\ w[j + 2].op = "ping" => w[(j + 2) + 1].pieces = <<>>
      BY <2>1, <2>3 DEF Framed
    <3>2. j < Len(u) /\ j + 1 \in 1..Len(u) BY <2>1, <3>1
    <3>3. u[j + 1] = w[(j + 1) + 2] BY <1>11, <3>2
    <3> QED BY <2>1, <2>2, <2>3, <3>1, <3>2, <3>3
  <2>4. CASE j % 2 # 1
    <3>1. w[j + 2].part = "body" BY <2>1, <2>4 DEF Framed
    <3> QED BY <2>2, <2>4, <3>1
  <2> QED BY <2>3, <2>4
<1> QED BY <1>1, <1>3, <1>5, <1>6, <1>8, <1>9, <1>10, <1>12 DEF t, u

\* A sequence of one element.
LEMMA Single ==
    ASSUME NEW S, NEW s \in Seq(S), s # <<>>, Len(s) <= 1
    PROVE  s = <<Head(s)>> /\ Len(s) = 1 /\ Head(s) = s[1] /\ Head(s) \in S
<1>1. Len(s) \in Nat /\ Len(s) > 0 /\ Head(s) = s[1] /\ Head(s) \in S BY SeqFacts, TailOf
<1>2. Len(s) = 1
  <2>1. Len(s) <= 1 /\ Len(s) \in Nat /\ Len(s) > 0 BY <1>1
  <2>2. \A n \in Nat : n <= 1 /\ n > 0 => n = 1 OBVIOUS
  <2> QED BY ONLY <2>1, <2>2
<1>3. <<s[1]>> \in Seq(S) /\ Len(<<s[1]>>) = 1 /\ <<s[1]>>[1] = s[1] BY <1>1, OnePiece
<1>4. \A i \in 1..Len(s) : s[i] = <<s[1]>>[i] BY <1>2, <1>3
<1>5. s = <<s[1]>> BY <1>2, <1>3, <1>4, SameSeq
<1> QED BY <1>1, <1>2, <1>5

\* An element before a sequence, and the sequence behind it.
LEMMA Behind ==
    ASSUME NEW S, NEW a \in S, NEW t \in Seq(S)
    PROVE  /\ <<a>> \o t \in Seq(S) /\ <<a>> \o t # <<>> /\ (<<a>> \o t)[1] = a
           /\ Head(<<a>> \o t) = a /\ Tail(<<a>> \o t) = t
<1>1. /\ <<a>> \in Seq(S) /\ Len(<<a>>) = 1 /\ <<a>>[1] = a BY OnePiece
<1> DEFINE w == <<a>> \o t
<1>2. /\ w \in Seq(S) /\ Len(w) = 1 + Len(t) /\ Len(t) \in Nat
      /\ \A i \in 1..1 : w[i] = <<a>>[i]
      /\ \A i \in 1..Len(t) : w[1 + i] = t[i]
  BY <1>1, Concatenation, SeqFacts
<1> HIDE DEF w
<1>3. Len(w) > 0 /\ w[1] = a
  <2>1. 1 \in 1..1 OBVIOUS
  <2> QED BY <1>1, <1>2, <2>1
<1>4. w # <<>> BY <1>2, <1>3, NotEmpty
<1>5. /\ Head(w) = w[1] /\ Tail(w) \in Seq(S) /\ Len(Tail(w)) = Len(w) - 1
      /\ \A i \in 1..(Len(w) - 1) : Tail(w)[i] = w[i + 1]
  BY <1>2, <1>3, TailOf
<1>6. Tail(w) = t
  <2>1. Len(Tail(w)) = Len(t) BY <1>2, <1>5
  <2>2. \A i \in 1..Len(Tail(w)) : Tail(w)[i] = t[i]
    <3> SUFFICES ASSUME NEW i \in 1..Len(Tail(w)) PROVE Tail(w)[i] = t[i] OBVIOUS
    <3>1. i \in 1..(Len(w) - 1) /\ i \in 1..Len(t) /\ i + 1 = 1 + i BY <1>2, <1>5
    <3>2. w[1 + i] = t[i] BY <1>2, <3>1
    <3>3. Tail(w)[i] = w[i + 1] BY <1>5, <3>1
    <3> QED BY <3>1, <3>2, <3>3
  <2> QED BY <1>2, <1>5, <2>1, <2>2, SameSeq
<1> QED BY <1>2, <1>3, <1>4, <1>5, <1>6 DEF w

\* The frame head that is read is one.
LEMMA HeadInStep ==
    ASSUME DialInv, StreamTypes, InStep, ReadFrameHead
    PROVE  InStep'
<1> DEFINE P == PartsIn(peerSent)
<1>1. /\ route.ws /\ pending = <<>> /\ frame = <<>> /\ inbox # <<>> /\ inbox' = Tail(inbox)
      /\ UNCHANGED <<route, peerSent, fragments, count, got, cuts>>
  BY DEF ReadFrameHead, dialVars
<1>2. inbox \in Seq(P) BY <1>1 DEF StreamTypes
<1>3. frame \o inbox = inbox
  <2>1. \A s \in Seq(P) : <<>> \o s = s OBVIOUS
  <2> QED BY <1>1, <1>2, <2>1
<1>4. PICK x, y \in Nat : /\ Line(route.layer, pending, Used, x)
                          /\ Line(route.layer, fragments, x, y)
                          /\ Carries(route.layer, inbox, y, AllSent)
  BY <1>1, <1>3 DEF InStep, FramesInStep
<1>5. Framed(inbox) BY <1>1, <1>3 DEF InStep, FramesInStep
<1>6. IsHead(inbox[1]) /\ inbox[1] \in P BY <1>1, <1>2, <1>5, FramedRest
<1>7. Head(inbox) = inbox[1] /\ Tail(inbox) \in Seq(P) BY <1>1, <1>2
<1>8. frame' = <<Head(inbox)>> /\ UNCHANGED <<want, reader, pending>>
  BY <1>6, <1>7 DEF ReadFrameHead, IsHead
<1>9. frame' \o inbox' = inbox
  <2>1. \A s \in Seq(P) : s # <<>> => <<Head(s)>> \o Tail(s) = s
    <3> SUFFICES ASSUME NEW s \in Seq(P), s # <<>> PROVE <<Head(s)>> \o Tail(s) = s OBVIOUS
    <3>1. /\ Len(s) > 0 /\ Len(s) \in Nat /\ Head(s) = s[1] /\ Head(s) \in P /\ Tail(s) \in Seq(P)
          /\ Len(Tail(s)) = Len(s) - 1
          /\ \A i \in 1..(Len(s) - 1) : Tail(s)[i] = s[i + 1]
      BY SeqFacts, TailOf
    <3>2. <<Head(s)>> \in Seq(P) /\ Len(<<Head(s)>>) = 1 /\ <<Head(s)>>[1] = s[1] BY <3>1, OnePiece
    <3> DEFINE w == <<Head(s)>> \o Tail(s)
    <3>3. /\ w \in Seq(P) /\ Len(w) = 1 + Len(Tail(s))
          /\ \A i \in 1..1 : w[i] = <<Head(s)>>[i]
          /\ \A i \in 1..Len(Tail(s)) : w[1 + i] = Tail(s)[i]
      BY <3>1, <3>2, Concatenation
    <3> HIDE DEF w
    <3>4. Len(w) = Len(s) BY <3>1, <3>3
    <3>5. ASSUME NEW i \in 1..Len(w) PROVE w[i] = s[i]
      <4>1. CASE i = 1 BY <3>2, <3>3, <4>1
      <4>2. CASE i # 1
        <5>1. i - 1 \in 1..(Len(s) - 1) /\ 1 + (i - 1) = i /\ (i - 1) + 1 = i BY <3>1, <3>4, <4>2
        <5>2. w[1 + (i - 1)] = Tail(s)[i - 1] BY <3>1, <3>3, <5>1
        <5>3. Tail(s)[i - 1] = s[(i - 1) + 1] BY <3>1, <5>1
        <5> QED BY <5>1, <5>2, <5>3
      <4> QED BY <4>1, <4>2
    <3>6. w = s BY <3>3, <3>4, <3>5, SameSeq
    <3> QED BY <3>6 DEF w
  <2> QED BY <1>1, <1>2, <1>8, <2>1
<1>10. Used' = Used /\ AllSent' = AllSent BY <1>1, <1>8 DEF Used, AllSent
<1>11. ReaderInStep' BY <1>1, <1>8, <1>10 DEF InStep, ReaderInStep
<1>12. FramesInStep' BY <1>1, <1>4, <1>5, <1>8, <1>9, <1>10 DEF FramesInStep
<1> QED BY <1>1, <1>11, <1>12 DEF InStep

\* The body of the frame brings what follows the fragments.
LEMMA BodyInStep ==
    ASSUME DialInv, StreamTypes, InStep, ReadFrameBody
    PROVE  InStep'
<1> DEFINE P == PartsIn(peerSent)
           L == LegalIn(peerSent)
           l == route.layer
           h == Head(frame)
           b == Head(inbox)
           message == fragments \o b.pieces
<1>1. /\ frame # <<>> /\ inbox # <<>> /\ inbox' = Tail(inbox) /\ frame' = <<>>
      /\ UNCHANGED <<route, peerSent, want, reader, count, got, cuts>>
  BY DEF ReadFrameBody, dialVars
<1>2. /\ route.ws /\ inbox \in Seq(P) /\ frame \in Seq(P) /\ Len(frame) <= 1
      /\ fragments \in Seq(L)
  BY <1>1 DEF StreamTypes
<1>3. frame = <<h>> /\ h \in P BY <1>1, <1>2, Single
<1>4. pending = <<>> BY <1>1, <1>2 DEF InStep, FramesInStep
<1> DEFINE w == <<h>> \o inbox
<1>5. w \in Seq(P) /\ w # <<>> /\ w[1] = h /\ Head(w) = h /\ Tail(w) = inbox
  BY <1>2, <1>3, Behind
<1>6. PICK x, y \in Nat : /\ Line(l, pending, Used, x)
                          /\ Line(l, fragments, x, y)
                          /\ Carries(l, w, y, AllSent)
  BY <1>2, <1>3 DEF InStep, FramesInStep
<1>7. Framed(w) BY <1>2, <1>3 DEF InStep, FramesInStep
<1> HIDE DEF w, h, b
<1>8. /\ IsHead(h) /\ b \in P /\ b.part = "body" /\ (h.op = "ping" => b.pieces = <<>>)
      /\ inbox' \in Seq(P) /\ Framed(inbox')
  BY <1>1, <1>5, <1>7, FramedRest DEF b
<1>9. PICK y1 \in Nat : Line(l, h.pieces, y, y1) /\ Carries(l, inbox, y1, AllSent)
  BY <1>5, <1>6, CarriesRest
<1>10. y1 = y
  <2>1. h.pieces = <<>> BY <1>8 DEF IsHead
  <2>2. Len(<<>>) = 0 /\ Len(h.pieces) = y1 - y BY <1>9 DEF Line
  <2> QED BY <2>1, <2>2
<1>11. PICK y2 \in Nat : Line(l, b.pieces, y, y2) /\ Carries(l, inbox', y2, AllSent)
  BY <1>1, <1>2, <1>9, <1>10, CarriesRest DEF b
<1>12. Used' = Used /\ AllSent' = AllSent BY <1>1 DEF Used, AllSent
<1>13. ReaderInStep' BY <1>1, <1>12 DEF InStep, ReaderInStep
<1>14. Used \in Nat /\ x = Used
  <2>1. Len(pending) = x - Used /\ Len(<<>>) = 0 BY <1>6 DEF Line
  <2>2. Used \in Nat
    <3>1. l \in Layers BY <1>1 DEF DialInv, DialTypeOK, Layers, StreamTypes, Untouched
    <3> QED BY <3>1, UsedIsNat DEF InStep
  <2> QED BY <1>4, <2>1, <2>2
<1>15. Line(l, message, Used, y2) BY <1>6, <1>11, <1>14, LineGoesOn
<1>16. frame' \o inbox' = inbox'
  <2>1. \A s \in Seq(P) : <<>> \o s = s OBVIOUS
  <2> QED BY <1>1, <1>8, <2>1
<1>17. Framed(frame' \o inbox') /\ Carries(l, frame' \o inbox', y2, AllSent)
  BY <1>8, <1>11, <1>16
<1>18. CASE h.op = "ping" /\ UNCHANGED <<pending, fragments>>
  <2>1. y2 = y
    <3>1. Len(<<>>) = 0 /\ Len(b.pieces) = y2 - y BY <1>11 DEF Line
    <3> QED BY <1>8, <1>18, <3>1
  <2>2. FramesInStep' BY <1>1, <1>6, <1>12, <1>17, <1>18, <2>1 DEF FramesInStep, l
  <2> QED BY <1>1, <1>2, <1>13, <2>2 DEF InStep
<1>19. CASE /\ pending' = IF h.fin THEN message ELSE <<>>
            /\ fragments' = IF h.fin THEN <<>> ELSE message
  <2> HIDE DEF message
  <2>1. CASE h.fin
    <3>1. pending' = message /\ fragments' = <<>> BY <1>19, <2>1
    <3>2. Line(l, <<>>, y2, y2) BY EmptyLine
    <3>3. FramesInStep' BY <1>1, <1>12, <1>15, <1>17, <3>1, <3>2 DEF FramesInStep, l
    <3> QED BY <1>1, <1>2, <1>13, <3>3 DEF InStep
  <2>2. CASE ~h.fin
    <3>1. pending' = <<>> /\ fragments' = message BY <1>19, <2>2
    <3>2. Line(l, <<>>, Used, Used) BY <1>14, EmptyLine
    <3>3. FramesInStep' BY <1>1, <1>12, <1>14, <1>15, <1>17, <3>1, <3>2 DEF FramesInStep, l
    <3> QED BY <1>1, <1>2, <1>13, <3>3 DEF InStep
  <2> QED BY <2>1, <2>2
<1> QED BY <1>18, <1>19 DEF ReadFrameBody, h, b

\* As long as nothing is cut, every step leaves the reader in step.
LEMMA InStepKept ==
    ASSUME DialInv, StreamTypes, StreamNext, cuts = 0 /\ ~lost => InStep
    PROVE  cuts' = 0 /\ ~lost' => InStep'
<1> SUFFICES ASSUME cuts' = 0, ~lost' PROVE InStep' OBVIOUS
<1>1. UNCHANGED lost /\ cuts' \in {cuts, cuts + 1} /\ cuts \in Nat
  <2>1. UNCHANGED lost
    BY DEF StreamNext, PeerSend, Read, ReceiveRaw, ReceivePending, ReadFrameHead, ReadFrameBody,
           CutRead, WritePong, Write, WritePart, CutWrite, WriteXAEAD, dialVars
  <2>2. cuts' \in {cuts, cuts + 1}
    BY DEF StreamNext, PeerSend, Read, ReceiveRaw, ReceivePending, ReadFrameHead, ReadFrameBody,
           CutRead, WritePong, Write, WritePart, CutWrite, WriteXAEAD, readVars, streamVars
  <2> QED BY <2>1, <2>2 DEF StreamTypes
<1>2. InStep /\ ~lost BY <1>1
<1>3. CutRead => FALSE BY <1>1 DEF CutRead
<1>4. CASE UNCHANGED <<route, readVars, peerSent>>
  BY <1>2, <1>4 DEF InStep, ReaderInStep, FramesInStep, Used, AllSent, readVars
<1>5. WritePong \/ Write \/ WritePart \/ CutWrite \/ WriteXAEAD
          => UNCHANGED <<route, readVars, peerSent>>
  BY DEF WritePong, Write, WritePart, CutWrite, WriteXAEAD, streamVars, dialVars
<1>6. PeerSend => InStep' BY <1>2, SendInStep
<1>7. Read => InStep' BY <1>2, ReadInStep
<1>8. ReceiveRaw \/ ReceivePending => InStep' BY <1>2, PiecesInStep
<1>9. ReadFrameHead => InStep' BY <1>2, HeadInStep
<1>10. ReadFrameBody => InStep' BY <1>2, BodyInStep
<1> QED BY <1>3, <1>4, <1>5, <1>6, <1>7, <1>8, <1>9, <1>10 DEF StreamNext

\* The invariant holds in each step of the tunnel.
LEMMA StreamStep ==
    ASSUME DialInv, StreamInv, StreamNext
    PROVE  StreamInv'
<1>1. StreamTypes' BY StreamTypesKept DEF StreamInv
<1>2. cuts' = 0 /\ ~lost' => InStep' BY InStepKept DEF StreamInv
<1>3. UNCHANGED route
  BY DEF StreamNext, PeerSend, Read, ReceiveRaw, ReceivePending, ReadFrameHead, ReadFrameBody,
         CutRead, WritePong, Write, WritePart, CutWrite, WriteXAEAD, dialVars
<1>4. route.layer \in {"vmess", "aead"} => SealedOrder' BY SealedKept DEF StreamInv
<1>5. route.layer \in {"plain", "stream"} /\ ~route.ws => RawOrder' BY RawKept DEF StreamInv
<1> QED BY <1>1, <1>2, <1>3, <1>4, <1>5 DEF StreamInv

\* It holds as long as nothing was sent or read.
LEMMA UntouchedInStep == DialInv /\ Untouched => StreamInv
<1> SUFFICES ASSUME DialInv, Untouched PROVE StreamInv OBVIOUS
<1> DEFINE l == route.layer
<1>1. /\ peerSent = 0 /\ inbox = <<>> /\ frame = <<>> /\ fragments = <<>> /\ pending = <<>>
      /\ want = <<>> /\ reader = "fresh" /\ count = 0 /\ got = <<>> /\ cuts = 0
  BY DEF Untouched
<1>2. /\ \A S : <<>> \in Seq(S)
      /\ Len(<<>>) = 0 /\ \A i \in 1..Len(<<>>) : FALSE
  OBVIOUS
<1>3. StreamTypes
  <2>1. got \in Seq(Nat) BY <1>1, <1>2
  <2>2. want \in Seq(PieceKinds) BY <1>1, <1>2
  <2>3. pending \in Seq(LegalIn(peerSent)) /\ fragments \in Seq(LegalIn(peerSent))
        /\ inbox \in Seq(LegalIn(peerSent)) /\ inbox \in Seq(PartsIn(peerSent))
        /\ frame \in Seq(PartsIn(peerSent)) /\ Len(frame) <= 1
    BY <1>1, <1>2
  <2> QED BY <1>1, <2>1, <2>2, <2>3 DEF StreamTypes
<1>4. EndOf(l, 0) = 0 /\ EndOf(l, 0 + 1) \in Nat
  <2>1. l \in {"plain", "vmess", "aead", "xaead", "stream"} BY DEF DialInv, DialTypeOK
  <2> QED BY <2>1 DEF EndOf, Before
<1>5. Used = 0 /\ AllSent = 0 /\ Opened(l, 0) = 0
  <2>1. Used = EndOf(l, 0) - 0 /\ AllSent = EndOf(l, 0) BY <1>1, <1>2 DEF Used, AllSent
  <2> QED BY <1>4, <2>1 DEF Opened
<1>6. ReaderInStep
  <2>1. Len(want) <= EndOf(l, Len(got) + 1) - EndOf(l, Len(got)) BY <1>1, <1>2, <1>4
  <2> QED BY <1>1, <1>2, <1>5, <2>1 DEF ReaderInStep
<1>7. Line(l, <<>>, 0, 0) BY EmptyLine
<1>8. FramesInStep
  <2>1. frame \o inbox = <<>> BY <1>1
  <2>2. Framed(<<>>) /\ Carries(l, <<>>, 0, 0) BY NoFrames
  <2> QED BY <1>1, <1>5, <1>7, <2>1, <2>2 DEF FramesInStep
<1>9. InStep BY <1>1, <1>5, <1>6, <1>7, <1>8 DEF InStep
<1>10. Genuine BY <1>1, <1>2 DEF Genuine
<1>11. SealedOrder BY <1>1, <1>2, <1>10 DEF SealedOrder
<1>12. RawOrder
  <2>1. Past = 0
    <3>1. Len(inbox) = 0 BY ONLY <1>1, <1>2
    <3> QED BY ONLY <1>5, <3>1 DEF Past
  <2> QED BY <1>1, <1>2, <1>5, <1>7, <1>10, <2>1 DEF RawOrder
<1> QED BY <1>3, <1>9, <1>11, <1>12 DEF StreamInv

\* A dial does not touch the tunnel before it returns, and has ended then.
LEMMA DialLeavesStream ==
    ASSUME DialInv, StreamInv, DialNext, UNCHANGED streamVars
    PROVE  StreamInv' \/ Untouched'
<1>1. CASE phase # "returned"
  <2>1. Untouched BY <1>1 DEF StreamInv, StreamTypes
  <2> QED BY <2>1 DEF Untouched, streamVars, readVars
<1>2. CASE phase = "returned"
  <2>1. UNCHANGED <<route, phase, lost>>
    BY <1>2 DEF DialNext, Dialing, NewDialer, Check, DialTCP, BeginIO, TakeResult, TakeDone, Drained,
           WriteSalt, Return, HelperTimesOut, InterruptTLS, HandshakeTLS, ServerAnswers,
           ServerFails, SkipAddress, ContextEnds, HelperEnds, At
  <2>2. UNCHANGED <<readVars, peerSent>> BY DEF streamVars
  <2> QED BY <2>1, <2>2 DEF StreamInv, StreamTypes, Untouched, InStep, ReaderInStep, FramesInStep,
        SealedOrder, RawOrder, Genuine, Past, Used, AllSent, readVars
<1> QED BY <1>1, <1>2

\* What was read is what was sent, as far as the program can promise it.
LEMMA StreamDelivers == DialInv /\ StreamInv => DeliveredInOrder
<1> SUFFICES ASSUME DialInv, StreamInv PROVE DeliveredInOrder OBVIOUS
<1>1. /\ got \in Seq(Nat) /\ DOMAIN got = 1..Len(got) /\ Len(got) \in Nat /\ peerSent \in Nat
      /\ cuts \in Nat
  BY SeqFacts DEF StreamInv, StreamTypes
<1>2. ASSUME cuts = 0, ~lost
      PROVE  (\A i \in 1..Len(got) : got[i] = i) /\ Len(got) <= peerSent
  BY <1>2 DEF StreamInv, InStep, ReaderInStep
<1>3. ASSUME ~(route.ws /\ route.layer = "plain" /\ cuts > 0) PROVE Genuine
  <2>1. CASE route.layer \in {"vmess", "aead"} BY <2>1 DEF StreamInv, SealedOrder
  <2>2. CASE route.layer \in {"plain", "stream"} /\ ~route.ws BY <2>2 DEF StreamInv, RawOrder
  <2>3. CASE route.layer \in {"plain", "stream"} /\ route.ws
    <3>1. route.layer = "plain" /\ cuts = 0 BY <1>1, <1>3, <2>3 DEF DialInv
    <3>2. ~lost BY <2>3 DEF DialInv, NoRoute
    <3> QED BY <1>1, <1>2, <3>1, <3>2 DEF Genuine
  <2>4. CASE route.layer = "xaead"
    <3>1. got = <<>> BY <2>4 DEF StreamInv, StreamTypes, Untouched
    <3>2. \A i \in 1..Len(<<>>) : FALSE OBVIOUS
    <3> QED BY <3>1, <3>2 DEF Genuine
  <2> QED BY <2>1, <2>2, <2>3, <2>4 DEF DialInv, DialTypeOK
<1> QED BY <1>1, <1>2, <1>3 DEF DeliveredInOrder, Genuine

\* The invariant of the tunnel, from which what Read returns follows.
THEOREM StreamKeeps == TunnelSpec => []StreamInv
<1>1. TunnelInit => Untouched BY DEF TunnelInit, Untouched
<1>2. DialInv /\ StreamInv /\ [(DialNext /\ UNCHANGED streamVars) \/ StreamNext]_tunnelVars
          => StreamInv' \/ Untouched'
  <2> SUFFICES ASSUME DialInv, StreamInv, [(DialNext /\ UNCHANGED streamVars) \/ StreamNext]_tunnelVars
               PROVE  StreamInv' \/ Untouched'
    OBVIOUS
  <2>1. CASE UNCHANGED tunnelVars
    BY <2>1 DEF tunnelVars, dialVars, streamVars, readVars, StreamInv, StreamTypes, Untouched, InStep,
        ReaderInStep, FramesInStep, SealedOrder, RawOrder, Genuine, Past, Used, AllSent
  <2> QED BY <2>1, StreamStep, DialLeavesStream
<1> QED BY <1>1, <1>2, UntouchedInStep, DialKeeps, PTL DEF TunnelSpec

\* Read returns the units of the server in order, whatever frames they come in:
\* none is missing when no Read was cut and nothing came with the reply to
\* CONNECT, and none is made up or repeated unless unsealed payload in frames
\* was cut.
THEOREM UnitsInOrder == TunnelSpec => []DeliveredInOrder
BY DialKeeps, StreamKeeps, StreamDelivers, PTL
-----------------------------------------------------------------------------
(* The tunnel as an ordered stream.                                        *)

\* What OrderedStream calls damaged and garbled.
Damaged == phase = "returned" /\ ~(cuts = 0 /\ ~lost)
Garbled == Damaged /\ route.ws /\ route.layer = "plain"

\* Only a piece that completes a unit adds one to what was read.
LEMMA GotGrows ==
    ASSUME DialInv, StreamInv, StreamNext, got' # got
    PROVE  /\ \E u \in Nat : got' = Append(got, u)
           /\ UNCHANGED <<peerSent, route, phase, cuts, lost>>
<1>1. ReceiveRaw \/ ReceivePending
  BY DEF StreamNext, PeerSend, Read, ReadFrameHead, ReadFrameBody, CutRead, WritePong, Write,
         WritePart, CutWrite, WriteXAEAD, readVars, streamVars
<1>2. want # <<>> /\ UNCHANGED <<peerSent, route, phase, cuts, lost>>
  BY <1>1 DEF ReceiveRaw, ReceivePending, dialVars
<1>3. PICK piece \in LegalIn(peerSent) : Receive(piece)
  <2>1. CASE ReceiveRaw
    <3>1. inbox # <<>> /\ inbox \in Seq(LegalIn(peerSent)) /\ Receive(Head(inbox))
      BY <2>1 DEF ReceiveRaw, StreamInv, StreamTypes
    <3> QED BY <3>1
  <2>2. CASE ReceivePending
    <3>1. pending # <<>> /\ pending \in Seq(LegalIn(peerSent)) /\ Receive(Head(pending))
      BY <2>2 DEF ReceivePending, StreamInv, StreamTypes
    <3> QED BY <3>1
  <2> QED BY <1>1, <2>1, <2>2
<1>4. got' \in {got, Append(got, UnitOf(piece))} BY <1>2, <1>3, ReceiveCases DEF StreamInv
<1>5. UnitOf(piece) \in Nat BY UnitIsNat DEF StreamInv, StreamTypes
<1> QED BY <1>2, <1>4, <1>5

\* A sequence with one element more.
LEMMA OneMore ==
    ASSUME NEW S, NEW s \in Seq(S), NEW u \in S
    PROVE  LET t == Append(s, u)
           IN  /\ t \in Seq(S) /\ Len(t) = Len(s) + 1 /\ DOMAIN t = 1..(Len(s) + 1)
               /\ \A i \in 1..Len(s) : t[i] = s[i]
               /\ t[Len(s) + 1] = u
OBVIOUS

\* A step that adds a unit delivers it, or has misread it.
LEMMA GrowthIsDelivery ==
    ASSUME DialInv, StreamInv, StreamNext, DeliveredInOrder', got' # got
    PROVE  Stream!Deliver \/ Stream!Misread
<1>1. PICK u \in Nat : got' = Append(got, u) BY GotGrows
<1>2. UNCHANGED <<peerSent, route, phase, cuts, lost>> BY GotGrows
<1>3. /\ got \in Seq(Nat) /\ Len(got) \in Nat /\ DOMAIN got = 1..Len(got)
      /\ peerSent \in Nat /\ cuts \in Nat
  BY SeqFacts DEF StreamInv, StreamTypes
<1>4. /\ Len(got') = Len(got) + 1 /\ DOMAIN got' = 1..(Len(got) + 1)
      /\ \A i \in 1..Len(got) : got'[i] = got[i]
      /\ got'[Len(got) + 1] = u
  <2> DEFINE t == Append(got, u)
  <2>1. /\ Len(t) = Len(got) + 1 /\ DOMAIN t = 1..(Len(got) + 1)
        /\ \A i \in 1..Len(got) : t[i] = got[i]
        /\ t[Len(got) + 1] = u
    BY <1>3, OneMore
  <2>2. got' = t BY <1>1
  <2> HIDE DEF t
  <2> QED BY <2>1, <2>2
<1>5. CASE Garbled
  BY <1>2, <1>3, <1>4, <1>5 DEF Stream!Misread, Garbled, Damaged
<1>6. CASE ~Garbled
  <2>1. phase = "returned"
    <3>1. got # <<>> \/ want # <<>> => phase = "returned" BY DEF StreamInv, StreamTypes, Untouched
    <3>2. want # <<>>
      BY DEF StreamNext, PeerSend, Read, ReceiveRaw, ReceivePending, ReadFrameHead, ReadFrameBody,
             CutRead, WritePong, Write, WritePart, CutWrite, WriteXAEAD, readVars, streamVars
    <3> QED BY <3>1, <3>2
  <2>2. ~(route.ws /\ route.layer = "plain" /\ cuts > 0)
    BY <1>3, <1>6, <2>1 DEF Garbled, Damaged
  <2>3. /\ \A i \in 1..(Len(got) + 1) : got'[i] \in 1..peerSent
        /\ \A i, j \in 1..(Len(got) + 1) : i < j => got'[i] < got'[j]
        /\ cuts = 0 /\ ~lost => \A i \in 1..(Len(got) + 1) : got'[i] = i
    BY <1>2, <1>4, <2>2 DEF DeliveredInOrder
  <2>4. Len(got) + 1 \in 1..(Len(got) + 1) BY <1>3
  <2>5. u \in 1..peerSent BY <1>4, <2>3, <2>4
  <2>6. \A i \in DOMAIN got : got[i] < u
    <3> SUFFICES ASSUME NEW i \in 1..Len(got) PROVE got[i] < u BY <1>3
    <3>1. i \in 1..(Len(got) + 1) /\ i < Len(got) + 1 BY <1>3
    <3> QED BY <1>4, <2>3, <2>4, <3>1
  <2>7. ~Damaged => u = Len(got) + 1 BY <1>4, <2>1, <2>3, <2>4 DEF Damaged
  <2> QED BY <1>1, <1>2, <2>1, <2>5, <2>6, <2>7 DEF Stream!Deliver, Damaged
<1> QED BY <1>5, <1>6

\* Where no unit is added, a step sends one, damages the stream, or leaves it alone.
LEMMA OtherSteps ==
    ASSUME DialInv, StreamInv, got' = got,
           StreamNext \/ (DialNext /\ UNCHANGED streamVars) \/ UNCHANGED tunnelVars
    PROVE  Stream!Send \/ Stream!Damage \/ UNCHANGED Stream!svars
<1> DEFINE s == IF phase # "returned" \/ (cuts = 0 /\ ~lost) THEN "whole"
                ELSE IF route.ws /\ route.layer = "plain" THEN "garbled" ELSE "gaps"
<1>1. /\ Stream!Send <=> peerSent' = peerSent + 1 /\ UNCHANGED <<got, s>>
      /\ Stream!Damage <=> s = "whole" /\ s' \in {"gaps", "garbled"} /\ UNCHANGED <<peerSent, got>>
      /\ UNCHANGED Stream!svars <=> UNCHANGED <<peerSent, got, s>>
  BY DEF Stream!Send, Stream!Damage, Stream!svars
<1>2. s \in {"whole", "gaps", "garbled"} /\ s' \in {"whole", "gaps", "garbled"} OBVIOUS
<1>3. CASE PeerSend
  <2>1. peerSent' = peerSent + 1 /\ UNCHANGED <<phase, cuts, lost, route>>
    BY <1>3 DEF PeerSend, dialVars
  <2> QED BY <1>1, <2>1
<1>4. CASE peerSent' = peerSent /\ UNCHANGED <<phase, lost, route>> /\ cuts' \in {cuts, cuts + 1}
  <2>1. cuts \in Nat BY DEF StreamInv, StreamTypes
  <2>2. s' = s \/ s = "whole" BY <1>4, <2>1
  <2> QED BY <1>1, <1>2, <1>4, <2>2
<1>5. StreamNext /\ ~PeerSend
          => peerSent' = peerSent /\ UNCHANGED <<phase, lost, route>> /\ cuts' \in {cuts, cuts + 1}
  BY DEF StreamNext, Read, ReceiveRaw, ReceivePending, ReadFrameHead, ReadFrameBody,
         CutRead, WritePong, Write, WritePart, CutWrite, WriteXAEAD, readVars, streamVars, dialVars
<1>6. CASE DialNext /\ UNCHANGED streamVars
  <2>1. UNCHANGED <<peerSent, cuts>> BY <1>6 DEF streamVars, readVars
  <2>2. CASE phase # "returned"
    <3>1. s = "whole" BY <2>2
    <3> QED BY <1>1, <1>2, <2>1, <3>1
  <2>3. CASE phase = "returned"
    <3>1. UNCHANGED <<route, phase, lost>>
      BY <1>6, <2>3 DEF DialNext, Dialing, NewDialer, Check, DialTCP, BeginIO, TakeResult, TakeDone,
             Drained, WriteSalt, Return, HelperTimesOut, InterruptTLS, HandshakeTLS, ServerAnswers,
             ServerFails, SkipAddress, ContextEnds, HelperEnds, At
    <3> QED BY <1>4, <2>1, <3>1
  <2> QED BY <2>2, <2>3
<1>7. CASE UNCHANGED tunnelVars
  <2>1. UNCHANGED <<peerSent, phase, lost, route, cuts>>
    BY <1>7 DEF tunnelVars, streamVars, readVars, dialVars
  <2> QED BY <1>4, <2>1
<1> QED BY <1>3, <1>4, <1>5, <1>6, <1>7

\* The tunnel implements an ordered stream: for any number of units, every step
\* of the dialer, the server, the reader and the writer is one of its steps.
THEOREM TunnelIsAStream == TunnelSpec => ImplementsOrderedStream
<1>1. TunnelInit => Stream!SInit
  BY DEF TunnelInit, DialInit, Stream!SInit
<1>2. DialInv /\ StreamInv /\ DeliveredInOrder'
          /\ [(DialNext /\ UNCHANGED streamVars) \/ StreamNext]_tunnelVars
          => [Stream!SNext]_(Stream!svars)
  <2> SUFFICES ASSUME DialInv, StreamInv, DeliveredInOrder',
                      [(DialNext /\ UNCHANGED streamVars) \/ StreamNext]_tunnelVars
               PROVE  [Stream!SNext]_(Stream!svars)
    OBVIOUS
  <2>1. CASE got' = got
    <3>1. StreamNext \/ (DialNext /\ UNCHANGED streamVars) \/ UNCHANGED tunnelVars OBVIOUS
    <3> QED BY <2>1, <3>1, OtherSteps DEF Stream!SNext
  <2>2. CASE got' # got
    <3>1. StreamNext BY <2>2 DEF tunnelVars, streamVars, readVars
    <3> QED BY <2>2, <3>1, GrowthIsDelivery DEF Stream!SNext
  <2> QED BY <2>1, <2>2
<1> QED BY <1>1, <1>2, DialKeeps, StreamKeeps, UnitsInOrder, PTL
      DEF TunnelSpec, ImplementsOrderedStream, Stream!SSpec
==============================================================================
