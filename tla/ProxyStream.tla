----------------------------- MODULE ProxyStream -----------------------------
(***************************************************************************)
(* internal/proxy: the tunnel that DialContext returned, as a net.Conn     *)
(* used by one goroutine that reads and one that writes (those of          *)
(* http.Transport).  Payload is a sequence of numbered units.  A layer     *)
(* wraps a unit in pieces: a vmess or shadowsocks chunk, after the header  *)
(* or salt that opens each direction; the WebSocket transport wraps pieces *)
(* in frames.  A frame or chunk is read and written part by part, and a    *)
(* Read or Write may fail between two parts and be called again.           *)
(***************************************************************************)
EXTENDS ProxyDial

CONSTANTS MaxUnits, \* bound on the units each side sends
          MaxFails  \* bound on the reads and writes that are interrupted

ASSUME StreamAssumption == MaxUnits \in Nat /\ MaxFails \in Nat

\* A piece of kind k; sealed pieces carry the nonce n they were sealed with.
Piece(kind, n) == [k |-> kind, n |-> n]
Junk == Piece("junk", 0)

VMessChunk(i) == <<Piece("length", 0), Piece("body", i)>>
AEADChunk(i)  == <<Piece("sealedLength", 2 * i - 1), Piece("sealedBody", 2 * i)>>

Chunk(layer, i) ==
    CASE layer = "vmess" -> VMessChunk(i)
      [] layer = "aead" -> AEADChunk(i)
      [] layer \in {"plain", "stream"} -> <<Piece("data", i)>>

\* What the server sends before the first chunk.
VMessHeader == <<Piece("headerLength", 0), Piece("header", 0)>>
Salt        == <<Piece("salt", 0)>>

ReplyHeader(layer) ==
    CASE layer = "vmess" -> VMessHeader
      [] layer \in {"aead", "stream"} -> Salt
      [] layer = "plain" -> <<>>

\* The writes to the transport that a Write of one unit takes, after the writes
\* of the header or of the target's address, once.
VMessWrites(first) == (IF first THEN 1 ELSE 0) + 2
AEADWrites(first)  == IF first THEN 4 ELSE 2
Writes(layer, first) ==
    CASE layer = "vmess" -> VMessWrites(first)
      [] layer = "aead" -> AEADWrites(first)
      [] layer = "stream" -> IF first THEN 2 ELSE 1
      [] layer = "plain" -> 1

UnitOf(piece) == IF piece.k = "sealedBody" THEN piece.n \div 2 ELSE piece.n

\* The two reads, or writes, that a WebSocket frame takes.
FrameHead(op, fin) == [part |-> "head", op |-> op, fin |-> fin, pieces |-> <<>>]
FrameBody(pieces)  == [part |-> "body", op |-> "", fin |-> FALSE, pieces |-> pieces]
Ping == <<FrameHead("ping", TRUE), FrameBody(<<>>)>>

\* A server sends a message whole, or in two frames, perhaps with a ping between.
Framings(pieces) ==
    {<<FrameHead("binary", TRUE), FrameBody(pieces)>>}
    \cup {<<FrameHead("binary", FALSE), FrameBody(<<Head(pieces)>>)>> \o ping
             \o <<FrameHead("continuation", TRUE), FrameBody(Tail(pieces))>> :
          ping \in {<<>>, Ping}}

VARIABLES
    inbox,    \* what the server sent and nobody has read
    peerSent, \* the units that the server has sent
    frame,    \* the frame head that readFrame has read, as a sequence of at most one
    fragments,\* wsConn.fragments
    pending,  \* wsConn.pending: pieces received and not read by the layer above
    want,     \* the kinds of piece the running Read still has to read
    reader,   \* "fresh", "opened" (headerRead, once) or "failed": every Read fails from now on
    count,    \* the nonces the reader has used
    got,      \* the units that Read has returned
    cuts,     \* interrupted reads
    pong,     \* what the reading goroutine has still to write of a pong
    headerSent, \* vmessConn.sent, ssConn.sent
    toWrite,  \* what the running Write has still to write
    written,  \* the units given to Write
    failed,   \* interrupted writes
    wire      \* every write to the connection: by whom, and which part of what

readVars   == <<inbox, frame, fragments, pending, want, reader, count, got, cuts>>
writeVars  == <<headerSent, toWrite, written, failed>>
streamVars == <<readVars, writeVars, peerSent, pong, wire>>
tunnelVars == <<dialVars, streamVars>>

TunnelInit ==
    /\ DialInit
    /\ inbox = <<>> /\ peerSent = 0 /\ frame = <<>> /\ fragments = <<>> /\ pending = <<>>
    /\ want = <<>> /\ reader = "fresh" /\ count = 0 /\ got = <<>> /\ cuts = 0
    /\ pong = <<>> /\ headerSent = FALSE /\ toWrite = <<>> /\ written = 0 /\ failed = 0
    /\ wire = <<>>

Open == outcome = "conn"

Kinds(pieces) == [i \in DOMAIN pieces |-> pieces[i].k]

\* The server sends the next unit.  What came with the reply to CONNECT is lost.
PeerSend ==
    /\ Open
    /\ route.layer # "xaead"
    /\ peerSent < MaxUnits
    /\ peerSent' = peerSent + 1
    /\ LET pieces == (IF peerSent = 0 THEN ReplyHeader(route.layer) ELSE <<>>)
                        \o Chunk(route.layer, peerSent')
       IN  IF lost /\ peerSent = 0 THEN UNCHANGED inbox
           ELSE \E f \in IF route.ws THEN Framings(pieces) ELSE {pieces} : inbox' = inbox \o f
    /\ UNCHANGED <<dialVars, frame, fragments, pending, want, reader, count, got, cuts,
                   writeVars, pong, wire>>

\* headerRead and once are set before the header or the salt is read.
Read ==
    /\ Open
    /\ route.layer # "xaead"
    /\ want = <<>>
    /\ reader # "failed"
    /\ want' = Kinds((IF reader = "fresh" THEN ReplyHeader(route.layer) ELSE <<>>)
                        \o Chunk(route.layer, 1))
    /\ reader' = "opened"
    /\ UNCHANGED <<dialVars, inbox, frame, fragments, pending, count, got, cuts, writeVars,
                   peerSent, pong, wire>>

\* The Read that runs returns an error; a frame head it had read is forgotten.
ReadFails ==
    /\ want' = <<>>
    /\ frame' = <<>>
    /\ reader' = IF Head(want) = "salt" THEN "failed" ELSE reader  \* initErr

\* The layer above the transport gets a piece.  A piece of the wrong kind is
\* misread: the reader is then in the middle of it for ever, or, when it was as
\* long as what was read, behind it (a body of 18 bytes read as a length).  A
\* sealed piece opens only with its own nonce; the nonce is used up anyway.
Receive(piece) ==
    LET sealed == Head(want) \in {"body", "sealedLength", "sealedBody"}
        fits   == Head(want) = "data" \/ piece.k = Head(want)
        opens  == fits /\ (sealed => piece.n = count + 1)
    IN  /\ count' \in IF sealed THEN {count + 1} ELSE IF fits THEN {count} ELSE {count, count + 1}
        /\ \/ /\ opens
              /\ want' = Tail(want)
              /\ got' = IF Len(want) = 1 THEN Append(got, UnitOf(piece)) ELSE got
              /\ UNCHANGED <<frame, reader>>
           \/ ~opens /\ ReadFails /\ UNCHANGED got
           \/ ~fits /\ want' = <<>> /\ frame' = <<>> /\ reader' = "failed" /\ UNCHANGED got

ReceiveRaw ==
    /\ want # <<>>
    /\ ~route.ws
    /\ inbox # <<>>
    /\ Receive(Head(inbox))
    /\ inbox' = Tail(inbox)
    /\ UNCHANGED <<dialVars, fragments, pending, cuts, writeVars, peerSent, pong, wire>>

ReceivePending ==
    /\ want # <<>>
    /\ pending # <<>>
    /\ Receive(Head(pending))
    /\ pending' = Tail(pending)
    /\ UNCHANGED <<dialVars, inbox, fragments, cuts, writeVars, peerSent, pong, wire>>

\* readFrame reads the head of a frame.  After a Read that was cut between head
\* and body it takes the body for a head, and what follows for payload.
ReadFrameHead ==
    /\ want # <<>> /\ route.ws /\ pending = <<>> /\ pong = <<>> /\ frame = <<>>
    /\ inbox # <<>>
    /\ inbox' = Tail(inbox)
    /\ IF Head(inbox).part = "head"
       THEN frame' = <<Head(inbox)>> /\ UNCHANGED <<want, reader, pending>>
       ELSE \/ pending' = <<Junk>> /\ UNCHANGED <<want, reader, frame>>
            \/ ReadFails /\ UNCHANGED pending
    /\ UNCHANGED <<dialVars, fragments, count, got, cuts, writeVars, peerSent, pong, wire>>

\* Mutant: the fragments are kept when the message is complete.
ReadFrameBodyKeeping ==
    /\ want # <<>>
    /\ frame # <<>>
    /\ inbox # <<>>
    /\ inbox' = Tail(inbox)
    /\ frame' = <<>>
    /\ LET head == Head(frame)
           message == fragments \o Head(inbox).pieces
       IN  \/ /\ head.op = "ping"
              /\ pong' = <<"head", "body">>
              /\ UNCHANGED <<pending, fragments>>
           \/ /\ head.op \in {"binary", "continuation"}
              /\ pending' = IF head.fin THEN message ELSE <<>>
              /\ fragments' = IF Len(fragments) = 0 /\ head.fin THEN <<>> ELSE message
              /\ UNCHANGED pong
    /\ UNCHANGED <<dialVars, want, reader, count, got, cuts, writeVars, peerSent, wire>>

\* ... and its body.  A ping is answered by the goroutine that reads.
ReadFrameBody ==
    /\ want # <<>>
    /\ frame # <<>>
    /\ inbox # <<>>
    /\ inbox' = Tail(inbox)
    /\ frame' = <<>>
    /\ LET head == Head(frame)
           message == fragments \o Head(inbox).pieces
       IN  \/ /\ head.op = "ping"
              /\ pong' = <<"head", "body">>
              /\ UNCHANGED <<pending, fragments>>
           \/ /\ head.op \in {"binary", "continuation"}
              /\ pending' = IF head.fin THEN message ELSE <<>>
              /\ fragments' = IF head.fin THEN <<>> ELSE message
              /\ UNCHANGED pong
    /\ UNCHANGED <<dialVars, want, reader, count, got, cuts, writeVars, peerSent, wire>>

\* A deadline of the caller cuts the running Read.
CutRead ==
    /\ want # <<>>
    /\ pong = <<>>
    /\ cuts + failed < MaxFails
    /\ cuts' = cuts + 1
    /\ ReadFails
    /\ UNCHANGED <<dialVars, inbox, fragments, pending, count, got, writeVars, peerSent, pong, wire>>

Emit(by, part) == wire' = Append(wire, [by |-> by, part |-> part])

WritePong ==
    /\ pong # <<>>
    /\ Emit("pong", Head(pong))
    /\ pong' = Tail(pong)
    /\ UNCHANGED <<dialVars, readVars, writeVars, peerSent>>

\* wsConn.Write writes a frame in two parts.
Parts(n) == IF route.ws THEN [i \in 1..(2 * n) |-> IF i % 2 = 1 THEN "head" ELSE "body"]
                        ELSE [i \in 1..n |-> "whole"]

\* It is set before the header is written, so the header is never written twice.
Write ==
    /\ Open
    /\ toWrite = <<>>
    /\ written < MaxUnits
    /\ route.layer # "xaead"
    /\ written' = written + 1
    /\ headerSent' = TRUE
    /\ toWrite' = Parts(Writes(route.layer, ~headerSent))
    /\ UNCHANGED <<dialVars, readVars, failed, peerSent, pong, wire>>

\* ssAEADWriter has room for a nonce of 12 bytes; one of 24 is out of range.
WriteXAEAD ==
    /\ Open
    /\ route.layer = "xaead"
    /\ outcome' = "panic"
    /\ UNCHANGED <<route, timed, ctx, todo, phase, helper, conn, deadline, lost, streamVars>>

WritePart ==
    /\ toWrite # <<>>
    /\ Emit("write", Head(toWrite))
    /\ toWrite' = Tail(toWrite)
    /\ UNCHANGED <<dialVars, readVars, headerSent, written, failed, peerSent, pong>>

CutWrite ==
    /\ toWrite # <<>>
    /\ cuts + failed < MaxFails
    /\ failed' = failed + 1
    /\ toWrite' = <<>>
    /\ UNCHANGED <<dialVars, readVars, headerSent, written, peerSent, pong, wire>>

StreamNext == \/ PeerSend \/ Read \/ ReceiveRaw \/ ReceivePending \/ ReadFrameHead
              \/ ReadFrameBody \/ CutRead \/ WritePong \/ Write \/ WriteXAEAD
              \/ WritePart \/ CutWrite

TunnelSpec ==
    /\ TunnelInit
    /\ [][(DialNext /\ UNCHANGED streamVars) \/ StreamNext]_tunnelVars
    /\ WF_tunnelVars(Dialing /\ UNCHANGED streamVars)

(***************************************************************************)
(* Properties.                                                             *)
(***************************************************************************)
\* Read returns the units that the server sent, in order and without a gap, for
\* every framing of them, but for bytes that came with the reply to CONNECT
\* (http.go:88 drops the buffer).  A Read that was cut may cost units, in some
\* layers all that follow, but what is returned stays genuine and in order,
\* except for unsealed payload in frames (ws.go:163 forgets the head it read).
DeliveredInOrder ==
    /\ cuts = 0 /\ ~lost => \A i \in DOMAIN got : got[i] = i
    /\ ~(route.ws /\ route.layer = "plain" /\ cuts > 0) =>
           /\ \A i \in DOMAIN got : got[i] \in 1..peerSent
           /\ \A i, j \in DOMAIN got : i < j => got[i] < got[j]

\* For its reader, a tunnel is an ordered stream, which the first Read that is cut
\* damages (ws.go:203, and the chunks of vmess and shadowsocks), or the loss of
\* what came with the reply to CONNECT (http.go:88).
Stream == INSTANCE OrderedStream WITH
              sent  <- peerSent,
              state <- IF phase # "returned" \/ (cuts = 0 /\ ~lost) THEN "whole"
                       ELSE IF route.ws /\ route.layer = "plain" THEN "garbled" ELSE "gaps"

\* Every step of the tunnel is one of the stream or changes none of its state.
ImplementsOrderedStream == Stream!SSpec

\* "wsConn implements net.Conn on top of WebSocket binary frames" (ws.go:89), and a
\* net.Conn may be read and written by two goroutines: a frame on the wire is
\* followed at once by its body, unless a write was interrupted.  The pong of the
\* goroutine that reads comes between the two writes of the other (ws.go:237).
FramesAreWhole ==
    failed = 0 =>
        \A i \in 1..(Len(wire) - 1) :
            wire[i].part = "head" => wire[i + 1] = [by |-> wire[i].by, part |-> "body"]
==============================================================================
