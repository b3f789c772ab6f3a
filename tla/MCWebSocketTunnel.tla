-------------------------- MODULE MCWebSocketTunnel --------------------------
(* WebSocketTunnel for TLC: URLs, nonces, payloads and what a peer sends.  *)
EXTENDS WebSocketTunnelProps, TLC, FiniteSets
CONSTANTS s1, s2
TwoSenders == {s1, s2}

MCMasks == { <<21, 10>> }
Byte(n) == [i \in 1 .. n |-> (7 * i) % 32]
MCPayloads == s1 :> {Byte(14)} @@ s2 :> {Byte(17)}
MCCuts == {3}

\* A frame of the peer, masked or not, framed without the code's encoder.
RfcLengthBytes(n) ==
  IF n < Short THEN <<n>> ELSE IF n <= ShortMax THEN <<Short, n>> ELSE <<Long, n \div 32, n % 32>>
PeerFrame(fin, op, payload) == <<fin + op>> \o RfcLengthBytes(Len(payload)) \o payload
MaskedFrame(op, payload) ==
  LET mask == <<3, 30>>
  IN <<TopBit + op>> \o [RfcLengthBytes(Len(payload)) EXCEPT ![1] = @ + TopBit] \o mask
       \o [i \in DOMAIN payload |-> Xor(payload[i], mask[((i - 1) % 2) + 1])]
Final == TopBit

MCStreams == {
  PeerFrame(Final, TextOp, Byte(14)) \o PeerFrame(Final, BinaryOp, <<>>),
  PeerFrame(Final, TextOp, Byte(17)),
  PeerFrame(Final, PingOp, Byte(2)) \o PeerFrame(Final, TextOp, Byte(1)) \o PeerFrame(Final, PingOp, <<>>),
  PeerFrame(0, TextOp, Byte(1)) \o PeerFrame(Final, ContinuationOp, Byte(2)) \o PeerFrame(Final, TextOp, Byte(3)),
  MaskedFrame(TextOp, Byte(3)) \o MaskedFrame(PingOp, Byte(3)),
  PeerFrame(Final, PongOp, Byte(1)) \o PeerFrame(Final, CloseOp, CloseReason) \o PeerFrame(Final, TextOp, Byte(1)) }

\* URLs by their parts, and some that have no host or no number for a port.
Schemes == SecureSchemes \cup PlainSchemes
Hosts == { <<"a">>, <<"a", "8">>, <<"[", ":", "8", "]">> }
Ports == { <<>>, <<":", "8", "0">>, <<":", "4", "0", "8", "0", "a">> }
Paths == { <<>>, <<"/">>, <<"/", "a", ":", "8">>, <<"/", "]", "/">> }
Parts == [scheme : Schemes, host : Hosts, port : Ports, path : Paths]
UrlOf(p) == <<p.scheme>> \o p.host \o p.port \o p.path
Malformed == { <<>>, <<"a">>, <<"ws://">>, <<"ws://", "/", "a">>, <<"ws://", ":", "8">>,
               <<"ws://", "a", ":">>, <<"ws://", "a", ":", "a">> }
MCUrls == { UrlOf(p) : p \in Parts } \cup Malformed
MCKeys == { [i \in 1 .. 16 |-> (37 * i) % 256], [i \in 1 .. 16 |-> 255] }
=============================================================================
