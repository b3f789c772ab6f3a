------------------------------ MODULE WsRequest ------------------------------
(***************************************************************************)
(* What CurlTransport asks the peer for: parseWsUrl(), base64Encode() and  *)
(* the parts of the upgrade request that depend on them.                   *)
(*                                                                         *)
(* A URL is a sequence of tokens: the scheme with its "://" is one, every  *)
(* character the parser looks at is one, "a" stands for all others (but    *)
(* white space and signs, which std::stoi() takes before a digit).         *)
(***************************************************************************)
EXTENDS Integers, Sequences, SequencesExt

SecureSchemes == {"wss://", "https://"}
PlainSchemes == {"ws://", "http://"}
DigitTokens == <<"0", "1", "2", "3", "4", "5", "6", "7", "8", "9">>
DigitValue == [d \in Range(DigitTokens) |-> CHOOSE n \in 0 .. 9 : DigitTokens[n + 1] = d]
Separators == {"/", ":", "[", "]"}
Characters == Separators \cup Range(DigitTokens) \cup {"a"}
IsUrl(u) ==
  /\ u \in Seq(SecureSchemes \cup PlainSchemes \cup Characters)
  /\ \A k \in 2 .. Len(u) : u[k] \in Characters

\* std::string's find() and rfind(), 0 for npos.
Find(s, c) == SelectInSeq(s, LAMBDA d : d = c)
RFind(s, c) == SelectLastInSeq(s, LAMBDA d : d = c)

\* The number that digits spell, and the largest int.
Decimal(digits) ==
  LET n[i \in 0 .. Len(digits)] ==
        IF i = 0 THEN 0 ELSE 10 * n[i - 1] + DigitValue[digits[i]]
  IN n[Len(digits)]
MaxInt == 2147483647

\* std::stoi() of what follows the colon: it throws when no digit leads it, and
\* when the leading digits are no int.
Throws == 0 - 1
FirstNonDigit(s) == SelectInSeq(s, LAMBDA c : c \notin DOMAIN DigitValue)
Stoi(s) ==
  LET end == FirstNonDigit(s)
      digits == IF end = 0 THEN s ELSE SubSeq(s, 1, end - 1)
  IN IF digits = <<>> \/ Decimal(digits) > MaxInt THEN Throws ELSE Decimal(digits)

Invalid == [port |-> Throws]        \* parseWsUrl() returned false

\* A parser that does not look for a bracket.
FaultyHostAndPort(hostPort) ==
  LET colon == RFind(hostPort, ":")
  IN IF colon = 0 THEN <<hostPort>>
     ELSE <<SubSeq(hostPort, 1, colon - 1), SubSeq(hostPort, colon + 1, Len(hostPort))>>

\* The last colon separates the port, unless there is a bracket anywhere.
HostAndPort(hostPort) ==
  LET colon == RFind(hostPort, ":")
  IN IF colon = 0 \/ Contains(hostPort, "]") THEN <<hostPort>>
     ELSE <<SubSeq(hostPort, 1, colon - 1), SubSeq(hostPort, colon + 1, Len(hostPort))>>

parseWsUrl(url) ==
  LET s == Tail(url)
      slash == Find(s, "/")
      hp == HostAndPort(IF slash = 0 THEN s ELSE SubSeq(s, 1, slash - 1))
      parsed ==
        [host |-> hp[1],
         port |-> IF Len(hp) = 2 THEN Stoi(hp[2])
                  ELSE IF Head(url) \in SecureSchemes THEN 443 ELSE 80,
         path |-> IF slash = 0 THEN <<"/">> ELSE SubSeq(s, slash, Len(s)),
         secure |-> Head(url) \in SecureSchemes]
  IN IF \/ url = <<>> \/ Head(url) \notin SecureSchemes \cup PlainSchemes
        \/ parsed.port = Throws \/ parsed.host = <<>>
     THEN Invalid ELSE parsed
-----------------------------------------------------------------------------
\* A base64 digit is its number in the table, "=" is Pad.
Pad == 64

\* The last group is padded as if it always had two bytes.
FaultyGroup(a, rest) ==
  LET v == a * 65536 + (IF Len(rest) > 0 THEN rest[1] * 256 ELSE 0)
             + (IF Len(rest) > 1 THEN rest[2] ELSE 0)
  IN <<(v \div 262144) % 64, (v \div 4096) % 64, (v \div 64) % 64,
       IF Len(rest) > 1 THEN v % 64 ELSE Pad>>

\* Three bytes, a and up to two more, as 24 bits in four digits.
Group(a, rest) ==
  LET v == a * 65536 + (IF Len(rest) > 0 THEN rest[1] * 256 ELSE 0)
             + (IF Len(rest) > 1 THEN rest[2] ELSE 0)
  IN <<(v \div 262144) % 64, (v \div 4096) % 64,
       IF Len(rest) > 0 THEN (v \div 64) % 64 ELSE Pad,
       IF Len(rest) > 1 THEN v % 64 ELSE Pad>>

base64Encode(data) ==
  FlattenSeq([g \in 1 .. (Len(data) + 2) \div 3 |->
    Group(data[3 * g - 2],
          SubSeq(data, 3 * g - 1, IF 3 * g <= Len(data) THEN 3 * g ELSE Len(data)))])

\* The request line, the Host header and the key. The rest is constant, or
\* headers of the configuration copied one by one.
upgradeRequest(parsed, keyBytes) ==
  [host |-> parsed.host, port |-> parsed.port, path |-> parsed.path,
   secure |-> parsed.secure, key |-> base64Encode(keyBytes)]
=============================================================================
