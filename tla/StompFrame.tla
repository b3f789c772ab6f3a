------------------------------ MODULE StompFrame ------------------------------
(***************************************************************************)
(* The value type StompFrame: what StompFrame.cpp does to headers and what *)
(* it writes.  A byte is LF, CR, NUL, COLON, a digit or a byte of no       *)
(* meaning to the parser; the key "content-length" is abbreviated to the   *)
(* single byte CL.                                                         *)
(***************************************************************************)
EXTENDS Naturals, SequencesExt

LF == "LF"
CR == "CR"
NUL == "NUL"
COLON == ":"
CL == "content-length"
Digits == [d \in {"0", "1", "2", "5"} |->
             CASE d = "0" -> 0 [] d = "1" -> 1 [] d = "2" -> 2 [] d = "5" -> 5]
Bytes == {LF, CR, NUL, COLON, CL, "x"} \cup DOMAIN Digits

\* A default-constructed frame, and StompFrame(command).
EmptyFrame == [command |-> <<>>, headers |-> <<>>, body |-> <<>>]
NewFrame(command) == [EmptyFrame EXCEPT !.command = command]

HeaderIndex(f, key) == SelectInSeq(f.headers, LAMBDA h : h[1] = key)
hasHeader(f, key) == HeaderIndex(f, key) # 0
getHeader(f, key) == f.headers[HeaderIndex(f, key)][2]

addHeader(f, key, value) ==
  [f EXCEPT !.headers = Append(@, <<key, value>>)]

\* The first header of that name gets the value; without one it is added.
setHeader(f, key, value) ==
  IF hasHeader(f, key)
    THEN [f EXCEPT !.headers[HeaderIndex(f, key)] = <<key, value>>]
    ELSE addHeader(f, key, value)

FaultySerialize(f) ==
  f.command \o <<LF>>
    \o FlattenSeq([k \in DOMAIN f.headers |->
                     f.headers[k][1] \o <<COLON>> \o f.headers[k][2] \o <<LF>>])
    \o f.body \o <<NUL>>

serialize(f) ==
  f.command \o <<LF>>
    \o FlattenSeq([k \in DOMAIN f.headers |->
                     f.headers[k][1] \o <<COLON>> \o f.headers[k][2] \o <<LF>>])
    \o <<LF>> \o f.body \o <<NUL>>

\* The frame of StompClient::send() for a body of at most two bytes, with the
\* extra headers the caller passes.
sendFrame(body, extra) ==
  LET size == CHOOSE d \in DOMAIN Digits : Digits[d] = Len(body)
      sized == setHeader(NewFrame(<<"x">>), <<CL>>, <<size>>)
  IN  FoldLeft(LAMBDA f, h : setHeader(f, h[1], h[2]),
               [sized EXCEPT !.body = body], extra)
===============================================================================
