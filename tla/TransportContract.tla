-------------------------- MODULE TransportContract --------------------------
(***************************************************************************)
(* ITransport as StompClient uses it: at most one connection at a time,    *)
(* read by one thread of the transport. isConnected() falls before         *)
(* m_onClose is called, m_onClose is called once per connection, and no    *)
(* connection begins before the m_onClose of the one before has returned.  *)
(***************************************************************************)

VARIABLES
  up,       \* isConnected()
  reader    \* the reading thread: "none", "reading", "reporting" (m_onClose)

vars == <<up, reader>>

TypeOK == up \in BOOLEAN /\ reader \in {"none", "reading", "reporting"}

Init == up = FALSE /\ reader = "none"

\* open() succeeds.
Connect == ~up /\ reader = "none" /\ up' = TRUE /\ reader' = "reading"

\* close(), the end of the stream, an error.
Drop == up /\ up' = FALSE /\ UNCHANGED reader

\* m_onClose is called, and returns.
Report == ~up /\ reader = "reading" /\ reader' = "reporting" /\ UNCHANGED up
Finish == reader = "reporting" /\ reader' = "none" /\ UNCHANGED up

Next == Connect \/ Drop \/ Report \/ Finish

Spec == Init /\ [][Next]_vars
=============================================================================
