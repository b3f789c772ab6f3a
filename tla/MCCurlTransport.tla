---- MODULE MCCurlTransport ----
(* CurlTransport with two application threads, for TLC.                    *)
EXTENDS CurlTransportProps, TLC
CONSTANTS a1, a2
MCApps == {a1, a2}
Symmetry == Permutations(MCApps)
SendOnly == {"send"}
AnyMethod == {"open", "close", "send"}
====
