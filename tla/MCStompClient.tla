---- MODULE MCStompClient ----
(* StompClient for TLC.                                                    *)
EXTENDS StompClientProps, TLC
CONSTANTS a1, a2
OneApp == {a1}
TwoApps == {a1, a2}
Symmetry == Permutations(TwoApps)
====
