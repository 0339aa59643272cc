-------------------------- MODULE MCConversationMap --------------------------
(* Small instances of ConversationMap for TLC. *)
EXTENDS ConversationMap, TLC

CONSTANTS w1, w2, d1, d2, d3, n1, n2, q1, q2

OneWorkspace == {w1}
TwoWorkspaces == {w1, w2}
TwoIds == {d1, d2}
ThreeIds == {d1, d2, d3}
TwoNames == {n1, n2}
TwoRequests == {q1, q2}

(* Values of one kind are interchangeable.                                 *)
Symmetry == Permutations(TwoWorkspaces) \cup Permutations(ThreeIds)
            \cup Permutations(TwoNames) \cup Permutations(TwoRequests)
==============================================================================
