---------------------------- MODULE MCSocialGraph -----------------------------
(* Instances of SocialGraph for TLC. *)
EXTENDS SocialSerial, TLC

CONSTANT Third  \* a user who takes no part once handlers overlap

WithoutThird ==
  /\ \A i \in DOMAIN friendRequests :
       Third \notin {friendRequests[i].from, friendRequests[i].to}
  /\ \A pair \in friendships \cup blocks : Third \notin {pair[1], pair[2]}
  /\ \A pair \in DOMAIN directs : Third \notin pair
  /\ \A w \in DOMAIN calls : Third \notin {calls[w].user, calls[w].other}

MCNext == SerialNext /\ (overlapped' => WithoutThird')

MCSpec == SerialInit /\ [][MCNext]_serialVars

\* Handlers, the other users and ids are interchangeable.
Symmetry == Permutations(Workers) \cup Permutations(Users \ {Third})
              \cup Permutations(RequestIds) \cup Permutations(DirectIds)
===============================================================================
