------------------------ MODULE MCInteractiveAnswers ------------------------
EXTENDS InteractiveAnswers, TLC
CONSTANTS c1, c2, r1

Ask1 == [req |-> r1, action |-> "accept", content |-> "x"]
Ask2 == [req |-> r1, action |-> "accept", content |-> "y"]
Ask3 == [req |-> r1, action |-> "decline", content |-> "x"]

MCAsks == {Ask1, Ask2, Ask3}
\* The second command gives the same action with other content, or another action.
MCPlans == {[c \in Commands |-> IF c = c1 THEN Ask1 ELSE ask] : ask \in {Ask2, Ask3}}
=============================================================================
