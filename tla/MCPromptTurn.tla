---------------------------- MODULE MCPromptTurn ----------------------------
(* Instances of PromptTurn for TLC.                                        *)
EXTENDS PromptTurn

CONSTANTS p1, p2, c1, c2

Plan(places, p1_tries, p2_tries, c1_tries, c2_tries, writes, losses, reports) ==
    [places |-> places, faults |-> writes, drops |-> losses, reports |-> reports,
     tries |-> [c \in Commands |-> CASE c = p1 -> p1_tries [] c = p2 -> p2_tries
                                      [] c = c1 -> c1_tries [] c = c2 -> c2_tries]]

MCPlans ==
    {\* a prompt and a cancel, resubmitted, with a fault and a drop
     Plan(2, 2, 0, 2, 0, 1, 1, {}),
     \* more commands than places: a full queue
     Plan(2, 1, 0, 1, 1, 0, 0, {}),
     \* a place for each: commands put aside one after another
     Plan(3, 1, 1, 1, 0, 0, 0, {}),
     \* an agent that reports ends and asks for permissions, over a lost connection
     Plan(2, 1, 0, 1, 0, 0, 1, {"end", "permission"})}
=============================================================================
