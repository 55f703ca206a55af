---------------------------- MODULE OrderedStream ----------------------------
(***************************************************************************)
(* What the stream of a chat promises the documents: of the frames that    *)
(* were made some are taken, each at most once and in the order in which   *)
(* they were made.  Frames may be lost.                                    *)
(***************************************************************************)
EXTENDS Naturals, Sequences

VARIABLES made,  \* how many frames were made
          taken  \* the frames taken, in order

Init == made = 0 /\ taken = <<>>

Make == made' = made + 1 /\ UNCHANGED taken

Take(f) ==
    /\ f \in 1..made
    /\ taken # <<>> => f > taken[Len(taken)]
    /\ taken' = Append(taken, f)
    /\ UNCHANGED made

Next == Make \/ \E f \in 1..made : Take(f)

Spec == Init /\ [][Next]_<<made, taken>>
=============================================================================
