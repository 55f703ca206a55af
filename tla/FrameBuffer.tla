----------------------------- MODULE FrameBuffer -----------------------------
(***************************************************************************)
(* The buffer an instance keeps for one chat while it cannot send          *)
(* (instance/buffer.rs, instance/buffer/session.rs): a memory segment, an  *)
(* overflow segment on disk, and the batch that is being sent.             *)
(*                                                                         *)
(* Frames are their sequence numbers.  Two sizes are told apart: a bulk     *)
(* frame is within max_frame_bytes but larger than a batch may be          *)
(* (SYNC_BATCH_MAX_BYTES); of the others BatchLimit fit into one batch.    *)
(* For the two budgets every frame weighs one.  The other chats that share *)
(* them are left out.                                                      *)
(***************************************************************************)
EXTENDS Naturals, Sequences, FiniteSets

CONSTANTS MemLimit,    \* mem_frames_limit; with at least one frame, a push that is over the
                       \* total budget finds one in memory and never evicts from the disk
          TotalLimit,  \* total_frames_limit, memory and disk together
          BatchLimit   \* SYNC_BATCH_MAX_FRAMES

ASSUME BufferAssumption ==
    /\ MemLimit \in Nat \ {0} /\ TotalLimit \in Nat \ {0}
    /\ BatchLimit \in Nat \ {0}

\* SessionBuffer: disk_broken is "fused", the three counters of dropped frames are the set
\* "counted".
EmptyBuffer == [mem |-> <<>>, disk |-> <<>>, inFlight |-> <<>>, fused |-> FALSE, counted |-> {}]

Elems(s) == {s[i] : i \in DOMAIN s}

Held(b) == Elems(b.mem) \cup Elems(b.disk) \cup Elems(b.inFlight)

total_frames(b) == Len(b.mem) + Len(b.disk) + Len(b.inFlight)

has_pending(b) == total_frames(b) > 0

Least(a, b) == IF a < b THEN a ELSE b

\* How many members of S are less than i.
Rank(S, i) == Cardinality({j \in S : j < i})

\* What a sequence has at the positions K, in their order.
Kept(seq, K) == [n \in 1..Cardinality(K) |-> seq[CHOOSE i \in K : Rank(K, i) = n - 1]]

\* The positions evict_mem_one empties in a memory segment when it runs n times: events,
\* oldest first, then control frames.
Evicted(mem, n, isEvent) ==
    LET Events  == {i \in DOMAIN mem : isEvent[mem[i]]}
        Control == DOMAIN mem \ Events
    IN  {i \in Events  : Rank(Events, i) < n}
        \cup {i \in Control : Rank(Control, i) + Cardinality(Events) < n}

EvictMem(b, n, isEvent) ==
    LET out == Evicted(b.mem, n, isEvent)
    IN  [b EXCEPT !.mem = Kept(b.mem, DOMAIN b.mem \ out),
                  !.counted = @ \cup {b.mem[i] : i \in out}]

\* evict_one(false): the memory segment first, the head of the disk segment when it is empty.
EvictAny(b, isEvent) ==
    CASE b.mem # <<>>  -> EvictMem(b, 1, isEvent)
      [] b.mem = <<>> /\ b.disk # <<>> ->
           [b EXCEPT !.disk = Tail(@), !.counted = @ \cup {Head(b.disk)}]
      [] OTHER -> b

\* push: over the total budget by one frame at most; the disk may refuse the frame.
Push(b, f, isEvent, diskOk) ==
    LET room == Len(b.mem) < MemLimit
        in   == IF room THEN [b EXCEPT !.mem = Append(@, f)]
                        ELSE [b EXCEPT !.disk = Append(@, f)]
    IN  IF b.fused \/ (~room /\ ~diskOk)
        THEN [b EXCEPT !.fused = TRUE, !.counted = @ \cup {f}]
        ELSE IF total_frames(in) > TotalLimit THEN EvictAny(in, isEvent)
        ELSE in

\* How many of the first n frames of a segment come before a bulk one.
Fitting(seq, n, isBulk) ==
    Cardinality({k \in 1..Least(Len(seq), n) : \A i \in 1..k : ~isBulk[seq[i]]})

\* drain_batch: the memory segment, then the disk segment, into in_flight, up to a frame
\* that is too large, or to a read of the disk that fails after "reads" good ones.
Drain(b, isBulk, reads) ==
    LET m == Fitting(b.mem, BatchLimit, isBulk)
        d == IF m < Len(b.mem) THEN 0
             ELSE Fitting(b.disk, Least(BatchLimit - m, reads), isBulk)
    IN  [b EXCEPT !.mem  = SubSeq(@, m + 1, Len(@)),
                  !.disk = SubSeq(@, d + 1, Len(@)),
                  !.inFlight = @ \o SubSeq(b.mem, 1, m) \o SubSeq(b.disk, 1, d)]

\* commit: the batch left the stream.
Commit(b) == [b EXCEPT !.inFlight = <<>>]

\* Mutant: the segment is not cut down after the batch came back.
RollbackOverLimit(b, isEvent) ==
    LET back == [b EXCEPT !.mem = b.inFlight \o @, !.inFlight = <<>>]
    IN  back

\* rollback: the batch goes back to the front of the memory segment, which is then cut
\* down to its limit.
Rollback(b, isEvent) ==
    LET back == [b EXCEPT !.mem = b.inFlight \o @, !.inFlight = <<>>]
    IN  IF b.inFlight = <<>> \/ Len(back.mem) <= MemLimit THEN back
        ELSE EvictMem(back, Len(back.mem) - MemLimit, isEvent)
=============================================================================
