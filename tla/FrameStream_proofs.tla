-------------------------- MODULE FrameStream_proofs --------------------------
(***************************************************************************)
(* The stream of a chat for every script, every number of connections and  *)
(* every limit of the buffer: it is an ordered stream, the buffer accounts *)
(* for every frame, missing frames are shown, a request is shown once.     *)
(***************************************************************************)
EXTENDS FrameStream, SequenceTheorems, FiniteSetTheorems, WellFoundedInduction, TLAPS

-----------------------------------------------------------------------------
(* The inductive invariant.                                                *)

Buffers(V) == [mem : Seq(V), disk : Seq(V), inFlight : Seq(V),
               fused : BOOLEAN, counted : SUBSET V]

\* No frame is held twice.
Once(b) ==
    /\ IsInjective(b.mem) /\ IsInjective(b.disk) /\ IsInjective(b.inFlight)
    /\ Elems(b.mem) \cap Elems(b.disk) = {}
    /\ Elems(b.mem) \cap Elems(b.inFlight) = {}
    /\ Elems(b.disk) \cap Elems(b.inFlight) = {}

InBudget(b) == Len(b.mem) <= MemLimit /\ total_frames(b) <= TotalLimit

Sound(b, V) == b \in Buffers(V) /\ Once(b) /\ InBudget(b)

\* Frames that were not lost silently.
Known(b) == Held(b) \cup b.counted

\* The frame in forward_child_output is the last one, and no part of the buffer has it.
NewFrame == fwd # NoFrame => /\ fwd.seq = Len(kinds) /\ fwd.seq # 0
                             /\ fwd.seq \notin Known(buf)

\* The resync task holds the batch that left the segments; a batch it committed was written.
BatchInv ==
    /\ NoOrphanBatch
    /\ sync.at \in {"send", "written"} => Elems(buf.inFlight) \subseteq Elems(sync.batch)
    /\ sync.at = "written" => Elems(sync.batch) \subseteq written

Accounted == alive => Made = ({fwd.seq} \ {0}) \cup Known(buf) \cup written \cup skipped

HubInv ==
    /\ kinds \in Seq(Kinds) /\ (\E script \in Scripts : IsPrefix(kinds, script))
    /\ alive \in BOOLEAN
    /\ fwd \in [seq : 0..Len(kinds), online : BOOLEAN]
    /\ sync \in [at : {"none", "run", "sleep", "send", "written"}, batch : Seq(Made)]
    /\ written \subseteq Made /\ skipped \subseteq Made
    /\ Sound(buf, Made) /\ NewFrame /\ BatchInv /\ Accounted

Messages == [live : BOOLEAN, frames : Seq(Made)]

NetInv ==
    /\ buffered \in BOOLEAN /\ auth \in BOOLEAN
    /\ link \in [conn : Conns, queue : {"down", "unset", "open"}]
    /\ hubq \in Seq({"Authenticated", "Disconnected"})
    /\ wire \in [Conns -> Seq(Messages)]

Jobs == [live : BOOLEAN, rest : Seq(Made), expected : Nat, delivered : Nat, rejected : Nat]

\* A loop that handles something runs; there are no connections after the transport's.
LoopInv ==
    /\ loop \in [Conns -> {"none", "made", "up", "fenced", "cleanup", "over", "replaced"}]
    /\ current \in 0..MaxConns
    /\ job \in [Conns -> Jobs]
    /\ \A k \in Conns : job[k] # NoJob => loop[k] \in {"up", "fenced"}
    /\ \A k \in Conns : job[k].live => job[k].rest # <<>>
    /\ \A k \in Conns : k > link.conn => loop[k] = "none"

\* What the stream took ends with its last frame, and none is greater.
ChatInv ==
    /\ stream \in [last : Nat, missing : Nat] /\ gap \in Nat \cup {NoGap}
    /\ chat \in {"Accepting", "Gap", "Ended"}
    /\ table \subseteq Made /\ shown \subseteq Made
    /\ observed \in Seq(Made)
    /\ \A f \in Elems(observed) : f <= stream.last
    /\ observed # <<>> => observed[Len(observed)] = stream.last
    /\ MissingIsShown

IInv == HubInv /\ NetInv /\ LoopInv /\ ChatInv /\ OfflineShowsGap

-----------------------------------------------------------------------------
(* Ranks in a set of positions.                                            *)

LEMMA LeastOf ==
    ASSUME NEW T \in SUBSET Nat, T # {}
    PROVE  \E x \in T : \A y \in T : x <= y
<1>1. PICK x \in T : \A y \in T : ~ (<<y, x>> \in OpToRel(<, Nat))
  BY WFMin, NatLessThanWellFounded
<1>2. ASSUME NEW y \in T
      PROVE  x <= y
  <2>1. <<y, x>> \notin OpToRel(<, Nat)
    BY <1>1
  <2>2. ~ (y < x)
    BY <2>1 DEF OpToRel
  <2> QED
    BY <2>2
<1> QED
  BY <1>1, <1>2

LEMMA PositionsFinite ==
    ASSUME NEW m \in Nat, NEW S \in SUBSET (1..m)
    PROVE  IsFiniteSet(S) /\ Cardinality(S) \in Nat
<1>1. IsFiniteSet(1..m)
  BY FS_Interval
<1>2. IsFiniteSet(S)
  BY <1>1, FS_Subset
<1> QED
  BY <1>2, FS_CardinalityType

LEMMA RankType ==
    ASSUME NEW m \in Nat, NEW S \in SUBSET (1..m), NEW i \in Int
    PROVE  /\ Rank(S, i) \in Nat
           /\ Rank(S, i) <= Cardinality(S)
           /\ (i \in S) => (Rank(S, i) < Cardinality(S))
<1> DEFINE Below == {j \in S : j < i}
<1>1. IsFiniteSet(S) /\ Cardinality(S) \in Nat
  BY PositionsFinite
<1>2. Below \in SUBSET (1..m)
  OBVIOUS
<1>3. Cardinality(Below) \in Nat
  BY <1>2, PositionsFinite
<1>4. Cardinality(Below) <= Cardinality(S) /\ (Cardinality(S) = Cardinality(Below) => S = Below)
  BY <1>1, FS_Subset, Below \in SUBSET S
<1>5. i \in S => S # Below
  OBVIOUS
<1> QED
  BY <1>1, <1>3, <1>4, <1>5 DEF Rank

LEMMA RankStep ==
    ASSUME NEW m \in Nat, NEW S \in SUBSET (1..m), NEW i \in Int
    PROVE  Rank(S, i + 1) = IF i \in S THEN Rank(S, i) + 1 ELSE Rank(S, i)
<1> DEFINE Below == {j \in S : j < i}
<1>0. \A j \in S : j \in Int
  OBVIOUS
<1>1. Below \in SUBSET (1..m)
  OBVIOUS
<1>2. IsFiniteSet(Below)
  BY <1>1, PositionsFinite
<1>3. i \notin Below
  OBVIOUS
<1>4. CASE i \in S
  <2>1. {j \in S : j < i + 1} = Below \cup {i}
    <3>1. \A j \in S : (j < i + 1) <=> (j < i \/ j = i)
      BY <1>0
    <3> QED
      BY <1>4, <3>1
  <2>2. Cardinality(Below \cup {i}) = Cardinality(Below) + 1
    BY <1>2, <1>3, FS_AddElement
  <2> QED
    BY <1>4, <2>1, <2>2 DEF Rank
<1>5. CASE i \notin S
  <2>1. {j \in S : j < i + 1} = Below
    <3>1. \A j \in S : (j < i + 1) <=> (j < i)
      BY <1>0, <1>5
    <3> QED
      BY <3>1
  <2> QED
    BY <1>5, <2>1 DEF Rank
<1> QED
  BY <1>4, <1>5

LEMMA RankEnds ==
    ASSUME NEW m \in Nat, NEW S \in SUBSET (1..m)
    PROVE  Rank(S, 0) = 0 /\ Rank(S, m + 1) = Cardinality(S)
<1>0. \A j \in S : j \in 1..m
  OBVIOUS
<1>1. {j \in S : j < 0} = {}
  <2>1. \A j \in S : ~ (j < 0)
    BY <1>0
  <2> QED
    BY <2>1, Zenon
<1>2. {j \in S : j < m + 1} = S
  <2>1. \A j \in S : j < m + 1
    BY <1>0
  <2> QED
    BY <2>1, Zenon
<1> QED
  BY <1>1, <1>2, FS_EmptySet DEF Rank

\* A member of every rank there is: the least position with more than n members up to it.
LEMMA RankOnto ==
    ASSUME NEW m \in Nat, NEW S \in SUBSET (1..m), NEW n \in Nat, n < Cardinality(S)
    PROVE  \E i \in S : Rank(S, i) = n
<1> DEFINE T == {i \in 0..(m + 1) : Rank(S, i) > n}
<1>1. m + 1 \in T
  BY RankEnds
<1>2. PICK x \in T : \A y \in T : x <= y
  BY <1>1, LeastOf, T \in SUBSET Nat, T # {}
<1>3. x # 0
  BY <1>2, RankEnds
<1>4. PICK y \in Int : y = x - 1
  BY <1>2
<1>5. y \in 0..(m + 1) /\ y \notin T /\ x = y + 1
  BY <1>2, <1>3, <1>4
<1>6. Rank(S, y) \in Nat
  BY <1>4, RankType
<1>7. Rank(S, y) <= n
  BY <1>5, <1>6
<1>8. Rank(S, y + 1) = IF y \in S THEN Rank(S, y) + 1 ELSE Rank(S, y)
  BY <1>4, RankStep
<1>9. Rank(S, y + 1) > n
  BY <1>2, <1>5
<1> QED
  BY <1>6, <1>7, <1>8, <1>9

LEMMA RankGrows ==
    ASSUME NEW m \in Nat, NEW S \in SUBSET (1..m), NEW i \in S, NEW j \in Int, i < j
    PROVE  Rank(S, i) < Rank(S, j)
<1> DEFINE A == {k \in S : k < i}
           B == {k \in S : k < j}
<1>0. \A k \in S : k \in 1..m
  OBVIOUS
<1>1. B \in SUBSET (1..m) /\ A \in SUBSET B /\ A \in SUBSET (1..m)
  <2>1. \A k \in S : (k < i) => (k < j)
    BY <1>0
  <2> QED
    BY <2>1, Zenon
<1>2. IsFiniteSet(B) /\ Cardinality(B) \in Nat /\ Cardinality(A) \in Nat
  BY <1>1, PositionsFinite
<1>3. Cardinality(A) <= Cardinality(B) /\ (Cardinality(B) = Cardinality(A) => B = A)
  BY <1>1, <1>2, FS_Subset
<1>4. A # B
  OBVIOUS
<1> QED
  BY <1>2, <1>3, <1>4 DEF Rank

\* The members of the first n ranks.
LEMMA RankBelow ==
    ASSUME NEW m \in Nat, NEW S \in SUBSET (1..m), NEW n \in Nat
    PROVE  Cardinality({i \in S : Rank(S, i) < n}) = Least(n, Cardinality(S))
<1>1. Cardinality(S) \in Nat
  BY PositionsFinite
<1>2. ASSUME NEW i \in S
      PROVE  Rank(S, i) \in Nat /\ Rank(S, i) < Cardinality(S)
  <2>1. i \in Int
    OBVIOUS
  <2> QED
    BY <2>1, RankType
<1>3. CASE n < Cardinality(S)
  <2>1. PICK x \in S : Rank(S, x) = n
    BY <1>3, RankOnto
  <2>2. \A i \in S : (i < x) => (Rank(S, i) < n)
    BY <2>1, RankGrows
  <2>3. \A i \in S : (x < i) => (n < Rank(S, i))
    BY <2>1, RankGrows
  <2>4. \A i \in S : (Rank(S, i) < n) <=> (i < x)
    BY <1>2, <2>1, <2>2, <2>3
  <2>5. {i \in S : Rank(S, i) < n} = {i \in S : i < x}
    BY <2>4
  <2> QED
    BY <1>3, <2>1, <2>5 DEF Rank, Least
<1>4. CASE ~ (n < Cardinality(S))
  <2>1. \A i \in S : Rank(S, i) < n
    BY <1>1, <1>2, <1>4
  <2>2. {i \in S : Rank(S, i) < n} = S
    BY <2>1, Zenon
  <2> QED
    BY <1>1, <1>4, <2>2 DEF Least
<1> QED
  BY <1>3, <1>4

-----------------------------------------------------------------------------
(* What Kept and Evicted make of a sequence.                               *)

\* The rank decides: which position comes at place n of what is kept.
Place(K) == [n \in 1..Cardinality(K) |-> CHOOSE i \in K : Rank(K, i) = n - 1]

LEMMA PlaceIsBijection ==
    ASSUME NEW m \in Nat, NEW K \in SUBSET (1..m)
    PROVE  /\ Place(K) \in [1..Cardinality(K) -> K]
           /\ \A a, b \in 1..Cardinality(K) : Place(K)[a] = Place(K)[b] => a = b
           /\ \A i \in K : \E n \in 1..Cardinality(K) : Place(K)[n] = i
<1>1. Cardinality(K) \in Nat
  BY PositionsFinite
<1>2. ASSUME NEW n \in 1..Cardinality(K)
      PROVE  Place(K)[n] \in K /\ Rank(K, Place(K)[n]) = n - 1
  <2>1. n - 1 \in Nat /\ n - 1 < Cardinality(K)
    BY <1>1
  <2>2. PICK p \in Nat : p = n - 1
    BY <2>1
  <2>3. \E i \in K : Rank(K, i) = p
    BY <2>1, <2>2, RankOnto
  <2>4. Place(K)[n] = CHOOSE i \in K : Rank(K, i) = n - 1
    BY DEF Place
  <2> QED
    BY <2>2, <2>3, <2>4
<1>3. ASSUME NEW a \in 1..Cardinality(K), NEW b \in 1..Cardinality(K),
             Place(K)[a] = Place(K)[b]
      PROVE  a = b
  BY <1>1, <1>2, <1>3
<1>4. ASSUME NEW i \in K
      PROVE  \E n \in 1..Cardinality(K) : Place(K)[n] = i
  <2>1. i \in Int
    OBVIOUS
  <2>2. Rank(K, i) \in Nat /\ Rank(K, i) < Cardinality(K)
    BY <2>1, RankType
  <2>3. PICK n \in 1..Cardinality(K) : n = Rank(K, i) + 1
    BY <1>1, <2>2
  <2>4. Place(K)[n] \in K /\ Rank(K, Place(K)[n]) = Rank(K, i)
    BY <1>2, <2>2, <2>3
  <2>5. PICK j \in K : j = Place(K)[n]
    BY <2>4
  <2>6. i \in Int /\ j \in Int
    OBVIOUS
  <2>7. ~ (i < j) /\ ~ (j < i)
    <3>1. i < j => Rank(K, i) < Rank(K, j)
      BY <2>6, RankGrows
    <3>2. j < i => Rank(K, j) < Rank(K, i)
      BY <2>6, RankGrows
    <3> QED
      BY <2>2, <2>4, <2>5, <3>1, <3>2
  <2> QED
    BY <2>5, <2>6, <2>7
<1>5. Place(K) \in [1..Cardinality(K) -> K]
  BY <1>2 DEF Place
<1> QED
  BY <1>3, <1>4, <1>5

LEMMA KeptProperties ==
    ASSUME NEW V, NEW seq \in Seq(V), NEW K \in SUBSET (DOMAIN seq)
    PROVE  /\ Kept(seq, K) \in Seq(V)
           /\ Len(Kept(seq, K)) = Cardinality(K)
           /\ Elems(Kept(seq, K)) = {seq[i] : i \in K}
           /\ IsInjective(seq) => IsInjective(Kept(seq, K))
<1>1. Len(seq) \in Nat /\ DOMAIN seq = 1..Len(seq)
  BY LenProperties
<1>2. Cardinality(K) \in Nat
  BY <1>1, PositionsFinite
<1>3. PICK at \in [1..Cardinality(K) -> K] : at = Place(K)
  BY <1>1, PlaceIsBijection
<1>4. \A a, b \in 1..Cardinality(K) : at[a] = at[b] => a = b
  BY <1>1, <1>3, PlaceIsBijection
<1>5. \A i \in K : \E n \in 1..Cardinality(K) : at[n] = i
  BY <1>1, <1>3, PlaceIsBijection
<1>6. DOMAIN Kept(seq, K) = 1..Cardinality(K)
  BY DEF Kept
<1>7. \A n \in 1..Cardinality(K) : Kept(seq, K)[n] = seq[at[n]]
  BY <1>3 DEF Kept, Place
<1>8. \A n \in 1..Cardinality(K) : at[n] \in DOMAIN seq /\ seq[at[n]] \in V
  BY <1>1, ElementOfSeq
<1>9. Kept(seq, K) \in Seq(V) /\ Len(Kept(seq, K)) = Cardinality(K)
  <2>1. Kept(seq, K) \in [1..Cardinality(K) -> V]
    BY <1>7, <1>8 DEF Kept
  <2> QED
    BY <1>2, <1>6, <2>1
<1>10. Elems(Kept(seq, K)) = {seq[i] : i \in K}
  BY <1>5, <1>6, <1>7 DEF Elems
<1>11. IsInjective(seq) => IsInjective(Kept(seq, K))
  BY <1>4, <1>6, <1>7, <1>8 DEF IsInjective
<1> QED
  BY <1>9, <1>10, <1>11

\* evict_mem_one takes as many frames as it runs times.
LEMMA EvictedCount ==
    ASSUME NEW V, NEW mem \in Seq(V), NEW n \in Nat, n <= Len(mem), NEW isEv
    PROVE  /\ Evicted(mem, n, isEv) \in SUBSET (DOMAIN mem)
           /\ Cardinality(Evicted(mem, n, isEv)) = n
<1> DEFINE Events  == {i \in DOMAIN mem : isEv[mem[i]]}
           Control == DOMAIN mem \ Events
           A == {i \in Events : Rank(Events, i) < n}
           B == {i \in Control : Rank(Control, i) + Cardinality(Events) < n}
<1>1. Len(mem) \in Nat /\ DOMAIN mem = 1..Len(mem)
  BY LenProperties
<1>2. Events \in SUBSET (1..Len(mem)) /\ Control \in SUBSET (1..Len(mem))
  BY <1>1
<1>3. Evicted(mem, n, isEv) = A \cup B
  BY Zenon DEF Evicted
<1>4. A \in SUBSET (1..Len(mem)) /\ B \in SUBSET (1..Len(mem)) /\ A \cap B = {}
  BY <1>2, Zenon
<1>5. /\ IsFiniteSet(A) /\ IsFiniteSet(B)
      /\ Cardinality(A) \in Nat /\ Cardinality(B) \in Nat
      /\ Cardinality(Events) \in Nat /\ Cardinality(Control) \in Nat
      /\ IsFiniteSet(Events) /\ IsFiniteSet(Control)
  <2> HIDE DEF A, B, Events, Control
  <2> QED
    BY <1>1, <1>2, <1>4, PositionsFinite
<1>6. Cardinality(Events) + Cardinality(Control) = Len(mem)
  <2>1. Events \cup Control = 1..Len(mem) /\ Events \cap Control = {}
    BY <1>1, Zenon
  <2> HIDE DEF Events, Control
  <2>2. Cardinality(Events \cup Control)
          = Cardinality(Events) + Cardinality(Control) - Cardinality(Events \cap Control)
    BY <1>5, FS_Union
  <2>3. PICK l \in Nat : l = Len(mem)
    BY <1>1
  <2>4. 1 \in Int /\ l \in Int
    OBVIOUS
  <2>5. Cardinality(1..l) = IF 1 > l THEN 0 ELSE l - 1 + 1
    BY <2>4, FS_Interval
  <2>6. Cardinality(1..l) = l
    BY <2>5
  <2>7. Cardinality(Events \cap Control) = 0
    BY <2>1, FS_EmptySet
  <2>8. Cardinality(Events \cup Control) = l
    BY <2>1, <2>3, <2>6
  <2> QED
    BY <1>5, <2>2, <2>3, <2>7, <2>8
<1>7. Cardinality(A) = Least(n, Cardinality(Events))
  <2> HIDE DEF Events
  <2> QED
    BY <1>1, <1>2, RankBelow
<1>8. Cardinality(B) = IF n < Cardinality(Events) THEN 0
                       ELSE Least(n - Cardinality(Events), Cardinality(Control))
  <2> HIDE DEF Events, Control
  <2>1. \A i \in Control : Rank(Control, i) \in Nat
    <3>1. ASSUME NEW i \in Control
          PROVE  Rank(Control, i) \in Nat
      <4>1. i \in Int
        BY <1>2
      <4> QED
        BY <1>1, <1>2, <4>1, RankType
    <3> QED
      BY <3>1
  <2>2. CASE n < Cardinality(Events)
    <3>1. \A i \in Control : ~ (Rank(Control, i) + Cardinality(Events) < n)
      BY <1>5, <2>1, <2>2
    <3>2. B = {}
      BY <3>1, Zenon
    <3> QED
      BY <2>2, <3>2, FS_EmptySet
  <2>3. CASE ~ (n < Cardinality(Events))
    <3>1. PICK p \in Nat : p = n - Cardinality(Events)
      BY <1>5, <2>3
    <3>2. \A i \in Control :
             (Rank(Control, i) + Cardinality(Events) < n) <=> (Rank(Control, i) < p)
      BY <1>5, <2>1, <3>1
    <3>3. B = {i \in Control : Rank(Control, i) < p}
      BY <3>2, Zenon
    <3>4. Cardinality(B) = Least(p, Cardinality(Control))
      BY <1>1, <1>2, <3>3, RankBelow
    <3> QED
      BY <2>3, <3>1, <3>4
  <2> QED
    BY <2>2, <2>3
<1>9. Cardinality(A \cup B) = Cardinality(A) + Cardinality(B)
  <2> HIDE DEF A, B
  <2>1. Cardinality(A \cup B) = Cardinality(A) + Cardinality(B) - Cardinality(A \cap B)
    BY <1>5, FS_Union
  <2>2. Cardinality(A \cap B) = 0
    BY <1>4, FS_EmptySet
  <2> QED
    BY <1>5, <2>1, <2>2
<1>10. Cardinality(A) + Cardinality(B) = n
  <2> HIDE DEF A, B, Events, Control
  <2> QED
    BY <1>1, <1>5, <1>6, <1>7, <1>8 DEF Least
<1> QED
  BY <1>1, <1>3, <1>4, <1>9, <1>10

-----------------------------------------------------------------------------
(* The operations of the buffer.                                           *)

LEMMA SeqFacts ==
    ASSUME NEW V, NEW s \in Seq(V)
    PROVE  /\ Len(s) \in Nat /\ DOMAIN s = 1..Len(s)
           /\ \A i \in DOMAIN s : s[i] \in V
           /\ Elems(s) \in SUBSET V
<1>1. Len(s) \in Nat /\ DOMAIN s = 1..Len(s)
  BY LenProperties
<1>2. \A i \in DOMAIN s : s[i] \in V
  BY <1>1, ElementOfSeq
<1> QED
  BY <1>1, <1>2 DEF Elems

LEMMA ElemsOfConcat ==
    ASSUME NEW V, NEW s \in Seq(V), NEW t \in Seq(V)
    PROVE  /\ s \o t \in Seq(V) /\ Len(s \o t) = Len(s) + Len(t)
           /\ Elems(s \o t) = Elems(s) \cup Elems(t)
           /\ (IsInjective(s) /\ IsInjective(t) /\ Elems(s) \cap Elems(t) = {})
                => IsInjective(s \o t)
<1>1. Len(s) \in Nat /\ Len(t) \in Nat /\ DOMAIN s = 1..Len(s) /\ DOMAIN t = 1..Len(t)
  BY SeqFacts
<1> DEFINE u == s \o t
<1>2. /\ u \in Seq(V) /\ Len(u) = Len(s) + Len(t)
      /\ \A i \in 1..Len(s) + Len(t) : u[i] = IF i <= Len(s) THEN s[i] ELSE t[i - Len(s)]
  BY ConcatProperties
<1>3. DOMAIN u = 1..(Len(s) + Len(t))
  BY <1>2, SeqFacts
<1> HIDE DEF u
<1>4. \A i \in 1..Len(s) : i \in DOMAIN u /\ u[i] = s[i]
  BY <1>1, <1>2, <1>3
<1>5. \A i \in 1..Len(t) : i + Len(s) \in DOMAIN u /\ u[i + Len(s)] = t[i]
  BY <1>1, <1>2, <1>3
<1>6. \A i \in DOMAIN u : \/ i \in 1..Len(s) /\ u[i] = s[i]
                          \/ i - Len(s) \in 1..Len(t) /\ u[i] = t[i - Len(s)]
  BY <1>1, <1>2, <1>3
<1>7. Elems(u) = Elems(s) \cup Elems(t)
  <2>1. Elems(s) \subseteq Elems(u)
    BY <1>1, <1>4 DEF Elems
  <2>2. Elems(t) \subseteq Elems(u)
    BY <1>1, <1>5 DEF Elems
  <2>3. Elems(u) \subseteq Elems(s) \cup Elems(t)
    BY <1>1, <1>6 DEF Elems
  <2> QED
    BY <2>1, <2>2, <2>3
<1>8. ASSUME IsInjective(s), IsInjective(t), Elems(s) \cap Elems(t) = {}
      PROVE  IsInjective(u)
  <2>1. \A i \in DOMAIN s, j \in DOMAIN t : s[i] # t[j]
    BY <1>8 DEF Elems
  <2> SUFFICES ASSUME NEW a \in DOMAIN u, NEW b \in DOMAIN u, u[a] = u[b]
               PROVE  a = b
    BY DEF IsInjective
  <2>2. CASE a \in 1..Len(s) /\ u[a] = s[a] /\ b \in 1..Len(s) /\ u[b] = s[b]
    BY <1>1, <1>8, <2>2 DEF IsInjective
  <2>3. CASE /\ a - Len(s) \in 1..Len(t) /\ u[a] = t[a - Len(s)]
             /\ b - Len(s) \in 1..Len(t) /\ u[b] = t[b - Len(s)]
    <3>1. a - Len(s) = b - Len(s)
      BY <1>1, <1>8, <2>3 DEF IsInjective
    <3> QED
      BY <1>1, <1>3, <3>1
  <2> QED
    BY <1>1, <1>6, <2>1, <2>2, <2>3
<1> QED
  BY <1>2, <1>7, <1>8 DEF u

LEMMA ElemsOfAppend ==
    ASSUME NEW V, NEW s \in Seq(V), NEW f \in V
    PROVE  /\ Append(s, f) \in Seq(V) /\ Len(Append(s, f)) = Len(s) + 1
           /\ Elems(Append(s, f)) = Elems(s) \cup {f}
           /\ (IsInjective(s) /\ f \notin Elems(s)) => IsInjective(Append(s, f))
<1>1. Len(s) \in Nat /\ DOMAIN s = 1..Len(s)
  BY SeqFacts
<1>2. PICK u \in Seq(V) : u = Append(s, f)
  BY AppendProperties
<1>3. /\ Len(u) = Len(s) + 1 /\ u[Len(s) + 1] = f
      /\ \A i \in 1..Len(s) : u[i] = s[i]
  BY <1>2, AppendProperties
<1>4. DOMAIN u = 1..(Len(s) + 1)
  BY <1>3, SeqFacts
<1>5. \A i \in DOMAIN u : (i \in DOMAIN s /\ u[i] = s[i]) \/ (i = Len(s) + 1 /\ u[i] = f)
  BY <1>1, <1>3, <1>4
<1>6. \A i \in DOMAIN s : i \in DOMAIN u /\ u[i] = s[i]
  BY <1>1, <1>3, <1>4
<1>7. Len(s) + 1 \in DOMAIN u
  BY <1>1, <1>4
<1>8. Elems(u) = Elems(s) \cup {f}
  BY <1>3, <1>5, <1>6, <1>7 DEF Elems
<1>9. (IsInjective(s) /\ f \notin Elems(s)) => IsInjective(u)
  BY <1>5 DEF IsInjective, Elems
<1> QED
  BY <1>2, <1>3, <1>8, <1>9

\* The part of a sequence from place a to place c.
LEMMA ElemsOfSubSeq ==
    ASSUME NEW V, NEW s \in Seq(V), NEW a \in Nat \ {0}, NEW c \in Nat, c <= Len(s)
    PROVE  /\ SubSeq(s, a, c) \in Seq(V)
           /\ Len(SubSeq(s, a, c)) = IF a <= c THEN c - a + 1 ELSE 0
           /\ Elems(SubSeq(s, a, c)) = {s[i] : i \in a..c}
           /\ IsInjective(s) => IsInjective(SubSeq(s, a, c))
<1>1. Len(s) \in Nat /\ DOMAIN s = 1..Len(s) /\ \A i \in DOMAIN s : s[i] \in V
  BY SeqFacts
<1>2. \A i \in a..c : i \in DOMAIN s /\ s[i] \in V
  BY <1>1
<1> DEFINE u == SubSeq(s, a, c)
<1>3. /\ u \in Seq(V) /\ Len(u) = IF a <= c THEN c - a + 1 ELSE 0
      /\ \A i \in 1..(c - a + 1) : u[i] = s[a + i - 1]
  BY <1>2, SubSeqProperties
<1> HIDE DEF u
<1>4. DOMAIN u = 1..(c - a + 1)
  <2>1. DOMAIN u = 1..Len(u)
    BY <1>3, SeqFacts
  <2>2. a <= c => DOMAIN u = 1..(c - a + 1)
    BY <1>3, <2>1
  <2>3. ~ (a <= c) => 1..Len(u) = {} /\ 1..(c - a + 1) = {}
    BY <1>3
  <2> QED
    BY <2>1, <2>2, <2>3
<1>5. \A i \in DOMAIN u : a + i - 1 \in a..c /\ u[i] = s[a + i - 1]
  BY <1>3, <1>4
<1>6. \A j \in a..c : j - a + 1 \in DOMAIN u /\ u[j - a + 1] = s[j]
  BY <1>3, <1>4
<1>7. Elems(u) = {s[i] : i \in a..c}
  <2>1. ASSUME NEW i \in DOMAIN u
        PROVE  \E j \in a..c : u[i] = s[j]
    BY <1>5
  <2>2. ASSUME NEW j \in a..c
        PROVE  \E i \in DOMAIN u : s[j] = u[i]
    BY <1>6
  <2>3. Elems(u) \subseteq {s[i] : i \in a..c}
    BY <2>1 DEF Elems
  <2>4. {s[i] : i \in a..c} \subseteq Elems(u)
    BY <2>2 DEF Elems
  <2> QED
    BY <2>3, <2>4
<1>8. ASSUME IsInjective(s), NEW i \in DOMAIN u, NEW j \in DOMAIN u, u[i] = u[j]
      PROVE  i = j
  <2>1. a + i - 1 = a + j - 1
    BY <1>2, <1>5, <1>8 DEF IsInjective
  <2> QED
    BY <1>4, <2>1
<1> QED
  BY <1>3, <1>7, <1>8 DEF u, IsInjective

LEMMA CountElems ==
    ASSUME NEW V, NEW s \in Seq(V), IsInjective(s)
    PROVE  /\ IsFiniteSet(Elems(s))
           /\ Cardinality(Elems(s)) = Len(s)
<1>1. Len(s) \in Nat /\ DOMAIN s = 1..Len(s) /\ s \in [1..Len(s) -> V]
  BY LenProperties
<1>2. PICK l \in Nat : l = Len(s)
  BY <1>1
<1>3. IsFiniteSet(1..l) /\ Cardinality(1..l) = l
  <2>1. 1 \in Int /\ l \in Int
    OBVIOUS
  <2>2. IsFiniteSet(1..l) /\ Cardinality(1..l) = IF 1 > l THEN 0 ELSE l - 1 + 1
    BY <2>1, FS_Interval
  <2> QED
    BY <2>2
<1>4. s \in [1..l -> Elems(s)]
  BY <1>1, <1>2 DEF Elems
<1>5. s \in Surjection(1..l, Elems(s))
  BY <1>1, <1>2, <1>4, Zenon DEF Surjection, Elems
<1>6. s \in Injection(1..l, Elems(s))
  BY <1>4, Zenon DEF Injection, IsInjective
<1>7. /\ IsFiniteSet(Elems(s))
      /\ Cardinality(Elems(s)) = Cardinality(1..l) <=> s \in Injection(1..l, Elems(s))
  BY <1>3, <1>5, FS_Surjection
<1> QED
  BY <1>2, <1>3, <1>6, <1>7

LEMMA TotalType ==
    ASSUME NEW V, NEW b \in Buffers(V)
    PROVE  /\ total_frames(b) = Len(b.mem) + Len(b.disk) + Len(b.inFlight)
           /\ total_frames(b) \in Nat
           /\ Len(b.mem) \in Nat /\ Len(b.disk) \in Nat /\ Len(b.inFlight) \in Nat
BY DEF total_frames, Buffers

\* total_frames counts what is held.
LEMMA CountHeld ==
    ASSUME NEW V, NEW b \in Buffers(V), Once(b)
    PROVE  total_frames(b) = Cardinality(Held(b))
<1> DEFINE M == Elems(b.mem)
           D == Elems(b.disk)
           F == Elems(b.inFlight)
<1>1. b.mem \in Seq(V) /\ b.disk \in Seq(V) /\ b.inFlight \in Seq(V)
  BY DEF Buffers
<1>2. Len(b.mem) \in Nat /\ Len(b.disk) \in Nat /\ Len(b.inFlight) \in Nat
  BY <1>1, SeqFacts
<1>3. /\ IsFiniteSet(M) /\ Cardinality(M) = Len(b.mem)
      /\ IsFiniteSet(D) /\ Cardinality(D) = Len(b.disk)
      /\ IsFiniteSet(F) /\ Cardinality(F) = Len(b.inFlight)
  BY <1>1, CountElems DEF Once
<1>4. M \cap D = {} /\ (M \cup D) \cap F = {}
  BY Zenon DEF Once
<1>5. Held(b) = (M \cup D) \cup F
  BY DEF Held
<1> HIDE DEF M, D, F
<1>6. IsFiniteSet(M \cup D) /\ Cardinality(M \cup D) = Cardinality(M) + Cardinality(D)
  <2>1. /\ IsFiniteSet(M \cup D)
        /\ Cardinality(M \cup D) = Cardinality(M) + Cardinality(D) - Cardinality(M \cap D)
    BY <1>3, FS_Union
  <2>2. Cardinality(M \cap D) = 0
    BY <1>4, FS_EmptySet
  <2> QED
    BY <1>2, <1>3, <2>1, <2>2
<1>7. Cardinality((M \cup D) \cup F) = Cardinality(M \cup D) + Cardinality(F)
  <2>1. Cardinality((M \cup D) \cup F)
          = Cardinality(M \cup D) + Cardinality(F) - Cardinality((M \cup D) \cap F)
    BY <1>3, <1>6, FS_Union
  <2>2. Cardinality((M \cup D) \cap F) = 0
    BY <1>4, FS_EmptySet
  <2>3. Cardinality(M \cup D) \in Nat /\ Cardinality(F) \in Nat
    BY <1>3, <1>6, FS_CardinalityType
  <2> QED
    BY <2>1, <2>2, <2>3
<1> QED
  BY <1>2, <1>3, <1>5, <1>6, <1>7 DEF total_frames

LEMMA EmptySound ==
    ASSUME NEW V
    PROVE  Sound(EmptyBuffer, V) /\ Held(EmptyBuffer) = {} /\ EmptyBuffer.inFlight = <<>>
<1>1. <<>> \in Seq(V) /\ Len(<<>>) = 0
  BY EmptySeq
<1>2. Elems(<<>>) = {}
  BY DEF Elems
<1>3. IsInjective(<<>>)
  BY DEF IsInjective
<1>4. Held(EmptyBuffer) = {}
  BY <1>2 DEF Held, EmptyBuffer
<1>5. EmptyBuffer \in Buffers(V) /\ Once(EmptyBuffer)
  BY <1>1, <1>2, <1>3 DEF Buffers, Once, EmptyBuffer
<1>6. InBudget(EmptyBuffer)
  BY <1>1, BufferAssumption DEF BufferAssumption, InBudget, total_frames, EmptyBuffer
<1> QED
  BY <1>4, <1>5, <1>6 DEF Sound, EmptyBuffer

\* Eviction from the memory segment: n frames fewer, and the counters have them.
LEMMA EvictMemSound ==
    ASSUME NEW V, NEW b \in Buffers(V), Once(b), NEW n \in Nat, n <= Len(b.mem), NEW isEv
    PROVE  /\ EvictMem(b, n, isEv) \in Buffers(V) /\ Once(EvictMem(b, n, isEv))
           /\ Len(EvictMem(b, n, isEv).mem) = Len(b.mem) - n
           /\ EvictMem(b, n, isEv).disk = b.disk
           /\ EvictMem(b, n, isEv).inFlight = b.inFlight
           /\ Known(EvictMem(b, n, isEv)) = Known(b)
<1> DEFINE out == Evicted(b.mem, n, isEv)
           K == DOMAIN b.mem \ out
           c == EvictMem(b, n, isEv)
<1>1. b.mem \in Seq(V) /\ b.disk \in Seq(V) /\ b.inFlight \in Seq(V) /\ b.counted \in SUBSET V
  BY DEF Buffers
<1>2. Len(b.mem) \in Nat /\ DOMAIN b.mem = 1..Len(b.mem) /\ \A i \in DOMAIN b.mem : b.mem[i] \in V
  BY <1>1, SeqFacts
<1>3. out \in SUBSET (DOMAIN b.mem) /\ Cardinality(out) = n
  BY <1>1, EvictedCount
<1>4. /\ c.mem = Kept(b.mem, K)
      /\ c.counted = b.counted \cup {b.mem[i] : i \in out}
      /\ c.disk = b.disk /\ c.inFlight = b.inFlight /\ c.fused = b.fused
      /\ c = [mem |-> c.mem, disk |-> c.disk, inFlight |-> c.inFlight,
              fused |-> c.fused, counted |-> c.counted]
  <2>1. c = [b EXCEPT !.mem = Kept(b.mem, K),
                      !.counted = b.counted \cup {b.mem[i] : i \in out}]
    BY DEF EvictMem
  <2> HIDE DEF c, K, out
  <2> QED
    BY <2>1 DEF Buffers
<1> HIDE DEF out, c
<1>5. /\ Kept(b.mem, K) \in Seq(V)
      /\ Len(Kept(b.mem, K)) = Cardinality(K)
      /\ Elems(Kept(b.mem, K)) = {b.mem[i] : i \in K}
      /\ IsInjective(Kept(b.mem, K))
  <2>1. K \in SUBSET (DOMAIN b.mem) /\ IsInjective(b.mem)
    BY DEF Once
  <2> HIDE DEF K
  <2> QED
    BY <1>1, <2>1, KeptProperties
<1>6. Cardinality(K) = Len(b.mem) - n
  <2>1. PICK l \in Nat : l = Len(b.mem)
    BY <1>2
  <2>2. 1 \in Int /\ l \in Int
    OBVIOUS
  <2>3. IsFiniteSet(1..l) /\ Cardinality(1..l) = IF 1 > l THEN 0 ELSE l - 1 + 1
    BY <2>2, FS_Interval
  <2>4. Cardinality((1..l) \ out) = Cardinality(1..l) - Cardinality((1..l) \cap out)
    BY <2>3, FS_Difference
  <2>5. (1..l) \cap out = out /\ K = (1..l) \ out
    BY <1>2, <1>3, <2>1
  <2>6. Cardinality(1..l) = l
    BY <2>3
  <2>7. Cardinality(K) = l - n
    BY <1>3, <2>4, <2>5, <2>6
  <2> QED
    BY <2>1, <2>7
<1>7. {b.mem[i] : i \in K} \cup {b.mem[i] : i \in out} = Elems(b.mem)
  BY <1>3, Zenon DEF Elems
<1>8. {b.mem[i] : i \in out} \in SUBSET V
  BY <1>2, <1>3
<1>9. c \in Buffers(V)
  BY <1>1, <1>4, <1>5, <1>8 DEF Buffers
<1>10. Elems(c.mem) \in SUBSET Elems(b.mem)
  BY <1>4, <1>5, <1>7
<1>11. Once(c)
  BY <1>4, <1>5, <1>10, Zenon DEF Once
<1>12. Known(c) = Known(b)
  BY <1>4, <1>5, <1>7 DEF Known, Held
<1> QED
  BY <1>4, <1>5, <1>6, <1>9, <1>11, <1>12 DEF c

\* A sequence cut in two.
LEMMA SplitSeq ==
    ASSUME NEW V, NEW s \in Seq(V), IsInjective(s), NEW m \in Nat, m <= Len(s)
    PROVE  /\ SubSeq(s, 1, m) \in Seq(V) /\ SubSeq(s, m + 1, Len(s)) \in Seq(V)
           /\ Len(SubSeq(s, 1, m)) = m /\ Len(SubSeq(s, m + 1, Len(s))) = Len(s) - m
           /\ IsInjective(SubSeq(s, 1, m)) /\ IsInjective(SubSeq(s, m + 1, Len(s)))
           /\ Elems(SubSeq(s, 1, m)) \cup Elems(SubSeq(s, m + 1, Len(s))) = Elems(s)
           /\ Elems(SubSeq(s, 1, m)) \cap Elems(SubSeq(s, m + 1, Len(s))) = {}
<1>1. Len(s) \in Nat /\ DOMAIN s = 1..Len(s)
  BY SeqFacts
<1> DEFINE u == SubSeq(s, 1, m)
           w == SubSeq(s, m + 1, Len(s))
<1>2. /\ u \in Seq(V) /\ Len(u) = IF 1 <= m THEN m - 1 + 1 ELSE 0
      /\ Elems(u) = {s[i] : i \in 1..m} /\ IsInjective(u)
  BY ElemsOfSubSeq
<1>3. m + 1 \in Nat \ {0}
  OBVIOUS
<1>4. /\ w \in Seq(V) /\ Len(w) = IF m + 1 <= Len(s) THEN Len(s) - (m + 1) + 1 ELSE 0
      /\ Elems(w) = {s[i] : i \in (m + 1)..Len(s)} /\ IsInjective(w)
  BY <1>1, <1>3, ElemsOfSubSeq
<1> HIDE DEF u, w
<1>5. Len(u) = m /\ Len(w) = Len(s) - m
  <2>1. PICK l \in Nat : l = Len(s)
    BY <1>1
  <2>2. m <= l
    BY <2>1
  <2>3. Len(w) = IF m + 1 <= l THEN l - (m + 1) + 1 ELSE 0
    BY <1>4, <2>1
  <2>4. Len(w) = l - m
    BY <2>2, <2>3
  <2>5. Len(u) = m
    BY <1>2
  <2> QED
    BY <2>1, <2>4, <2>5
<1>6. Elems(u) \cup Elems(w) = Elems(s)
  <2>1. \A i \in DOMAIN s : i \in 1..m \/ i \in (m + 1)..Len(s)
    BY <1>1
  <2>2. \A i \in 1..m : i \in DOMAIN s
    BY <1>1
  <2>3. \A i \in (m + 1)..Len(s) : i \in DOMAIN s
    BY <1>1
  <2>4. Elems(s) \subseteq Elems(u) \cup Elems(w)
    BY <1>2, <1>4, <2>1 DEF Elems
  <2>5. Elems(u) \subseteq Elems(s)
    BY <1>2, <2>2 DEF Elems
  <2>6. Elems(w) \subseteq Elems(s)
    BY <1>4, <2>3 DEF Elems
  <2> QED
    BY <2>4, <2>5, <2>6
<1>7. Elems(u) \cap Elems(w) = {}
  <2> SUFFICES ASSUME NEW i \in 1..m, NEW j \in (m + 1)..Len(s), s[i] = s[j]
               PROVE  FALSE
    BY <1>2, <1>4
  <2>1. i \in DOMAIN s /\ j \in DOMAIN s /\ i # j
    BY <1>1
  <2> QED
    BY <2>1 DEF IsInjective
<1> QED
  BY <1>2, <1>4, <1>5, <1>6, <1>7 DEF u, w

\* Eviction of one frame, from the memory segment or from the disk segment.
LEMMA EvictAnySound ==
    ASSUME NEW V, NEW b \in Buffers(V), Once(b), NEW isEv,
           b.mem # <<>> \/ b.disk # <<>>
    PROVE  /\ EvictAny(b, isEv) \in Buffers(V) /\ Once(EvictAny(b, isEv))
           /\ Len(EvictAny(b, isEv).mem) <= Len(b.mem)
           /\ total_frames(EvictAny(b, isEv)) = total_frames(b) - 1
           /\ EvictAny(b, isEv).inFlight = b.inFlight
           /\ Known(EvictAny(b, isEv)) = Known(b)
<1>1. b.mem \in Seq(V) /\ b.disk \in Seq(V) /\ b.inFlight \in Seq(V) /\ b.counted \in SUBSET V
  BY DEF Buffers
<1>2. Len(b.mem) \in Nat /\ Len(b.disk) \in Nat /\ Len(b.inFlight) \in Nat
  BY <1>1, SeqFacts
<1>3. CASE b.mem # <<>>
  <2>1. EvictAny(b, isEv) = EvictMem(b, 1, isEv)
    BY <1>3 DEF EvictAny
  <2>2. 1 \in Nat /\ 1 <= Len(b.mem)
    BY <1>1, <1>3, EmptySeq
  <2> DEFINE c == EvictMem(b, 1, isEv)
  <2>3. /\ c \in Buffers(V) /\ Once(c) /\ Len(c.mem) = Len(b.mem) - 1
        /\ c.disk = b.disk /\ c.inFlight = b.inFlight /\ Known(c) = Known(b)
    BY <2>2, EvictMemSound
  <2> HIDE DEF c
  <2>4. Len(c.mem) <= Len(b.mem) /\ total_frames(c) = total_frames(b) - 1
    BY <2>3 DEF total_frames, Buffers
  <2> QED
    BY <2>1, <2>3, <2>4 DEF c
<1>4. CASE b.mem = <<>>
  <2>1. b.disk # <<>>
    BY <1>4
  <2> DEFINE c == [b EXCEPT !.disk = Tail(b.disk), !.counted = b.counted \cup {Head(b.disk)}]
  <2>2. EvictAny(b, isEv) = c
    BY <1>4, <2>1 DEF EvictAny
  <2>3. PICK h, t : h = Head(b.disk) /\ t = Tail(b.disk)
    OBVIOUS
  <2>31. c = [b EXCEPT !.disk = t, !.counted = b.counted \cup {h}]
    BY <2>3
  <2> HIDE DEF c
  <2>32. /\ c.mem = b.mem /\ c.disk = t /\ c.inFlight = b.inFlight
         /\ c.counted = b.counted \cup {h} /\ c.fused = b.fused
         /\ c = [mem |-> c.mem, disk |-> c.disk, inFlight |-> c.inFlight,
                 fused |-> c.fused, counted |-> c.counted]
    BY <2>31 DEF Buffers
  <2>4. /\ h \in V /\ t \in Seq(V) /\ Len(t) = Len(b.disk) - 1
        /\ h = b.disk[1] /\ t = SubSeq(b.disk, 2, Len(b.disk))
    BY <1>1, <2>1, <2>3, HeadTailProperties, TailIsSubSeq
  <2>5. /\ Elems(t) = {b.disk[i] : i \in 2..Len(b.disk)}
        /\ IsInjective(t)
    <3>1. 2 \in Nat \ {0} /\ IsInjective(b.disk)
      BY DEF Once
    <3>2. Len(b.disk) <= Len(b.disk)
      BY <1>2
    <3> QED
      BY <1>1, <1>2, <2>4, <3>1, <3>2, ElemsOfSubSeq
  <2>6. Elems(b.disk) = Elems(t) \cup {h}
    <3>1. DOMAIN b.disk = 1..Len(b.disk) /\ Len(b.disk) # 0
      BY <1>1, <2>1, EmptySeq, SeqFacts
    <3>2. \A i \in DOMAIN b.disk : i = 1 \/ i \in 2..Len(b.disk)
      BY <1>2, <3>1
    <3>3. 1 \in DOMAIN b.disk /\ \A i \in 2..Len(b.disk) : i \in DOMAIN b.disk
      BY <1>2, <3>1
    <3> QED
      BY <2>4, <2>5, <3>2, <3>3 DEF Elems
  <2>7. c \in Buffers(V)
    BY <1>1, <2>32, <2>4 DEF Buffers
  <2>8. Once(c)
    <3>1. Elems(c.disk) \in SUBSET Elems(b.disk) /\ IsInjective(c.disk)
      BY <2>32, <2>5, <2>6
    <3> QED
      BY <2>32, <3>1, Zenon DEF Once
  <2>9. Known(c) = Known(b)
    BY <2>32, <2>6 DEF Known, Held
  <2>10. Len(c.mem) <= Len(b.mem) /\ total_frames(c) = total_frames(b) - 1
    BY <2>7, <2>32, <2>4 DEF total_frames, Buffers
  <2> QED
    BY <2>2, <2>32, <2>7, <2>8, <2>9, <2>10
<1> QED
  BY <1>3, <1>4

\* push: the frame is kept, or a counter has what was dropped for it.
LEMMA PushSound ==
    ASSUME NEW V, NEW b, Sound(b, V), NEW f \in V, f \notin Held(b),
           NEW isEv, NEW diskOk \in BOOLEAN
    PROVE  /\ Sound(Push(b, f, isEv, diskOk), V)
           /\ Known(Push(b, f, isEv, diskOk)) = Known(b) \cup {f}
           /\ Push(b, f, isEv, diskOk).inFlight = b.inFlight
<1>1. /\ b.mem \in Seq(V) /\ b.disk \in Seq(V) /\ b.inFlight \in Seq(V)
      /\ b.counted \in SUBSET V /\ b \in Buffers(V)
  BY DEF Buffers, Sound
<1>2. /\ Len(b.mem) \in Nat /\ Len(b.disk) \in Nat /\ Len(b.inFlight) \in Nat
      /\ MemLimit \in Nat /\ TotalLimit \in Nat
  BY <1>1, SeqFacts, BufferAssumption DEF BufferAssumption
<1>3. Once(b) /\ InBudget(b)
  BY DEF Sound
<1> DEFINE room == Len(b.mem) < MemLimit
           in == IF room THEN [b EXCEPT !.mem = Append(b.mem, f)]
                         ELSE [b EXCEPT !.disk = Append(b.disk, f)]
           lost == [b EXCEPT !.fused = TRUE, !.counted = b.counted \cup {f}]
           p == Push(b, f, isEv, diskOk)
<1>4. p = IF b.fused \/ (~room /\ ~diskOk) THEN lost
          ELSE IF total_frames(in) > TotalLimit THEN EvictAny(in, isEv) ELSE in
  BY DEF Push
<1>5. Sound(lost, V) /\ Known(lost) = Known(b) \cup {f} /\ lost.inFlight = b.inFlight
  <2>1. /\ lost.mem = b.mem /\ lost.disk = b.disk /\ lost.inFlight = b.inFlight
        /\ lost.counted = b.counted \cup {f} /\ lost \in Buffers(V)
    BY <1>1 DEF Buffers
  <2> HIDE DEF lost
  <2>2. Once(lost)
    BY <1>3, <2>1 DEF Once
  <2>3. InBudget(lost)
    BY <1>3, <2>1 DEF InBudget, total_frames
  <2>4. Known(lost) = Known(b) \cup {f}
    BY <2>1 DEF Known, Held
  <2> QED
    BY <2>1, <2>2, <2>3, <2>4 DEF Sound
<1>6. /\ in \in Buffers(V) /\ Once(in) /\ Known(in) = Known(b) \cup {f}
      /\ Len(in.mem) <= MemLimit /\ total_frames(in) = total_frames(b) + 1
      /\ in.inFlight = b.inFlight /\ (in.mem # <<>> \/ in.disk # <<>>)
  <2>1. f \notin Elems(b.mem) /\ f \notin Elems(b.disk) /\ f \notin Elems(b.inFlight)
    BY DEF Held
  <2>2. CASE room
    <3>1. in = [b EXCEPT !.mem = Append(b.mem, f)]
      BY <2>2
    <3> HIDE DEF in, room
    <3>2. /\ in.mem = Append(b.mem, f) /\ in.disk = b.disk /\ in.inFlight = b.inFlight
          /\ in.counted = b.counted /\ in.fused = b.fused
          /\ in = [mem |-> in.mem, disk |-> in.disk, inFlight |-> in.inFlight,
                   fused |-> in.fused, counted |-> in.counted]
      BY <1>1, <3>1 DEF Buffers
    <3>3. /\ in.mem \in Seq(V) /\ Len(in.mem) = Len(b.mem) + 1
          /\ Elems(in.mem) = Elems(b.mem) \cup {f} /\ IsInjective(in.mem)
      BY <1>1, <1>3, <2>1, <3>2, ElemsOfAppend DEF Once
    <3>4. in \in Buffers(V)
      BY <1>1, <3>2, <3>3 DEF Buffers
    <3>5. Once(in)
      BY <1>3, <2>1, <3>2, <3>3 DEF Once
    <3>6. Known(in) = Known(b) \cup {f}
      BY <3>2, <3>3 DEF Known, Held
    <3>7. in.mem # <<>>
      BY <1>1, <3>2, AppendProperties
    <3>8. Len(in.mem) <= MemLimit /\ total_frames(in) = total_frames(b) + 1
      BY <1>1, <1>2, <2>2, <3>2, <3>3, <3>4 DEF total_frames, Buffers, room
    <3> QED
      BY <3>2, <3>4, <3>5, <3>6, <3>7, <3>8
  <2>3. CASE ~room
    <3>1. in = [b EXCEPT !.disk = Append(b.disk, f)]
      BY <2>3
    <3> HIDE DEF in, room
    <3>2. /\ in.disk = Append(b.disk, f) /\ in.mem = b.mem /\ in.inFlight = b.inFlight
          /\ in.counted = b.counted /\ in.fused = b.fused
          /\ in = [mem |-> in.mem, disk |-> in.disk, inFlight |-> in.inFlight,
                   fused |-> in.fused, counted |-> in.counted]
      BY <1>1, <3>1 DEF Buffers
    <3>3. /\ in.disk \in Seq(V) /\ Len(in.disk) = Len(b.disk) + 1
          /\ Elems(in.disk) = Elems(b.disk) \cup {f} /\ IsInjective(in.disk)
      BY <1>1, <1>3, <2>1, <3>2, ElemsOfAppend DEF Once
    <3>4. in \in Buffers(V)
      BY <1>1, <3>2, <3>3 DEF Buffers
    <3>5. Once(in)
      BY <1>3, <2>1, <3>2, <3>3 DEF Once
    <3>6. Known(in) = Known(b) \cup {f}
      BY <3>2, <3>3 DEF Known, Held
    <3>7. in.disk # <<>>
      BY <1>1, <3>2, AppendProperties
    <3>8. Len(in.mem) <= MemLimit /\ total_frames(in) = total_frames(b) + 1
      BY <1>1, <1>2, <1>3, <3>2, <3>3, <3>4 DEF total_frames, Buffers, InBudget
    <3> QED
      BY <3>2, <3>4, <3>5, <3>6, <3>7, <3>8
  <2> QED
    BY <2>2, <2>3
<1> HIDE DEF in, lost, p, room
<1>7. total_frames(b) \in Nat /\ total_frames(b) <= TotalLimit
  BY <1>1, <1>3 DEF total_frames, Buffers, InBudget
<1>8. CASE b.fused \/ (~room /\ ~diskOk)
  BY <1>4, <1>5, <1>8 DEF p
<1>9. CASE ~ (b.fused \/ (~room /\ ~diskOk)) /\ total_frames(in) > TotalLimit
  <2>1. p = EvictAny(in, isEv)
    BY <1>4, <1>9
  <2>2. /\ p \in Buffers(V) /\ Once(p) /\ Len(p.mem) <= Len(in.mem)
        /\ total_frames(p) = total_frames(in) - 1
        /\ p.inFlight = in.inFlight /\ Known(p) = Known(in)
    BY <1>6, <2>1, EvictAnySound
  <2>3. Len(p.mem) \in Nat /\ Len(in.mem) \in Nat
    BY <1>6, <2>2, SeqFacts DEF Buffers
  <2>4. InBudget(p)
    BY <1>2, <1>6, <1>7, <2>2, <2>3 DEF InBudget
  <2> QED
    BY <1>6, <2>2, <2>4 DEF Sound, p
<1>10. CASE ~ (b.fused \/ (~room /\ ~diskOk)) /\ ~ (total_frames(in) > TotalLimit)
  <2>1. p = in
    BY <1>4, <1>10
  <2>2. InBudget(p)
    BY <1>2, <1>6, <1>7, <1>10, <2>1 DEF InBudget
  <2> QED
    BY <1>6, <2>1, <2>2 DEF Sound, p
<1> QED
  BY <1>8, <1>9, <1>10

\* A first part of a segment fits into a batch.
LEMMA FittingBound ==
    ASSUME NEW V, NEW s \in Seq(V), NEW n \in Nat, NEW isLarge
    PROVE  /\ Fitting(s, n, isLarge) \in Nat
           /\ Fitting(s, n, isLarge) <= Len(s) /\ Fitting(s, n, isLarge) <= n
<1>1. PICK l \in Nat : l = Len(s)
  BY SeqFacts
<1>2. PICK k \in Nat : k = Least(l, n) /\ k <= l /\ k <= n
  BY <1>1 DEF Least
<1> DEFINE K == {j \in 1..k : \A i \in 1..j : ~isLarge[s[i]]}
<1>3. Fitting(s, n, isLarge) = Cardinality(K)
  BY <1>1, <1>2 DEF Fitting
<1>4. IsFiniteSet(1..k) /\ Cardinality(1..k) = k
  BY <1>2, FS_Interval
<1>5. K \subseteq 1..k
  OBVIOUS
<1> HIDE DEF K
<1>6. IsFiniteSet(K) /\ Cardinality(K) <= k
  BY <1>4, <1>5, FS_Subset
<1>7. Cardinality(K) \in Nat
  BY <1>6, FS_CardinalityType
<1> QED
  BY <1>1, <1>2, <1>3, <1>6, <1>7

\* drain_batch: what leaves the segments is in the batch, wherever it stops.
LEMMA DrainSound ==
    ASSUME NEW V, NEW b, Sound(b, V), NEW isLarge, NEW reads \in Nat
    PROVE  /\ Sound(Drain(b, isLarge, reads), V)
           /\ Known(Drain(b, isLarge, reads)) = Known(b)
<1>1. /\ b.mem \in Seq(V) /\ b.disk \in Seq(V) /\ b.inFlight \in Seq(V)
      /\ b.counted \in SUBSET V /\ b \in Buffers(V) /\ Once(b) /\ InBudget(b)
  BY DEF Buffers, Sound
<1>2. /\ Len(b.mem) \in Nat /\ Len(b.disk) \in Nat /\ Len(b.inFlight) \in Nat
      /\ DOMAIN b.mem = 1..Len(b.mem) /\ DOMAIN b.disk = 1..Len(b.disk)
      /\ MemLimit \in Nat /\ TotalLimit \in Nat /\ BatchLimit \in Nat
  BY <1>1, SeqFacts, BufferAssumption DEF BufferAssumption
<1>3. PICK m \in Nat : /\ m = Fitting(b.mem, BatchLimit, isLarge)
                       /\ m <= Len(b.mem) /\ m <= BatchLimit
  BY <1>1, <1>2, FittingBound
<1>4. PICK d \in Nat :
         /\ d = (IF m < Len(b.mem) THEN 0
                 ELSE Fitting(b.disk, Least(BatchLimit - m, reads), isLarge))
         /\ d <= Len(b.disk)
  <2>1. Least(BatchLimit - m, reads) \in Nat
    BY <1>2, <1>3 DEF Least
  <2>2. /\ Fitting(b.disk, Least(BatchLimit - m, reads), isLarge) \in Nat
        /\ Fitting(b.disk, Least(BatchLimit - m, reads), isLarge) <= Len(b.disk)
    BY <1>1, <2>1, FittingBound
  <2> QED
    BY <1>2, <2>2
<1> DEFINE m1 == SubSeq(b.mem, 1, m)
           m2 == SubSeq(b.mem, m + 1, Len(b.mem))
           d1 == SubSeq(b.disk, 1, d)
           d2 == SubSeq(b.disk, d + 1, Len(b.disk))
           c  == Drain(b, isLarge, reads)
<1>5. c = [b EXCEPT !.mem = m2, !.disk = d2, !.inFlight = (b.inFlight \o m1) \o d1]
  BY <1>3, <1>4 DEF Drain
<1>6. /\ m1 \in Seq(V) /\ m2 \in Seq(V)
      /\ Len(m1) = m /\ Len(m2) = Len(b.mem) - m
      /\ IsInjective(m1) /\ IsInjective(m2)
      /\ Elems(m1) \cup Elems(m2) = Elems(b.mem)
      /\ Elems(m1) \cap Elems(m2) = {}
  BY <1>1, <1>2, <1>3, SplitSeq DEF Once
<1>7. /\ d1 \in Seq(V) /\ d2 \in Seq(V)
      /\ Len(d1) = d /\ Len(d2) = Len(b.disk) - d
      /\ IsInjective(d1) /\ IsInjective(d2)
      /\ Elems(d1) \cup Elems(d2) = Elems(b.disk)
      /\ Elems(d1) \cap Elems(d2) = {}
  BY <1>1, <1>2, <1>4, SplitSeq DEF Once
<1>8. /\ Elems(b.mem) \cap Elems(b.disk) = {}
      /\ Elems(b.mem) \cap Elems(b.inFlight) = {}
      /\ Elems(b.disk) \cap Elems(b.inFlight) = {}
      /\ IsInjective(b.inFlight)
  BY <1>1 DEF Once
<1> HIDE DEF m1, m2, d1, d2, c
<1> DEFINE e == b.inFlight \o m1
           g == e \o d1
<1>9. /\ e \in Seq(V) /\ Len(e) = Len(b.inFlight) + m
      /\ Elems(e) = Elems(b.inFlight) \cup Elems(m1) /\ IsInjective(e)
  <2>1. Elems(b.inFlight) \cap Elems(m1) = {}
    BY <1>6, <1>8
  <2>2. PICK x \in Seq(V) : x = b.inFlight /\ IsInjective(x)
    BY <1>1, <1>8
  <2>3. e = x \o m1
    BY <2>2
  <2>4. /\ e \in Seq(V) /\ Len(e) = Len(x) + Len(m1)
        /\ Elems(e) = Elems(x) \cup Elems(m1) /\ IsInjective(e)
    BY <1>6, <2>1, <2>2, <2>3, ElemsOfConcat
  <2> QED
    BY <1>6, <2>2, <2>4
<1> HIDE DEF e
<1>10. /\ g \in Seq(V) /\ Len(g) = Len(b.inFlight) + m + d
       /\ Elems(g) = Elems(b.inFlight) \cup Elems(m1) \cup Elems(d1) /\ IsInjective(g)
  <2>1. Elems(e) \cap Elems(d1) = {}
    BY <1>6, <1>7, <1>8, <1>9
  <2>2. \A x \in Seq(V), y \in Seq(V) :
           (IsInjective(x) /\ IsInjective(y) /\ Elems(x) \cap Elems(y) = {}) =>
           /\ x \o y \in Seq(V) /\ Len(x \o y) = Len(x) + Len(y)
           /\ Elems(x \o y) = Elems(x) \cup Elems(y) /\ IsInjective(x \o y)
    BY ElemsOfConcat
  <2>3. /\ g \in Seq(V) /\ Len(g) = Len(e) + Len(d1)
        /\ Elems(g) = Elems(e) \cup Elems(d1) /\ IsInjective(g)
    BY <1>7, <1>9, <2>1, <2>2
  <2> QED
    BY <1>7, <1>9, <2>3
<1>11. c = [b EXCEPT !.mem = m2, !.disk = d2, !.inFlight = g]
  BY <1>5 DEF e
<1> HIDE DEF g
<1>12. /\ c.mem = m2 /\ c.disk = d2 /\ c.inFlight = g
       /\ c.counted = b.counted /\ c \in Buffers(V)
  BY <1>1, <1>6, <1>7, <1>10, <1>11 DEF Buffers
<1>13. Once(c)
  <2>1. Elems(m2) \cap Elems(d2) = {} /\ Elems(m2) \cap Elems(g) = {} /\ Elems(d2) \cap Elems(g) = {}
    BY <1>6, <1>7, <1>8, <1>10
  <2> QED
    BY <1>6, <1>7, <1>10, <1>12, <2>1 DEF Once
<1>14. Known(c) = Known(b)
  BY <1>6, <1>7, <1>10, <1>12 DEF Known, Held
<1>15. InBudget(c)
  <2>1. Len(c.mem) <= Len(b.mem) /\ total_frames(c) = total_frames(b)
    <3>1. /\ Len(c.mem) = Len(b.mem) - m /\ Len(c.disk) = Len(b.disk) - d
          /\ Len(c.inFlight) = Len(b.inFlight) + m + d
      BY <1>6, <1>7, <1>10, <1>12
    <3>2. PICK x \in Nat, y \in Nat, z \in Nat :
             x = Len(b.mem) /\ y = Len(b.disk) /\ z = Len(b.inFlight)
      BY <1>2
    <3>3. total_frames(b) = x + y + z
      BY <3>2 DEF total_frames
    <3>4. total_frames(c) = (x - m) + (y - d) + (z + m + d)
      BY <3>1, <3>2 DEF total_frames
    <3>5. (x - m) + (y - d) + (z + m + d) = x + y + z
      OBVIOUS
    <3>6. Len(c.mem) = x - m
      BY <3>1, <3>2
    <3>7. x - m <= x
      OBVIOUS
    <3> QED
      BY <3>2, <3>3, <3>4, <3>5, <3>6, <3>7
  <2>2. Len(c.mem) \in Nat
    BY <1>6, <1>12, SeqFacts
  <2> QED
    BY <1>1, <1>2, <2>1, <2>2 DEF InBudget
<1> QED
  BY <1>12, <1>13, <1>14, <1>15 DEF Sound, c

\* commit: the batch is forgotten, and nothing else.
LEMMA CommitSound ==
    ASSUME NEW V, NEW b, Sound(b, V)
    PROVE  /\ Sound(Commit(b), V)
           /\ Known(b) = Known(Commit(b)) \cup Elems(b.inFlight)
           /\ Commit(b).inFlight = <<>>
<1> DEFINE c == Commit(b)
<1>1. /\ b.mem \in Seq(V) /\ b.disk \in Seq(V) /\ b.inFlight \in Seq(V)
      /\ b.counted \in SUBSET V /\ b \in Buffers(V) /\ Once(b) /\ InBudget(b)
  BY DEF Buffers, Sound
<1>2. Len(b.mem) \in Nat /\ Len(b.disk) \in Nat /\ Len(b.inFlight) \in Nat /\ TotalLimit \in Nat
  BY <1>1, SeqFacts, BufferAssumption DEF BufferAssumption
<1>3. <<>> \in Seq(V) /\ Len(<<>>) = 0 /\ Elems(<<>>) = {} /\ IsInjective(<<>>)
  BY EmptySeq DEF Elems, IsInjective
<1>4. /\ c.mem = b.mem /\ c.disk = b.disk /\ c.inFlight = <<>>
      /\ c.counted = b.counted /\ c \in Buffers(V)
  BY <1>1, <1>3 DEF Commit, Buffers
<1> HIDE DEF c
<1>5. Once(c)
  BY <1>1, <1>3, <1>4 DEF Once
<1>6. InBudget(c)
  BY <1>1, <1>2, <1>3, <1>4 DEF total_frames, Buffers, InBudget
<1>7. Known(b) = Known(c) \cup Elems(b.inFlight)
  BY <1>3, <1>4 DEF Known, Held
<1> QED
  BY <1>4, <1>5, <1>6, <1>7 DEF Sound, c

\* rollback: the batch is back or a counter has it, and the segment is within its limit.
LEMMA RollbackSound ==
    ASSUME NEW V, NEW b, Sound(b, V), NEW isEv
    PROVE  /\ Sound(Rollback(b, isEv), V)
           /\ Known(Rollback(b, isEv)) = Known(b)
           /\ Rollback(b, isEv).inFlight = <<>>
<1>1. /\ b.mem \in Seq(V) /\ b.disk \in Seq(V) /\ b.inFlight \in Seq(V)
      /\ b.counted \in SUBSET V /\ b \in Buffers(V) /\ Once(b) /\ InBudget(b)
  BY DEF Buffers, Sound
<1>2. /\ Len(b.mem) \in Nat /\ Len(b.disk) \in Nat /\ Len(b.inFlight) \in Nat
      /\ TotalLimit \in Nat /\ MemLimit \in Nat
  BY <1>1, SeqFacts, BufferAssumption DEF BufferAssumption
<1>3. <<>> \in Seq(V) /\ Len(<<>>) = 0 /\ Elems(<<>>) = {} /\ IsInjective(<<>>)
  BY EmptySeq DEF Elems, IsInjective
<1> DEFINE s == b.inFlight \o b.mem
           back == [b EXCEPT !.mem = s, !.inFlight = <<>>]
           r == Rollback(b, isEv)
<1>4. r = IF b.inFlight = <<>> \/ Len(back.mem) <= MemLimit THEN back
          ELSE EvictMem(back, Len(back.mem) - MemLimit, isEv)
  BY DEF Rollback
<1>5. /\ s \in Seq(V) /\ Len(s) = Len(b.inFlight) + Len(b.mem)
      /\ Elems(s) = Elems(b.inFlight) \cup Elems(b.mem) /\ IsInjective(s)
  <2>1. IsInjective(b.inFlight) /\ IsInjective(b.mem) /\ Elems(b.inFlight) \cap Elems(b.mem) = {}
    BY <1>1 DEF Once
  <2> QED
    BY <1>1, <2>1, ElemsOfConcat
<1> HIDE DEF s, r
<1>6. /\ back.mem = s /\ back.disk = b.disk /\ back.inFlight = <<>>
      /\ back.counted = b.counted /\ back \in Buffers(V)
  BY <1>1, <1>3, <1>5 DEF Buffers
<1> HIDE DEF back
<1>7. Once(back)
  BY <1>1, <1>3, <1>5, <1>6 DEF Once
<1>8. Known(back) = Known(b)
  BY <1>3, <1>5, <1>6 DEF Known, Held
<1>9. total_frames(back) = total_frames(b) /\ total_frames(b) \in Nat
  <2>1. PICK x \in Nat, y \in Nat, z \in Nat :
           x = Len(b.mem) /\ y = Len(b.disk) /\ z = Len(b.inFlight)
    BY <1>2
  <2>2. total_frames(b) = x + y + z
    BY <2>1 DEF total_frames
  <2>3. total_frames(back) = (z + x) + y + 0
    BY <1>3, <1>5, <1>6, <2>1 DEF total_frames
  <2> QED
    BY <2>2, <2>3
<1>10. CASE b.inFlight = <<>> \/ Len(back.mem) <= MemLimit
  <2>1. r = back
    BY <1>4, <1>10
  <2>2. Len(back.mem) <= MemLimit
    <3>1. b.inFlight = <<>> => Len(back.mem) = Len(b.mem)
      BY <1>2, <1>3, <1>5, <1>6
    <3> QED
      BY <1>1, <1>10, <3>1 DEF InBudget
  <2>3. InBudget(back)
    BY <1>1, <1>9, <2>2 DEF InBudget
  <2> QED
    BY <1>6, <1>7, <1>8, <2>1, <2>3 DEF Sound, r
<1>11. CASE ~ (b.inFlight = <<>> \/ Len(back.mem) <= MemLimit)
  <2>0. Len(back.mem) \in Nat /\ Len(back.mem) > MemLimit
    BY <1>2, <1>6, <1>11 DEF total_frames, Buffers
  <2>1. PICK n \in Nat : n = Len(back.mem) - MemLimit /\ n <= Len(back.mem)
    <3>1. PICK l \in Nat : l = Len(back.mem)
      BY <2>0
    <3>2. l - MemLimit \in Nat /\ l - MemLimit <= l
      BY <1>2, <2>0, <3>1
    <3> QED
      BY <3>1, <3>2
  <2>2. r = EvictMem(back, n, isEv)
    BY <1>4, <1>11, <2>1
  <2>3. /\ r \in Buffers(V) /\ Once(r) /\ Len(r.mem) = Len(back.mem) - n
        /\ r.disk = back.disk /\ r.inFlight = back.inFlight /\ Known(r) = Known(back)
    BY <1>6, <1>7, <2>1, <2>2, EvictMemSound
  <2>4. Len(r.mem) = MemLimit
    BY <1>2, <2>0, <2>1, <2>3
  <2>5. total_frames(r) <= total_frames(b)
    <3>1. PICK x \in Nat, y \in Nat, z \in Nat :
             x = Len(back.mem) /\ y = Len(back.disk) /\ z = Len(back.inFlight)
      BY <1>6, TotalType
    <3>2. total_frames(back) = x + y + z
      BY <3>1 DEF total_frames
    <3>3. total_frames(r) = MemLimit + y + z
      BY <2>3, <2>4, <3>1 DEF total_frames
    <3> QED
      <4>1. MemLimit < x
        BY <2>0, <3>1
      <4>2. MemLimit + y + z <= x + y + z
        BY <1>2, <4>1
      <4> QED
        BY <1>9, <3>2, <3>3, <4>2
  <2>6. total_frames(r) \in Nat
    BY <2>3, TotalType
  <2>7. InBudget(r)
    BY <1>1, <1>2, <1>9, <2>4, <2>5, <2>6 DEF InBudget
  <2> QED
    BY <1>6, <1>8, <2>3, <2>7 DEF Sound, r
<1> QED
  BY <1>10, <1>11

-----------------------------------------------------------------------------
(* Steps that leave a part of the state alone.                             *)

LEMMA HubKept ==
    ASSUME HubInv, UNCHANGED <<kinds, alive, fwd, buf, sync, written, skipped>>
    PROVE  HubInv'
BY DEF HubInv, Made, NewFrame, BatchInv, NoOrphanBatch, Accounted

LEMMA NetKept ==
    ASSUME NetInv, UNCHANGED <<kinds, buffered, auth, link, hubq, wire>>
    PROVE  NetInv'
BY DEF NetInv, Messages, Made

LEMMA LoopKept ==
    ASSUME LoopInv, UNCHANGED <<kinds, loop, current, job>>, link'.conn = link.conn
    PROVE  LoopInv'
BY DEF LoopInv, Jobs, Made

LEMMA ChatKept ==
    ASSUME ChatInv, UNCHANGED <<kinds, stream, gap, chat, table, shown, observed>>
    PROVE  ChatInv'
BY DEF ChatInv, Made, MissingIsShown

LEMMA OfflineKept ==
    ASSUME OfflineShowsGap, UNCHANGED <<loop, current, chat>>
    PROVE  OfflineShowsGap'
BY DEF OfflineShowsGap

LEMMA MadeIsNat ==
    ASSUME HubInv
    PROVE  Len(kinds) \in Nat /\ Made \in SUBSET Nat
<1>1. Len(kinds) \in Nat
  BY SeqFacts DEF HubInv
<1> QED
  BY <1>1 DEF Made

LEMMA KnownIsMade ==
    ASSUME HubInv
    PROVE  /\ Known(buf) \subseteq Made /\ Held(buf) \subseteq Made
           /\ Elems(sync.batch) \subseteq Made
<1>1. /\ buf.mem \in Seq(Made) /\ buf.disk \in Seq(Made) /\ buf.inFlight \in Seq(Made)
      /\ buf.counted \subseteq Made /\ sync.batch \in Seq(Made)
  BY DEF HubInv, Sound, Buffers
<1>2. /\ Elems(buf.mem) \subseteq Made /\ Elems(buf.disk) \subseteq Made
      /\ Elems(buf.inFlight) \subseteq Made /\ Elems(sync.batch) \subseteq Made
  BY <1>1, SeqFacts
<1> QED
  BY <1>1, <1>2 DEF Known, Held

-----------------------------------------------------------------------------
(* The hub.                                                                *)

LEMMA InitInv == Init => IInv
<1> SUFFICES ASSUME Init
             PROVE  IInv
  OBVIOUS
<1>1. kinds = <<>> /\ Len(kinds) = 0
  BY EmptySeq DEF Init
<1>2. Made = {}
  BY <1>1 DEF Made
<1>3. <<>> \in Seq({}) /\ \A V : <<>> \in Seq(V)
  BY EmptySeq
<1>4. MaxConns \in Nat /\ 1 \in Conns
  BY StreamAssumption DEF StreamAssumption, Conns
<1>5. HubInv
  <2>1. kinds \in Seq(Kinds) /\ (\E script \in Scripts : IsPrefix(kinds, script))
    <3>1. PICK script \in Scripts : script \in Seq(Kinds)
      BY StreamAssumption DEF StreamAssumption
    <3>2. Len(script) \in Nat
      BY <3>1, SeqFacts
    <3>3. SubSeq(kinds, 1, 0) = <<>> /\ SubSeq(script, 1, 0) = <<>>
      BY SubSeqEmpty
    <3>4. IsPrefix(kinds, script)
      BY <1>1, <3>2, <3>3 DEF IsPrefix
    <3> QED
      BY <1>1, <1>3, <3>4
  <2>2. Sound(buf, Made) /\ Held(buf) = {} /\ buf.inFlight = <<>> /\ buf = EmptyBuffer
    BY EmptySound DEF Init
  <2>3. Known(buf) = {}
    BY <2>2 DEF Known, EmptyBuffer
  <2>4. fwd = NoFrame /\ fwd \in [seq : 0..Len(kinds), online : BOOLEAN] /\ fwd.seq = 0
    BY <1>1 DEF Init, NoFrame
  <2>5. /\ sync \in [at : {"none", "run", "sleep", "send", "written"}, batch : Seq(Made)]
        /\ sync.at = "none"
    BY <1>3 DEF Init, NoSync
  <2>6. alive \in BOOLEAN /\ written = {} /\ skipped = {}
    BY DEF Init
  <2>7. NewFrame /\ BatchInv /\ Accounted
    BY <1>2, <2>2, <2>3, <2>4, <2>5, <2>6
       DEF NewFrame, BatchInv, NoOrphanBatch, Accounted
  <2> QED
    BY <2>1, <2>2, <2>4, <2>5, <2>6, <2>7 DEF HubInv
<1>6. NetInv
  BY <1>3, <1>4 DEF Init, NetInv
<1>7. LoopInv
  <2>1. NoJob \in Jobs
    BY <1>3 DEF NoJob, Jobs
  <2>2. \A k \in Conns : k > 1 <=> k # 1
    BY <1>4 DEF Conns
  <2>3. link.conn = 1 /\ current \in 0..MaxConns
    BY <1>4 DEF Init, Conns
  <2> QED
    BY <2>1, <2>2, <2>3 DEF Init, LoopInv, NoJob
<1>8. ChatInv
  <2>1. Elems(<<>>) = {}
    BY DEF Elems
  <2> QED
    BY <1>3, <2>1 DEF Init, ChatInv, MissingIsShown
<1>9. OfflineShowsGap
  BY DEF Init, OfflineShowsGap
<1> QED
  BY <1>5, <1>6, <1>7, <1>8, <1>9 DEF IInv

LEMMA BuffersGrow ==
    ASSUME NEW V, NEW W, V \subseteq W, NEW b, Sound(b, V)
    PROVE  Sound(b, W)
<1>1. \A s \in Seq(V) : s \in Seq(W)
  BY SeqMonotonic
<1>2. b \in Buffers(W)
  BY <1>1 DEF Sound, Buffers
<1> QED
  BY <1>2 DEF Sound

\* A new frame leaves every part of the state well typed.
LEMMA TakeFrameInv ==
    ASSUME IInv, NEW kind \in Kinds, TakeFrame(kind)
    PROVE  IInv'
<1> USE DEF IInv
<1>1. /\ kinds' = Append(kinds, kind) /\ fwd = NoFrame
      /\ (\E script \in Scripts : IsPrefix(kinds', script))
      /\ fwd' = [seq |-> NextSeq, online |-> auth /\ ~buffered]
      /\ UNCHANGED <<alive, buf, buffered, auth, sync, link, hubq, wire, loop, job, current,
                     stream, gap, chat, table, shown, observed, written, skipped>>
  BY DEF TakeFrame, HubIdle, net, server
<1>2. PICK l \in Nat : l = Len(kinds)
  BY MadeIsNat
<1>3. kinds' \in Seq(Kinds) /\ Len(kinds') = l + 1
  BY <1>1, <1>2, AppendProperties DEF HubInv
<1>4. Made = 1..l /\ Made' = 1..(l + 1)
  BY <1>2, <1>3 DEF Made
<1>5. Made \subseteq Made' /\ Made' = Made \cup {l + 1} /\ l + 1 \notin Made /\ l + 1 # 0
  BY <1>4
<1>6. \A s \in Seq(Made) : s \in Seq(Made')
  BY <1>5, SeqMonotonic
<1>7. HubInv'
  <2>1. Sound(buf, Made)'
    BY <1>1, <1>5, BuffersGrow DEF HubInv
  <2>2. fwd' \in [seq : 0..(l + 1), online : BOOLEAN] /\ fwd'.seq = l + 1
    BY <1>1, <1>2 DEF NextSeq, NetInv
  <2>3. Known(buf) \subseteq Made
    BY KnownIsMade
  <2>4. NewFrame'
    BY <1>1, <1>3, <1>5, <2>2, <2>3 DEF NewFrame, Known, Held
  <2>5. BatchInv'
    BY <1>1 DEF HubInv, BatchInv, NoOrphanBatch
  <2>6. fwd.seq = 0
    BY <1>1 DEF NoFrame
  <2>7. Accounted'
    BY <1>1, <1>5, <2>2, <2>6 DEF HubInv, Accounted, Known, Held
  <2>8. /\ alive' \in BOOLEAN
        /\ sync' \in [at : {"none", "run", "sleep", "send", "written"}, batch : Seq(Made')]
        /\ written' \subseteq Made' /\ skipped' \subseteq Made'
        /\ fwd' \in [seq : 0..Len(kinds'), online : BOOLEAN]
    BY <1>1, <1>3, <1>5, <1>6, <2>2 DEF HubInv
  <2> QED
    BY <1>1, <1>3, <2>1, <2>4, <2>5, <2>7, <2>8 DEF HubInv
<1>8. NetInv'
  <2>1. \A m \in Messages : m \in Messages'
    BY <1>6 DEF Messages
  <2>2. \A s \in Seq(Messages) : s \in Seq(Messages')
    BY <2>1, SeqMonotonic
  <2> QED
    BY <1>1, <2>2 DEF NetInv
<1>9. LoopInv'
  <2>1. \A j \in Jobs : j \in Jobs'
    BY <1>6 DEF Jobs
  <2> QED
    BY <1>1, <2>1 DEF LoopInv
<1>10. ChatInv'
  BY <1>1, <1>5, <1>6 DEF ChatInv, MissingIsShown
<1>11. OfflineShowsGap'
  BY <1>1, OfflineKept
<1> QED
  BY <1>7, <1>8, <1>9, <1>10, <1>11

\* A message is written to the connection of the transport.
LEMMA WriteInv ==
    ASSUME NetInv, NEW m \in Messages,
           wire' = [wire EXCEPT ![link.conn] = Append(@, m)],
           UNCHANGED <<kinds, buffered, auth, link, hubq>>
    PROVE  NetInv'
<1>1. link.conn \in Conns /\ wire[link.conn] \in Seq(Messages)
  BY DEF NetInv
<1>2. Append(wire[link.conn], m) \in Seq(Messages)
  BY <1>1, AppendProperties
<1>3. wire' \in [Conns -> Seq(Messages)]
  BY <1>1, <1>2 DEF NetInv
<1>4. Messages' = Messages
  BY DEF Messages, Made
<1> QED
  BY <1>3, <1>4 DEF NetInv

LEMMA SkipFrameInv ==
    ASSUME IInv, SkipFrame
    PROVE  IInv'
<1> USE DEF IInv
<1>1. /\ fwd # NoFrame /\ fwd' = NoFrame /\ skipped' = skipped \cup {fwd.seq}
      /\ UNCHANGED <<kinds, alive, buf, buffered, auth, sync, link, hubq, wire, loop, job, current,
                     stream, gap, chat, table, shown, observed, written>>
  BY DEF SkipFrame, HubIdle, net, server
<1>2. fwd.seq \in Made
  BY <1>1, MadeIsNat DEF HubInv, NewFrame, Made
<1>3. HubInv'
  <2>1. fwd' \in [seq : 0..Len(kinds), online : BOOLEAN] /\ fwd'.seq = 0
    BY <1>1, MadeIsNat DEF NoFrame
  <2>2. NewFrame'
    BY <1>1 DEF NewFrame, NoFrame
  <2>3. Accounted'
    BY <1>1, <1>2, <2>1 DEF HubInv, Accounted, Made
  <2>4. BatchInv'
    BY <1>1 DEF HubInv, BatchInv, NoOrphanBatch
  <2> QED
    BY <1>1, <1>2, <2>1, <2>2, <2>3, <2>4 DEF HubInv, Made
<1> QED
  BY <1>1, <1>3, NetKept, LoopKept, ChatKept, OfflineKept

LEMMA SendFrameInv ==
    ASSUME IInv, SendFrame
    PROVE  IInv'
<1> USE DEF IInv
<1>1. /\ fwd # NoFrame /\ fwd' = NoFrame /\ written' = written \cup {fwd.seq}
      /\ wire' = [wire EXCEPT ![link.conn] = Append(@, [live |-> TRUE, frames |-> <<fwd.seq>>])]
      /\ UNCHANGED <<kinds, alive, buf, buffered, auth, sync, link, hubq, loop, job, current,
                     stream, gap, chat, table, shown, observed, skipped>>
  BY DEF SendFrame, HubIdle, server
<1>2. fwd.seq \in Made
  BY <1>1, MadeIsNat DEF HubInv, NewFrame, Made
<1>3. HubInv'
  <2>1. fwd' \in [seq : 0..Len(kinds), online : BOOLEAN] /\ fwd'.seq = 0
    BY <1>1, MadeIsNat DEF NoFrame
  <2>2. NewFrame'
    BY <1>1 DEF NewFrame, NoFrame
  <2>3. Accounted'
    BY <1>1, <1>2, <2>1 DEF HubInv, Accounted, Made
  <2>4. BatchInv'
    BY <1>1 DEF HubInv, BatchInv, NoOrphanBatch
  <2> QED
    BY <1>1, <1>2, <2>1, <2>2, <2>3, <2>4 DEF HubInv, Made
<1>4. NetInv'
  <2>1. <<fwd.seq>> \in Seq(Made)
    BY <1>2
  <2>2. [live |-> TRUE, frames |-> <<fwd.seq>>] \in Messages
    BY <2>1 DEF Messages
  <2> QED
    BY <1>1, <2>2, WriteInv
<1> QED
  BY <1>1, <1>3, <1>4, LoopKept, ChatKept, OfflineKept

LEMMA BufferFrameInv ==
    ASSUME IInv, BufferFrame
    PROVE  IInv'
<1> USE DEF IInv
<1>1. /\ fwd # NoFrame /\ fwd' = NoFrame
      /\ UNCHANGED <<kinds, alive, buffered, auth, sync, link, hubq, wire, loop, job, current,
                     stream, gap, chat, table, shown, observed, written, skipped>>
  BY DEF BufferFrame, HubIdle, net, server
<1>2. PICK diskOk \in BOOLEAN : buf' = Push(buf, fwd.seq, isEvent, diskOk)
  BY DEF BufferFrame
<1>3. fwd.seq \in Made /\ fwd.seq \notin Held(buf)
  BY <1>1, MadeIsNat DEF HubInv, NewFrame, Made, Known
<1>4. PICK f \in Made : f = fwd.seq
  BY <1>3
<1>5. Sound(buf', Made) /\ Known(buf') = Known(buf) \cup {f} /\ buf'.inFlight = buf.inFlight
  BY <1>2, <1>3, <1>4, PushSound DEF HubInv
<1>6. HubInv'
  <2>1. fwd' \in [seq : 0..Len(kinds), online : BOOLEAN] /\ fwd'.seq = 0
    BY <1>1, MadeIsNat DEF NoFrame
  <2>2. NewFrame'
    BY <1>1 DEF NewFrame, NoFrame
  <2>3. Accounted'
    BY <1>1, <1>4, <1>5, <2>1 DEF HubInv, Accounted, Made
  <2>4. BatchInv'
    BY <1>1, <1>5 DEF HubInv, BatchInv, NoOrphanBatch
  <2> QED
    BY <1>1, <1>5, <2>1, <2>2, <2>3, <2>4 DEF HubInv, Made
<1> QED
  BY <1>1, <1>6, NetKept, LoopKept, ChatKept, OfflineKept

LEMMA ExitInv ==
    ASSUME IInv, Exit
    PROVE  IInv'
<1> USE DEF IInv
<1>1. /\ fwd = NoFrame /\ alive' = FALSE /\ buf' = EmptyBuffer
      /\ UNCHANGED <<kinds, fwd, buffered, auth, sync, link, hubq, loop, job, current,
                     stream, gap, chat, table, shown, observed, written, skipped>>
  BY DEF Exit, HubIdle, server
<1>2. Sound(buf', Made) /\ buf'.inFlight = <<>>
  BY <1>1, EmptySound
<1>3. HubInv'
  <2>1. NewFrame'
    BY <1>1 DEF NewFrame, NoFrame
  <2>2. Accounted'
    BY <1>1 DEF Accounted
  <2>3. BatchInv'
    <3>1. Elems(buf'.inFlight) = {}
      BY <1>2 DEF Elems
    <3> QED
      BY <1>1, <1>2, <3>1 DEF HubInv, BatchInv, NoOrphanBatch
  <2> QED
    BY <1>1, <1>2, <2>1, <2>2, <2>3 DEF HubInv, Made
<1>4. NetInv'
  <2>1. CASE auth /\ link.queue = "open"
    <3>1. <<>> \in Seq(Made)
      BY EmptySeq
    <3>2. [live |-> TRUE, frames |-> <<>>] \in Messages
      BY <3>1 DEF Messages
    <3>3. wire' = [wire EXCEPT ![link.conn] = Append(@, [live |-> TRUE, frames |-> <<>>])]
      BY <2>1 DEF Exit
    <3> QED
      BY <1>1, <3>2, <3>3, WriteInv
  <2>2. CASE ~ (auth /\ link.queue = "open")
    <3>1. wire' = wire
      BY <2>2 DEF Exit
    <3> QED
      BY <1>1, <3>1, NetKept
  <2> QED
    BY <2>1, <2>2
<1> QED
  BY <1>1, <1>3, <1>4, LoopKept, ChatKept, OfflineKept

\* The batch goes back, and no resync task has it any more.
LEMMA RolledBack ==
    ASSUME HubInv, RollbackAll, sync' \in [at : {"none", "run"}, batch : {<<>>}],
           UNCHANGED <<kinds, alive, fwd, written, skipped>>
    PROVE  HubInv'
<1>1. Sound(buf', Made) /\ Known(buf') = Known(buf) /\ buf'.inFlight = <<>>
  BY RollbackSound DEF HubInv, RollbackAll
<1>2. sync' \in [at : {"none", "run", "sleep", "send", "written"}, batch : Seq(Made)]
  <2>1. <<>> \in Seq(Made)
    BY EmptySeq
  <2> QED
    BY <2>1
<1>3. BatchInv'
  BY <1>1 DEF BatchInv, NoOrphanBatch
<1>4. NewFrame' /\ Accounted'
  BY <1>1 DEF HubInv, NewFrame, Accounted, Made
<1> QED
  BY <1>1, <1>2, <1>3, <1>4 DEF HubInv, Made

LEMMA OnAuthenticatedInv ==
    ASSUME IInv, OnAuthenticated
    PROVE  IInv'
<1> USE DEF IInv
<1>1. /\ hubq # <<>> /\ hubq' = Tail(hubq) /\ auth' = TRUE
      /\ sync' = [NoSync EXCEPT !.at = "run"] /\ RollbackAll
      /\ UNCHANGED <<kinds, alive, fwd, buffered, link, wire, loop, job, current,
                     stream, gap, chat, table, shown, observed, written, skipped>>
  BY DEF OnAuthenticated, server
<1>2. HubInv'
  <2>1. sync' = [at |-> "run", batch |-> <<>>]
    BY <1>1 DEF NoSync
  <2>2. sync' \in [at : {"none", "run"}, batch : {<<>>}]
    BY <2>1
  <2> QED
    BY <1>1, <2>2, RolledBack
<1>3. NetInv'
  <2>1. hubq' \in Seq({"Authenticated", "Disconnected"})
    BY <1>1, HeadTailProperties DEF NetInv
  <2> QED
    BY <1>1, <2>1 DEF NetInv, Messages, Made
<1> QED
  BY <1>1, <1>2, <1>3, LoopKept, ChatKept, OfflineKept

LEMMA OnDisconnectedInv ==
    ASSUME IInv, OnDisconnected
    PROVE  IInv'
<1> USE DEF IInv
<1>1. /\ hubq # <<>> /\ hubq' = Tail(hubq) /\ auth' = FALSE
      /\ sync' = NoSync /\ RollbackAll
      /\ buffered' = IF alive THEN TRUE ELSE buffered
      /\ UNCHANGED <<kinds, alive, fwd, link, wire, loop, job, current,
                     stream, gap, chat, table, shown, observed, written, skipped>>
  BY DEF OnDisconnected, server
<1>2. HubInv'
  <2>1. sync' = [at |-> "none", batch |-> <<>>]
    BY <1>1 DEF NoSync
  <2>2. sync' \in [at : {"none", "run"}, batch : {<<>>}]
    BY <2>1
  <2> QED
    BY <1>1, <2>2, RolledBack
<1>3. NetInv'
  <2>1. hubq' \in Seq({"Authenticated", "Disconnected"})
    BY <1>1, HeadTailProperties DEF NetInv
  <2>2. buffered' \in BOOLEAN
    BY <1>1 DEF NetInv
  <2> QED
    BY <1>1, <2>1, <2>2 DEF NetInv, Messages, Made
<1> QED
  BY <1>1, <1>2, <1>3, LoopKept, ChatKept, OfflineKept

-----------------------------------------------------------------------------
(* The resync.                                                             *)

LEMMA SyncDoneInv ==
    ASSUME IInv, SyncDone
    PROVE  IInv'
<1> USE DEF IInv
<1>1. /\ sync.at = "run" /\ buffered' = FALSE /\ sync' = NoSync
      /\ UNCHANGED <<kinds, alive, fwd, buf, auth, link, hubq, wire, loop, job, current,
                     stream, gap, chat, table, shown, observed, written, skipped>>
  BY DEF SyncDone, server
<1>2. HubInv'
  <2>1. /\ sync' \in [at : {"none", "run", "sleep", "send", "written"}, batch : Seq(Made)]
        /\ sync'.at = "none"
    BY <1>1, EmptySeq DEF NoSync
  <2>2. BatchInv'
    BY <1>1, <2>1 DEF HubInv, BatchInv, NoOrphanBatch
  <2>3. NewFrame' /\ Accounted'
    BY <1>1 DEF HubInv, NewFrame, Accounted, Made
  <2> QED
    BY <1>1, <2>1, <2>2, <2>3 DEF HubInv, Made
<1>3. NetInv'
  BY <1>1 DEF NetInv, Messages, Made
<1> QED
  BY <1>1, <1>2, <1>3, LoopKept, ChatKept, OfflineKept

LEMMA SyncDrainInv ==
    ASSUME IInv, SyncDrain
    PROVE  IInv'
<1> USE DEF IInv
<1>1. PICK b \in Batches : buf' = b /\ sync' = [at |-> "send", batch |-> b.inFlight]
  BY DEF SyncDrain
<1>2. UNCHANGED <<kinds, alive, fwd, buffered, auth, link, hubq, wire, loop, job, current,
                  stream, gap, chat, table, shown, observed, written, skipped>>
  BY DEF SyncDrain, server
<1>3. HubInv'
  <2>1. Sound(buf', Made) /\ Known(buf') = Known(buf)
    <3>1. Sound(buf, Made) /\ Len(buf.disk) \in Nat
      BY SeqFacts DEF HubInv, Sound, Buffers
    <3>2. PICK reads \in Nat : b = Drain(buf, isBulk, reads)
      BY <3>1 DEF Batches
    <3> QED
      BY <1>1, <3>1, <3>2, DrainSound
  <2>2. /\ sync'.at = "send" /\ sync'.batch = buf'.inFlight
        /\ sync' \in [at : {"none", "run", "sleep", "send", "written"}, batch : Seq(Made)]
    <3>1. buf'.inFlight \in Seq(Made)
      BY <2>1 DEF Sound, Buffers
    <3> QED
      BY <1>1, <3>1
  <2>3. BatchInv'
    BY <2>2 DEF BatchInv, NoOrphanBatch
  <2>4. NewFrame' /\ Accounted'
    BY <1>2, <2>1 DEF HubInv, NewFrame, Accounted, Made
  <2> QED
    BY <1>2, <2>1, <2>2, <2>3, <2>4 DEF HubInv, Made
<1> QED
  BY <1>2, <1>3, NetKept, LoopKept, ChatKept, OfflineKept

\* A resync that sleeps, or wakes up, holds no batch.
LEMMA SyncPauseInv ==
    ASSUME IInv, SyncIdle \/ SyncWake
    PROVE  IInv'
<1> USE DEF IInv
<1>1. PICK at \in {"run", "sleep"} : sync' = [sync EXCEPT !.at = at]
  BY DEF SyncIdle, SyncWake
<1>2. /\ sync.at \in {"run", "sleep"}
      /\ UNCHANGED <<kinds, alive, fwd, buf, buffered, auth, link, hubq, wire, loop, job,
                     current, stream, gap, chat, table, shown, observed, written, skipped>>
  BY DEF SyncIdle, SyncWake, hub, server
<1>3. HubInv'
  <2>1. /\ sync' \in [at : {"none", "run", "sleep", "send", "written"}, batch : Seq(Made)]
        /\ sync'.at = at
    BY <1>1 DEF HubInv
  <2>2. BatchInv'
    BY <1>2, <2>1 DEF HubInv, BatchInv, NoOrphanBatch
  <2>3. NewFrame' /\ Accounted'
    BY <1>2 DEF HubInv, NewFrame, Accounted, Made
  <2> QED
    BY <1>2, <2>1, <2>2, <2>3 DEF HubInv, Made
<1> QED
  BY <1>2, <1>3, NetKept, LoopKept, ChatKept, OfflineKept

LEMMA SyncWriteInv ==
    ASSUME IInv, SyncWrite
    PROVE  IInv'
<1> USE DEF IInv
<1>1. /\ sync.at = "send" /\ sync' = [sync EXCEPT !.at = "written"]
      /\ wire' = [wire EXCEPT ![link.conn] = Append(@, [live |-> FALSE, frames |-> sync.batch])]
      /\ written' = written \cup Elems(sync.batch)
      /\ UNCHANGED <<kinds, alive, fwd, buf, buffered, auth, link, hubq, loop, job, current,
                     stream, gap, chat, table, shown, observed, skipped>>
  BY DEF SyncWrite, hub, server
<1>2. Elems(sync.batch) \subseteq Made
  BY KnownIsMade
<1>3. HubInv'
  <2>1. /\ sync'.at = "written" /\ sync'.batch = sync.batch
        /\ sync' \in [at : {"none", "run", "sleep", "send", "written"}, batch : Seq(Made)]
    BY <1>1 DEF HubInv
  <2>2. BatchInv'
    BY <1>1, <2>1 DEF HubInv, BatchInv, NoOrphanBatch
  <2>3. NewFrame' /\ Accounted'
    BY <1>1, <1>2 DEF HubInv, NewFrame, Accounted, Made
  <2> QED
    BY <1>1, <1>2, <2>1, <2>2, <2>3 DEF HubInv, Made
<1>4. NetInv'
  <2>1. [live |-> FALSE, frames |-> sync.batch] \in Messages
    BY DEF HubInv, Messages
  <2> QED
    BY <1>1, <2>1, WriteInv
<1> QED
  BY <1>1, <1>3, <1>4, LoopKept, ChatKept, OfflineKept

LEMMA SyncCommitInv ==
    ASSUME IInv, SyncCommit
    PROVE  IInv'
<1> USE DEF IInv
<1>1. /\ sync.at = "written" /\ buf' = Commit(buf) /\ sync' = [NoSync EXCEPT !.at = "run"]
      /\ UNCHANGED <<kinds, alive, fwd, buffered, auth, link, hubq, wire, loop, job, current,
                     stream, gap, chat, table, shown, observed, written, skipped>>
  BY DEF SyncCommit, server
<1>2. HubInv'
  <2>1. /\ Sound(buf', Made) /\ buf'.inFlight = <<>>
        /\ Known(buf) = Known(buf') \cup Elems(buf.inFlight)
    BY <1>1, CommitSound DEF HubInv
  <2>2. /\ sync'.at = "run"
        /\ sync' \in [at : {"none", "run", "sleep", "send", "written"}, batch : Seq(Made)]
    BY <1>1, EmptySeq DEF NoSync
  <2>3. BatchInv'
    BY <2>1, <2>2 DEF BatchInv, NoOrphanBatch
  <2>4. Elems(buf.inFlight) \subseteq written
    BY <1>1 DEF HubInv, BatchInv
  <2>5. NewFrame'
    BY <1>1, <2>1 DEF HubInv, NewFrame
  <2>6. Accounted'
    BY <1>1, <2>1, <2>4 DEF HubInv, Accounted, Made
  <2> QED
    BY <1>1, <2>1, <2>2, <2>3, <2>5, <2>6 DEF HubInv, Made
<1> QED
  BY <1>1, <1>2, NetKept, LoopKept, ChatKept, OfflineKept

LEMMA SyncFailInv ==
    ASSUME IInv, SyncFail
    PROVE  IInv'
<1> USE DEF IInv
<1>1. /\ RollbackAll /\ sync' = NoSync
      /\ UNCHANGED <<kinds, alive, fwd, buffered, auth, link, hubq, wire, loop, job, current,
                     stream, gap, chat, table, shown, observed, written, skipped>>
  BY DEF SyncFail, server
<1>2. HubInv'
  <2>1. sync' = [at |-> "none", batch |-> <<>>]
    BY <1>1 DEF NoSync
  <2>2. sync' \in [at : {"none", "run"}, batch : {<<>>}]
    BY <2>1
  <2> QED
    BY <1>1, <2>2, RolledBack
<1> QED
  BY <1>1, <1>2, NetKept, LoopKept, ChatKept, OfflineKept

-----------------------------------------------------------------------------
(* The transport.                                                          *)

LEMMA BreakInv ==
    ASSUME IInv, Break
    PROVE  IInv'
<1> USE DEF IInv
<1>1. /\ link' = [link EXCEPT !.queue = "down"] /\ hubq' = Append(hubq, "Disconnected")
      /\ UNCHANGED <<kinds, alive, fwd, buf, buffered, auth, sync, loop, job, current,
                     stream, gap, chat, table, shown, observed, written, skipped>>
  BY DEF Break, hub, server
<1>2. PICK n \in 0..Len(wire[link.conn]) :
         wire' = [wire EXCEPT ![link.conn] = SubSeq(wire[link.conn], 1, n)]
  BY DEF Break
<1>3. link.conn \in Conns /\ wire[link.conn] \in Seq(Messages)
  BY DEF NetInv
<1>4. Len(wire[link.conn]) \in Nat
  BY <1>3, SeqFacts
<1>5. n \in Nat /\ n <= Len(wire[link.conn]) /\ 1 \in Nat \ {0}
  BY <1>2, <1>4
<1>6. PICK w \in Seq(Messages) : w = wire[link.conn] /\ n <= Len(w)
  BY <1>3, <1>5
<1>7. SubSeq(w, 1, n) \in Seq(Messages)
  BY <1>5, <1>6, ElemsOfSubSeq
<1>8. NetInv'
  <2>1. wire' \in [Conns -> Seq(Messages)]
    BY <1>2, <1>6, <1>7 DEF NetInv
  <2>2. hubq' \in Seq({"Authenticated", "Disconnected"})
    BY <1>1, AppendProperties DEF NetInv
  <2>3. link' \in [conn : Conns, queue : {"down", "unset", "open"}]
    BY <1>1 DEF NetInv
  <2>4. Messages' = Messages
    BY <1>1 DEF Messages, Made
  <2> QED
    BY <1>1, <2>1, <2>2, <2>3, <2>4 DEF NetInv
<1>9. link'.conn = link.conn
  BY <1>1 DEF NetInv
<1> QED
  BY <1>1, <1>8, <1>9, HubKept, LoopKept, ChatKept, OfflineKept

LEMMA ConnectInv ==
    ASSUME IInv, Connect
    PROVE  IInv'
<1> USE DEF IInv
<1>1. /\ link.conn < MaxConns
      /\ link' = [conn |-> link.conn + 1, queue |-> "unset"]
      /\ hubq' = Append(hubq, "Authenticated")
      /\ loop' = [loop EXCEPT ![link.conn + 1] = "made"]
      /\ UNCHANGED <<kinds, alive, fwd, buf, buffered, auth, sync, wire, job, current,
                     stream, gap, chat, table, shown, observed, written, skipped>>
  BY DEF Connect, hub
<1>2. PICK c \in Conns : c = link.conn
  BY DEF NetInv
<1>3. MaxConns \in Nat /\ c \in Nat /\ c + 1 \in Conns
  BY <1>1, <1>2, StreamAssumption DEF StreamAssumption, Conns
<1>4. PICK d \in Conns : d = c + 1
  BY <1>3
<1>5. loop' = [loop EXCEPT ![d] = "made"] /\ link' = [conn |-> d, queue |-> "unset"]
  BY <1>1, <1>2, <1>4
<1>6. NetInv'
  <2>1. hubq' \in Seq({"Authenticated", "Disconnected"})
    BY <1>1, AppendProperties DEF NetInv
  <2>2. Messages' = Messages
    BY <1>1 DEF Messages, Made
  <2> QED
    BY <1>1, <1>5, <2>1, <2>2 DEF NetInv
<1>7. loop[d] = "none"
  <2>1. d > link.conn
    BY <1>2, <1>3, <1>4
  <2> QED
    BY <2>1 DEF LoopInv
<1>8. LoopInv'
  <2>1. loop' \in [Conns -> {"none", "made", "up", "fenced", "cleanup", "over", "replaced"}]
    BY <1>5 DEF LoopInv
  <2>2. Jobs' = Jobs
    BY <1>1 DEF Jobs, Made
  <2>3. \A k \in Conns : job'[k] # NoJob => loop'[k] \in {"up", "fenced"}
    BY <1>1, <1>5, <1>7 DEF LoopInv
  <2>4. \A k \in Conns : (k > d) => (k > c /\ k # d)
    BY <1>3, <1>4 DEF Conns
  <2>5. \A k \in Conns : k > link'.conn => loop'[k] = "none"
    BY <1>2, <1>5, <2>4 DEF LoopInv
  <2> QED
    BY <1>1, <2>1, <2>2, <2>3, <2>5 DEF LoopInv
<1>9. OfflineShowsGap'
  <2>1. loop'[d] = "made"
    BY <1>5 DEF LoopInv
  <2> QED
    BY <2>1 DEF OfflineShowsGap
<1> QED
  BY <1>1, <1>6, <1>8, <1>9, HubKept, ChatKept

LEMMA SetQueueInv ==
    ASSUME IInv, SetQueue
    PROVE  IInv'
<1> USE DEF IInv
<1>1. /\ link' = [link EXCEPT !.queue = "open"]
      /\ UNCHANGED <<kinds, alive, fwd, buf, buffered, auth, sync, hubq, wire, loop, job, current,
                     stream, gap, chat, table, shown, observed, written, skipped>>
  BY DEF SetQueue, hub, server
<1>2. NetInv'
  <2>1. link' \in [conn : Conns, queue : {"down", "unset", "open"}]
    BY <1>1 DEF NetInv
  <2> QED
    BY <1>1, <2>1 DEF NetInv, Messages, Made
<1>3. link'.conn = link.conn
  BY <1>1 DEF NetInv
<1> QED
  BY <1>1, <1>2, <1>3, HubKept, LoopKept, ChatKept, OfflineKept

-----------------------------------------------------------------------------
(* The server.                                                             *)

LEMMA RegisterInv ==
    ASSUME IInv, NEW k \in Conns, Register(k)
    PROVE  IInv'
<1> USE DEF IInv
<1>1. /\ loop[k] = "made" /\ current' = k
      /\ loop' = [j \in Conns |-> IF j = k THEN "up"
                                  ELSE IF j = current /\ loop[j] = "up" THEN "fenced"
                                  ELSE loop[j]]
      /\ UNCHANGED <<kinds, alive, fwd, buf, buffered, auth, sync, link, hubq, wire, job,
                     stream, gap, chat, table, shown, observed, written, skipped>>
  BY DEF Register, hub, net, chatState
<1>2. LoopInv'
  <2>1. loop' \in [Conns -> {"none", "made", "up", "fenced", "cleanup", "over", "replaced"}]
    BY <1>1 DEF LoopInv
  <2>2. Jobs' = Jobs
    BY <1>1 DEF Jobs, Made
  <2>3. \A j \in Conns : job'[j] # NoJob => loop'[j] \in {"up", "fenced"}
    BY <1>1 DEF LoopInv
  <2>4. \A j \in Conns : j > link'.conn => loop'[j] = "none"
    BY <1>1 DEF LoopInv
  <2>5. current' \in 0..MaxConns
    BY <1>1, StreamAssumption DEF StreamAssumption, Conns
  <2> QED
    BY <1>1, <2>1, <2>2, <2>3, <2>4, <2>5 DEF LoopInv
<1>3. OfflineShowsGap'
  <2>1. current' # 0
    BY <1>1, StreamAssumption DEF StreamAssumption, Conns
  <2> QED
    BY <2>1 DEF OfflineShowsGap
<1> QED
  BY <1>1, <1>2, <1>3, HubKept, NetKept, ChatKept

\* A loop takes the next message of its connection.
LEMMA TakenFromWire ==
    ASSUME NetInv, NEW k \in Conns, wire[k] # <<>>,
           wire' = [wire EXCEPT ![k] = Tail(@)],
           UNCHANGED <<kinds, buffered, auth, link, hubq>>
    PROVE  Head(wire[k]) \in Messages /\ NetInv'
<1>1. PICK w \in Seq(Messages) : w = wire[k] /\ w # <<>>
  BY DEF NetInv
<1>2. Head(w) \in Messages /\ Tail(w) \in Seq(Messages)
  BY <1>1, HeadTailProperties
<1>3. wire' \in [Conns -> Seq(Messages)]
  BY <1>1, <1>2 DEF NetInv
<1>4. Messages' = Messages
  BY DEF Messages, Made
<1> QED
  BY <1>1, <1>2, <1>3, <1>4 DEF NetInv

\* The job of a loop that runs changes.
LEMMA JobInv ==
    ASSUME LoopInv, NEW k \in Conns, NEW j, j \in Jobs, job' = [job EXCEPT ![k] = j],
           j.live => j.rest # <<>>, j = NoJob \/ loop[k] \in {"up", "fenced"},
           UNCHANGED <<kinds, loop, current, link>>
    PROVE  LoopInv'
<1>1. Jobs' = Jobs
  BY DEF Jobs, Made
<1>2. job' \in [Conns -> Jobs]
  BY DEF LoopInv
<1>3. \A i \in Conns : job'[i] = IF i = k THEN j ELSE job[i]
  BY DEF LoopInv
<1> QED
  BY <1>1, <1>2, <1>3 DEF LoopInv

LEMMA NoJobIsJob == NoJob \in Jobs /\ ~NoJob.live
<1>1. <<>> \in Seq(Made)
  BY EmptySeq
<1> QED
  BY <1>1 DEF NoJob, Jobs

LEMMA ReadFrameInv ==
    ASSUME IInv, NEW k \in Conns, ReadFrame(k)
    PROVE  IInv'
<1> USE DEF IInv
<1>1. /\ loop[k] \in {"up", "fenced"} /\ wire[k] # <<>>
      /\ wire' = [wire EXCEPT ![k] = Tail(@)]
      /\ UNCHANGED <<kinds, alive, fwd, buf, buffered, auth, sync, link, hubq, loop, current,
                     stream, gap, chat, table, shown, observed, written, skipped>>
  BY DEF ReadFrame, Reading, hub, chatState
<1>2. Head(wire[k]) \in Messages /\ NetInv'
  BY <1>1, TakenFromWire
<1>3. PICK m \in Messages : m = Head(wire[k])
  BY <1>2
<1>4. /\ m.frames # <<>>
      /\ job' = [job EXCEPT ![k] = [live |-> m.live, rest |-> m.frames,
                                    expected |-> Head(m.frames),
                                    delivered |-> 0, rejected |-> 0]]
  BY <1>3 DEF ReadFrame
<1>5. m.frames \in Seq(Made) /\ m.live \in BOOLEAN
  BY DEF Messages
<1>6. Head(m.frames) \in Made
  BY <1>4, <1>5, HeadTailProperties
<1>7. Head(m.frames) \in Nat
  BY <1>6, MadeIsNat
<1>8. PICK j \in Jobs : j = [live |-> m.live, rest |-> m.frames, expected |-> Head(m.frames),
                             delivered |-> 0, rejected |-> 0]
  BY <1>5, <1>7 DEF Jobs
<1>9. job' = [job EXCEPT ![k] = j] /\ j.rest # <<>>
  BY <1>4, <1>8
<1>10. LoopInv'
  BY <1>1, <1>9, JobInv
<1> QED
  BY <1>1, <1>2, <1>10, HubKept, ChatKept, OfflineKept

\* recover_from_gap leaves a marker while frames are missing.
RecoveredGap(missing) ==
    /\ gap' \in Nat \cup {NoGap} /\ (missing > 0 => gap' # NoGap)
    /\ chat' \in {"Accepting", "Gap", "Ended"}

LEMMA RecoverFacts ==
    ASSUME ChatInv, NEW missing \in Nat, NEW g \in Nat \cup {NoGap}, missing > 0 => g # NoGap,
           NEW yes, Recover(missing, g, yes)
    PROVE  RecoveredGap(missing)
<1>1. \A n \in Nat : n # NoGap
  BY DEF NoGap
<1>2. Resumed(missing) \in Nat \cup {NoGap} /\ (missing > 0 => Resumed(missing) # NoGap)
  BY <1>1 DEF Resumed
<1> QED
  BY <1>2 DEF Recover, RecoveredGap, ChatInv

\* judge_stream: the stream ends with the frame, and what is missing is in the marker.
LEMMA JudgedFacts ==
    ASSUME HubInv, ChatInv, NEW f \in Made, InOrder(f)
    PROVE  /\ Judged(f).last = f /\ Judged(f).missing \in Nat
           /\ Judged(f).gap \in Nat \cup {NoGap}
           /\ Judged(f).missing > 0 => Judged(f).gap # NoGap
<1>1. f \in Nat /\ stream.last \in Nat /\ stream.missing \in Nat /\ f > stream.last
      /\ gap \in Nat \cup {NoGap}
  BY MadeIsNat DEF ChatInv, InOrder
<1>2. stream.missing > 0 => gap # NoGap
  BY DEF ChatInv, MissingIsShown
<1>3. CASE f > stream.last + 1
  <2>1. Judged(f) = [last |-> f, missing |-> stream.missing + (f - stream.last - 1),
                     gap |-> stream.missing + (f - stream.last - 1)]
    BY <1>1, <1>3 DEF Judged
  <2>2. stream.missing + (f - stream.last - 1) \in Nat
    BY <1>1, <1>3
  <2>3. \A n \in Nat : n # NoGap
    BY DEF NoGap
  <2> QED
    BY <2>1, <2>2, <2>3
<1>4. CASE f = stream.last + 1 /\ stream.missing > 0
  <2>1. Judged(f) = [last |-> f, missing |-> 0, gap |-> NoGap]
    BY <1>1, <1>4 DEF Judged
  <2> QED
    BY <2>1
<1>5. CASE ~ (f > stream.last + 1) /\ ~ (f = stream.last + 1 /\ stream.missing > 0)
  <2>1. Judged(f) = [last |-> f, missing |-> stream.missing, gap |-> gap]
    BY <1>5 DEF Judged
  <2> QED
    BY <1>1, <1>2, <2>1
<1> QED
  BY <1>3, <1>4, <1>5

\* What the stream took, in order.
TakenInOrder ==
    /\ stream \in [last : Nat, missing : Nat]
    /\ observed \in Seq(Made)
    /\ \A f \in Elems(observed) : f <= stream.last
    /\ observed # <<>> => observed[Len(observed)] = stream.last

LEMMA ObserveInOrder ==
    ASSUME HubInv, ChatInv, NEW f \in Made, InOrder(f), Observe(f), UNCHANGED kinds
    PROVE  TakenInOrder' /\ stream'.missing = Judged(f).missing
<1>1. stream' = [last |-> f, missing |-> Judged(f).missing] /\ Judged(f).missing \in Nat
  BY JudgedFacts DEF Observe
<1>2. observed' = Append(observed, f) /\ observed \in Seq(Made)
  BY DEF Observe, ChatInv
<1>3. f \in Nat /\ Made \in SUBSET Nat /\ stream.last \in Nat /\ f > stream.last
  BY MadeIsNat DEF InOrder, ChatInv
<1>4. /\ observed' \in Seq(Made) /\ Len(observed') = Len(observed) + 1
      /\ observed'[Len(observed) + 1] = f
  BY <1>2, AppendProperties
<1>5. Elems(observed') = Elems(observed) \cup {f} /\ Elems(observed) \in SUBSET Made
  BY <1>2, ElemsOfAppend, SeqFacts
<1>6. \A g \in Elems(observed') : g <= f
  <2>1. ASSUME NEW g \in Elems(observed)
        PROVE  g <= f
    <3>1. g \in Nat /\ g <= stream.last
      BY <1>3, <1>5 DEF ChatInv
    <3> QED
      BY <1>3, <3>1
  <2>2. f <= f
    BY <1>3
  <2> QED
    BY <1>5, <2>1, <2>2
<1>7. stream' \in [last : Nat, missing : Nat] /\ stream'.last = f
  BY <1>1, <1>3
<1> QED
  BY <1>1, <1>4, <1>6, <1>7 DEF TakenInOrder, Made

\* submit, register_permission_request or observe_non_projected_frame.
LEMMA ProjectInOrder ==
    ASSUME HubInv, ChatInv, NEW f \in Made, Project(f), UNCHANGED kinds
    PROVE  /\ TakenInOrder' /\ table' \subseteq Made /\ shown' \subseteq Made
           /\ stream'.missing = IF InOrder(f) THEN Judged(f).missing ELSE stream.missing
<1>1. table' \subseteq Made /\ shown' \subseteq Made
  BY DEF Project, ChatInv
<1>2. CASE InOrder(f)
  <2>1. Observe(f)
    BY <1>2 DEF Project
  <2> QED
    BY <1>1, <1>2, <2>1, ObserveInOrder
<1>3. CASE ~InOrder(f)
  <2>1. UNCHANGED <<stream, observed>>
    BY <1>3 DEF Project
  <2> QED
    BY <1>1, <1>3, <2>1 DEF ChatInv, TakenInOrder, Made
<1> QED
  BY <1>2, <1>3

\* The frame of the loop that is handled.
LEMMA HeadOfJob ==
    ASSUME LoopInv, NEW k \in Conns, job[k].rest # <<>>
    PROVE  /\ Head(job[k].rest) \in Made /\ Tail(job[k].rest) \in Seq(Made)
           /\ job[k] \in Jobs
<1>1. job[k] \in Jobs /\ job[k].rest \in Seq(Made)
  BY DEF LoopInv, Jobs
<1> QED
  BY <1>1, HeadTailProperties

\* A loop that handles something is not over.
LEMMA BusyLoop ==
    ASSUME LoopInv, NEW k \in Conns, job[k] # NoJob, UNCHANGED <<loop, current>>
    PROVE  OfflineShowsGap' /\ loop[k] \in {"up", "fenced"}
BY DEF LoopInv, OfflineShowsGap

LEMMA LiveFrameInv ==
    ASSUME IInv, NEW k \in Conns, LiveFrame(k)
    PROVE  IInv'
<1> USE DEF IInv
<1>1. /\ job[k].live /\ job' = [job EXCEPT ![k] = NoJob]
      /\ UNCHANGED <<kinds, alive, fwd, buf, buffered, auth, sync, link, hubq, wire, loop, current,
                     written, skipped>>
  BY DEF LiveFrame, hub, net
<1>2. job[k].rest # <<>> /\ job[k] # NoJob
  BY <1>1, NoJobIsJob DEF LoopInv
<1>3. PICK f \in Made : f = Head(job[k].rest)
  BY <1>2, HeadOfJob
<1> DEFINE j == IF InOrder(f) THEN Judged(f) ELSE [missing |-> stream.missing, gap |-> gap]
<1>4. Project(f) /\ Recover(j.missing, j.gap, Applied(f))
  BY <1>3 DEF LiveFrame
<1>5. /\ j.missing \in Nat /\ j.gap \in Nat \cup {NoGap} /\ (j.missing > 0 => j.gap # NoGap)
      /\ j.missing = IF InOrder(f) THEN Judged(f).missing ELSE stream.missing
  <2>1. CASE InOrder(f)
    BY <2>1, JudgedFacts
  <2>2. CASE ~InOrder(f)
    BY <2>2 DEF ChatInv, MissingIsShown
  <2> QED
    BY <2>1, <2>2
<1> HIDE DEF j
<1>6. /\ TakenInOrder' /\ table' \subseteq Made /\ shown' \subseteq Made
      /\ stream'.missing = j.missing
  BY <1>1, <1>4, <1>5, ProjectInOrder
<1>7. RecoveredGap(j.missing)
  BY <1>4, <1>5, RecoverFacts
<1>8. ChatInv'
  BY <1>1, <1>6, <1>7 DEF ChatInv, TakenInOrder, RecoveredGap, MissingIsShown, Made
<1>9. LoopInv'
  BY <1>1, NoJobIsJob, JobInv
<1>10. OfflineShowsGap'
  BY <1>1, <1>2, BusyLoop
<1> QED
  BY <1>1, <1>8, <1>9, <1>10, HubKept, NetKept

LEMMA BatchFrameInv ==
    ASSUME IInv, NEW k \in Conns, BatchFrame(k)
    PROVE  IInv'
<1> USE DEF IInv
<1>1. /\ ~job[k].live /\ job[k].rest # <<>>
      /\ UNCHANGED <<kinds, alive, fwd, buf, buffered, auth, sync, link, hubq, wire, loop, current,
                     chat, written, skipped>>
  BY DEF BatchFrame, hub, net
<1>2. job[k] # NoJob /\ job[k] \in Jobs /\ Tail(job[k].rest) \in Seq(Made)
  BY <1>1, HeadOfJob DEF NoJob
<1>3. PICK f \in Made : f = Head(job[k].rest)
  BY <1>1, HeadOfJob
<1> DEFINE fits == f = job[k].expected
           counts == fits /\ (kinds[f] = "response" => InOrder(f))
           j == IF InOrder(f) THEN Judged(f) ELSE [missing |-> stream.missing, gap |-> gap]
           after == [live      |-> FALSE,
                     rest      |-> Tail(job[k].rest),
                     expected  |-> IF fits THEN f + 1 ELSE job[k].expected,
                     delivered |-> job[k].delivered + (IF counts THEN 1 ELSE 0),
                     rejected  |-> job[k].rejected + (IF counts THEN 0 ELSE 1)]
<1>4. /\ IF fits THEN Project(f) /\ gap' = j.gap
         ELSE UNCHANGED <<stream, observed, gap, table, shown>>
      /\ job' = [job EXCEPT ![k] = after]
  BY <1>3 DEF BatchFrame
<1>5. after \in Jobs
  <2>1. /\ job[k].expected \in Nat /\ job[k].delivered \in Nat /\ job[k].rejected \in Nat
        /\ f \in Nat
    BY <1>2, MadeIsNat DEF Jobs
  <2>2. /\ (IF fits THEN f + 1 ELSE job[k].expected) \in Nat
        /\ job[k].delivered + (IF counts THEN 1 ELSE 0) \in Nat
        /\ job[k].rejected + (IF counts THEN 0 ELSE 1) \in Nat
    BY <2>1
  <2> HIDE DEF fits, counts
  <2> QED
    BY <1>2, <2>2 DEF Jobs
<1>6. ~after.live
  OBVIOUS
<1> HIDE DEF after
<1>7. OfflineShowsGap' /\ loop[k] \in {"up", "fenced"}
  BY <1>1, <1>2, BusyLoop
<1>8. LoopInv'
  <2>1. PICK a \in Jobs : a = after
    BY <1>5
  <2> QED
    BY <1>1, <1>4, <1>6, <1>7, <2>1, JobInv
<1>9. CASE fits
  <2>1. Project(f) /\ gap' = j.gap
    BY <1>4, <1>9
  <2>2. /\ j.gap \in Nat \cup {NoGap} /\ (j.missing > 0 => j.gap # NoGap)
        /\ j.missing = IF InOrder(f) THEN Judged(f).missing ELSE stream.missing
    <3>1. CASE InOrder(f)
      BY <3>1, JudgedFacts
    <3>2. CASE ~InOrder(f)
      BY <3>2 DEF ChatInv, MissingIsShown
    <3> QED
      BY <3>1, <3>2
  <2> HIDE DEF j, fits
  <2>3. /\ TakenInOrder' /\ table' \subseteq Made /\ shown' \subseteq Made
        /\ stream'.missing = j.missing
    BY <1>1, <2>1, <2>2, ProjectInOrder
  <2>4. ChatInv'
    BY <1>1, <2>1, <2>2, <2>3 DEF ChatInv, TakenInOrder, MissingIsShown, Made
  <2> QED
    BY <1>1, <1>7, <1>8, <2>4, HubKept, NetKept
<1>10. CASE ~fits
  <2>1. UNCHANGED <<stream, observed, gap, table, shown>>
    BY <1>4, <1>10
  <2> QED
    BY <1>1, <1>7, <1>8, <2>1, HubKept, NetKept, ChatKept
<1> QED
  BY <1>9, <1>10

LEMMA BatchEndInv ==
    ASSUME IInv, NEW k \in Conns, BatchEnd(k)
    PROVE  IInv'
<1> USE DEF IInv
<1>1. /\ job[k] # NoJob /\ job' = [job EXCEPT ![k] = NoJob]
      /\ Recover(stream.missing, gap, job[k].rejected = 0 /\ job[k].delivered > 0)
      /\ UNCHANGED <<kinds, alive, fwd, buf, buffered, auth, sync, link, hubq, wire, loop, current,
                     stream, table, shown, observed, written, skipped>>
  BY DEF BatchEnd, hub, net
<1>2. /\ stream.missing \in Nat /\ gap \in Nat \cup {NoGap}
      /\ stream.missing > 0 => gap # NoGap
  BY DEF ChatInv, MissingIsShown
<1>3. RecoveredGap(stream.missing)
  BY <1>1, <1>2, RecoverFacts
<1>4. ChatInv'
  BY <1>1, <1>3 DEF ChatInv, RecoveredGap, MissingIsShown, Made
<1>5. LoopInv'
  BY <1>1, NoJobIsJob, JobInv
<1>6. OfflineShowsGap'
  BY <1>1, BusyLoop
<1> QED
  BY <1>1, <1>4, <1>5, <1>6, HubKept, NetKept

LEMMA ReadExitInv ==
    ASSUME IInv, NEW k \in Conns, ReadExit(k)
    PROVE  IInv'
<1> USE DEF IInv
<1>1. /\ wire[k] # <<>> /\ wire' = [wire EXCEPT ![k] = Tail(@)]
      /\ chat' = "Ended" /\ table' = {}
      /\ UNCHANGED <<kinds, alive, fwd, buf, buffered, auth, sync, link, hubq, loop, job, current,
                     stream, gap, shown, observed, written, skipped>>
  BY DEF ReadExit, hub
<1>2. NetInv'
  BY <1>1, TakenFromWire
<1>3. ChatInv'
  BY <1>1 DEF ChatInv, MissingIsShown, Made
<1>4. OfflineShowsGap'
  BY <1>1 DEF OfflineShowsGap
<1> QED
  BY <1>1, <1>2, <1>3, <1>4, HubKept, LoopKept

LEMMA CloseLoopInv ==
    ASSUME IInv, NEW k \in Conns, CloseLoop(k)
    PROVE  IInv'
<1> USE DEF IInv
<1>1. /\ job[k] = NoJob /\ loop[k] \in {"up", "fenced"}
      /\ loop' = [loop EXCEPT ![k] = IF current = k THEN "cleanup" ELSE "replaced"]
      /\ current' = IF current = k THEN 0 ELSE current
      /\ UNCHANGED <<kinds, alive, fwd, buf, buffered, auth, sync, link, hubq, wire, job,
                     stream, gap, chat, table, shown, observed, written, skipped>>
  BY DEF CloseLoop, Reading, hub, net, chatState
<1>2. PICK l \in {"cleanup", "replaced"} : loop' = [loop EXCEPT ![k] = l]
  BY <1>1
<1>3. LoopInv'
  <2>1. Jobs' = Jobs
    BY <1>1 DEF Jobs, Made
  <2>2. current' \in 0..MaxConns
    BY <1>1, StreamAssumption DEF StreamAssumption, LoopInv
  <2>3. loop' \in [Conns -> {"none", "made", "up", "fenced", "cleanup", "over", "replaced"}]
    BY <1>2 DEF LoopInv
  <2>4. \A i \in Conns : job'[i] # NoJob => loop'[i] \in {"up", "fenced"}
    BY <1>1, <1>2 DEF LoopInv
  <2>5. \A i \in Conns : i > link'.conn => loop'[i] = "none"
    BY <1>1, <1>2 DEF LoopInv
  <2> QED
    BY <1>1, <2>1, <2>2, <2>3, <2>4, <2>5 DEF LoopInv
<1>4. OfflineShowsGap'
  <2>1. loop'[k] \in {"cleanup", "replaced"}
    BY <1>2 DEF LoopInv
  <2> QED
    BY <2>1 DEF OfflineShowsGap
<1> QED
  BY <1>1, <1>3, <1>4, HubKept, NetKept, ChatKept

LEMMA CleanupInv ==
    ASSUME IInv, NEW k \in Conns, Cleanup(k)
    PROVE  IInv'
<1> USE DEF IInv
<1>1. /\ loop[k] = "cleanup" /\ loop' = [loop EXCEPT ![k] = "over"]
      /\ IF chat = "Ended" THEN UNCHANGED <<table, shown, gap, chat>>
         ELSE table' = {} /\ shown' = {} /\ gap' = 0 /\ chat' = "Gap"
      /\ UNCHANGED <<kinds, alive, fwd, buf, buffered, auth, sync, link, hubq, wire, job, current,
                     stream, observed, written, skipped>>
  BY DEF Cleanup, hub, net
<1>2. LoopInv'
  <2>1. Jobs' = Jobs
    BY <1>1 DEF Jobs, Made
  <2>2. loop' \in [Conns -> {"none", "made", "up", "fenced", "cleanup", "over", "replaced"}]
    BY <1>1 DEF LoopInv
  <2>3. \A i \in Conns : job'[i] # NoJob => loop'[i] \in {"up", "fenced"}
    BY <1>1 DEF LoopInv
  <2>4. \A i \in Conns : i > link'.conn => loop'[i] = "none"
    BY <1>1 DEF LoopInv
  <2> QED
    BY <1>1, <2>1, <2>2, <2>3, <2>4 DEF LoopInv
<1>3. ChatInv'
  <2>1. 0 # NoGap
    BY DEF NoGap
  <2>2. CASE chat = "Ended"
    BY <1>1, <2>2, ChatKept
  <2>3. CASE chat # "Ended"
    BY <1>1, <2>1, <2>3 DEF ChatInv, MissingIsShown, Made
  <2> QED
    BY <2>2, <2>3
<1>4. OfflineShowsGap'
  BY <1>1 DEF OfflineShowsGap
<1> QED
  BY <1>1, <1>2, <1>3, <1>4, HubKept, NetKept

LEMMA AnswerInv ==
    ASSUME IInv, NEW f \in Made, Answer(f)
    PROVE  IInv'
<1> USE DEF IInv
<1>1. /\ table' = table \ {f} /\ shown' = shown \ {f}
      /\ UNCHANGED <<kinds, alive, fwd, buf, buffered, auth, sync, link, hubq, wire, loop, job,
                     current, stream, gap, chat, observed, written, skipped>>
  BY DEF Answer, hub, net
<1>2. ChatInv'
  BY <1>1 DEF ChatInv, MissingIsShown, Made
<1> QED
  BY <1>1, <1>2, HubKept, NetKept, LoopKept, OfflineKept

-----------------------------------------------------------------------------
(* Invariance.                                                             *)

LEMMA NextInv ==
    ASSUME IInv, [Next]_vars
    PROVE  IInv'
<1>1. ASSUME Hub
      PROVE  IInv'
  BY <1>1, TakeFrameInv, SkipFrameInv, SendFrameInv, BufferFrameInv, ExitInv,
     OnAuthenticatedInv, OnDisconnectedInv DEF Hub
<1>2. ASSUME Sync
      PROVE  IInv'
  BY <1>2, SyncDoneInv, SyncDrainInv, SyncPauseInv, SyncWriteInv, SyncCommitInv,
     SyncFailInv DEF Sync
<1>3. ASSUME NEW k \in Conns, Server(k)
      PROVE  IInv'
  BY <1>3, RegisterInv, ReadFrameInv, LiveFrameInv, BatchFrameInv, BatchEndInv, ReadExitInv,
     CloseLoopInv, CleanupInv DEF Server
<1>4. CASE UNCHANGED vars
  BY <1>4, HubKept, NetKept, LoopKept, ChatKept, OfflineKept
     DEF IInv, vars, hub, net, server
<1> QED
  BY <1>1, <1>2, <1>3, <1>4, BreakInv, ConnectInv, SetQueueInv, AnswerInv DEF Next

\* The inductive invariant holds in every state: the hub, its transport, the loops of the
\* server and the stream are what they say of each other.
THEOREM Invariance == Spec => []IInv
<1>1. Init => IInv
  BY InitInv
<1>2. IInv /\ [Next]_vars => IInv'
  BY NextInv
<1> QED
  BY <1>1, <1>2, PTL DEF Spec

-----------------------------------------------------------------------------
(* The properties.                                                         *)

LEMMA InvIsTyped ==
    ASSUME IInv
    PROVE  TypeOK
<1>1. /\ Held(buf) \subseteq Made /\ Elems(sync.batch) \subseteq Made
      /\ sync.at \in {"none", "run", "sleep", "send", "written"}
  BY KnownIsMade DEF IInv, HubInv
<1>2. link \in [conn : 0..MaxConns, queue : {"down", "unset", "open"}]
  BY StreamAssumption DEF StreamAssumption, IInv, NetInv, Conns
<1> QED
  BY <1>1, <1>2 DEF IInv, HubInv, NetInv, LoopInv, ChatInv, TypeOK

\* The buffer of the instance accounts for every frame of its agent, holds none twice,
\* keeps within its budgets, and orphans no batch, in any order of sends, resyncs, aborts
\* and failures of the disk (instance/buffer/session.rs, hub/resync.rs).
THEOREM BufferAccounts == Spec => []BufferInv
<1>1. ASSUME IInv
      PROVE  BufferInv
  <2>1. TypeOK
    BY <1>1, InvIsTyped
  <2>2. total_frames(buf) = Cardinality(Held(buf))
    BY <1>1, CountHeld DEF IInv, HubInv, Sound
  <2>3. FramesAccountedFor
    BY <1>1, <2>2 DEF IInv, HubInv, Accounted, Known, FramesAccountedFor
  <2>4. WithinBudget /\ NoOrphanBatch
    BY <1>1 DEF IInv, HubInv, Sound, InBudget, BatchInv, WithinBudget
  <2> QED
    BY <2>1, <2>3, <2>4 DEF BufferInv
<1> QED
  BY <1>1, Invariance, PTL

\* A chat that misses frames, or whose instance is gone, shows a gap (judge_stream and
\* report_gap, recover_from_gap, on_instance_disconnect).
THEOREM MissingFramesShow == Spec => []GapIsShown
<1>1. IInv => GapIsShown
  BY DEF IInv, ChatInv, GapIsShown
<1> QED
  BY <1>1, Invariance, PTL

\* What a frame that is projected does to the document and to the stream.
LEMMA ShownFrame ==
    ASSUME IInv, NEW f \in Made, Project(f)
    PROVE  shown' \ shown \subseteq Elems(observed') \ Elems(observed)
<1> SUFFICES ASSUME NEW g \in shown', g \notin shown
             PROVE  g \in Elems(observed') /\ g \notin Elems(observed)
  OBVIOUS
<1>1. g = f /\ Applied(f)
  BY DEF Project
<1>2. InOrder(f)
  BY <1>1 DEF Applied
<1>3. observed' = Append(observed, f) /\ observed \in Seq(Made)
  BY <1>2 DEF Project, Observe, IInv, ChatInv
<1>4. Elems(observed') = Elems(observed) \cup {f}
  BY <1>3, ElemsOfAppend
<1>5. f \notin Elems(observed)
  <2>1. f \in Nat /\ stream.last \in Nat /\ f > stream.last
    BY <1>2, MadeIsNat DEF InOrder, IInv, ChatInv
  <2>2. f \in Elems(observed) => f <= stream.last
    BY DEF IInv, ChatInv
  <2> QED
    BY <2>1, <2>2
<1> QED
  BY <1>1, <1>4, <1>5

\* A permission request becomes pending in the document only when the stream takes it, and
\* it takes it once: a request that is sent again is not shown again
\* (register_permission_request).
THEOREM RequestsShownOnce == Spec => ShownOnce
<1>1. ASSUME IInv, [Next]_vars
      PROVE  [shown' \ shown \subseteq Elems(observed') \ Elems(observed)]_vars
  <2> DEFINE Goal == shown' \ shown \subseteq Elems(observed') \ Elems(observed)
  <2>1. ASSUME shown' \subseteq shown
        PROVE  Goal
    BY <2>1
  <2>2. ASSUME NEW k \in Conns, LiveFrame(k)
        PROVE  Goal
    <3>1. job[k].rest # <<>>
      BY <1>1, <2>2 DEF LiveFrame, IInv, LoopInv
    <3>2. PICK f \in Made : f = Head(job[k].rest)
      BY <1>1, <3>1, HeadOfJob DEF IInv
    <3>3. Project(f)
      BY <2>2, <3>2 DEF LiveFrame
    <3> QED
      BY <1>1, <3>3, ShownFrame
  <2>3. ASSUME NEW k \in Conns, BatchFrame(k)
        PROVE  Goal
    <3>1. PICK f \in Made : f = Head(job[k].rest)
      BY <1>1, <2>3, HeadOfJob DEF BatchFrame, IInv
    <3>2. CASE f = job[k].expected
      <4>1. Project(f)
        BY <2>3, <3>1, <3>2 DEF BatchFrame
      <4> QED
        BY <1>1, <4>1, ShownFrame
    <3>3. CASE f # job[k].expected
      <4>1. shown' = shown
        BY <2>3, <3>1, <3>3 DEF BatchFrame
      <4> QED
        BY <4>1, <2>1
    <3> QED
      BY <3>2, <3>3
  <2>4. ASSUME Hub \/ Sync \/ Break \/ Connect \/ SetQueue
        PROVE  shown' = shown
    BY <2>4 DEF Hub, TakeFrame, SkipFrame, SendFrame, BufferFrame, Exit, OnAuthenticated,
                OnDisconnected, Sync, SyncDone, SyncDrain, SyncIdle, SyncWake, SyncWrite,
                SyncCommit, SyncFail,
                Break, Connect, SetQueue, server
  <2>5. ASSUME NEW k \in Conns,
               Register(k) \/ ReadFrame(k) \/ BatchEnd(k) \/ ReadExit(k) \/ CloseLoop(k)
                 \/ Cleanup(k)
        PROVE  shown' \subseteq shown
    BY <2>5 DEF Register, ReadFrame, BatchEnd, ReadExit, CloseLoop, Cleanup, chatState
  <2>6. ASSUME NEW f \in Made, Answer(f)
        PROVE  shown' \subseteq shown
    BY <2>6 DEF Answer
  <2>7. ASSUME Next
        PROVE  Goal
    <3> HIDE DEF Goal
    <3> QED
      BY <2>1, <2>2, <2>3, <2>4, <2>5, <2>6, <2>7 DEF Next, Server
  <2> QED
    BY <1>1, <2>7
<1> QED
  BY <1>1, Invariance, PTL DEF Spec, ShownOnce

-----------------------------------------------------------------------------
(* The refinement of OrderedStream.                                        *)

\* A frame that is projected is taken, or the stream refuses it.
LEMMA ProjectTakes ==
    ASSUME IInv, NEW f \in Made, Project(f), UNCHANGED kinds
    PROVE  Abstract!Next \/ UNCHANGED <<Len(kinds), observed>>
<1>1. CASE ~InOrder(f)
  BY <1>1 DEF Project
<1>2. CASE InOrder(f)
  <2>1. observed' = Append(observed, f)
    BY <1>2 DEF Project, Observe
  <2>2. f \in 1..Len(kinds) /\ Len(kinds)' = Len(kinds)
    BY DEF Made
  <2>3. observed # <<>> => f > observed[Len(observed)]
    BY <1>2 DEF InOrder, IInv, ChatInv
  <2>4. Abstract!Take(f)
    BY <2>1, <2>2, <2>3 DEF Abstract!Take
  <2> QED
    BY <2>2, <2>4 DEF Abstract!Next
<1> QED
  BY <1>1, <1>2

\* The stream of a chat implements an ordered stream: of what the agent wrote the server
\* takes some frames, each once and in the order of the agent, whatever is lost, sent again
\* or read by two loops (state/aggregator_judge.rs).
THEOREM StreamIsOrdered == Spec => InOrderOnce
<1>1. Init => Abstract!Init
  BY EmptySeq DEF Init, Abstract!Init
<1>2. ASSUME IInv, [Next]_vars
      PROVE  [Abstract!Next]_<<Len(kinds), observed>>
  <2> DEFINE Goal == Abstract!Next \/ UNCHANGED <<Len(kinds), observed>>
  <2>1. ASSUME UNCHANGED <<kinds, observed>>
        PROVE  Goal
    BY <2>1
  <2>2. ASSUME NEW kind \in Kinds, TakeFrame(kind)
        PROVE  Goal
    <3>1. kinds' = Append(kinds, kind) /\ observed' = observed /\ kinds \in Seq(Kinds)
      BY <1>2, <2>2 DEF TakeFrame, server, IInv, HubInv
    <3>2. Len(kinds') = Len(kinds) + 1
      BY <3>1, AppendProperties
    <3>3. Abstract!Make
      BY <3>1, <3>2 DEF Abstract!Make
    <3> QED
      BY <3>3 DEF Abstract!Next
  <2>3. ASSUME NEW k \in Conns, LiveFrame(k)
        PROVE  Goal
    <3>1. job[k].rest # <<>>
      BY <1>2, <2>3 DEF LiveFrame, IInv, LoopInv
    <3>2. PICK f \in Made : f = Head(job[k].rest)
      BY <1>2, <3>1, HeadOfJob DEF IInv
    <3>3. Project(f) /\ UNCHANGED kinds
      BY <2>3, <3>2 DEF LiveFrame, hub
    <3> QED
      BY <1>2, <3>3, ProjectTakes
  <2>4. ASSUME NEW k \in Conns, BatchFrame(k)
        PROVE  Goal
    <3>1. PICK f \in Made : f = Head(job[k].rest)
      BY <1>2, <2>4, HeadOfJob DEF BatchFrame, IInv
    <3>2. UNCHANGED kinds
      BY <2>4 DEF BatchFrame, hub
    <3>3. CASE f = job[k].expected
      <4>1. Project(f)
        BY <2>4, <3>1, <3>3 DEF BatchFrame
      <4> QED
        BY <1>2, <3>2, <4>1, ProjectTakes
    <3>4. CASE f # job[k].expected
      <4>1. observed' = observed
        BY <2>4, <3>1, <3>4 DEF BatchFrame
      <4> QED
        BY <3>2, <4>1, <2>1
    <3> QED
      BY <3>3, <3>4
  <2>5. ASSUME \/ SkipFrame \/ SendFrame \/ BufferFrame \/ Exit
               \/ OnAuthenticated \/ OnDisconnected
               \/ Sync \/ Break \/ Connect \/ SetQueue
        PROVE  UNCHANGED <<kinds, observed>>
    BY <2>5 DEF SkipFrame, SendFrame, BufferFrame, Exit, OnAuthenticated,
                OnDisconnected, Sync, SyncDone, SyncDrain, SyncIdle, SyncWake, SyncWrite,
                SyncCommit, SyncFail,
                Break, Connect, SetQueue, server, hub
  <2>6. ASSUME NEW k \in Conns,
               Register(k) \/ ReadFrame(k) \/ BatchEnd(k) \/ ReadExit(k) \/ CloseLoop(k)
                 \/ Cleanup(k)
        PROVE  UNCHANGED <<kinds, observed>>
    BY <2>6 DEF Register, ReadFrame, BatchEnd, ReadExit, CloseLoop, Cleanup, chatState, hub
  <2>7. ASSUME NEW f \in Made, Answer(f)
        PROVE  UNCHANGED <<kinds, observed>>
    BY <2>7 DEF Answer, hub
  <2>8. CASE UNCHANGED vars
    BY <2>1, <2>8 DEF vars, hub, server
  <2>9. ASSUME Next
        PROVE  Goal
    <3> HIDE DEF Goal
    <3> QED
      BY <2>1, <2>2, <2>3, <2>4, <2>5, <2>6, <2>7, <2>9 DEF Next, Hub, Server
  <2> QED
    BY <1>2, <2>8, <2>9
<1> QED
  BY <1>1, <1>2, Invariance, PTL DEF Spec, InOrderOnce, Abstract!Spec

=============================================================================
