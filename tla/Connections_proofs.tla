-------------------------- MODULE Connections_proofs --------------------------
(***************************************************************************)
(* The connections of the server, for every value of the constants: those  *)
(* of the instances (AckRouting), whose two facts about acknowledgements   *)
(* need every key to be serial, and those of the clients (ClientChannel).  *)
(***************************************************************************)
EXTENDS AckRouting, ClientChannel, SequenceTheorems, FiniteSetTheorems, TLAPS

-----------------------------------------------------------------------------
(* The acknowledgements of an instance. *)

\* The keys the server draws.
SerialKeys == \A c \in Calls : KeyOf[c] \in Serial

-----------------------------------------------------------------------------
LEMMA InitAck == AckInit => AckInv
<1> SUFFICES ASSUME AckInit
             PROVE  AckInv
  OBVIOUS
<1> USE AckAssumption DEF AckAssumption, AckInit
<1>1. AckTypeOK
  BY DEF AckTypeOK, Connections
<1>2. OneBusyCall /\ SlotIsWaiting
  BY DEF OneBusyCall, Busy, SlotIsWaiting
<1>3. OwnAnswer
  BY DEF OwnAnswer
<1> QED
  BY <1>1, <1>2, <1>3 DEF AckInv

\* The acknowledgement of a frame finds its own call under the key, or none.
LEMMA OwnSlot ==
    ASSUME AckInv, NEW c \in Calls, ack[c] = "wire", slot[KeyOf[c]] # NoCall
    PROVE  slot[KeyOf[c]] = c
<1> DEFINE d == slot[KeyOf[c]]
<1>1. d \in Calls /\ KeyOf[d] = KeyOf[c] /\ Busy(d)
  BY AckAssumption DEF AckAssumption, AckInv, AckTypeOK, SlotIsWaiting, Busy
<1>2. frame[c] \in {"taken", "refused"} /\ reply[c] = "none"
  BY DEF AckInv, AckTypeOK, OwnAnswer
<1>3. Busy(c)
  BY <1>2 DEF AckInv, AckTypeOK, OwnAnswer, Busy
<1> QED
  BY <1>1, <1>3 DEF AckInv, OneBusyCall

\* No step needs serial keys to keep the types.
LEMMA NextAckTypes ==
    ASSUME AckTypeOK, [AckNext]_ackVars
    PROVE  AckTypeOK'
<1> USE AckAssumption DEF AckAssumption, AckTypeOK, Connections
<1>1. ASSUME NEW c \in Calls, SendCommand(c)
      PROVE  AckTypeOK'
  BY <1>1 DEF SendCommand
<1>9. ASSUME NEW c \in Calls, SendOffline(c) \/ TakeReply(c)
      PROVE  AckTypeOK'
  <2>1. CASE SendOffline(c)
    BY <2>1 DEF SendOffline
  <2>2. CASE TakeReply(c)
    BY <2>2 DEF TakeReply
  <2> QED
    BY <1>9, <2>1, <2>2
<1>2. ASSUME NEW c \in Calls, NEW error \in {"gone", "timeout"}, Abandon(c, error)
      PROVE  AckTypeOK'
  BY <1>2 DEF Abandon
<1>3. ASSUME NEW c \in Calls, Take(c)
      PROVE  AckTypeOK'
  BY <1>3 DEF Take
<1>4. ASSUME NEW c \in Calls, OnAck(c)
      PROVE  AckTypeOK'
  BY <1>4 DEF OnAck
<1>5. ASSUME NEW k \in Connections, Hello(k)
      PROVE  AckTypeOK'
  BY <1>5 DEF Hello
<1>6. ASSUME NEW k \in Connections, Cut(k)
      PROVE  AckTypeOK'
  BY <1>6 DEF Cut
<1>7. ASSUME NEW k \in Connections, EndLoop(k)
      PROVE  AckTypeOK'
  BY <1>7 DEF EndLoop
<1>8. CASE SweepOffline \/ Heartbeat \/ UNCHANGED ackVars
  BY <1>8 DEF SweepOffline, Heartbeat, ackVars
<1> QED
  BY <1>1, <1>2, <1>3, <1>4, <1>5, <1>6, <1>7, <1>8, <1>9
     DEF AckNext, CallStep, ConnectionGone, Timeout

\* Every step keeps the rest of the invariant when keys are serial.
LEMMA NextAck ==
    ASSUME SerialKeys, AckInv, [AckNext]_ackVars
    PROVE  AckInv'
<1> DEFINE Rest == OneBusyCall /\ SlotIsWaiting /\ OwnAnswer
<1> USE AckAssumption DEF AckAssumption
<1>1. ASSUME NEW c \in Calls, SendCommand(c)
      PROVE  Rest'
  <2> USE <1>1 DEF SendCommand, AckInv, AckTypeOK
  <2>1. \A d \in Calls \ {c} : KeyOf[d] = KeyOf[c] => ~Busy(d)
    BY DEF MayUse, SerialKeys, Busy
  <2>2. OneBusyCall'
    BY <2>1 DEF OneBusyCall, Busy
  <2>3. SlotIsWaiting'
    BY DEF SlotIsWaiting, OwnAnswer
  <2>4. OwnAnswer'
    BY DEF OwnAnswer
  <2> QED
    BY <2>2, <2>3, <2>4
<1>2. ASSUME NEW c \in Calls, SendOffline(c)
      PROVE  Rest'
  <2> USE <1>2 DEF SendOffline, AckInv, AckTypeOK
  <2>1. OneBusyCall' /\ SlotIsWaiting'
    BY DEF OneBusyCall, Busy, SlotIsWaiting
  <2>2. OwnAnswer'
    BY DEF OwnAnswer
  <2> QED
    BY <2>1, <2>2
<1>3. ASSUME NEW c \in Calls, TakeReply(c)
      PROVE  Rest'
  <2> USE <1>3 DEF TakeReply, AckInv, AckTypeOK
  <2>1. OneBusyCall'
    BY DEF OneBusyCall, Busy
  <2>2. SlotIsWaiting'
    BY DEF SlotIsWaiting, OwnAnswer
  <2>3. OwnAnswer'
    BY DEF OwnAnswer
  <2> QED
    BY <2>1, <2>2, <2>3
<1>4. ASSUME NEW c \in Calls, NEW error \in {"gone", "timeout"}, Abandon(c, error)
      PROVE  Rest'
  <2> USE <1>4 DEF Abandon, AckInv, AckTypeOK
  <2>1. OneBusyCall'
    BY DEF OneBusyCall, Busy
  <2>2. SlotIsWaiting'
    BY DEF SlotIsWaiting
  <2>3. OwnAnswer'
    BY DEF OwnAnswer
  <2> QED
    BY <2>1, <2>2, <2>3
<1>5. ASSUME NEW c \in Calls, Take(c)
      PROVE  Rest'
  <2> USE <1>5 DEF Take, AckInv, AckTypeOK
  <2>1. OneBusyCall' /\ SlotIsWaiting'
    BY DEF OneBusyCall, Busy, SlotIsWaiting
  <2>2. OwnAnswer'
    BY DEF OwnAnswer
  <2> QED
    BY <2>1, <2>2
<1>6. ASSUME NEW c \in Calls, OnAck(c)
      PROVE  Rest'
  <2> USE <1>6 DEF OnAck, AckInv, AckTypeOK
  <2>1. slot[KeyOf[c]] \in {NoCall, c}
    BY OwnSlot
  <2>2. OneBusyCall' /\ SlotIsWaiting'
    BY DEF OneBusyCall, Busy, SlotIsWaiting
  <2>3. OwnAnswer'
    BY <2>1 DEF OwnAnswer
  <2> QED
    BY <2>2, <2>3
<1>7. ASSUME NEW k \in Connections, Hello(k)
      PROVE  Rest'
  BY <1>7 DEF Hello, AckInv, AckTypeOK, OneBusyCall, Busy, SlotIsWaiting, OwnAnswer
<1>8. ASSUME UNCHANGED <<slot, frame, ack, reply, result>>
      PROVE  Rest'
  BY <1>8 DEF AckInv, OneBusyCall, Busy, SlotIsWaiting, OwnAnswer
<1>9. ASSUME NEW k \in Connections, Cut(k) \/ EndLoop(k)
      PROVE  Rest'
  BY <1>8, <1>9 DEF Cut, EndLoop
<1>10. ASSUME SweepOffline \/ Heartbeat \/ UNCHANGED ackVars
       PROVE  Rest'
  BY <1>8, <1>10 DEF SweepOffline, Heartbeat, ackVars
<1>11. Rest'
  BY <1>1, <1>2, <1>3, <1>4, <1>5, <1>6, <1>7, <1>9, <1>10
     DEF AckNext, CallStep, ConnectionGone, Timeout
<1> QED
  BY <1>11, NextAckTypes DEF AckInv

\* With serial keys the acknowledgement a call takes is its own.
THEOREM AckInvariant ==
    ASSUME SerialKeys
    PROVE  AckSpec => []AckInv
<1>1. AckInv /\ [AckNext]_ackVars => AckInv'
  BY NextAck
<1> QED
  BY InitAck, <1>1, PTL DEF AckSpec

\* With serial keys Ok means that the call's own frame was taken, and offline and rejected
\* are proofs of non-delivery, as prompt delivery and cancellation assume of a forward.
THEOREM DeliveryTheorem ==
    ASSUME SerialKeys
    PROVE  AckSpec => []DeliveryIsKnown
<1>1. AckInv => OkMeansTaken
  BY DEF AckInv, OwnAnswer, OkMeansTaken
<1>2. AckInv => NotDeliveredIsProof
  BY DEF AckInv, OwnAnswer, NotDeliveredIsProof
<1> QED
  BY AckInvariant, <1>1, <1>2, PTL DEF DeliveryIsKnown

\* Whatever the keys, on_disconnect of a replaced connection leaves the new one current.
THEOREM ConnectionTheorem == AckSpec => []LiveConnectionIsCurrent
<1> DEFINE Inv == loop \in [Connections -> {"none", "up", "cut", "over"}] /\ LiveConnectionIsCurrent
<1>1. AckInit => Inv
  BY DEF AckInit, LiveConnectionIsCurrent
<1>2. ASSUME Inv, [AckNext]_ackVars
      PROVE  Inv'
  <2> USE <1>2 DEF LiveConnectionIsCurrent
  <2>1. CASE \E c \in Calls : CallStep(c)
    BY <2>1 DEF CallStep, SendCommand, SendOffline, TakeReply, ConnectionGone, Timeout, Abandon, Take,
                OnAck
  <2>2. ASSUME NEW k \in Connections, Hello(k)
        PROVE  Inv'
    BY <2>2 DEF Hello
  <2>3. ASSUME NEW k \in Connections, Cut(k) \/ EndLoop(k)
        PROVE  Inv'
    BY <2>3 DEF Cut, EndLoop
  <2>4. CASE SweepOffline \/ Heartbeat \/ UNCHANGED ackVars
    BY <2>4 DEF SweepOffline, Heartbeat, ackVars
  <2> QED
    BY <2>1, <2>2, <2>3, <2>4 DEF AckNext
<1> QED
  BY <1>1, <1>2, PTL DEF AckSpec

-----------------------------------------------------------------------------
(* The clients' channels. *)

Fin == {u \in SUBSET Nat : IsFiniteSet(u)}

Updates == [kind : {"update"}, doc : Docs, ups : Fin]
Snapshots == [kind : {"snapshot"}, doc : Docs, ups : SUBSET Nat]
Views == Updates \cup Snapshots
Answers == [kind : {"answer"}, prompt : Prompts]
Outgoing == Views \cup Answers \cup {Note, Close}
Ops ==
    [op : {"send"}, frame : Snapshots \cup {Note}]
        \cup [op : {"snapshot", "subscribe"}, doc : Docs]
        \cup [op : {"flush", "end"}]
        \cup [op : {"act"}, prompt : Prompts]

BudgetTypes ==
    /\ budget \in Budgets /\ updates \in 0..budget.updates /\ events \in 0..budget.events

DocTypes ==
    /\ mirror \in [Docs -> 0..updates] /\ feed \in Seq(Updates)
    /\ fan \in [doc : Docs \cup {None}, ups : Fin, left : SUBSET Conns, conn : Conns \cup {None},
                act : {"none", "direct", "merge", "close"}]
    /\ fan.left # {} => fan.doc \in Docs

ConnTypes ==
    /\ sub \in [Conns -> [docs : SUBSET Docs, pending : Seq(Updates), bytes : Nat, tx : BOOLEAN]]
    /\ outq \in [Conns -> Seq(Outgoing)]
    /\ closing \in [Conns -> Nat]
    /\ client \in [Conns -> [here : BOOLEAN, saw : [Docs -> SUBSET Nat], last : [Docs -> SUBSET Nat]]]
    /\ gap \in [Conns -> [Docs -> SUBSET Nat]]

LoopTypes ==
    /\ at \in [Conns -> {"open", "finish", "gone"}]
    /\ work \in [Conns -> Seq(Ops)]
    /\ chan \in [Conns -> [first : BOOLEAN, seen : BOOLEAN, v2 : BOOLEAN, ready : BOOLEAN,
                           pending : Seq(Prompts)]]
    /\ \A c \in Conns : Len(chan[c].pending) <= PendingLimit
    /\ acts \in [Conns -> [sent : Seq(Prompts), begun : Seq(Prompts), v2 : BOOLEAN]]

CommandTypes ==
    /\ prompt \in [Prompts -> [status : {"new", "queued", "done"}, waiting : Seq(Conns)]]
    /\ execq \in Seq(Prompts)
    /\ publish \in [prompt : Prompts \cup {None}, to : Seq(Conns)]
    /\ publish.to # <<>> => publish.prompt \in Prompts

Types == BudgetTypes /\ DocTypes /\ ConnTypes /\ LoopTypes /\ CommandTypes

\* The fan-out delivers to connections that have an entry, one at a time; who has no entry
\* has no backlog, and one over the threshold is about to go.
Chosen(c) == c \in fan.left \/ (fan.act # "none" /\ fan.conn = c)
Entered(c) ==
    /\ ~sub[c].tx => sub[c] = NoSub
    /\ at[c] = "open" /\ Chosen(c) => sub[c].tx
    /\ at[c] = "gone" => ~sub[c].tx /\ outq[c] = <<>>
Weighed(c) ==
    /\ sub[c].bytes = Weight(sub[c].pending)
    /\ sub[c].bytes > Hard => fan.act = "close" /\ fan.conn = c
    /\ Len(outq[c]) <= OutCap
FanInv ==
    /\ fan.act # "none" => fan.conn \in Conns \ fan.left
    /\ \A c \in Conns : Entered(c) /\ Weighed(c)

\* What the loop of a connection has to do with actions: those it began, those
\* of the handler, and those it keeps.
Acting(w) == \E i \in DOMAIN w : w[i].op = "act"
Skipped(w) == IF ~Acting(w) THEN Len(w) ELSE IF w[1].op = "act" THEN 0 ELSE 1
ToBegin(w) == [i \in 1..(Len(w) - Skipped(w)) |-> w[i + Skipped(w)].prompt]
Shaped(w) ==
    Acting(w) => w[1].op \in {"send", "act"} /\ \A i \in DOMAIN w : i > 1 => w[i].op = "act"
ActsInv(c) ==
    /\ IsPrefix(acts[c].begun, acts[c].sent)
    /\ acts[c].begun # <<>> => chan[c].ready /\ acts[c].v2
    /\ chan[c].v2 = acts[c].v2
    /\ chan[c].ready => chan[c].pending = <<>> /\ chan[c].seen
    /\ at[c] = "open" =>
        /\ acts[c].sent = acts[c].begun \o (ToBegin(work[c]) \o chan[c].pending)
        /\ Shaped(work[c]) /\ (Acting(work[c]) => chan[c].ready)
        /\ \A i \in DOMAIN work[c] : work[c][i].op = "flush" => i = Len(work[c]) /\ chan[c].seen

\* The updates of d in a sequence of frames, and increasing ones.
News(s, d) == UNION {s[i].ups : i \in {j \in DOMAIN s : s[j].kind = "update" /\ s[j].doc = d}}
Before(S, T) == \A m \in S, n \in T : m < n
Rising(s, d) ==
    \A i, j \in DOMAIN s :
        i < j /\ s[i].kind = "update" /\ s[i].doc = d /\ s[j].kind = "update" /\ s[j].doc = d
            => Before(s[i].ups, s[j].ups)

Fanned(c, d) == IF c \in fan.left /\ fan.doc = d THEN fan.ups ELSE {}
Got(c, d) == client[c].last[d] \cup News(outq[c], d) \cup News(sub[c].pending, d)
FeedInv(d) ==
    /\ Rising(feed, d)
    /\ \A n \in News(feed, d) : n <= mirror[d]
    /\ fan.left # {} /\ fan.doc = d => /\ Before(fan.ups, News(feed, d))
                                       /\ \A n \in fan.ups : n <= mirror[d]
OrderInv(c, d) ==
    /\ Rising(outq[c], d) /\ Rising(sub[c].pending, d)
    /\ Before(News(outq[c], d), News(sub[c].pending, d))
    /\ Before(client[c].last[d], News(outq[c], d) \cup News(sub[c].pending, d))
    /\ Before(Got(c, d), Fanned(c, d) \cup News(feed, d))
    /\ \A n \in Got(c, d) : n <= mirror[d]

Healthy(c) == at[c] = "open" /\ closing[c] = 0 /\ ~Contains(outq[c], Close) /\ client[c].here
Attaches(c, d) == d \in sub[c].docs \/ Attach(d) \in Range(work[c])
ViewInv(c, d) ==
    Healthy(c) /\ Attaches(c, d) => FannedOut(d) \subseteq Held(c, d) \cup gap[c][d]

-----------------------------------------------------------------------------
(* Frames in sequences. *)

News1(f, d) == IF f.kind = "update" /\ f.doc = d THEN f.ups ELSE {}
View(s, d) == Contents(Frames(s, d))
View1(f, d) == IF f.kind \in {"update", "snapshot"} /\ f.doc = d THEN f.ups ELSE {}

LEMMA NewsOf ==
    ASSUME NEW s, NEW d
    PROVE  News(s, d) = UNION {News1(s[i], d) : i \in DOMAIN s}
BY DEF News, News1

LEMMA ViewOf ==
    ASSUME NEW s, NEW d
    PROVE  View(s, d) = UNION {View1(s[i], d) : i \in DOMAIN s}
BY DEF View, Contents, Frames, View1

LEMMA RisingOf ==
    ASSUME NEW s, NEW d
    PROVE  Rising(s, d) <=> \A i, j \in DOMAIN s : i < j => Before(News1(s[i], d), News1(s[j], d))
BY DEF Rising, News1, Before

\* A frame at the end.
LEMMA Appended ==
    ASSUME NEW S, NEW s \in Seq(S), NEW f \in S, NEW d
    PROVE  /\ News(Append(s, f), d) = News(s, d) \cup News1(f, d)
           /\ View(Append(s, f), d) = View(s, d) \cup View1(f, d)
           /\ Rising(Append(s, f), d) <=> Rising(s, d) /\ Before(News(s, d), News1(f, d))
<1> DEFINE t == Append(s, f)
<1>1. /\ Len(s) \in Nat /\ DOMAIN s = 1..Len(s) /\ DOMAIN t = 1..(Len(s) + 1)
      /\ t[Len(s) + 1] = f /\ \A i \in 1..Len(s) : t[i] = s[i]
  BY AppendProperties, LenProperties
<1>2. DOMAIN t = DOMAIN s \cup {Len(s) + 1} /\ Len(s) + 1 \notin DOMAIN s
  BY <1>1
<1>3. \A i \in DOMAIN s : t[i] = s[i] /\ i < Len(s) + 1 /\ i \in Int
  BY <1>1
<1> HIDE DEF t
<1>4. News(t, d) = News(s, d) \cup News1(f, d)
  BY <1>1, <1>2, <1>3, NewsOf
<1>5. View(t, d) = View(s, d) \cup View1(f, d)
  BY <1>1, <1>2, <1>3, ViewOf
<1>6. ASSUME Rising(t, d)
      PROVE  Rising(s, d) /\ Before(News(s, d), News1(f, d))
  <2>1. Rising(s, d)
    BY <1>2, <1>3, <1>6, RisingOf
  <2>2. \A i \in DOMAIN s : Before(News1(s[i], d), News1(f, d))
    BY <1>1, <1>2, <1>3, <1>6, RisingOf
  <2> QED
    BY <2>1, <2>2, NewsOf DEF Before
<1>7. ASSUME Rising(s, d), Before(News(s, d), News1(f, d))
      PROVE  Rising(t, d)
  <2> SUFFICES ASSUME NEW i \in DOMAIN t, NEW j \in DOMAIN t, i < j
               PROVE  Before(News1(t[i], d), News1(t[j], d))
    BY RisingOf
  <2>1. i \in DOMAIN s /\ t[i] = s[i]
    BY <1>1, <1>2, <1>3
  <2>2. CASE j \in DOMAIN s
    BY <1>3, <1>7, <2>1, <2>2, RisingOf
  <2>3. CASE j = Len(s) + 1
    BY <1>1, <1>7, <2>1, <2>3, NewsOf DEF Before
  <2> QED
    BY <1>2, <2>2, <2>3
<1> QED
  BY <1>4, <1>5, <1>6, <1>7 DEF t

\* The frame at the head, and the others.
LEMMA Taken ==
    ASSUME NEW S, NEW s \in Seq(S), s # <<>>, NEW d
    PROVE  /\ News(s, d) = News1(Head(s), d) \cup News(Tail(s), d)
           /\ View(s, d) = View1(Head(s), d) \cup View(Tail(s), d)
           /\ Rising(s, d) => Rising(Tail(s), d) /\ Before(News1(Head(s), d), News(Tail(s), d))
<1> DEFINE t == Tail(s)
<1>1. /\ Len(s) \in Nat \ {0} /\ DOMAIN s = 1..Len(s) /\ DOMAIN t = 1..(Len(s) - 1)
      /\ s[1] = Head(s) /\ \A i \in 1..(Len(s) - 1) : t[i] = s[i + 1]
  BY HeadTailProperties, LenProperties, EmptySeq
<1>2. \A i \in DOMAIN s : i = 1 \/ (i - 1 \in DOMAIN t /\ t[i - 1] = s[i])
  BY <1>1
<1>3. \A i \in DOMAIN t : i + 1 \in DOMAIN s /\ t[i] = s[i + 1] /\ 1 < i + 1
  BY <1>1
<1>4. 1 \in DOMAIN s
  BY <1>1
<1> HIDE DEF t
<1>5. News(s, d) = News1(s[1], d) \cup News(t, d)
  BY <1>2, <1>3, <1>4, NewsOf
<1>6. View(s, d) = View1(s[1], d) \cup View(t, d)
  BY <1>2, <1>3, <1>4, ViewOf
<1>7. ASSUME Rising(s, d)
      PROVE  Rising(t, d) /\ Before(News1(s[1], d), News(t, d))
  <2>1. \A i, j \in DOMAIN t : i < j => i + 1 < j + 1
    BY <1>1
  <2>2. Rising(t, d)
    BY <1>3, <1>7, <2>1, RisingOf
  <2>3. \A i \in DOMAIN t : Before(News1(s[1], d), News1(t[i], d))
    BY <1>3, <1>4, <1>7, RisingOf
  <2> QED
    BY <2>2, <2>3, NewsOf DEF Before
<1> QED
  BY <1>1, <1>5, <1>6, <1>7 DEF t

\* Two sequences, one after the other.
LEMMA Joined ==
    ASSUME NEW S, NEW s \in Seq(S), NEW t \in Seq(S), NEW d
    PROVE  /\ News(s \o t, d) = News(s, d) \cup News(t, d)
           /\ View(s \o t, d) = View(s, d) \cup View(t, d)
           /\ Rising(s \o t, d) <=> Rising(s, d) /\ Rising(t, d) /\ Before(News(s, d), News(t, d))
<1> DEFINE u == s \o t
<1>1. /\ Len(s) \in Nat /\ DOMAIN s = 1..Len(s) /\ Len(t) \in Nat /\ DOMAIN t = 1..Len(t)
      /\ DOMAIN u = 1..(Len(s) + Len(t))
      /\ \A i \in 1..(Len(s) + Len(t)) : u[i] = IF i <= Len(s) THEN s[i] ELSE t[i - Len(s)]
  BY ConcatProperties, LenProperties
<1>2. \A i \in DOMAIN s : i \in DOMAIN u /\ u[i] = s[i]
  BY <1>1
<1>3. \A i \in DOMAIN t : i + Len(s) \in DOMAIN u /\ u[i + Len(s)] = t[i]
  BY <1>1
<1>4. \A i \in DOMAIN u : i \in DOMAIN s \/ (i - Len(s) \in DOMAIN t /\ u[i] = t[i - Len(s)])
  BY <1>1
<1>5. \A i \in DOMAIN s, j \in DOMAIN t : i < j + Len(s)
  BY <1>1
<1> HIDE DEF u
<1>6. News(u, d) = News(s, d) \cup News(t, d)
  BY <1>2, <1>3, <1>4, NewsOf
<1>7. View(u, d) = View(s, d) \cup View(t, d)
  BY <1>2, <1>3, <1>4, ViewOf
<1>8. ASSUME Rising(u, d)
      PROVE  Rising(s, d) /\ Rising(t, d) /\ Before(News(s, d), News(t, d))
  <2>1. Rising(s, d)
    BY <1>2, <1>8, RisingOf
  <2>2. \A i, j \in DOMAIN t : i < j => i + Len(s) < j + Len(s)
    BY <1>1
  <2>3. Rising(t, d)
    BY <1>3, <1>8, <2>2, RisingOf
  <2>4. \A i \in DOMAIN s, j \in DOMAIN t : Before(News1(s[i], d), News1(t[j], d))
    BY <1>2, <1>3, <1>5, <1>8, RisingOf
  <2> QED
    BY <2>1, <2>3, <2>4, NewsOf DEF Before
<1>9. ASSUME Rising(s, d), Rising(t, d), Before(News(s, d), News(t, d))
      PROVE  Rising(u, d)
  <2> SUFFICES ASSUME NEW i \in DOMAIN u, NEW j \in DOMAIN u, i < j
               PROVE  Before(News1(u[i], d), News1(u[j], d))
    BY RisingOf
  <2>1. CASE i \in DOMAIN s /\ j \in DOMAIN s
    BY <1>2, <1>9, <2>1, RisingOf
  <2>2. CASE i \in DOMAIN s /\ j \notin DOMAIN s
    BY <1>2, <1>4, <1>9, <2>2, NewsOf DEF Before
  <2>3. CASE i \notin DOMAIN s
    <3>1. j \notin DOMAIN s /\ i - Len(s) < j - Len(s)
      BY <1>1, <2>3
    <3> QED
      BY <1>4, <1>9, <2>3, <3>1, RisingOf
  <2> QED
    BY <2>1, <2>2, <2>3
<1> QED
  BY <1>6, <1>7, <1>8, <1>9 DEF u

\* A sequence that is cut in two.
LEMMA CutFrames ==
    ASSUME NEW S, NEW s \in Seq(S), NEW k \in 0..Len(s), NEW d
    PROVE  LET a == SubSeq(s, 1, k)
               b == SubSeq(s, k + 1, Len(s))
           IN  /\ a \in Seq(S) /\ b \in Seq(S) /\ Len(a) = k
               /\ News(s, d) = News(a, d) \cup News(b, d)
               /\ View(s, d) = View(a, d) \cup View(b, d)
               /\ Rising(s, d) => Rising(a, d) /\ Rising(b, d) /\ Before(News(a, d), News(b, d))
<1> DEFINE a == SubSeq(s, 1, k)
           b == SubSeq(s, k + 1, Len(s))
<1>1. Len(s) \in Nat /\ \A i \in 1..Len(s) : s[i] \in S
  BY LenProperties, ElementOfSeq
<1>2. a \in Seq(S) /\ b \in Seq(S) /\ Len(a) = k
  BY <1>1, SubSeqProperties
<1>3. s = a \o b
  <2>1. 1 \in 1..(Len(s) + 1) /\ k \in (1 - 1)..Len(s) /\ Len(s) \in k..Len(s)
    BY <1>1
  <2>2. a \o b = SubSeq(s, 1, Len(s))
    BY <2>1, ConcatAdjacentSubSeq
  <2> QED
    BY <2>2, SubSeqFull
<1> HIDE DEF a, b
<1>4. /\ News(s, d) = News(a, d) \cup News(b, d)
      /\ View(s, d) = View(a, d) \cup View(b, d)
      /\ Rising(s, d) => Rising(a, d) /\ Rising(b, d) /\ Before(News(a, d), News(b, d))
  BY <1>2, <1>3, Joined
<1> QED
  BY <1>2, <1>4 DEF a, b

\* An empty sequence, and frames that are neither updates nor snapshots.
LEMMA NoNews ==
    ASSUME NEW d
    PROVE  News(<<>>, d) = {} /\ View(<<>>, d) = {} /\ Rising(<<>>, d)
BY NewsOf, ViewOf, RisingOf

LEMMA QuietFrames ==
    ASSUME NEW f \in Outgoing, f.kind \notin {"update", "snapshot"}, NEW d
    PROVE  News1(f, d) = {} /\ View1(f, d) = {}
BY DEF News1, View1

LEMMA FrameKinds ==
    /\ Note \in Outgoing /\ Close \in Outgoing /\ Note # Close
    /\ Note.kind = "note" /\ Close.kind = "close"
    /\ \A p \in Prompts : Answer(p) \in Outgoing /\ Answer(p).kind = "answer" /\ Answer(p) # Close
    /\ \A f \in Views : f \in Outgoing /\ f # Close /\ f.doc \in Docs /\ f.ups \in SUBSET Nat
    /\ \A f \in Updates : f \in Views /\ f.kind = "update" /\ f.ups \in Fin
                          /\ f = Update(f.doc, f.ups)
    /\ \A f \in Snapshots : f \in Views /\ f.kind = "snapshot"
    /\ \A d \in Docs, u \in Fin : Update(d, u) \in Updates
    /\ \A d \in Docs, u \in SUBSET Nat : Snapshot(d, u) \in Snapshots
    /\ \A f \in Outgoing : f.kind \in {"update", "snapshot"} => f \in Views
BY DEF Note, Close, Answer, Outgoing, Views, Updates, Snapshots, Answers, Update, Snapshot, Fin

\* The backlog has only updates, so all a client sees of it is news.
LEMMA ViewIsNews ==
    ASSUME NEW s \in Seq(Updates), NEW d
    PROVE  View(s, d) = News(s, d)
<1>1. \A i \in DOMAIN s : s[i] \in Updates
  BY ElementOfSeq, LenProperties
<1>2. \A i \in DOMAIN s : View1(s[i], d) = News1(s[i], d)
  BY <1>1 DEF Updates, News1, View1
<1> QED
  BY <1>2, NewsOf, ViewOf

-----------------------------------------------------------------------------
(* The weight of a backlog. *)

Load(s) == UNION {{i} \X s[i].ups : i \in DOMAIN s}

LEMMA LoadOf ==
    ASSUME NEW s \in Seq(Updates)
    PROVE  /\ \A i \in 1..Len(s) : s[i] \in Updates
           /\ \A x : x \in Load(s) <=> \E i \in 1..Len(s) : \E n \in s[i].ups : x = <<i, n>>
<1>1. DOMAIN s = 1..Len(s) /\ \A i \in 1..Len(s) : s[i] \in Updates
  BY ElementOfSeq, LenProperties
<1> QED
  BY <1>1 DEF Load

LEMMA LoadFinite ==
    ASSUME NEW s \in Seq(Updates)
    PROVE  IsFiniteSet(Load(s)) /\ Weight(s) = Cardinality(Load(s)) /\ Weight(s) \in Nat
<1>1. DOMAIN s = 1..Len(s) /\ Len(s) \in Nat /\ \A i \in 1..Len(s) : IsFiniteSet(s[i].ups)
  <2>1. DOMAIN s = 1..Len(s) /\ Len(s) \in Nat /\ \A i \in 1..Len(s) : s[i] \in Updates
    BY ElementOfSeq, LenProperties
  <2>2. \A f \in Updates : IsFiniteSet(f.ups)
    BY DEF Updates, Fin
  <2> QED
    BY <2>1, <2>2
<1>2. IsFiniteSet(DOMAIN s)
  BY <1>1, FS_Interval
<1> DEFINE Part(i) == {i} \X s[i].ups
           Parts == {Part(i) : i \in DOMAIN s}
<1>3. IsFiniteSet(Parts)
  <2> HIDE DEF Part
  <2>1. [i \in DOMAIN s |-> Part(i)] \in Surjection(DOMAIN s, Parts)
    BY DEF Surjection
  <2> QED
    BY <1>2, <2>1, FS_Surjection
<1>4. \A T \in Parts : IsFiniteSet(T)
  <2>1. ASSUME NEW i \in DOMAIN s
        PROVE  IsFiniteSet(Part(i))
    BY <1>1, FS_Product, FS_Singleton
  <2> QED
    BY <2>1
<1>5. IsFiniteSet(Load(s))
  BY <1>3, <1>4, FS_UNION DEF Load
<1> QED
  BY <1>5, FS_CardinalityType DEF Weight, Load

LEMMA WeightEmpty == Weight(<<>>) = 0
<1>1. UNION {{i} \X (<<>>)[i].ups : i \in DOMAIN <<>>} = {}
  OBVIOUS
<1> QED
  BY <1>1, FS_EmptySet DEF Weight

\* One more update weighs what it brings.
LEMMA WeightAppend ==
    ASSUME NEW s \in Seq(Updates), NEW f \in Updates
    PROVE  Weight(Append(s, f)) = Weight(s) + Cardinality(f.ups) /\ Cardinality(f.ups) \in Nat
<1> DEFINE t == Append(s, f)
           last == {Len(s) + 1} \X f.ups
<1>1. t \in Seq(Updates) /\ Len(s) \in Nat /\ Len(t) = Len(s) + 1
      /\ t[Len(s) + 1] = f /\ \A i \in 1..Len(s) : t[i] = s[i]
  BY AppendProperties, LenProperties
<1>2. IsFiniteSet(f.ups) /\ Cardinality(f.ups) \in Nat
  BY FS_CardinalityType DEF Updates, Fin
<1>3. IsFiniteSet(last) /\ Cardinality(last) = Cardinality(f.ups)
  <2>1. IsFiniteSet({Len(s) + 1}) /\ Cardinality({Len(s) + 1}) = 1
    BY FS_Singleton
  <2> QED
    BY <1>2, <2>1, FS_Product
<1> HIDE DEF t
<1>4. Load(t) = Load(s) \cup last
  <2>1. \A i \in 1..Len(t) : i \in 1..Len(s) \/ i = Len(s) + 1
    BY <1>1
  <2>2. 1..Len(s) \subseteq 1..Len(t) /\ Len(s) + 1 \in 1..Len(t)
    BY <1>1
  <2>3. ASSUME NEW x \in Load(t)
        PROVE  x \in Load(s) \cup last
    <3>1. PICK i \in 1..Len(t) : \E n \in t[i].ups : x = <<i, n>>
      BY <1>1, LoadOf
    <3> QED
      BY <1>1, <2>1, <3>1, LoadOf
  <2>4. ASSUME NEW x \in Load(s) \cup last
        PROVE  x \in Load(t)
    <3>1. CASE x \in Load(s)
      BY <1>1, <2>2, <3>1, LoadOf
    <3>2. CASE x \in last
      <4>1. PICK n \in f.ups : x = <<Len(s) + 1, n>>
        BY <3>2
      <4> QED
        BY <1>1, <2>2, <4>1, LoadOf
    <3> QED
      BY <2>4, <3>1, <3>2
  <2> QED
    BY <2>3, <2>4
<1>5. Load(s) \cap last = {}
  <2> SUFFICES ASSUME NEW x \in Load(s), x \in last
               PROVE  FALSE
    OBVIOUS
  <2>1. PICK i \in 1..Len(s) : \E n \in s[i].ups : x = <<i, n>>
    BY LoadOf
  <2>2. PICK m \in f.ups : x = <<Len(s) + 1, m>>
    OBVIOUS
  <2> QED
    BY <1>1, <2>1, <2>2
<1> HIDE DEF last
<1>6. Cardinality(Load(s) \cap last) = 0
  BY <1>5, FS_EmptySet
<1>7. Cardinality(Load(t)) = Cardinality(Load(s)) + Cardinality(last) - 0
  BY <1>3, <1>4, <1>6, LoadFinite, FS_Union
<1>8. Weight(t) = Weight(s) + Cardinality(f.ups)
  <2>1. Weight(t) = Cardinality(Load(t)) /\ Weight(s) = Cardinality(Load(s)) /\ Weight(s) \in Nat
    BY <1>1, LoadFinite
  <2> QED
    BY <1>2, <1>3, <1>7, <2>1
<1> QED
  BY <1>2, <1>8 DEF t

\* What is left of a backlog weighs no more than it did.
LEMMA WeightCut ==
    ASSUME NEW s \in Seq(Updates), NEW k \in 0..Len(s)
    PROVE  Weight(SubSeq(s, k + 1, Len(s))) <= Weight(s)
<1> DEFINE t == SubSeq(s, k + 1, Len(s))
           move == [x \in Load(t) |-> <<x[1] + k, x[2]>>]
<1>1. t \in Seq(Updates) /\ Len(s) \in Nat /\ Len(t) = Len(s) - k /\ \A i \in 1..Len(t) : t[i] = s[i + k]
  <2>1. Len(s) \in Nat /\ \A i \in (k + 1)..Len(s) : s[i] \in Updates
    BY LenProperties, ElementOfSeq
  <2>2. t \in Seq(Updates) /\ Len(t) = IF k + 1 <= Len(s) THEN Len(s) - (k + 1) + 1 ELSE 0
    BY <2>1, SubSeqProperties
  <2>3. \A i \in 1..(Len(s) - (k + 1) + 1) : t[i] = s[k + 1 + i - 1]
    BY <2>1, SubSeqProperties
  <2>4. Len(t) = Len(s) - k
    BY <2>1, <2>2
  <2>5. \A i \in 1..Len(t) : t[i] = s[i + k]
    BY <2>1, <2>3, <2>4
  <2> QED
    BY <2>1, <2>2, <2>4, <2>5
<1> HIDE DEF t
<1>2. \A x \in Load(t) : \E i \in 1..Len(t) : \E n \in s[i + k].ups : x = <<i, n>> /\ i + k \in 1..Len(s)
  <2> SUFFICES ASSUME NEW x \in Load(t)
               PROVE  \E i \in 1..Len(t) : \E n \in s[i + k].ups : x = <<i, n>> /\ i + k \in 1..Len(s)
    OBVIOUS
  <2>1. PICK i \in 1..Len(t) : \E n \in t[i].ups : x = <<i, n>>
    BY <1>1, LoadOf
  <2>2. i + k \in 1..Len(s)
    BY <1>1
  <2> QED
    BY <1>1, <2>1, <2>2
<1>3. move \in [Load(t) -> Load(s)]
  BY <1>2, LoadOf
<1>4. ASSUME NEW x \in Load(t), NEW y \in Load(t), move[x] = move[y]
      PROVE  x = y
  BY <1>2, <1>4
<1>5. move \in Injection(Load(t), Load(s))
  BY <1>3, <1>4 DEF Injection, IsInjective
<1>6. Cardinality(Load(t)) <= Cardinality(Load(s))
  BY <1>5, LoadFinite, FS_Injection
<1> QED
  BY <1>1, <1>6, LoadFinite DEF t

LEMMA LeastOfTwo ==
    ASSUME NEW a \in Nat, NEW b \in Nat
    PROVE  Min({a, b}) = IF a <= b THEN a ELSE b
<1> DEFINE m == IF a <= b THEN a ELSE b
<1>1. m \in {a, b} /\ \A y \in {a, b} : m <= y
  OBVIOUS
<1>2. \A x \in {a, b} : (\A y \in {a, b} : x <= y) => x = m
  OBVIOUS
<1> QED
  BY <1>1, <1>2 DEF Min

\* The updates in the frames for one document of a merged backlog.
LEMMA MergedFrame ==
    ASSUME NEW s \in Seq(Updates), NEW d \in Docs
    PROVE  Merged(s, d) \in Updates /\ Merged(s, d).doc = d /\ Merged(s, d).ups = News(s, d)
<1> DEFINE mine == {j \in DOMAIN s : s[j].doc = d}
           parts == {s[i].ups : i \in mine}
<1>1. DOMAIN s = 1..Len(s) /\ Len(s) \in Nat /\ \A i \in DOMAIN s : s[i] \in Updates
  BY ElementOfSeq, LenProperties
<1>2. \A i \in DOMAIN s : s[i].kind = "update" /\ s[i].ups \in SUBSET Nat /\ IsFiniteSet(s[i].ups)
  BY <1>1 DEF Updates, Fin
<1>3. UNION parts = News(s, d)
  BY <1>2 DEF News
<1>4. IsFiniteSet(mine)
  <2>1. IsFiniteSet(DOMAIN s) /\ mine \in SUBSET (DOMAIN s)
    BY <1>1, FS_Interval
  <2> QED
    BY <2>1, FS_Subset
<1>5. IsFiniteSet(parts)
  <2> HIDE DEF mine
  <2>1. [i \in mine |-> s[i].ups] \in Surjection(mine, parts)
    BY DEF Surjection
  <2> QED
    BY <1>4, <2>1, FS_Surjection
<1>6. IsFiniteSet(UNION parts)
  <2>1. \A T \in parts : IsFiniteSet(T)
    BY <1>2
  <2> QED
    BY <1>5, <2>1, FS_UNION
<1>7. UNION parts \in Fin
  BY <1>2, <1>6 DEF Fin
<1> HIDE DEF parts
<1>8. Merged(s, d) = Update(d, UNION parts)
  BY DEF Merged, parts
<1> QED
  BY <1>3, <1>7, <1>8 DEF Update, Updates

\* The merged backlog has one frame for each document that it touches.
LEMMA MergedFrames ==
    ASSUME NEW s \in Seq(Updates), NEW order \in SetToSeqs({s[i].doc : i \in DOMAIN s})
    PROVE  LET m == [i \in DOMAIN order |-> Merged(s, order[i])]
           IN  /\ m \in Seq(Updates) /\ Weight(m) <= Weight(s)
               /\ \A d : News(m, d) = News(s, d) /\ Rising(m, d)
<1> DEFINE touched == {s[i].doc : i \in DOMAIN s}
           n == Cardinality(touched)
           m == [i \in DOMAIN order |-> Merged(s, order[i])]
<1>1. DOMAIN s = 1..Len(s) /\ Len(s) \in Nat /\ \A i \in DOMAIN s : s[i] \in Updates
  BY ElementOfSeq, LenProperties
<1>2. touched \subseteq Docs
  BY <1>1 DEF Updates
<1>3. IsFiniteSet(touched) /\ n \in Nat
  <2>1. IsFiniteSet(DOMAIN s)
    BY <1>1, FS_Interval
  <2>2. [i \in DOMAIN s |-> s[i].doc] \in Surjection(DOMAIN s, touched)
    BY DEF Surjection
  <2> QED
    BY <2>1, <2>2, FS_Surjection, FS_CardinalityType
<1>4. order \in [1..n -> touched] /\ \A i, j \in 1..n : i # j => order[i] # order[j]
  BY DEF SetToSeqs
<1>5. \A d \in touched : \E i \in 1..n : order[i] = d
  <2>1. order \in Injection(1..n, touched)
    BY <1>4 DEF Injection, IsInjective
  <2>2. Cardinality(1..n) = n
    BY <1>3, FS_Interval
  <2>3. order \in Surjection(1..n, touched)
    BY <1>3, <2>1, <2>2, FS_Injection
  <2> QED
    BY <2>3 DEF Surjection
<1> HIDE DEF n
<1>6. DOMAIN m = 1..n /\ \A i \in 1..n : m[i] = Merged(s, order[i]) /\ order[i] \in Docs
  BY <1>2, <1>4
<1>7. \A i \in 1..n : m[i] \in Updates /\ m[i].doc = order[i] /\ m[i].ups = News(s, order[i])
  BY <1>6, MergedFrame
<1>8. m \in Seq(Updates) /\ Len(m) = n
  <2>1. m \in [1..n -> Updates]
    BY <1>6, <1>7
  <2> QED
    BY <1>3, <2>1, SeqDef, LenProperties
<1> HIDE DEF m
<1>9. \A d : \A i \in 1..n : News1(m[i], d) = IF order[i] = d THEN News(s, d) ELSE {}
  BY <1>7 DEF News1, Updates
<1>10. ASSUME NEW d
       PROVE  News(m, d) = News(s, d)
  <2>1. CASE d \in touched
    <3>1. PICK i \in 1..n : order[i] = d
      BY <1>5, <2>1
    <3>2. News1(m[i], d) = News(s, d) /\ \A j \in 1..n : News1(m[j], d) \subseteq News(s, d)
      BY <1>9, <3>1
    <3> QED
      BY <1>6, <3>2, NewsOf
  <2>2. CASE d \notin touched
    <3>1. News(s, d) = {}
      BY <2>2 DEF News
    <3>2. \A i \in 1..n : News1(m[i], d) = {}
      BY <1>9, <3>1
    <3>3. News(m, d) = {}
      BY <1>6, <3>2, NewsOf
    <3> QED
      BY <3>1, <3>3
  <2> QED
    BY <2>1, <2>2
<1>11. ASSUME NEW d
       PROVE  Rising(m, d)
  <2>1. \A i, j \in 1..n : i < j => News1(m[i], d) = {} \/ News1(m[j], d) = {}
    <3> SUFFICES ASSUME NEW i \in 1..n, NEW j \in 1..n, i < j
                 PROVE  News1(m[i], d) = {} \/ News1(m[j], d) = {}
      OBVIOUS
    <3>1. order[i] # order[j]
      BY <1>3, <1>4
    <3> QED
      BY <1>9, <3>1
  <2>2. \A i, j \in 1..n : i < j => Before(News1(m[i], d), News1(m[j], d))
    BY <2>1 DEF Before
  <2> QED
    BY <1>6, <2>2, RisingOf
<1>12. Weight(m) <= Weight(s)
  <2>1. \A x \in Load(m) : \E i \in 1..n : \E k \in News(s, order[i]) : x = <<i, k>>
    BY <1>7, <1>8, LoadOf
  <2>2. \A x \in Load(m) : \E i \in 1..Len(s) : x[1] \in 1..n /\ s[i].doc = order[x[1]] /\ x[2] \in s[i].ups
    BY <1>1, <2>1 DEF News
  <2> DEFINE from(x) == CHOOSE i \in 1..Len(s) : s[i].doc = order[x[1]] /\ x[2] \in s[i].ups
             move == [x \in Load(m) |-> <<from(x), x[2]>>]
  <2>3. \A x \in Load(m) : from(x) \in 1..Len(s) /\ s[from(x)].doc = order[x[1]] /\ x[2] \in s[from(x)].ups
    BY <2>2
  <2> HIDE DEF from
  <2>4. move \in [Load(m) -> Load(s)]
    BY <2>3, LoadOf
  <2>5. ASSUME NEW x \in Load(m), NEW y \in Load(m), move[x] = move[y]
        PROVE  x = y
    <3>1. from(x) = from(y) /\ x[2] = y[2]
      BY <2>5
    <3>2. order[x[1]] = order[y[1]] /\ x[1] \in 1..n /\ y[1] \in 1..n
      BY <2>2, <2>3, <3>1
    <3>3. x[1] = y[1]
      BY <1>4, <3>2
    <3>4. x = <<x[1], x[2]>> /\ y = <<y[1], y[2]>>
      BY <2>1
    <3> QED
      BY <3>1, <3>3, <3>4
  <2>6. move \in Injection(Load(m), Load(s))
    BY <2>4, <2>5 DEF Injection, IsInjective
  <2>7. Cardinality(Load(m)) <= Cardinality(Load(s))
    BY <2>6, LoadFinite, FS_Injection
  <2> QED
    BY <1>8, <2>7, LoadFinite
<1> QED
  BY <1>8, <1>10, <1>11, <1>12 DEF m

\* What goes out is what the queue has room for, and the rest is kept.
LEMMA TrySendIs ==
    ASSUME ConnTypes, NEW c \in Conns, Len(outq[c]) <= OutCap,
           NEW frames \in Seq(Updates), TrySend(c, frames)
    PROVE  \E k \in 0..Len(frames) :
               LET kept == SubSeq(frames, k + 1, Len(frames))
               IN  /\ outq' = [outq EXCEPT ![c] = @ \o SubSeq(frames, 1, k)]
                   /\ sub' = [sub EXCEPT ![c].pending = kept, ![c].bytes = Weight(kept)]
                   /\ Len(outq[c]) + k <= OutCap
<1> DEFINE room == OutCap - Len(outq[c])
           k == Min({Len(frames), room})
<1>1. Len(frames) \in Nat /\ Len(outq[c]) \in Nat /\ OutCap \in Nat /\ room \in Nat
  <2>1. outq[c] \in Seq(Outgoing)
    BY DEF ConnTypes
  <2> QED
    BY <2>1, LenProperties, ClientChannelAssumption DEF ClientChannelAssumption
<1>2. k \in 0..Len(frames) /\ Len(outq[c]) + k <= OutCap
  BY <1>1, LeastOfTwo
<1>3. LET kept == SubSeq(frames, k + 1, Len(frames))
      IN  /\ outq' = [outq EXCEPT ![c] = @ \o SubSeq(frames, 1, k)]
          /\ sub' = [sub EXCEPT ![c].pending = kept, ![c].bytes = Weight(kept)]
  BY DEF TrySend
<1> QED
  BY <1>2, <1>3

-----------------------------------------------------------------------------
(* Types. *)

Entries == [docs : SUBSET Docs, pending : Seq(Updates), bytes : Nat, tx : BOOLEAN]

LEMMA EntryIs ==
    ASSUME NEW r \in Entries
    PROVE  r = [docs |-> r.docs, pending |-> r.pending, bytes |-> r.bytes, tx |-> r.tx]
BY DEF Entries

\* A new backlog in the entry of a connection.
LEMMA Reloaded ==
    ASSUME sub \in [Conns -> Entries], NEW c \in Conns, NEW p \in Seq(Updates), NEW b \in Nat,
           sub' = [sub EXCEPT ![c].pending = p, ![c].bytes = b]
    PROVE  /\ sub' \in [Conns -> Entries]
           /\ sub' = [sub EXCEPT ![c] = [docs |-> sub[c].docs, pending |-> p, bytes |-> b,
                                         tx |-> sub[c].tx]]
<1> DEFINE e == [docs |-> sub[c].docs, pending |-> p, bytes |-> b, tx |-> sub[c].tx]
<1>1. sub[c] \in Entries
  OBVIOUS
<1>2. e \in Entries
  BY <1>1 DEF Entries
<1>3. sub' \in [Conns -> Entries] /\ \A k \in Conns \ {c} : sub'[k] = sub[k]
  BY <1>1 DEF Entries
<1>4. /\ sub'[c].docs = sub[c].docs /\ sub'[c].pending = p
      /\ sub'[c].bytes = b /\ sub'[c].tx = sub[c].tx
  BY <1>1 DEF Entries
<1>5. sub'[c] = e
  BY <1>3, <1>4, EntryIs
<1> HIDE DEF e
<1>6. sub' = [sub EXCEPT ![c] = e]
  BY <1>2, <1>3, <1>5
<1> QED
  BY <1>3, <1>6 DEF e

LEMMA SameDocs == ASSUME DocTypes, UNCHANGED <<mirror, feed, updates, fan>> PROVE DocTypes'
BY DEF DocTypes
LEMMA SameConns == ASSUME ConnTypes, UNCHANGED <<sub, outq, closing, client, gap>> PROVE ConnTypes'
BY DEF ConnTypes
LEMMA SameLoops == ASSUME LoopTypes, UNCHANGED <<at, work, chan, acts>> PROVE LoopTypes'
BY DEF LoopTypes
LEMMA SameCommands == ASSUME CommandTypes, UNCHANGED <<prompt, execq, publish>> PROVE CommandTypes'
BY DEF CommandTypes
LEMMA SameBudget == ASSUME BudgetTypes, UNCHANGED <<budget, updates, events>> PROVE BudgetTypes'
BY DEF BudgetTypes

LEMMA BudgetsAre ==
    ASSUME BudgetTypes
    PROVE  /\ budget.conns \subseteq Conns /\ budget.docs \subseteq Docs
           /\ budget.updates \in Nat /\ budget.events \in Nat
BY ClientChannelAssumption DEF ClientChannelAssumption, BudgetTypes

LEMMA EventTypes == ASSUME BudgetTypes, Event, UNCHANGED <<budget, updates>> PROVE BudgetTypes'
BY BudgetsAre DEF BudgetTypes, Event

LEMMA OpsAre ==
    /\ \A f \in Snapshots \cup {Note} : Send(f) \in Ops /\ Send(f).op = "send" /\ Send(f).frame = f
    /\ \A d \in Docs : /\ ReadDoc(d) \in Ops /\ ReadDoc(d).op = "snapshot" /\ ReadDoc(d).doc = d
                       /\ Attach(d) \in Ops /\ Attach(d).op = "subscribe" /\ Attach(d).doc = d
    /\ Flush \in Ops /\ Flush.op = "flush" /\ End \in Ops /\ End.op = "end"
    /\ \A p \in Prompts : Act(p) \in Ops /\ Act(p).op = "act" /\ Act(p).prompt = p
    /\ \A o \in Ops : /\ o.op = "send" => o.frame \in Snapshots \cup {Note}
                      /\ o.op \in {"snapshot", "subscribe"} => o.doc \in Docs
                      /\ o.op = "subscribe" => o = Attach(o.doc)
                      /\ o.op = "send" => o = Send(o.frame)
                      /\ o.op = "act" => o.prompt \in Prompts
BY DEF Send, ReadDoc, Attach, Flush, End, Act, Ops

LEMMA InitTypes == Init => Types
<1> SUFFICES ASSUME Init
             PROVE  Types
  OBVIOUS
<1>1. {} \in Fin
  BY FS_EmptySet DEF Fin
<1>2. BudgetTypes
  BY ClientChannelAssumption DEF ClientChannelAssumption, BudgetTypes, Init
<1>3. DocTypes
  BY <1>1 DEF DocTypes, Init, NoFan
<1>4. ConnTypes
  BY DEF ConnTypes, Init, NoSub
<1>5. LoopTypes
  BY ClientChannelAssumption DEF ClientChannelAssumption, LoopTypes, Init, NewChannel
<1>6. CommandTypes
  BY DEF CommandTypes, Init, NoPublish
<1> QED
  BY <1>2, <1>3, <1>4, <1>5, <1>6 DEF Types

LEMMA PersistTypes ==
    ASSUME Types, NEW d \in Docs, Persist(d)
    PROVE  Types'
<1> USE DEF Types
<1>1. BudgetTypes'
  BY BudgetsAre DEF BudgetTypes, Persist
<1>2. DocTypes'
  <2>1. mirror' \in [Docs -> 0..updates']
    BY DEF DocTypes, BudgetTypes, Persist
  <2>2. mirror[d] \in Nat /\ {mirror[d] + 1} \in Fin
    <3>1. mirror[d] \in Nat
      BY DEF DocTypes, BudgetTypes
    <3>2. IsFiniteSet({mirror[d] + 1})
      BY FS_Singleton
    <3> QED
      BY <3>1, <3>2 DEF Fin
  <2>3. Update(d, {mirror[d] + 1}) \in Updates
    BY <2>2, FrameKinds
  <2>4. feed' \in Seq(Updates)
    BY <2>3, AppendProperties DEF DocTypes, Persist
  <2> QED
    BY <2>1, <2>4 DEF DocTypes, Persist
<1>3. ConnTypes' /\ LoopTypes' /\ CommandTypes'
  BY SameConns, SameLoops, SameCommands DEF Persist, loops, commands, history
<1> QED
  BY <1>1, <1>2, <1>3

LEMMA TakeUpdateTypes ==
    ASSUME Types, TakeUpdate
    PROVE  Types'
<1> USE DEF Types
<1> DEFINE u == Head(feed)
<1>1. u \in Updates /\ Tail(feed) \in Seq(Updates)
  BY HeadTailProperties DEF DocTypes, TakeUpdate
<1>2. u.doc \in Docs /\ u.ups \in Fin
  BY <1>1, FrameKinds
<1>3. DocTypes'
  BY <1>1, <1>2 DEF DocTypes, TakeUpdate, NoFan
<1>4. ConnTypes'
  <2>1. u.ups \in SUBSET Nat
    BY <1>2 DEF Fin
  <2>2. gap' \in [Conns -> [Docs -> SUBSET Nat]]
    BY <1>2, <2>1 DEF ConnTypes, TakeUpdate
  <2> QED
    BY <2>2 DEF ConnTypes, TakeUpdate
<1>5. BudgetTypes' /\ LoopTypes' /\ CommandTypes'
  BY SameBudget, SameLoops, SameCommands DEF TakeUpdate, loops, commands
<1> QED
  BY <1>3, <1>4, <1>5

LEMMA DeliverTypes ==
    ASSUME Types, NEW c \in Conns, Deliver(c)
    PROVE  Types'
<1> USE DEF Types
<1> DEFINE f == Update(fan.doc, fan.ups)
<1>1. f \in Updates /\ fan.ups \in Fin
  BY FrameKinds DEF DocTypes, Deliver
<1>2. Cardinality(fan.ups) \in Nat
  BY <1>1, FS_CardinalityType DEF Fin
<1>3. Append(sub[c].pending, f) \in Seq(Updates)
  BY <1>1, AppendProperties DEF ConnTypes
<1>4. \A p, b : Decide(p, b) \in {"none", "direct", "merge", "close"}
  BY DEF Decide
<1>5. DocTypes'
  <2>1. fan.doc \in Docs
    BY DEF DocTypes, Deliver
  <2>2. CASE sub[c].tx
    <3> DEFINE act == Decide(Append(sub[c].pending, f), sub[c].bytes + Cardinality(fan.ups))
    <3>1. act \in {"none", "direct", "merge", "close"}
      BY <1>4
    <3>2. fan' = [fan EXCEPT !.left = @ \ {c}, !.conn = c, !.act = act]
      BY <2>2 DEF Deliver
    <3> HIDE DEF act
    <3> QED
      BY <2>1, <3>1, <3>2 DEF DocTypes, Deliver, docs
  <2>3. CASE ~sub[c].tx
    BY <2>1, <2>3 DEF DocTypes, Deliver, docs
  <2> QED
    BY <2>2, <2>3
<1>6. ConnTypes'
  <2>1. CASE sub[c].tx
    <3> DEFINE p == Append(sub[c].pending, f)
               b == sub[c].bytes + Cardinality(fan.ups)
    <3>1. p \in Seq(Updates) /\ b \in Nat
      BY <1>2, <1>3 DEF ConnTypes
    <3>2. sub' = [sub EXCEPT ![c].pending = p, ![c].bytes = b]
      BY <2>1 DEF Deliver
    <3> HIDE DEF p, b
    <3>3. sub' \in [Conns -> Entries]
      BY <3>1, <3>2, Reloaded DEF ConnTypes, Entries
    <3> QED
      BY <3>3 DEF ConnTypes, Entries, Deliver, history
  <2>2. CASE ~sub[c].tx
    BY <2>2, SameConns DEF Deliver, history
  <2> QED
    BY <2>1, <2>2
<1>7. BudgetTypes' /\ LoopTypes' /\ CommandTypes'
  BY SameBudget, SameLoops, SameCommands DEF Deliver, docs, loops, commands, history
<1> QED
  BY <1>5, <1>6, <1>7

\* What a flush leaves of a backlog.
LEMMA TrySendTypes ==
    ASSUME ConnTypes, NEW c \in Conns, Len(outq[c]) <= OutCap,
           NEW frames \in Seq(Updates), TrySend(c, frames), UNCHANGED <<closing, client, gap>>
    PROVE  ConnTypes'
<1>1. PICK k \in 0..Len(frames) :
        LET kept == SubSeq(frames, k + 1, Len(frames))
        IN  /\ outq' = [outq EXCEPT ![c] = @ \o SubSeq(frames, 1, k)]
            /\ sub' = [sub EXCEPT ![c].pending = kept, ![c].bytes = Weight(kept)]
  BY TrySendIs
<1> DEFINE sent == SubSeq(frames, 1, k)
           kept == SubSeq(frames, k + 1, Len(frames))
<1>2. sent \in Seq(Updates) /\ kept \in Seq(Updates)
  BY CutFrames
<1>3. sent \in Seq(Outgoing)
  <2>1. Updates \subseteq Outgoing
    BY FrameKinds
  <2> QED
    BY <1>2, <2>1, SeqMonotonic
<1>4. outq[c] \o sent \in Seq(Outgoing)
  BY <1>3, ConcatProperties DEF ConnTypes
<1>5. Weight(kept) \in Nat
  BY <1>2, LoadFinite
<1>6. /\ outq' = [outq EXCEPT ![c] = @ \o sent]
      /\ sub' = [sub EXCEPT ![c].pending = kept, ![c].bytes = Weight(kept)]
  BY <1>1
<1> HIDE DEF sent, kept
<1>7. outq' \in [Conns -> Seq(Outgoing)]
  BY <1>4, <1>6 DEF ConnTypes
<1>8. sub' \in [Conns -> [docs : SUBSET Docs, pending : Seq(Updates), bytes : Nat, tx : BOOLEAN]]
  BY <1>2, <1>5, <1>6, Reloaded DEF ConnTypes, Entries
<1> QED
  BY <1>7, <1>8 DEF ConnTypes

LEMMA FlushTypes ==
    ASSUME Types, FanInv, NEW c \in Conns, FlushDirect(c) \/ FlushMerged(c)
    PROVE  Types'
<1> USE DEF Types
<1>0. PICK act \in {"direct", "merge"} : Flushed(c, act) /\ UNCHANGED closing
  BY DEF FlushDirect, FlushMerged
<1>1. DocTypes'
  BY <1>0 DEF DocTypes, Flushed, docs
<1>2. BudgetTypes' /\ LoopTypes' /\ CommandTypes'
  BY <1>0, SameBudget, SameLoops, SameCommands DEF Flushed, docs, loops, commands, history
<1>3. UNCHANGED <<closing, client, gap>> /\ Len(outq[c]) <= OutCap
  BY <1>0 DEF Flushed, history, FanInv, Weighed
<1>4. sub[c].pending \in Seq(Updates)
  BY DEF ConnTypes
<1>5. CASE UNCHANGED <<sub, outq>>
  BY <1>1, <1>2, <1>3, <1>5, SameConns
<1>6. CASE TrySend(c, sub[c].pending)
  BY <1>1, <1>2, <1>3, <1>4, <1>6, TrySendTypes
<1>7. CASE FlushMerged(c) /\ ~UNCHANGED <<sub, outq>>
  <2>1. PICK order \in SetToSeqs({sub[c].pending[i].doc : i \in DOMAIN sub[c].pending}) :
          TrySend(c, [i \in DOMAIN order |-> Merged(sub[c].pending, order[i])])
    BY <1>7 DEF FlushMerged
  <2>2. [i \in DOMAIN order |-> Merged(sub[c].pending, order[i])] \in Seq(Updates)
    BY <1>4, MergedFrames
  <2> QED
    BY <1>1, <1>2, <1>3, <2>1, <2>2, TrySendTypes
<1> QED
  BY <1>5, <1>6, <1>7 DEF FlushDirect

LEMMA CloseTypes ==
    ASSUME Types, NEW c \in Conns, CloseConn(c) \/ SignalClose(c)
    PROVE  Types'
<1> USE DEF Types
<1>1. BudgetTypes' /\ LoopTypes' /\ CommandTypes'
  BY SameBudget, SameLoops, SameCommands
     DEF CloseConn, SignalClose, Flushed, docs, loops, commands, history
<1>2. DocTypes'
  BY DEF DocTypes, CloseConn, SignalClose, Flushed, docs
<1>3. CASE CloseConn(c)
  <2>1. ConnTypes'
    BY <1>3 DEF ConnTypes, CloseConn, Flushed, NoSub, history
  <2> QED
    BY <1>1, <1>2, <2>1
<1>4. CASE SignalClose(c)
  <2>1. Append(outq[c], Close) \in Seq(Outgoing)
    BY FrameKinds, AppendProperties DEF ConnTypes
  <2>2. outq' \in [Conns -> Seq(Outgoing)]
    BY <1>4, <2>1 DEF ConnTypes, SignalClose
  <2>3. closing' \in [Conns -> Nat]
    BY <1>4 DEF ConnTypes, SignalClose
  <2>4. ConnTypes'
    BY <1>4, <2>2, <2>3 DEF ConnTypes, SignalClose, history
  <2> QED
    BY <1>1, <1>2, <2>4
<1> QED
  BY <1>3, <1>4

LEMMA EphemeralTypes ==
    ASSUME Types, NEW d \in Docs, Ephemeral(d)
    PROVE  Types'
<1> USE DEF Types
<1>1. \A c \in Conns : Append(outq[c], Note) \in Seq(Outgoing)
  BY FrameKinds, AppendProperties DEF ConnTypes
<1>2. outq' \in [Conns -> Seq(Outgoing)]
  BY <1>1 DEF ConnTypes, Ephemeral
<1>3. ConnTypes'
  BY <1>2 DEF ConnTypes, Ephemeral, history
<1>4. BudgetTypes'
  BY EventTypes DEF Ephemeral, docs
<1>5. DocTypes' /\ LoopTypes' /\ CommandTypes'
  BY SameDocs, SameLoops, SameCommands DEF Ephemeral, docs, loops, commands, history
<1> QED
  BY <1>3, <1>4, <1>5

Channels == [first : BOOLEAN, seen : BOOLEAN, v2 : BOOLEAN, ready : BOOLEAN, pending : Seq(Prompts)]

\* A handler that begins, as far as it is not about what it does with actions.
LEMMA HandleTypes ==
    ASSUME Types, NEW c \in Conns, NEW steps \in Seq(Ops), NEW channel \in Channels,
           Len(channel.pending) <= PendingLimit, Handle(c, steps, channel),
           acts' \in [Conns -> [sent : Seq(Prompts), begun : Seq(Prompts), v2 : BOOLEAN]]
    PROVE  Types'
<1> USE DEF Types
<1>1. BudgetTypes'
  BY EventTypes DEF Handle, EventAt, docs
<1>2. DocTypes' /\ ConnTypes' /\ CommandTypes'
  BY SameDocs, SameConns, SameCommands DEF Handle, EventAt, Event, docs, commands
<1>3. LoopTypes'
  BY DEF LoopTypes, Handle, Channels
<1> QED
  BY <1>1, <1>2, <1>3

LEMMA ChannelOf ==
    ASSUME LoopTypes, NEW c \in Conns
    PROVE  /\ chan[c] \in Channels /\ Len(chan[c].pending) <= PendingLimit
           /\ acts \in [Conns -> [sent : Seq(Prompts), begun : Seq(Prompts), v2 : BOOLEAN]]
BY DEF LoopTypes, Channels

\* The steps of a subscription.
LEMMA Subscription ==
    ASSUME NEW s \in SUBSET Docs, NEW wanted \in SetToSeqs(s), NEW first \in BOOLEAN
    PROVE  LET open == [i \in DOMAIN wanted |-> ReadDoc(wanted[i])]
               greet == IF first THEN <<Send(Note), Flush>> ELSE <<>>
           IN  /\ open \in Seq(Ops) /\ greet \in Seq(Ops) /\ open \o greet \in Seq(Ops)
               /\ \A i \in DOMAIN (open \o greet) :
                     \/ (open \o greet)[i].op \in {"snapshot", "send"}
                     \/ (open \o greet)[i].op = "flush" /\ i = Len(open \o greet)
<1> DEFINE n == Cardinality(s)
           open == [i \in DOMAIN wanted |-> ReadDoc(wanted[i])]
           greet == IF first THEN <<Send(Note), Flush>> ELSE <<>>
<1>1. wanted \in [1..n -> s]
  BY DEF SetToSeqs
<1>2. n \in Nat
  <2>1. IsFiniteSet(s)
    BY ClientChannelAssumption, FS_Subset DEF ClientChannelAssumption
  <2> QED
    BY <2>1, FS_CardinalityType
<1> HIDE DEF n
<1>3. \A i \in 1..n : wanted[i] \in Docs
  BY <1>1
<1>4. DOMAIN open = 1..n /\ \A i \in 1..n : open[i] \in Ops /\ open[i].op = "snapshot"
  BY <1>1, <1>3, OpsAre
<1>5. open \in Seq(Ops) /\ Len(open) = n
  <2>1. open \in [1..n -> Ops]
    BY <1>4
  <2> QED
    BY <1>2, <2>1, SeqDef, LenProperties
<1>6. /\ greet \in Seq(Ops) /\ Len(greet) \in {0, 2}
      /\ \A i \in 1..Len(greet) : greet[i].op = (IF i = 1 THEN "send" ELSE "flush")
  BY OpsAre
<1> HIDE DEF open, greet
<1>7. /\ open \o greet \in Seq(Ops) /\ DOMAIN (open \o greet) = 1..(n + Len(greet))
      /\ Len(open \o greet) = n + Len(greet)
      /\ \A i \in 1..(n + Len(greet)) : (open \o greet)[i] = IF i <= n THEN open[i] ELSE greet[i - n]
  BY <1>5, <1>6, ConcatProperties, LenProperties
<1>8. ASSUME NEW i \in 1..(n + Len(greet))
      PROVE  \/ (open \o greet)[i].op \in {"snapshot", "send"}
             \/ (open \o greet)[i].op = "flush" /\ i = n + Len(greet)
  <2>1. CASE i <= n
    BY <1>2, <1>4, <1>7, <2>1
  <2>2. CASE i > n
    <3>1. i - n \in 1..Len(greet) /\ (i - n = 1 \/ (i - n = 2 /\ Len(greet) = 2 /\ i = n + Len(greet)))
      BY <1>2, <1>6, <2>2
    <3>2. (open \o greet)[i] = greet[i - n]
      BY <1>2, <1>7, <2>2
    <3>3. greet[i - n].op = IF i - n = 1 THEN "send" ELSE "flush"
      BY <1>6, <3>1
    <3>4. CASE i - n = 1
      BY <3>2, <3>3, <3>4
    <3>5. CASE i - n = 2 /\ i = n + Len(greet)
      <4>1. greet[i - n].op = "flush"
        BY <3>3, <3>5
      <4> QED
        BY <3>2, <3>5, <4>1
    <3> QED
      BY <3>1, <3>4, <3>5
  <2>3. i <= n \/ i > n
    BY <1>2
  <2> QED
    BY <2>1, <2>2, <2>3
<1> QED
  BY <1>5, <1>6, <1>7, <1>8 DEF open, greet

LEMMA SubscribeTypes ==
    ASSUME Types, NEW c \in Conns, NEW s \in SUBSET Docs, NEW wanted \in SetToSeqs(s),
           NEW v2 \in BOOLEAN, Subscribe(c, wanted, v2)
    PROVE  Types'
<1> DEFINE open == [i \in DOMAIN wanted |-> ReadDoc(wanted[i])]
           first == ~chan[c].seen
           greet == IF first THEN <<Send(Note), Flush>> ELSE <<>>
           channel == [chan[c] EXCEPT !.first = FALSE, !.seen = TRUE, !.v2 = IF first THEN v2 ELSE @]
<1>1. chan[c] \in Channels /\ Len(chan[c].pending) <= PendingLimit
  BY ChannelOf DEF Types
<1>2. channel \in Channels /\ Len(channel.pending) <= PendingLimit
  BY <1>1 DEF Channels
<1>3. open \o greet \in Seq(Ops)
  BY Subscription
<1>4. Handle(c, open \o greet, channel)
  BY DEF Subscribe
<1>5. acts' \in [Conns -> [sent : Seq(Prompts), begun : Seq(Prompts), v2 : BOOLEAN]]
  BY DEF Subscribe, Types, LoopTypes
<1> HIDE DEF open, greet, channel
<1> QED
  BY <1>2, <1>3, <1>4, <1>5, HandleTypes

LEMMA ActionTypes ==
    ASSUME Types, NEW c \in Conns, NEW p \in Prompts, Action(c, p)
    PROVE  Types'
<1> DEFINE wait == ~chan[c].ready
           full == Len(chan[c].pending) >= PendingLimit
           steps == IF ~wait THEN <<Act(p)>> ELSE IF full THEN <<Send(Note)>> ELSE <<>>
           kept == IF wait /\ ~full THEN Append(chan[c].pending, p) ELSE chan[c].pending
           channel == [chan[c] EXCEPT !.first = FALSE, !.pending = kept]
<1>1. chan[c] \in Channels /\ Len(chan[c].pending) <= PendingLimit
  BY ChannelOf DEF Types
<1>2. kept \in Seq(Prompts) /\ Len(kept) <= PendingLimit
  BY <1>1, AppendProperties, LenProperties, ClientChannelAssumption DEF Channels, ClientChannelAssumption
<1> HIDE DEF kept
<1>3. channel \in Channels /\ Len(channel.pending) <= PendingLimit
  BY <1>1, <1>2 DEF Channels
<1>4. steps \in Seq(Ops)
  BY OpsAre
<1>5. Handle(c, steps, channel)
  BY DEF Action, kept
<1>6. acts' \in [Conns -> [sent : Seq(Prompts), begun : Seq(Prompts), v2 : BOOLEAN]]
  <2>1. Append(acts[c].sent, p) \in Seq(Prompts)
    BY AppendProperties DEF Types, LoopTypes
  <2> QED
    BY <2>1 DEF Action, Types, LoopTypes
<1> HIDE DEF steps, channel
<1> QED
  BY <1>3, <1>4, <1>5, <1>6, HandleTypes

LEMMA ReplyTypes ==
    ASSUME Types, NEW c \in Conns, Reply(c) \/ Tick(c)
    PROVE  Types'
<1>1. PICK steps \in {<<End>>, <<Send(Note)>>, <<Send(Note), End>>} : Handle(c, steps, chan[c])
  BY DEF Reply, Tick
<1>2. steps \in Seq(Ops)
  <2>1. <<End>> \in Seq(Ops) /\ <<Send(Note)>> \in Seq(Ops) /\ <<Send(Note), End>> \in Seq(Ops)
    BY OpsAre
  <2> QED
    BY <2>1
<1>3. acts' \in [Conns -> [sent : Seq(Prompts), begun : Seq(Prompts), v2 : BOOLEAN]]
  BY ChannelOf DEF Reply, Tick, Types
<1> QED
  BY <1>1, <1>2, <1>3, HandleTypes, ChannelOf DEF Types

Clients == [here : BOOLEAN, saw : [Docs -> SUBSET Nat], last : [Docs -> SUBSET Nat]]

\* Steps between events of the loop.
LEMMA LoopStepTypes ==
    ASSUME Types, NEW c \in Conns,
           (\E d \in Docs : Unsubscribe(c, d)) \/ Leave(c) \/ ReadError(c) \/ Receive(c) \/ Finish(c)
    PROVE  Types'
<1> USE DEF Types
<1>1. CASE \E d \in Docs : Unsubscribe(c, d)
  <2> PICK d \in Docs : Unsubscribe(c, d)
    BY <1>1
  <2>1. BudgetTypes'
    BY EventTypes DEF Unsubscribe, EventAt, docs
  <2>2. ConnTypes'
    <3>1. CASE chan[c].first
      BY <3>1, SameConns DEF Unsubscribe, EventAt, history
    <3>2. CASE ~chan[c].first
      <4>1. sub \in [Conns -> Entries] /\ sub' = [sub EXCEPT ![c].docs = @ \ {d}]
        BY <3>2 DEF ConnTypes, Entries, Unsubscribe
      <4>2. sub' \in [Conns -> Entries]
        BY <4>1 DEF Entries
      <4> QED
        BY <4>2 DEF ConnTypes, Entries, Unsubscribe, history
    <3> QED
      BY <3>1, <3>2
  <2>3. LoopTypes'
    <3>1. chan' \in [Conns -> Channels] /\ \A k \in Conns : chan'[k].pending = chan[k].pending
      <4>1. chan \in [Conns -> Channels] /\ chan' = [chan EXCEPT ![c].first = FALSE]
        BY DEF LoopTypes, Channels, Unsubscribe
      <4> QED
        BY <4>1 DEF Channels
    <3>2. at' \in [Conns -> {"open", "finish", "gone"}]
      BY DEF LoopTypes, Unsubscribe
    <3> QED
      BY <3>1, <3>2 DEF LoopTypes, Unsubscribe, Channels, history
  <2> QED
    BY <2>1, <2>2, <2>3, SameDocs, SameCommands DEF Unsubscribe, EventAt, Event, docs, commands
<1>2. CASE Leave(c)
  <2>1. BudgetTypes'
    BY <1>2, EventTypes DEF Leave, EventAt, docs
  <2>2. ConnTypes'
    BY <1>2 DEF ConnTypes, Leave, history
  <2> QED
    BY <1>2, <2>1, <2>2, SameDocs, SameLoops, SameCommands
       DEF Leave, EventAt, Event, docs, loops, commands, history
<1>3. CASE ReadError(c)
  <2>1. LoopTypes'
    BY <1>3 DEF LoopTypes, ReadError, history
  <2> QED
    BY <1>3, <2>1, SameBudget, SameDocs, SameConns, SameCommands DEF ReadError, docs, commands, history
<1>4. CASE Receive(c)
  <2> DEFINE f == Head(outq[c])
  <2>1. f \in Outgoing /\ Tail(outq[c]) \in Seq(Outgoing)
    BY <1>4, HeadTailProperties DEF Receive, ConnTypes
  <2>2. outq' \in [Conns -> Seq(Outgoing)]
    BY <1>4, <2>1 DEF Receive, ConnTypes
  <2>3. client' \in [Conns -> [here : BOOLEAN, saw : [Docs -> SUBSET Nat], last : [Docs -> SUBSET Nat]]]
    <3>1. CASE UNCHANGED client
      BY <3>1 DEF ConnTypes
    <3>2. CASE ~UNCHANGED client
      <4>1. f.kind \in {"update", "snapshot"}
        BY <1>4, <3>2 DEF Receive
      <4>2. f.doc \in Docs /\ f.ups \in SUBSET Nat
        BY <2>1, <4>1, FrameKinds
      <4>3. client' = [client EXCEPT ![c].saw[f.doc] = @ \cup f.ups,
                                     ![c].last[f.doc] = IF f.kind = "update" THEN f.ups ELSE @]
        BY <1>4, <3>2 DEF Receive
      <4> HIDE DEF f
      <4> DEFINE saw == client[c].saw[f.doc] \cup f.ups
                 last == IF f.kind = "update" THEN f.ups ELSE client[c].last[f.doc]
      <4>4. client \in [Conns -> Clients]
        BY DEF ConnTypes, Clients
      <4>5. saw \in SUBSET Nat /\ last \in SUBSET Nat
        BY <4>2, <4>4 DEF Clients
      <4>6. client' = [client EXCEPT ![c].saw[f.doc] = saw, ![c].last[f.doc] = last]
        BY <4>3, <4>4 DEF Clients
      <4> HIDE DEF saw, last
      <4>7. client' \in [Conns -> Clients]
        BY <4>2, <4>4, <4>5, <4>6 DEF Clients
      <4> QED
        BY <4>7 DEF Clients
    <3> QED
      BY <3>1, <3>2
  <2>4. ConnTypes'
    BY <1>4, <2>2, <2>3 DEF ConnTypes, Receive, history
  <2>5. LoopTypes'
    BY <1>4 DEF LoopTypes, Receive, history
  <2> QED
    BY <1>4, <2>4, <2>5, SameBudget, SameDocs, SameCommands DEF Receive, docs, commands
<1>5. CASE Finish(c)
  <2>1. ConnTypes'
    BY <1>5 DEF ConnTypes, Finish, NoSub, history
  <2>2. LoopTypes'
    BY <1>5 DEF LoopTypes, Finish, history
  <2> QED
    BY <1>5, <2>1, <2>2, SameBudget, SameDocs, SameCommands DEF Finish, docs, commands
<1> QED
  BY <1>1, <1>2, <1>3, <1>4, <1>5

\* The steps of a handler put others in the place of the first.
LEMMA ThenTypes ==
    ASSUME LoopTypes, NEW c \in Conns, work[c] # <<>>, NEW steps \in Seq(Ops), Then(c, steps)
    PROVE  /\ Head(work[c]) \in Ops /\ Tail(work[c]) \in Seq(Ops)
           /\ work' = [work EXCEPT ![c] = steps \o Tail(work[c])]
           /\ work' \in [Conns -> Seq(Ops)]
<1>1. work \in [Conns -> Seq(Ops)]
  BY DEF LoopTypes
<1>2. Head(work[c]) \in Ops /\ Tail(work[c]) \in Seq(Ops)
  BY <1>1, HeadTailProperties
<1>3. steps \o Tail(work[c]) \in Seq(Ops)
  BY <1>2, ConcatProperties
<1> QED
  BY <1>1, <1>2, <1>3 DEF Then

LEMMA WorkTypes ==
    ASSUME Types, NEW c \in Conns,
           WorkSend(c) \/ WorkSnapshot(c) \/ WorkSubscribe(c) \/ WorkFlush(c) \/ WorkEnd(c)
    PROVE  Types'
<1> USE DEF Types
<1> DEFINE h == Head(work[c])
<1>0. work[c] # <<>> /\ h \in Ops
  <2>1. work[c] # <<>>
    BY DEF WorkSend, WorkSnapshot, WorkSubscribe, WorkFlush, WorkEnd, Step
  <2> QED
    BY <2>1, HeadTailProperties DEF LoopTypes
<1>1. <<>> \in Seq(Ops)
  OBVIOUS
<1>2. CASE WorkSend(c)
  <2>1. h.frame \in Outgoing
    <3>1. h.op = "send"
      BY <1>2 DEF WorkSend, Step
    <3> QED
      BY <1>0, <3>1, OpsAre, FrameKinds
  <2>2. Append(outq[c], h.frame) \in Seq(Outgoing)
    BY <2>1, AppendProperties DEF ConnTypes
  <2>3. ConnTypes'
    BY <1>2, <2>2 DEF ConnTypes, WorkSend, history
  <2>4. LoopTypes'
    BY <1>0, <1>1, <1>2, ThenTypes DEF LoopTypes, WorkSend, history
  <2> QED
    BY <1>2, <2>3, <2>4, SameBudget, SameDocs, SameCommands DEF WorkSend, docs, commands
<1>3. CASE WorkSnapshot(c)
  <2>1. h.doc \in Docs
    BY <1>0, <1>3, OpsAre DEF WorkSnapshot, Step
  <2> DEFINE steps == <<Send(Snapshot(h.doc, 1..mirror[h.doc])), Attach(h.doc)>>
  <2>2. steps \in Seq(Ops)
    <3>1. 1..mirror[h.doc] \in SUBSET Nat
      OBVIOUS
    <3>2. Send(Snapshot(h.doc, 1..mirror[h.doc])) \in Ops /\ Attach(h.doc) \in Ops
      BY <2>1, <3>1, OpsAre, FrameKinds
    <3> QED
      BY <3>2
  <2>3. Then(c, steps) /\ gap' = [gap EXCEPT ![c][h.doc] = {}]
    BY <1>3 DEF WorkSnapshot
  <2>4. LoopTypes'
    <3> HIDE DEF steps
    <3> QED
      BY <1>0, <1>3, <2>2, <2>3, ThenTypes DEF LoopTypes, WorkSnapshot
  <2>5. ConnTypes'
    BY <1>3, <2>1, <2>3 DEF ConnTypes, WorkSnapshot
  <2> QED
    BY <1>3, <2>4, <2>5, SameBudget, SameDocs, SameCommands DEF WorkSnapshot, docs, commands
<1>4. CASE WorkSubscribe(c)
  <2>1. h.doc \in Docs
    BY <1>0, <1>4, OpsAre DEF WorkSubscribe, Step
  <2>2. ConnTypes'
    <3>1. sub \in [Conns -> Entries] /\ sub' = [sub EXCEPT ![c].docs = @ \cup {h.doc}, ![c].tx = TRUE]
      BY <1>4 DEF ConnTypes, Entries, WorkSubscribe
    <3>2. sub' \in [Conns -> Entries]
      BY <2>1, <3>1 DEF Entries
    <3> QED
      BY <1>4, <3>2 DEF ConnTypes, Entries, WorkSubscribe, history
  <2>3. LoopTypes'
    BY <1>0, <1>1, <1>4, ThenTypes DEF LoopTypes, WorkSubscribe, history
  <2> QED
    BY <1>4, <2>2, <2>3, SameBudget, SameDocs, SameCommands DEF WorkSubscribe, docs, commands
<1>5. CASE WorkFlush(c)
  <2> DEFINE p == chan[c].pending
             steps == [i \in DOMAIN p |-> Act(p[i])]
  <2>1. p \in Seq(Prompts)
    BY DEF LoopTypes
  <2>2. DOMAIN p = 1..Len(p) /\ Len(p) \in Nat /\ \A i \in 1..Len(p) : p[i] \in Prompts
    BY <2>1, ElementOfSeq, LenProperties
  <2>3. steps \in Seq(Ops)
    <3>1. steps \in [1..Len(p) -> Ops]
      BY <2>2, OpsAre
    <3> QED
      BY <2>2, <3>1, SeqDef
  <2>4. Then(c, steps)
    BY <1>5 DEF WorkFlush
  <2> HIDE DEF steps
  <2>5. work' \in [Conns -> Seq(Ops)]
    BY <1>0, <2>3, <2>4, ThenTypes
  <2>6. <<>> \in Seq(Prompts) /\ Len(<<>>) <= PendingLimit
    BY ClientChannelAssumption DEF ClientChannelAssumption
  <2>7. chan \in [Conns -> Channels] /\ chan' = [chan EXCEPT ![c].ready = TRUE, ![c].pending = <<>>]
    BY <1>5 DEF LoopTypes, Channels, WorkFlush
  <2>8. /\ chan' \in [Conns -> Channels] /\ chan'[c].pending = <<>>
        /\ \A k \in Conns \ {c} : chan'[k] = chan[k]
    BY <2>6, <2>7 DEF Channels
  <2>9. LoopTypes'
    BY <1>5, <2>5, <2>6, <2>8 DEF LoopTypes, Channels, WorkFlush, history
  <2> QED
    BY <1>5, <2>9, SameBudget, SameDocs, SameConns, SameCommands DEF WorkFlush, docs, commands, history
<1>6. CASE WorkEnd(c)
  <2>1. LoopTypes'
    BY <1>6 DEF LoopTypes, WorkEnd, history
  <2> QED
    BY <1>6, <2>1, SameBudget, SameDocs, SameConns, SameCommands DEF WorkEnd, docs, commands, history
<1> QED
  BY <1>2, <1>3, <1>4, <1>5, <1>6

LEMMA WorkActTypes ==
    ASSUME Types, NEW c \in Conns, WorkAct(c)
    PROVE  Types'
<1> USE DEF Types
<1> DEFINE p == Head(work[c]).prompt
<1>0. work[c] # <<>> /\ Head(work[c]) \in Ops
  BY HeadTailProperties DEF LoopTypes, WorkAct, Step
<1>1. p \in Prompts
  BY <1>0, OpsAre DEF WorkAct, Step
<1>2. <<Send(Note)>> \in Seq(Ops)
  BY OpsAre
<1>3. work' \in [Conns -> Seq(Ops)]
  BY <1>0, <1>2, ThenTypes DEF WorkAct
<1>4. Append(acts[c].begun, p) \in Seq(Prompts)
  BY <1>1, AppendProperties DEF LoopTypes
<1>5. LoopTypes'
  BY <1>3, <1>4 DEF LoopTypes, WorkAct
<1>6. CommandTypes'
  <2>1. CASE prompt[p].status = "done"
    BY <2>1, SameCommands DEF WorkAct
  <2>2. CASE prompt[p].status # "done"
    <3> DEFINE w == IF Contains(prompt[p].waiting, c) THEN prompt[p].waiting
                    ELSE Append(prompt[p].waiting, c)
    <3>1. w \in Seq(Conns)
      BY <1>1, AppendProperties DEF CommandTypes
    <3>2. prompt' = [prompt EXCEPT ![p].status = "queued", ![p].waiting = w]
      BY <1>1, <2>2 DEF WorkAct, CommandTypes
    <3> HIDE DEF w
    <3>3. prompt' \in [Prompts -> [status : {"new", "queued", "done"}, waiting : Seq(Conns)]]
      BY <1>1, <3>1, <3>2 DEF CommandTypes
    <3>4. execq' \in Seq(Prompts)
      <4>1. execq' = execq \/ execq' = Append(execq, p)
        BY <2>2 DEF WorkAct
      <4>2. execq \in Seq(Prompts)
        BY DEF CommandTypes
      <4>3. Append(execq, p) \in Seq(Prompts)
        BY <1>1, <4>2, AppendProperties
      <4> QED
        BY <4>1, <4>2, <4>3
    <3> QED
      BY <3>3, <3>4 DEF CommandTypes, WorkAct
  <2> QED
    BY <2>1, <2>2
<1> QED
  BY <1>5, <1>6, SameBudget, SameDocs, SameConns DEF WorkAct, docs

LEMMA ExecutorTypes ==
    ASSUME Types, Executor
    PROVE  Types'
<1> USE DEF Types
<1>1. BudgetTypes' /\ DocTypes' /\ LoopTypes'
  BY SameBudget, SameDocs, SameLoops DEF Executor, Conclude, Publish, Published, docs, loops, history
<1>2. CASE Conclude
  <2> DEFINE p == Head(execq)
  <2>1. p \in Prompts /\ Tail(execq) \in Seq(Prompts)
    BY <1>2, HeadTailProperties DEF Conclude, CommandTypes
  <2>2. prompt[p].waiting \in Seq(Conns)
    BY <2>1 DEF CommandTypes
  <2>3. CommandTypes'
    BY <1>2, <2>1, <2>2 DEF Conclude, CommandTypes
  <2> QED
    BY <1>1, <1>2, <2>3, SameConns DEF Conclude, history
<1>3. CASE Publish
  <2> DEFINE c == Head(publish.to)
  <2>1. c \in Conns /\ Tail(publish.to) \in Seq(Conns) /\ publish.prompt \in Prompts
    BY <1>3, HeadTailProperties DEF Publish, CommandTypes
  <2>2. Append(outq[c], Answer(publish.prompt)) \in Seq(Outgoing)
    BY <2>1, FrameKinds, AppendProperties DEF ConnTypes
  <2>3. outq' \in [Conns -> Seq(Outgoing)]
    BY <1>3, <2>1, <2>2 DEF Publish, ConnTypes
  <2>4. ConnTypes'
    BY <1>3, <2>3 DEF Publish, ConnTypes, history
  <2>5. CommandTypes'
    BY <1>3, <2>1 DEF Publish, CommandTypes
  <2> QED
    BY <1>1, <2>4, <2>5
<1>4. CASE Published
  <2>1. CommandTypes'
    BY <1>4 DEF Published, CommandTypes, NoPublish
  <2> QED
    BY <1>1, <1>4, <2>1, SameConns DEF Published, history
<1> QED
  BY <1>2, <1>3, <1>4 DEF Executor

LEMMA NextTypes ==
    ASSUME Types, FanInv, [Next]_vars
    PROVE  Types'
<1>1. CASE UNCHANGED vars
  BY <1>1, SameBudget, SameDocs, SameConns, SameLoops, SameCommands
     DEF Types, vars, docs, loops, commands, history
<1>2. CASE \E d \in Docs : Persist(d) \/ Ephemeral(d)
  BY <1>2, PersistTypes, EphemeralTypes
<1>3. CASE FanOutTask
  BY <1>3, TakeUpdateTypes, DeliverTypes, FlushTypes, CloseTypes DEF FanOutTask
<1>4. CASE Executor
  BY <1>4, ExecutorTypes
<1>5. ASSUME NEW c \in Conns, Loop(c)
      PROVE  Types'
  BY <1>5, WorkTypes, WorkActTypes, LoopStepTypes DEF Loop, Work
<1>6. ASSUME NEW c \in Conns, FromClient(c)
      PROVE  Types'
  <2>1. CASE \E wanted \in UNION {SetToSeqs(s) : s \in SUBSET Docs}, v2 \in BOOLEAN :
               Subscribe(c, wanted, v2)
    BY <2>1, SubscribeTypes
  <2> QED
    BY <1>6, <2>1, LoopStepTypes, ActionTypes, ReplyTypes DEF FromClient
<1>7. ASSUME NEW c \in Conns, Tick(c) \/ SignalClose(c)
      PROVE  Types'
  BY <1>7, ReplyTypes, CloseTypes
<1> QED
  BY <1>1, <1>2, <1>3, <1>4, <1>5, <1>6, <1>7 DEF Next

-----------------------------------------------------------------------------
(* The fan-out and the backlogs. *)

LEMMA SameFan == ASSUME FanInv, UNCHANGED <<fan, sub, outq, at>> PROVE FanInv'
BY DEF FanInv, Entered, Weighed, Chosen

LEMMA Limits == OutCap \in Nat \ {0} /\ Soft \in Nat \ {0} /\ Hard \in Nat /\ Soft <= Hard /\ PendingLimit \in Nat
BY ClientChannelAssumption DEF ClientChannelAssumption

LEMMA QueuesAre ==
    ASSUME ConnTypes, NEW c \in Conns
    PROVE  /\ outq[c] \in Seq(Outgoing) /\ Len(outq[c]) \in Nat
           /\ sub \in [Conns -> Entries] /\ sub[c] \in Entries
           /\ sub[c].pending \in Seq(Updates) /\ sub[c].bytes \in Nat
BY LenProperties DEF ConnTypes, Entries

LEMMA InitFan == Init => FanInv
BY Limits, WeightEmpty DEF Init, FanInv, Entered, Weighed, Chosen, NoFan, NoSub

\* What only lengthens a queue with room, or shortens one.
LEMMA QueueStep ==
    ASSUME ConnTypes, FanInv, UNCHANGED <<fan, sub>>,
           \A c \in Conns :
               /\ at'[c] = at[c] \/ (at[c] = "open" /\ at'[c] = "finish")
               /\ Len(outq'[c]) <= OutCap
               /\ at[c] = "gone" => outq'[c] = outq[c]
    PROVE  FanInv'
<1> SUFFICES ASSUME NEW c \in Conns
             PROVE  Entered(c)' /\ Weighed(c)'
  BY DEF FanInv
<1>1. Entered(c) /\ Weighed(c)
  BY DEF FanInv
<1> QED
  BY <1>1 DEF Entered, Weighed, Chosen

LEMMA OneFits ==
    ASSUME ConnTypes, NEW c \in Conns, Room(c), NEW f \in Outgoing
    PROVE  Len(Append(outq[c], f)) <= OutCap
BY QueuesAre, AppendProperties, Limits DEF Room

\* One frame more for a connection that is not gone.
LEMMA OneAppends ==
    ASSUME ConnTypes, FanInv, NEW c \in Conns, NEW f \in Outgoing, UNCHANGED <<fan, sub, at>>,
           outq' = outq \/ (at[c] # "gone" /\ Room(c) /\ outq' = [outq EXCEPT ![c] = Append(@, f)])
    PROVE  FanInv'
<1>1. ASSUME NEW k \in Conns
      PROVE  Len(outq'[k]) <= OutCap /\ (at[k] = "gone" => outq'[k] = outq[k])
  <2>1. Len(outq[k]) <= OutCap
    BY DEF FanInv, Weighed
  <2>2. Room(c) => Len(Append(outq[c], f)) <= OutCap
    BY OneFits
  <2> QED
    BY <2>1, <2>2 DEF ConnTypes
<1> QED
  BY <1>1, QueueStep

LEMMA TakeUpdateFan ==
    ASSUME Types, FanInv, TakeUpdate
    PROVE  FanInv'
<1>1. fan'.act = "none" /\ fan'.left = {c \in Conns : Head(feed).doc \in sub[c].docs}
  BY DEF TakeUpdate, NoFan
<1> SUFFICES ASSUME NEW c \in Conns
             PROVE  Entered(c)' /\ Weighed(c)'
  BY <1>1 DEF FanInv
<1>2. Entered(c) /\ Weighed(c) /\ UNCHANGED <<sub, outq, at>>
  BY DEF FanInv, TakeUpdate, loops
<1>3. fan.act = "none"
  BY DEF TakeUpdate
<1>4. ~sub[c].tx => sub[c].docs = {}
  BY <1>2 DEF Entered, NoSub
<1> QED
  BY <1>1, <1>2, <1>3, <1>4 DEF Entered, Weighed, Chosen

LEMMA DeliverFan ==
    ASSUME Types, FanInv, NEW c \in Conns, Deliver(c)
    PROVE  FanInv'
<1> DEFINE f == Update(fan.doc, fan.ups)
           p == Append(sub[c].pending, f)
           b == sub[c].bytes + Cardinality(fan.ups)
<1>1. fan.act = "none" /\ fan'.left = fan.left \ {c} /\ UNCHANGED <<outq, at>>
  BY DEF Deliver, Types, DocTypes, loops
<1>2. Entered(c) /\ Weighed(c)
  BY DEF FanInv
<1>3. sub[c].bytes \in Nat /\ sub[c].bytes <= Hard
  BY <1>1, <1>2, QueuesAre, Limits DEF Weighed, Types
<1>4. CASE ~sub[c].tx
  <2>1. fan' = [fan EXCEPT !.left = @ \ {c}] /\ UNCHANGED sub
    BY <1>4 DEF Deliver
  <2>2. fan'.act = "none"
    BY <1>1, <2>1 DEF Types, DocTypes
  <2> SUFFICES ASSUME NEW k \in Conns
               PROVE  Entered(k)' /\ Weighed(k)'
    BY <2>2 DEF FanInv
  <2>3. Entered(k) /\ Weighed(k)
    BY DEF FanInv
  <2>4. Chosen(k)' => Chosen(k)
    BY <1>1, <2>2 DEF Chosen
  <2>5. ~(sub[k].bytes > Hard)
    BY <1>1, <2>3 DEF Weighed
  <2>6. Entered(k)'
    BY <1>1, <2>1, <2>3, <2>4 DEF Entered
  <2>7. Weighed(k)'
    BY <1>1, <2>1, <2>3, <2>5 DEF Weighed
  <2> QED
    BY <2>6, <2>7
<1>5. CASE sub[c].tx
  <2>1. f \in Updates /\ Cardinality(f.ups) = Cardinality(fan.ups) /\ f.ups = fan.ups
    BY FrameKinds DEF Types, DocTypes, Deliver, Update
  <2>2. p \in Seq(Updates) /\ b \in Nat /\ b = Weight(p)
    <3>1. Weight(p) = Weight(sub[c].pending) + Cardinality(f.ups) /\ Cardinality(f.ups) \in Nat
      BY <2>1, QueuesAre, WeightAppend DEF Types
    <3>2. p \in Seq(Updates)
      BY <2>1, QueuesAre, AppendProperties DEF Types
    <3> QED
      BY <1>2, <1>3, <2>1, <3>1, <3>2 DEF Weighed
  <2>3. /\ fan' = [fan EXCEPT !.left = @ \ {c}, !.conn = c, !.act = Decide(p, b)]
        /\ sub' = [sub EXCEPT ![c].pending = p, ![c].bytes = b]
    BY <1>5 DEF Deliver
  <2> HIDE DEF p, b
  <2>4. sub' = [sub EXCEPT ![c] = [docs |-> sub[c].docs, pending |-> p, bytes |-> b,
                                    tx |-> sub[c].tx]]
    BY <2>2, <2>3, QueuesAre, Reloaded DEF Types
  <2>5. fan'.conn = c /\ fan'.act = Decide(p, b) /\ c \notin fan'.left
    BY <2>3 DEF Types, DocTypes
  <2>6. b > Hard => Decide(p, b) = "close"
    BY <2>2, Limits DEF Decide
  <2>7. Entered(c)' /\ Weighed(c)'
    <3>1. sub'[c].tx /\ sub'[c].bytes = b /\ sub'[c].pending = p
      BY <1>5, <2>4, QueuesAre DEF Types
    <3>2. Entered(c)'
      BY <1>1, <1>2, <1>5, <3>1 DEF Entered
    <3>3. Len(outq'[c]) <= OutCap
      BY <1>1, <1>2 DEF Weighed
    <3>4. Weighed(c)'
      BY <2>2, <2>5, <2>6, <3>1, <3>3 DEF Weighed
    <3> QED
      BY <3>2, <3>4
  <2>8. ASSUME NEW k \in Conns \ {c}
        PROVE  Entered(k)' /\ Weighed(k)'
    <3>1. Entered(k) /\ Weighed(k) /\ sub'[k] = sub[k]
      BY <2>4, QueuesAre DEF FanInv, Types
    <3>2. Chosen(k)' => Chosen(k)
      BY <1>1, <2>5 DEF Chosen
    <3> QED
      BY <1>1, <3>1, <3>2 DEF Entered, Weighed
  <2> QED
    BY <2>5, <2>7, <2>8 DEF FanInv
<1> QED
  BY <1>4, <1>5

LEMMA TrySendFan ==
    ASSUME Types, FanInv, NEW c \in Conns, NEW frames \in Seq(Updates), TrySend(c, frames),
           Weight(frames) <= Hard, sub[c].tx, fan.conn = c, fan' = [fan EXCEPT !.act = "none", !.conn = None],
           UNCHANGED at
    PROVE  FanInv'
<1>1. PICK k \in 0..Len(frames) :
        LET kept == SubSeq(frames, k + 1, Len(frames))
        IN  /\ outq' = [outq EXCEPT ![c] = @ \o SubSeq(frames, 1, k)]
            /\ sub' = [sub EXCEPT ![c].pending = kept, ![c].bytes = Weight(kept)]
            /\ Len(outq[c]) + k <= OutCap
  BY TrySendIs DEF FanInv, Weighed, Types
<1> DEFINE sent == SubSeq(frames, 1, k)
           kept == SubSeq(frames, k + 1, Len(frames))
<1>2. sent \in Seq(Updates) /\ Len(sent) = k /\ kept \in Seq(Updates) /\ Weight(kept) <= Weight(frames)
  BY CutFrames, WeightCut
<1>3. Weight(kept) \in Nat /\ Weight(kept) <= Hard
  <2>1. Weight(kept) \in Nat /\ Weight(frames) \in Nat
    BY <1>2, LoadFinite
  <2> QED
    BY <1>2, <2>1, Limits
<1>4. /\ outq' = [outq EXCEPT ![c] = @ \o sent]
      /\ sub' = [sub EXCEPT ![c].pending = kept, ![c].bytes = Weight(kept)]
  BY <1>1
<1> HIDE DEF sent, kept
<1>5. sub' = [sub EXCEPT ![c] = [docs |-> sub[c].docs, pending |-> kept, bytes |-> Weight(kept),
                                  tx |-> sub[c].tx]]
  <2>1. sub \in [Conns -> Entries]
    BY QueuesAre DEF Types
  <2> DEFINE w == Weight(kept)
  <2>2. w \in Nat /\ sub' = [sub EXCEPT ![c].pending = kept, ![c].bytes = w]
    BY <1>3, <1>4
  <2> HIDE DEF w
  <2>3. sub' = [sub EXCEPT ![c] = [docs |-> sub[c].docs, pending |-> kept, bytes |-> w,
                                    tx |-> sub[c].tx]]
    <3>1. kept \in Seq(Updates) /\ w \in Nat
      BY <1>2, <2>2
    <3>2. sub' = [sub EXCEPT ![c].pending = kept, ![c].bytes = w]
      BY <2>2
    <3> QED
      BY ONLY <2>1, <3>1, <3>2, c \in Conns, Reloaded, ZenonT(60)
  <2> QED
    BY <2>3 DEF w
<1>6. Len(outq[c] \o sent) <= OutCap
  <2>1. sent \in Seq(Outgoing)
    BY <1>2, FrameKinds, SeqMonotonic
  <2>2. Len(outq[c] \o sent) = Len(outq[c]) + Len(sent)
    BY <2>1, QueuesAre, ConcatProperties DEF Types
  <2> QED
    BY <1>1, <1>2, <2>2
<1>7. fan'.act = "none" /\ fan'.left = fan.left
  BY DEF Types, DocTypes
<1>8. Entered(c)' /\ Weighed(c)'
  <2>1. sub'[c].tx /\ sub'[c].bytes = Weight(kept) /\ sub'[c].pending = kept
    BY <1>5, QueuesAre DEF Types
  <2>2. outq'[c] = outq[c] \o sent
    BY <1>4 DEF Types, ConnTypes
  <2>3. Entered(c)
    BY DEF FanInv
  <2> QED
    BY <1>3, <1>6, <2>1, <2>2, <2>3, Limits DEF Entered, Weighed
<1>9. ASSUME NEW k2 \in Conns \ {c}
      PROVE  Entered(k2)' /\ Weighed(k2)'
  <2>1. Entered(k2) /\ Weighed(k2) /\ sub'[k2] = sub[k2] /\ outq'[k2] = outq[k2]
    BY <1>4, <1>5, QueuesAre DEF FanInv, Types, ConnTypes
  <2>2. Chosen(k2)' => Chosen(k2)
    BY <1>7 DEF Chosen
  <2> QED
    BY <2>1, <2>2 DEF Entered, Weighed
<1> QED
  BY <1>7, <1>8, <1>9 DEF FanInv

LEMMA FlushFan ==
    ASSUME Types, FanInv, NEW c \in Conns, FlushDirect(c) \/ FlushMerged(c)
    PROVE  FanInv'
<1>1. /\ fan.conn = c /\ fan.act \in {"direct", "merge"} /\ UNCHANGED at
      /\ fan' = [fan EXCEPT !.act = "none", !.conn = None]
  BY DEF FlushDirect, FlushMerged, Flushed, loops
<1>2. sub[c].pending \in Seq(Updates) /\ sub[c].bytes \in Nat
  BY QueuesAre DEF Types
<1>3. sub[c].bytes = Weight(sub[c].pending) /\ ~(sub[c].bytes > Hard)
  BY <1>1 DEF FanInv, Weighed
<1>4. Weight(sub[c].pending) <= Hard
  BY <1>2, <1>3, Limits
<1>5. CASE sub[c].tx /\ TrySend(c, sub[c].pending)
  BY <1>1, <1>2, <1>4, <1>5, TrySendFan
<1>6. CASE UNCHANGED <<sub, outq>>
  <2>1. fan'.act = "none" /\ fan'.left = fan.left
    BY <1>1 DEF Types, DocTypes
  <2> SUFFICES ASSUME NEW k \in Conns
               PROVE  Entered(k)' /\ Weighed(k)'
    BY <2>1 DEF FanInv
  <2>2. Entered(k) /\ Weighed(k)
    BY DEF FanInv
  <2>3. Chosen(k)' => Chosen(k)
    BY <2>1 DEF Chosen
  <2> QED
    BY <1>1, <1>6, <2>2, <2>3 DEF Entered, Weighed
<1>7. CASE FlushMerged(c) /\ sub[c].tx
  <2>1. PICK order \in SetToSeqs({sub[c].pending[i].doc : i \in DOMAIN sub[c].pending}) :
          TrySend(c, [i \in DOMAIN order |-> Merged(sub[c].pending, order[i])])
    BY <1>7 DEF FlushMerged
  <2> DEFINE m == [i \in DOMAIN order |-> Merged(sub[c].pending, order[i])]
  <2>2. m \in Seq(Updates) /\ Weight(m) <= Weight(sub[c].pending)
    BY <1>2, MergedFrames
  <2>3. TrySend(c, m)
    BY <2>1
  <2> HIDE DEF m
  <2>4. Weight(m) <= Hard
    <3>1. Weight(m) \in Nat /\ Weight(sub[c].pending) \in Nat
      BY <1>2, <2>2, LoadFinite
    <3> QED
      BY <1>4, <2>2, <3>1, Limits
  <2> QED
    BY <1>1, <1>7, <2>2, <2>3, <2>4, TrySendFan
<1> QED
  BY <1>5, <1>6, <1>7 DEF FlushDirect, FlushMerged

LEMMA CloseFan ==
    ASSUME Types, FanInv, NEW c \in Conns, CloseConn(c) \/ Finish(c)
    PROVE  FanInv'
<1>1. /\ sub' = [sub EXCEPT ![c] = NoSub]
      /\ \A k \in Conns \ {c} : sub'[k] = sub[k] /\ outq'[k] = outq[k] /\ at'[k] = at[k]
      /\ sub'[c] = NoSub
  BY DEF CloseConn, Finish, Flushed, loops, Types, ConnTypes, LoopTypes
<1>2. \/ UNCHANGED fan
      \/ fan'.act = "none" /\ fan'.left = fan.left /\ fan.conn = c
  BY DEF CloseConn, Finish, Flushed, Types, DocTypes
<1>3. fan'.act # "none" => fan'.conn \in Conns \ fan'.left
  BY <1>2 DEF FanInv
<1>4. Entered(c)' /\ Weighed(c)'
  <2>1. Entered(c) /\ Weighed(c)
    BY DEF FanInv
  <2>2. NoSub.bytes = 0 /\ NoSub.pending = <<>> /\ ~NoSub.tx
    BY DEF NoSub
  <2>3. Weighed(c)'
    <3>1. Len(outq'[c]) <= OutCap
      BY <2>1, Limits DEF CloseConn, Finish, Weighed, Types, ConnTypes
    <3> QED
      BY <1>1, <2>2, <3>1, WeightEmpty, Limits DEF Weighed
  <2>4. Entered(c)'
    <3>1. CASE CloseConn(c)
      <4>1. fan.act = "close" /\ fan.conn = c /\ c \notin fan.left /\ UNCHANGED <<outq, at>>
        BY <3>1 DEF CloseConn, Flushed, FanInv, loops
      <4>2. ~Chosen(c)'
        BY <3>1, <4>1 DEF Chosen, CloseConn, Flushed, Types, DocTypes
      <4> QED
        BY <1>1, <2>1, <2>2, <4>1, <4>2 DEF Entered
    <3>2. CASE Finish(c)
      <4>1. at'[c] = "gone" /\ outq'[c] = <<>>
        BY <3>2 DEF Finish, Types, ConnTypes, LoopTypes
      <4> QED
        BY <1>1, <2>2, <4>1 DEF Entered
    <3> QED
      BY <3>1, <3>2
  <2> QED
    BY <2>3, <2>4
<1>5. ASSUME NEW k \in Conns \ {c}
      PROVE  Entered(k)' /\ Weighed(k)'
  <2>1. Entered(k) /\ Weighed(k)
    BY DEF FanInv
  <2>2. Chosen(k)' => Chosen(k)
    BY <1>2 DEF Chosen
  <2>3. fan.act = "close" /\ fan.conn = k => fan'.act = "close" /\ fan'.conn = k
    BY <1>2
  <2> QED
    BY <1>1, <2>1, <2>2, <2>3 DEF Entered, Weighed
<1> QED
  BY <1>3, <1>4, <1>5 DEF FanInv

\* Who unsubscribes or subscribes keeps the backlog.
LEMMA SubscriptionFan ==
    ASSUME Types, FanInv, NEW c \in Conns, (\E d \in Docs : Unsubscribe(c, d)) \/ WorkSubscribe(c)
    PROVE  FanInv'
<1>1. UNCHANGED <<fan, outq>>
  BY DEF Unsubscribe, WorkSubscribe
<1>2. /\ \A k \in Conns \ {c} : sub'[k] = sub[k]
      /\ \A k \in Conns : at'[k] = at[k] \/ (at[k] = "open" /\ at'[k] = "finish")
      /\ at[c] = "open"
  BY DEF Unsubscribe, WorkSubscribe, Selecting, Step, Types, ConnTypes, LoopTypes
<1>3. /\ sub'[c].pending = sub[c].pending /\ sub'[c].bytes = sub[c].bytes
      /\ sub[c].tx => sub'[c].tx
      /\ sub'[c].tx \/ (sub'[c].docs \subseteq sub[c].docs /\ sub'[c].tx = sub[c].tx)
  <2>1. CASE WorkSubscribe(c)
    BY <2>1, QueuesAre DEF WorkSubscribe, Types, Entries
  <2>2. CASE \E d \in Docs : Unsubscribe(c, d)
    BY <2>2, QueuesAre DEF Unsubscribe, Types, Entries
  <2> QED
    BY <2>1, <2>2
<1>4. sub'[c] \in Entries
  <2>1. CASE WorkSubscribe(c)
    <3>1. Head(work[c]).doc \in Docs
      BY <2>1, OpsAre, HeadTailProperties DEF WorkSubscribe, Step, Types, LoopTypes
    <3> QED
      BY <2>1, <3>1, QueuesAre DEF WorkSubscribe, Types, Entries
  <2>2. CASE \E d \in Docs : Unsubscribe(c, d)
    <3>1. PICK d \in Docs : Unsubscribe(c, d)
      BY <2>2
    <3>2. sub \in [Conns -> Entries] /\ sub[c] \in Entries
      BY QueuesAre DEF Types
    <3>3. CASE UNCHANGED sub
      BY <3>2, <3>3
    <3>4. CASE sub' = [sub EXCEPT ![c].docs = @ \ {d}]
      <4>1. sub[c].docs \ {d} \in SUBSET Docs
        BY <3>2 DEF Entries
      <4>2. sub' \in [Conns -> Entries]
        BY <3>2, <3>4, <4>1 DEF Entries
      <4> QED
        BY <4>2
    <3> QED
      BY <3>1, <3>3, <3>4 DEF Unsubscribe
  <2> QED
    BY <2>1, <2>2
<1>5. ~sub[c].tx /\ ~sub'[c].tx => sub'[c] = NoSub
  <2>1. ~sub[c].tx => sub[c] = NoSub
    BY DEF FanInv, Entered
  <2> SUFFICES ASSUME ~sub[c].tx, ~sub'[c].tx
               PROVE  sub'[c] = NoSub
    OBVIOUS
  <2>2. sub'[c].docs = {} /\ sub'[c].pending = <<>> /\ sub'[c].bytes = 0 /\ sub'[c].tx = FALSE
    BY <1>3, <1>4, <2>1 DEF NoSub, Entries
  <2> QED
    BY <1>4, <2>2, EntryIs DEF NoSub
<1> SUFFICES ASSUME NEW k \in Conns
             PROVE  Entered(k)' /\ Weighed(k)'
  BY <1>1 DEF FanInv
<1>6. Entered(k) /\ Weighed(k)
  BY DEF FanInv
<1>7. Weighed(k)'
  BY <1>1, <1>2, <1>3, <1>6 DEF Weighed
<1>8. Entered(k)'
  BY <1>1, <1>2, <1>3, <1>5, <1>6 DEF Entered, Chosen
<1> QED
  BY <1>7, <1>8

LEMMA EphemeralFan ==
    ASSUME Types, FanInv, NEW d \in Docs, Ephemeral(d)
    PROVE  FanInv'
<1>1. ASSUME NEW k \in Conns
      PROVE  Len(outq'[k]) <= OutCap /\ (at[k] = "gone" => outq'[k] = outq[k])
  <2>1. outq'[k] = IF d \in sub[k].docs /\ Room(k) THEN Append(outq[k], Note) ELSE outq[k]
    BY DEF Ephemeral
  <2>2. Entered(k) /\ Weighed(k)
    BY DEF FanInv
  <2>3. d \in sub[k].docs => at[k] # "gone"
    BY <2>2 DEF Entered, NoSub
  <2>4. Room(k) => Len(Append(outq[k], Note)) <= OutCap
    BY FrameKinds, OneFits DEF Types
  <2> QED
    BY <2>1, <2>2, <2>3, <2>4 DEF Weighed
<1> QED
  BY <1>1, QueueStep DEF Ephemeral, Types, loops

\* What others than the fan-out put in the queue of a connection.
LEMMA SenderFan ==
    ASSUME Types, FanInv, NEW c \in Conns, SignalClose(c) \/ WorkSend(c)
    PROVE  FanInv'
<1>1. outq' = outq \/ (at[c] # "gone" /\ Room(c) /\ \E f \in Outgoing : outq' = [outq EXCEPT ![c] = Append(@, f)])
  <2>1. CASE SignalClose(c)
    BY <2>1, FrameKinds DEF SignalClose
  <2>2. CASE WorkSend(c)
    <3>1. Head(work[c]).frame \in Outgoing
      BY <2>2, OpsAre, FrameKinds, HeadTailProperties DEF WorkSend, Step, Types, LoopTypes
    <3> QED
      BY <2>2, <3>1 DEF WorkSend, Step
  <2> QED
    BY <2>1, <2>2
<1>2. UNCHANGED <<fan, sub, at>>
  BY DEF SignalClose, WorkSend, loops
<1>3. CASE UNCHANGED outq
  BY <1>2, <1>3, SameFan
<1>4. CASE ~UNCHANGED outq
  <2>1. PICK f \in Outgoing : at[c] # "gone" /\ Room(c) /\ outq' = [outq EXCEPT ![c] = Append(@, f)]
    BY <1>1, <1>4
  <2> QED
    BY <1>2, <2>1, OneAppends DEF Types
<1> QED
  BY <1>3, <1>4

LEMMA PublishFan ==
    ASSUME Types, FanInv, Publish
    PROVE  FanInv'
<1>1. Head(publish.to) \in Conns /\ Answer(publish.prompt) \in Outgoing
  BY FrameKinds, HeadTailProperties DEF Publish, Types, CommandTypes
<1> QED
  BY <1>1, OneAppends DEF Publish, Types, loops

\* The other steps of a loop.
LEMMA ReceiveFan ==
    ASSUME Types, FanInv, NEW c \in Conns, Receive(c) \/ ReadError(c) \/ WorkEnd(c)
    PROVE  FanInv'
<1>1. \A k \in Conns : at'[k] = at[k] \/ (at[k] = "open" /\ at'[k] = "finish")
  BY DEF Receive, ReadError, WorkEnd, Selecting, Step, Types, LoopTypes
<1>2. ASSUME NEW k \in Conns
      PROVE  Len(outq'[k]) <= OutCap /\ (at[k] = "gone" => outq'[k] = outq[k])
  <2>1. Weighed(k) /\ outq[k] \in Seq(Outgoing)
    BY QueuesAre DEF FanInv, Types
  <2>2. CASE UNCHANGED outq
    BY <2>1, <2>2 DEF Weighed
  <2>3. CASE Receive(c)
    <3>1. outq' = [outq EXCEPT ![c] = Tail(@)] /\ outq[c] # <<>> /\ at[c] = "open"
      BY <2>3 DEF Receive, Selecting
    <3>2. outq[c] \in Seq(Outgoing) /\ Len(Tail(outq[c])) = Len(outq[c]) - 1 /\ Len(outq[c]) \in Nat
      BY <3>1, HeadTailProperties, LenProperties, QueuesAre DEF Types
    <3>3. Len(outq[c]) <= OutCap
      BY DEF FanInv, Weighed
    <3>4. CASE k = c
      <4>1. outq'[k] = Tail(outq[c]) /\ at[k] # "gone"
        BY <3>1, <3>4 DEF Types, ConnTypes
      <4> QED
        BY <3>2, <3>3, <4>1, Limits
    <3>5. CASE k # c
      BY <2>1, <3>1, <3>5 DEF Weighed, Types, ConnTypes
    <3> QED
      BY <3>4, <3>5
  <2> QED
    BY <2>2, <2>3 DEF ReadError, WorkEnd
<1>3. UNCHANGED <<fan, sub>>
  BY DEF Receive, ReadError, WorkEnd
<1> QED
  BY <1>1, <1>2, <1>3, QueueStep DEF Types

LEMMA NextFan ==
    ASSUME Types, FanInv, [Next]_vars
    PROVE  FanInv'
<1>1. CASE UNCHANGED vars
  BY <1>1, SameFan DEF vars, loops
<1>2. CASE \E d \in Docs : Persist(d) \/ Ephemeral(d)
  BY <1>2, SameFan, EphemeralFan DEF Persist, loops
<1>3. CASE FanOutTask
  BY <1>3, TakeUpdateFan, DeliverFan, FlushFan, CloseFan DEF FanOutTask
<1>4. CASE Executor
  BY <1>4, SameFan, PublishFan DEF Executor, Conclude, Published, loops
<1>5. ASSUME NEW c \in Conns, Loop(c)
      PROVE  FanInv'
  BY <1>5, SenderFan, SubscriptionFan, ReceiveFan, CloseFan, SameFan
     DEF Loop, Work, WorkSnapshot, WorkFlush, WorkAct
<1>6. ASSUME NEW c \in Conns, FromClient(c) \/ Tick(c) \/ SignalClose(c)
      PROVE  FanInv'
  <2>1. CASE UNCHANGED <<fan, sub, outq, at>>
    BY <2>1, SameFan
  <2> QED
    BY <1>6, <2>1, SubscriptionFan, SenderFan
       DEF FromClient, Subscribe, Action, Reply, Leave, Tick, Handle, loops
<1> QED
  BY <1>1, <1>2, <1>3, <1>4, <1>5, <1>6 DEF Next

-----------------------------------------------------------------------------
(* The actions of a client. *)

LEMMA PrefixOf ==
    ASSUME NEW S, NEW s \in Seq(S), NEW t \in Seq(S)
    PROVE  IsPrefix(s, s \o t)
<1> DEFINE u == s \o t
<1>1. /\ Len(s) \in Nat /\ Len(t) \in Nat /\ Len(u) = Len(s) + Len(t) /\ u \in Seq(S)
      /\ \A i \in 1..Len(s) : u[i] = s[i]
  BY ConcatProperties, LenProperties
<1> HIDE DEF u
<1>2. Len(s) <= Len(u)
  BY <1>1
<1>3. \A i \in 1..Len(s) : s[i] \in S /\ u[i] \in S
  BY <1>1, <1>2, ElementOfSeq
<1> DEFINE a == SubSeq(s, 1, Len(s))
           b == SubSeq(u, 1, Len(s))
<1>4. a \in Seq(S) /\ b \in Seq(S) /\ Len(a) = Len(b) /\ \A i \in 1..Len(a) : a[i] = b[i]
  <2>1. a \in Seq(S) /\ Len(a) = Len(s) /\ \A i \in 1..Len(s) : a[i] = s[i]
    BY <1>1, <1>3, SubSeqFull
  <2>2. b \in Seq(S) /\ Len(b) = Len(s) /\ \A i \in 1..Len(s) : b[i] = u[i]
    BY <1>1, <1>3, SubSeqProperties
  <2> QED
    BY <1>1, <2>1, <2>2
<1>5. a = b
  BY <1>4, SeqEqual
<1> QED
  BY <1>2, <1>5 DEF IsPrefix, u

LEMMA NothingToBegin ==
    ASSUME NEW w \in Seq(Ops), ~Acting(w)
    PROVE  ToBegin(w) = <<>>
<1>1. Len(w) \in Nat
  BY LenProperties
<1>2. 1..(Len(w) - Skipped(w)) = {}
  BY <1>1 DEF Skipped
<1>3. ToBegin(w) = [i \in {} |-> w[i + Skipped(w)].prompt]
  BY <1>2 DEF ToBegin
<1>4. <<>> = [i \in {} |-> w[i + Skipped(w)].prompt]
  OBVIOUS
<1> QED
  BY <1>3, <1>4

\* What is begun is a sequence of prompts.
LEMMA BeginIs ==
    ASSUME NEW w \in Seq(Ops), Shaped(w), Acting(w)
    PROVE  LET k == IF w[1].op = "act" THEN 0 ELSE 1
           IN  /\ Len(w) \in Nat /\ Len(w) > k /\ ToBegin(w) \in Seq(Prompts)
               /\ Len(ToBegin(w)) = Len(w) - k
               /\ \A i \in 1..(Len(w) - k) : ToBegin(w)[i] = w[i + k].prompt
<1> DEFINE k == IF w[1].op = "act" THEN 0 ELSE 1
           n == Len(w) - k
<1>1. Len(w) \in Nat /\ DOMAIN w = 1..Len(w) /\ \A i \in 1..Len(w) : w[i] \in Ops
  BY LenProperties, ElementOfSeq
<1>2. PICK j \in 1..Len(w) : w[j].op = "act"
  BY <1>1 DEF Acting
<1>3. k \in {0, 1} /\ Len(w) > k
  BY <1>1, <1>2
<1>4. n \in Nat /\ Skipped(w) = k
  BY <1>1, <1>3 DEF Skipped
<1>5. \A i \in 1..n : w[i + k].op = "act" /\ w[i + k] \in Ops
  <2> SUFFICES ASSUME NEW i \in 1..n
               PROVE  w[i + k].op = "act" /\ w[i + k] \in Ops
    OBVIOUS
  <2>1. i + k \in 1..Len(w) /\ (i + k = 1 => k = 0)
    BY <1>1, <1>3
  <2>2. i + k > 1 => w[i + k].op = "act"
    BY <1>1, <2>1 DEF Shaped
  <2>3. i + k = 1 => w[i + k].op = "act"
    BY <2>1
  <2> QED
    BY <1>1, <2>1, <2>2, <2>3
<1>6. \A i \in 1..n : w[i + k].prompt \in Prompts
  BY <1>5, OpsAre
<1> HIDE DEF n
<1>7. ToBegin(w) = [i \in 1..n |-> w[i + k].prompt]
  BY <1>4 DEF ToBegin, n
<1> HIDE DEF k
<1>8. [i \in 1..n |-> w[i + k].prompt] \in [1..n -> Prompts]
  BY <1>6
<1>9. ToBegin(w) \in Seq(Prompts) /\ Len(ToBegin(w)) = n
  BY <1>4, <1>7, <1>8, SeqDef, LenProperties
<1> QED
  BY <1>1, <1>3, <1>7, <1>9 DEF n, k

LEMMA BeginType == ASSUME NEW w \in Seq(Ops), Shaped(w) PROVE ToBegin(w) \in Seq(Prompts)
<1>1. CASE ~Acting(w)
  <2>1. ToBegin(w) = <<>>
    BY <1>1, NothingToBegin
  <2> QED
    BY <2>1
<1>2. CASE Acting(w)
  BY <1>2, BeginIs
<1> QED
  BY <1>1, <1>2

\* A step that is no action makes way for what follows.
LEMMA BeginTail ==
    ASSUME NEW w \in Seq(Ops), w # <<>>, Head(w).op # "act", Shaped(w)
    PROVE  /\ ToBegin(Tail(w)) = ToBegin(w) /\ Shaped(Tail(w))
           /\ Acting(Tail(w)) => Acting(w)
           /\ Tail(w) # <<>> /\ Acting(w) => Acting(Tail(w))
<1> DEFINE t == Tail(w)
<1>1. /\ t \in Seq(Ops) /\ Len(t) = Len(w) - 1 /\ Len(w) \in Nat /\ Len(w) > 0 /\ Len(t) \in Nat
      /\ DOMAIN w = 1..Len(w) /\ DOMAIN t = 1..Len(t)
      /\ \A i \in 1..Len(t) : t[i] = w[i + 1] /\ i + 1 \in 1..Len(w)
      /\ Head(w) = w[1] /\ 1 \in 1..Len(w)
  BY HeadTailProperties, LenProperties, EmptySeq
<1> HIDE DEF t
<1>2. Acting(t) => Acting(w)
  BY <1>1 DEF Acting
<1>3. CASE ~Acting(w)
  BY <1>1, <1>2, <1>3, NothingToBegin DEF Shaped, t
<1>4. CASE Acting(w)
  <2>1. Len(w) > 1 /\ \A i \in 1..Len(t) : t[i].op = "act"
    BY <1>1, <1>4, BeginIs DEF Shaped
  <2>2. 1 \in 1..Len(t)
    BY <1>1, <2>1
  <2>3. Acting(t) /\ Shaped(t) /\ t[1].op = "act"
    BY <1>1, <2>1, <2>2 DEF Acting, Shaped
  <2> DEFINE a == ToBegin(w)
             b == ToBegin(t)
  <2>4. a \in Seq(Prompts) /\ Len(a) = Len(w) - 1 /\ \A i \in 1..(Len(w) - 1) : a[i] = w[i + 1].prompt
    BY <1>1, <1>4, BeginIs
  <2>5. b \in Seq(Prompts) /\ Len(b) = Len(t) /\ \A i \in 1..Len(t) : b[i] = t[i].prompt
    <3>1. \A i \in 1..Len(t) : i + 0 = i
      OBVIOUS
    <3>2. b \in Seq(Prompts) /\ Len(b) = Len(t) - 0 /\ \A i \in 1..(Len(t) - 0) : b[i] = t[i + 0].prompt
      BY <1>1, <2>3, BeginIs
    <3> QED
      BY <1>1, <3>1, <3>2
  <2>6. Len(a) = Len(b) /\ \A i \in 1..Len(a) : a[i] = b[i]
    BY <1>1, <2>4, <2>5
  <2>7. a = b
    BY <2>4, <2>5, <2>6, SeqEqual
  <2> QED
    BY <1>2, <2>3, <2>7 DEF t
<1> QED
  BY <1>3, <1>4

\* An action that begins, and what its client is told.
LEMMA BeginOne ==
    ASSUME NEW w \in Seq(Ops), w # <<>>, Head(w).op = "act", Shaped(w)
    PROVE  LET v == <<Send(Note)>> \o Tail(w)
           IN  /\ v \in Seq(Ops) /\ Shaped(v) /\ Head(w).prompt \in Prompts
               /\ ToBegin(w) = <<Head(w).prompt>> \o ToBegin(v)
               /\ \A i \in DOMAIN v : v[i].op \in {"send", "act"}
<1> DEFINE t == Tail(w)
           one == <<Send(Note)>>
           v == one \o t
           p == Head(w).prompt
<1>1. /\ t \in Seq(Ops) /\ Len(t) = Len(w) - 1 /\ Len(w) \in Nat /\ Len(w) > 0 /\ Len(t) \in Nat
      /\ DOMAIN w = 1..Len(w) /\ DOMAIN t = 1..Len(t)
      /\ \A i \in 1..Len(t) : t[i] = w[i + 1] /\ i + 1 \in 1..Len(w) /\ i + 1 > 1
      /\ Head(w) = w[1] /\ 1 \in 1..Len(w)
  BY HeadTailProperties, LenProperties, EmptySeq
<1> HIDE DEF t
<1>2. Acting(w) /\ \A i \in 1..Len(t) : t[i].op = "act"
  BY <1>1 DEF Acting, Shaped
<1>3. p \in Prompts
  BY <1>1, OpsAre, HeadTailProperties
<1>4. one \in Seq(Ops) /\ Len(one) = 1 /\ one[1] = Send(Note)
  BY OpsAre
<1> HIDE DEF one
<1>5. /\ v \in Seq(Ops) /\ Len(v) = Len(w) /\ DOMAIN v = 1..Len(w) /\ v[1].op = "send"
      /\ \A i \in 2..Len(w) : v[i] = t[i - 1] /\ i - 1 \in 1..Len(t)
  <2> HIDE DEF v
  <2>1. /\ v \in Seq(Ops) /\ Len(v) = 1 + Len(t)
        /\ \A i \in 1..(1 + Len(t)) : v[i] = IF i <= 1 THEN one[i] ELSE t[i - 1]
    <3>1. one \in Seq(Ops) /\ t \in Seq(Ops) /\ Len(one) = 1
      BY <1>1, <1>4
    <3>2. /\ one \o t \in Seq(Ops) /\ Len(one \o t) = Len(one) + Len(t)
          /\ \A i \in 1..(Len(one) + Len(t)) :
                (one \o t)[i] = IF i <= Len(one) THEN one[i] ELSE t[i - Len(one)]
      BY <3>1, ConcatProperties
    <3> QED
      BY <3>1, <3>2 DEF v
  <2>2. DOMAIN v = 1..Len(w) /\ Len(v) = Len(w)
    BY <1>1, <2>1, LenProperties
  <2>3. v[1] = Send(Note) /\ Send(Note).op = "send"
    BY <1>1, <1>4, <2>1, OpsAre
  <2>4. ASSUME NEW i \in 2..Len(w)
        PROVE  v[i] = t[i - 1] /\ i - 1 \in 1..Len(t)
    BY <1>1, <2>1
  <2> QED
    BY <2>1, <2>2, <2>3, <2>4
<1> HIDE DEF v
<1>6. \A i \in 2..Len(w) : v[i].op = "act"
  BY <1>2, <1>5
<1>7. \A i \in 1..Len(w) : i = 1 \/ i \in 2..Len(w)
  BY <1>1
<1>8. Shaped(v) /\ \A i \in DOMAIN v : v[i].op \in {"send", "act"}
  BY <1>1, <1>5, <1>6, <1>7 DEF Shaped
<1> DEFINE a == ToBegin(w)
           b == ToBegin(v)
           c == <<p>> \o b
<1>9. a \in Seq(Prompts) /\ Len(a) = Len(w) /\ \A i \in 1..Len(w) : a[i] = w[i].prompt
  <2>1. a \in Seq(Prompts) /\ Len(a) = Len(w) - 0 /\ \A i \in 1..(Len(w) - 0) : a[i] = w[i + 0].prompt
    BY <1>1, <1>2, BeginIs
  <2> QED
    BY <1>1, <2>1
<1>10. b \in Seq(Prompts) /\ Len(b) = Len(w) - 1 /\ \A i \in 1..(Len(w) - 1) : b[i] = v[i + 1].prompt
  <2>1. CASE Acting(v)
    BY <1>5, <1>8, <2>1, BeginIs
  <2>2. CASE ~Acting(v)
    <3>1. b = <<>> /\ Len(w) = 1
      <4>1. Len(w) > 1 => 2 \in 2..Len(w) /\ 2 \in 1..Len(w)
        BY <1>1
      <4> QED
        BY <1>1, <1>5, <1>6, <2>2, <4>1, NothingToBegin DEF Acting
    <3> QED
      BY <3>1
  <2> QED
    BY <2>1, <2>2
<1> HIDE DEF a, b, p
<1>11. /\ c \in Seq(Prompts) /\ Len(c) = Len(w)
       /\ \A i \in 1..Len(w) : c[i] = IF i = 1 THEN p ELSE b[i - 1]
  <2>1. <<p>> \in Seq(Prompts) /\ Len(<<p>>) = 1 /\ <<p>>[1] = p
    BY <1>3
  <2> HIDE DEF c
  <2>2. /\ c \in Seq(Prompts) /\ Len(c) = 1 + Len(b)
        /\ \A i \in 1..(1 + Len(b)) : c[i] = IF i <= 1 THEN <<p>>[i] ELSE b[i - 1]
    BY <1>10, <2>1, ConcatProperties DEF c
  <2> QED
    BY <1>1, <1>10, <2>1, <2>2
<1>12. \A i \in 1..Len(w) : a[i] = c[i]
  <2> SUFFICES ASSUME NEW i \in 1..Len(w)
               PROVE  a[i] = c[i]
    OBVIOUS
  <2>1. CASE i = 1
    BY <1>1, <1>9, <1>11, <2>1 DEF p
  <2>2. CASE i \in 2..Len(w)
    <3>1. i - 1 \in 1..(Len(w) - 1) /\ (i - 1) + 1 = i /\ i # 1
      BY <1>1, <2>2
    <3>2. c[i] = v[i].prompt
      BY <1>10, <1>11, <3>1
    <3>3. v[i] = w[i]
      BY <1>1, <1>5, <2>2, <3>1
    <3> QED
      BY <1>9, <3>2, <3>3
  <2> QED
    BY <1>7, <2>1, <2>2
<1> HIDE DEF c
<1>13. a = c
  BY <1>9, <1>11, <1>12, SeqEqual
<1> QED
  BY <1>3, <1>5, <1>8, <1>13 DEF v, one, t, a, b, c, p

\* All that waited.
LEMMA BeginAll ==
    ASSUME NEW p \in Seq(Prompts)
    PROVE  LET w == [i \in DOMAIN p |-> Act(p[i])]
           IN  /\ w \in Seq(Ops) /\ Shaped(w) /\ ToBegin(w) = p
               /\ \A i \in DOMAIN w : w[i].op = "act"
<1> DEFINE w == [i \in DOMAIN p |-> Act(p[i])]
           n == Len(p)
<1>1. n \in Nat /\ DOMAIN p = 1..n /\ \A i \in 1..n : p[i] \in Prompts
  BY LenProperties, ElementOfSeq
<1> HIDE DEF n
<1>2. DOMAIN w = 1..n /\ \A i \in 1..n : w[i] \in Ops /\ w[i].op = "act" /\ w[i].prompt = p[i]
  BY <1>1, OpsAre
<1>3. w \in Seq(Ops) /\ Len(w) = n
  <2>1. w \in [1..n -> Ops]
    BY <1>1, <1>2
  <2> QED
    BY <1>1, <2>1, SeqDef, LenProperties
<1> HIDE DEF w
<1>4. Shaped(w)
  BY <1>1, <1>2 DEF Shaped, Acting
<1>5. ToBegin(w) = p
  <2>1. CASE n = 0
    <3>1. p = <<>> /\ ~Acting(w)
      BY <1>1, <1>2, <2>1, EmptySeq DEF Acting, n
    <3> QED
      BY <1>3, <3>1, NothingToBegin
  <2>2. CASE n > 0
    <3>1. 1 \in 1..n
      BY <1>1, <2>2
    <3>2. Acting(w) /\ w[1].op = "act"
      BY <1>2, <3>1 DEF Acting
    <3>3. /\ ToBegin(w) \in Seq(Prompts) /\ Len(ToBegin(w)) = Len(w) - 0
          /\ \A i \in 1..(Len(w) - 0) : ToBegin(w)[i] = w[i + 0].prompt
      BY <1>3, <1>4, <3>2, BeginIs
    <3>4. Len(ToBegin(w)) = Len(p) /\ \A i \in 1..Len(p) : ToBegin(w)[i] = p[i]
      BY <1>1, <1>2, <1>3, <3>3 DEF n
    <3> QED
      BY <3>3, <3>4, SeqEqual
  <2> QED
    BY <1>1, <2>1, <2>2
<1> QED
  BY <1>2, <1>3, <1>4, <1>5 DEF w

\* A connection whose loop, queue of actions and history are as they were, or
\* whose loop ends.
LEMMA SameActs ==
    ASSUME NEW c \in Conns, ActsInv(c), acts'[c] = acts[c], chan'[c] = chan[c],
           (at'[c] = at[c] /\ work'[c] = work[c]) \/ at'[c] # "open"
    PROVE  ActsInv(c)'
<1>1. CASE at'[c] = at[c] /\ work'[c] = work[c]
  BY <1>1 DEF ActsInv, ToBegin, Acting, Skipped, Shaped
<1>2. CASE at'[c] # "open"
  BY <1>2 DEF ActsInv
<1> QED
  BY <1>1, <1>2

LEMMA ActsAre ==
    ASSUME LoopTypes, NEW c \in Conns
    PROVE  /\ work[c] \in Seq(Ops) /\ chan[c] \in Channels /\ chan[c].pending \in Seq(Prompts)
           /\ acts[c] \in [sent : Seq(Prompts), begun : Seq(Prompts), v2 : BOOLEAN]
           /\ acts[c].sent \in Seq(Prompts) /\ acts[c].begun \in Seq(Prompts)
           /\ chan[c].ready \in BOOLEAN /\ chan[c].seen \in BOOLEAN
BY DEF LoopTypes, Channels

\* What is begun and what is not yet is what was sent.
LEMMA Kept ==
    ASSUME LoopTypes, LoopTypes', NEW c \in Conns, Shaped(work'[c]),
           acts'[c].sent = acts'[c].begun \o (ToBegin(work'[c]) \o chan'[c].pending)
    PROVE  IsPrefix(acts'[c].begun, acts'[c].sent)
<1>1. work'[c] \in Seq(Ops) /\ acts'[c].begun \in Seq(Prompts) /\ chan'[c].pending \in Seq(Prompts)
  BY DEF LoopTypes
<1>2. ToBegin(work'[c]) \in Seq(Prompts)
  BY <1>1, BeginType
<1>3. ToBegin(work'[c]) \o chan'[c].pending \in Seq(Prompts)
  BY <1>1, <1>2, ConcatProperties
<1> QED
  BY <1>1, <1>3, PrefixOf

LEMMA InitActs == Init => \A c \in Conns : ActsInv(c)
<1> SUFFICES ASSUME Init, NEW c \in Conns
             PROVE  ActsInv(c)
  OBVIOUS
<1>1. /\ work[c] = <<>> /\ acts[c].sent = <<>> /\ acts[c].begun = <<>> /\ acts[c].v2 = FALSE
      /\ chan[c].pending = <<>> /\ ~chan[c].ready /\ chan[c].v2 = FALSE
  BY DEF Init, NewChannel
<1>2. ~Acting(<<>>) /\ ToBegin(<<>>) = <<>>
  <2>1. <<>> \in Seq(Ops) /\ ~Acting(<<>>)
    BY DEF Acting
  <2> QED
    BY <2>1, NothingToBegin
<1>3. <<>> \o <<>> = <<>> /\ <<>> \o (<<>> \o <<>>) = <<>> /\ <<>> \in Seq(Prompts)
  OBVIOUS
<1>4. IsPrefix(<<>>, <<>>)
  BY <1>3, PrefixOf
<1>5. Shaped(work[c]) /\ ~Acting(work[c])
  BY <1>1, <1>2 DEF Shaped
<1>6. acts[c].sent = acts[c].begun \o (ToBegin(work[c]) \o chan[c].pending)
  BY <1>1, <1>2, <1>3
<1>7. /\ acts[c].begun = <<>> /\ chan[c].v2 = acts[c].v2
      /\ ~chan[c].ready /\ DOMAIN work[c] = {}
  <2>1. DOMAIN <<>> = {}
    OBVIOUS
  <2> QED
    BY <1>1, <2>1
<1>8. IsPrefix(acts[c].begun, acts[c].sent)
  BY <1>1, <1>4, Zenon
<1> QED
  BY <1>5, <1>6, <1>7, <1>8 DEF ActsInv

\* A handler that begins nothing but perhaps a greeting.
LEMMA PlainActs ==
    ASSUME Types, Types', NEW c \in Conns, ActsInv(c), Selecting(c), at'[c] = "open",
           NEW steps \in Seq(Ops), work'[c] = steps,
           \A i \in DOMAIN steps :
               steps[i].op # "act" /\ (steps[i].op = "flush" => i = Len(steps) /\ chan'[c].seen),
           chan'[c].pending = chan[c].pending, chan'[c].ready = chan[c].ready,
           chan[c].seen => chan'[c].seen, chan'[c].v2 = acts'[c].v2,
           acts'[c].begun = acts[c].begun, acts'[c].sent = acts[c].sent,
           chan[c].seen => acts'[c].v2 = acts[c].v2
    PROVE  ActsInv(c)'
<1>1. ~Acting(steps) /\ ToBegin(steps) = <<>> /\ ~Acting(work[c]) /\ ToBegin(work[c]) = <<>>
  <2>1. ~Acting(steps)
    BY DEF Acting
  <2>2. work[c] \in Seq(Ops) /\ ~Acting(work[c])
    BY ActsAre DEF Selecting, Acting, Types
  <2> QED
    BY <2>1, <2>2, NothingToBegin
<1>2. /\ acts'[c].sent = acts'[c].begun \o (ToBegin(work'[c]) \o chan'[c].pending)
      /\ Shaped(work'[c]) /\ ~Acting(work'[c])
  BY <1>1 DEF ActsInv, Selecting, Shaped
<1>3. IsPrefix(acts'[c].begun, acts'[c].sent)
  BY DEF ActsInv
<1>4. /\ acts'[c].begun # <<>> => chan'[c].ready /\ acts'[c].v2
      /\ chan'[c].ready => chan'[c].pending = <<>> /\ chan'[c].seen
  BY DEF ActsInv
<1>5. \A i \in DOMAIN work'[c] : work'[c][i].op = "flush" => i = Len(work'[c]) /\ chan'[c].seen
  OBVIOUS
<1> QED
  BY <1>2, <1>3, <1>4, <1>5 DEF ActsInv

LEMMA HandledActs ==
    ASSUME Types, NEW c \in Conns, NEW steps, NEW channel, Handle(c, steps, channel)
    PROVE  /\ Selecting(c) /\ at' = at /\ at'[c] = "open"
           /\ work'[c] = steps /\ chan'[c] = channel
           /\ \A k \in Conns \ {c} : work'[k] = work[k] /\ chan'[k] = chan[k]
BY DEF Handle, Selecting, Types, LoopTypes

LEMMA SubscribeActs ==
    ASSUME Types, Types', NEW c \in Conns, NEW s \in SUBSET Docs, NEW wanted \in SetToSeqs(s),
           NEW v2 \in BOOLEAN, Subscribe(c, wanted, v2), \A k \in Conns : ActsInv(k)
    PROVE  \A k \in Conns : ActsInv(k)'
<1> DEFINE open == [i \in DOMAIN wanted |-> ReadDoc(wanted[i])]
           first == ~chan[c].seen
           greet == IF first THEN <<Send(Note), Flush>> ELSE <<>>
           channel == [chan[c] EXCEPT !.first = FALSE, !.seen = TRUE, !.v2 = IF first THEN v2 ELSE @]
           steps == open \o greet
<1>1. /\ steps \in Seq(Ops)
      /\ \A i \in DOMAIN steps : steps[i].op \in {"snapshot", "send"} \/ (steps[i].op = "flush" /\ i = Len(steps))
  BY Subscription
<1>2. Handle(c, steps, channel) /\ acts' = [acts EXCEPT ![c].v2 = IF first THEN v2 ELSE @]
  BY DEF Subscribe
<1>3. /\ channel.pending = chan[c].pending /\ channel.ready = chan[c].ready /\ channel.seen = TRUE
      /\ channel.v2 = IF first THEN v2 ELSE chan[c].v2
  BY ActsAre DEF Channels, Types
<1>4. /\ acts'[c].begun = acts[c].begun /\ acts'[c].sent = acts[c].sent
      /\ acts'[c].v2 = IF first THEN v2 ELSE acts[c].v2
      /\ \A k \in Conns \ {c} : acts'[k] = acts[k]
  BY <1>2 DEF Types, LoopTypes
<1>5. /\ Selecting(c) /\ at' = at /\ at'[c] = "open" /\ work'[c] = steps /\ chan'[c] = channel
      /\ \A k \in Conns \ {c} : work'[k] = work[k] /\ chan'[k] = chan[k]
  <2> HIDE DEF steps, channel
  <2> QED
    BY <1>2, HandledActs
<1> HIDE DEF steps, channel
<1>6. /\ chan'[c].pending = chan[c].pending /\ chan'[c].ready = chan[c].ready /\ chan'[c].seen
      /\ chan'[c].v2 = acts'[c].v2 /\ (chan[c].seen => acts'[c].v2 = acts[c].v2)
  BY <1>3, <1>4, <1>5 DEF ActsInv
<1>7. ActsInv(c)'
  BY <1>1, <1>4, <1>5, <1>6, PlainActs
<1>8. ASSUME NEW k \in Conns \ {c} PROVE ActsInv(k)'
  BY <1>4, <1>5, SameActs
<1> QED
  BY <1>7, <1>8

LEMMA ReplyActs ==
    ASSUME Types, Types', NEW c \in Conns, Reply(c) \/ Tick(c), \A k \in Conns : ActsInv(k)
    PROVE  \A k \in Conns : ActsInv(k)'
<1>1. PICK steps \in {<<End>>, <<Send(Note)>>, <<Send(Note), End>>} :
        Handle(c, steps, chan[c]) /\ UNCHANGED acts
  BY DEF Reply, Tick
<1>2. steps \in Seq(Ops) /\ \A i \in DOMAIN steps : steps[i].op \in {"send", "end"}
  <2>1. /\ Send(Note) \in Ops /\ Send(Note).op = "send"
        /\ End \in Ops /\ End.op = "end"
    BY OpsAre
  <2>2. ASSUME NEW o \in Ops, o.op \in {"send", "end"}, NEW e \in Ops, e.op \in {"send", "end"}
        PROVE  /\ <<o>> \in Seq(Ops) /\ \A i \in DOMAIN <<o>> : <<o>>[i].op \in {"send", "end"}
               /\ <<o, e>> \in Seq(Ops) /\ \A i \in DOMAIN <<o, e>> : <<o, e>>[i].op \in {"send", "end"}
    BY <2>2
  <2>3. CASE steps = <<End>>
    BY <2>1, <2>2, <2>3
  <2>4. CASE steps = <<Send(Note)>>
    BY <2>1, <2>2, <2>4
  <2>5. CASE steps = <<Send(Note), End>>
    BY <2>1, <2>2, <2>5
  <2> QED
    BY <2>3, <2>4, <2>5
<1>3. /\ Selecting(c) /\ at' = at /\ at'[c] = "open" /\ work'[c] = steps /\ chan'[c] = chan[c]
      /\ \A k \in Conns \ {c} : work'[k] = work[k] /\ chan'[k] = chan[k]
  BY <1>1, HandledActs
<1>4. \A i \in DOMAIN steps :
        steps[i].op # "act" /\ (steps[i].op = "flush" => i = Len(steps) /\ chan'[c].seen)
  BY <1>2
<1>5. ActsInv(c)'
  BY <1>1, <1>2, <1>3, <1>4, PlainActs DEF ActsInv
<1>6. ASSUME NEW k \in Conns \ {c} PROVE ActsInv(k)'
  BY <1>1, <1>3, SameActs
<1> QED
  BY <1>5, <1>6

LEMMA ActionActs ==
    ASSUME Types, Types', NEW c \in Conns, NEW p \in Prompts, Action(c, p), \A k \in Conns : ActsInv(k)
    PROVE  \A k \in Conns : ActsInv(k)'
<1> DEFINE wait == ~chan[c].ready
           full == Len(chan[c].pending) >= PendingLimit
           steps == IF ~wait THEN <<Act(p)>> ELSE IF full THEN <<Send(Note)>> ELSE <<>>
           kept == IF wait /\ ~full THEN Append(chan[c].pending, p) ELSE chan[c].pending
           channel == [chan[c] EXCEPT !.first = FALSE, !.pending = kept]
<1>1. /\ Handle(c, steps, channel)
      /\ acts' = IF wait /\ full THEN acts ELSE [acts EXCEPT ![c].sent = Append(@, p)]
  BY DEF Action
<1>2. /\ channel.pending = kept /\ channel.ready = chan[c].ready /\ channel.seen = chan[c].seen
      /\ channel.v2 = chan[c].v2
  BY ActsAre DEF Channels, Types
<1>3. /\ Selecting(c) /\ at' = at /\ at'[c] = "open" /\ work'[c] = steps /\ chan'[c] = channel
      /\ \A k \in Conns \ {c} : work'[k] = work[k] /\ chan'[k] = chan[k]
  <2> HIDE DEF steps, channel
  <2> QED
    BY <1>1, HandledActs
<1>4. /\ acts'[c].begun = acts[c].begun /\ acts'[c].v2 = acts[c].v2
      /\ acts'[c].sent = IF wait /\ full THEN acts[c].sent ELSE Append(acts[c].sent, p)
      /\ \A k \in Conns \ {c} : acts'[k] = acts[k]
  BY <1>1 DEF Types, LoopTypes
<1>5. ASSUME NEW k \in Conns \ {c} PROVE ActsInv(k)'
  BY <1>3, <1>4, SameActs
<1>6. /\ chan[c].pending \in Seq(Prompts) /\ acts[c].begun \in Seq(Prompts)
      /\ acts[c].sent = acts[c].begun \o chan[c].pending
  <2>1. work[c] = <<>> /\ at[c] = "open" /\ <<>> \in Seq(Ops) /\ ~Acting(<<>>)
    BY <1>3 DEF Selecting, Acting
  <2>2. ToBegin(work[c]) = <<>> /\ chan[c].pending \in Seq(Prompts) /\ acts[c].begun \in Seq(Prompts)
    BY <2>1, NothingToBegin, ActsAre DEF Types
  <2> QED
    BY <2>1, <2>2, ConcatEmptySeq DEF ActsInv
<1>7. /\ Shaped(steps) /\ steps \in Seq(Ops) /\ (Acting(steps) => ~wait)
      /\ ToBegin(steps) = IF wait THEN <<>> ELSE <<p>>
      /\ \A i \in DOMAIN steps : steps[i].op # "flush"
  <2>1. CASE ~wait
    <3> DEFINE one == <<Act(p)>>
    <3>1. one \in Seq(Ops) /\ one # <<>> /\ DOMAIN one = {1} /\ one[1].op = "act" /\ Len(one) = 1 /\ one[1].prompt = p
      BY OpsAre
    <3>2. Shaped(one) /\ Acting(one)
      BY <3>1 DEF Shaped, Acting
    <3>3. ToBegin(one) = <<p>>
      <4> HIDE DEF one
      <4>1. /\ ToBegin(one) \in Seq(Prompts) /\ Len(ToBegin(one)) = Len(one) - 0
            /\ \A i \in 1..(Len(one) - 0) : ToBegin(one)[i] = one[i + 0].prompt
        BY <3>1, <3>2, BeginIs
      <4>2. Len(ToBegin(one)) = 1 /\ ToBegin(one)[1] = p
        BY <3>1, <4>1
      <4> QED
        BY <4>1, <4>2
    <3>4. steps = one
      BY <2>1
    <3> HIDE DEF one, steps
    <3> QED
      BY <2>1, <3>1, <3>2, <3>3, <3>4
  <2>2. CASE wait
    <3>1. steps \in Seq(Ops) /\ \A i \in DOMAIN steps : steps[i].op = "send"
      BY <2>2, OpsAre
    <3>2. ~Acting(steps)
      BY <3>1 DEF Acting
    <3> HIDE DEF steps
    <3> QED
      BY <2>2, <3>1, <3>2, NothingToBegin DEF Shaped
  <2> QED
    BY <2>1, <2>2
<1>8. acts'[c].sent = acts'[c].begun \o (ToBegin(steps) \o kept)
  <2>1. CASE ~wait
    <3>1. chan[c].pending = <<>> /\ kept = <<>>
      BY <2>1 DEF ActsInv
    <3> HIDE DEF kept, steps
    <3>2. ToBegin(steps) \o kept = <<p>>
      <4>1. ToBegin(steps) = <<p>> /\ <<p>> \o <<>> = <<p>>
        BY <1>7, <2>1
      <4> QED
        BY <3>1, <4>1
    <3>3. acts'[c].sent = Append(acts[c].begun \o <<>>, p)
      BY <1>4, <1>6, <2>1, <3>1
    <3>4. Append(acts[c].begun \o <<>>, p) = acts[c].begun \o <<p>>
      BY <1>6
    <3> QED
      BY <1>4, <3>2, <3>3, <3>4
  <2>2. CASE wait /\ full
    BY <1>4, <1>6, <1>7, <2>2, ConcatEmptySeq
  <2>3. CASE wait /\ ~full
    <3>1. acts'[c].sent = Append(acts[c].begun \o chan[c].pending, p) /\ kept = Append(chan[c].pending, p)
      BY <1>4, <1>6, <2>3
    <3>2. Append(acts[c].begun \o chan[c].pending, p) = acts[c].begun \o Append(chan[c].pending, p)
      <4> DEFINE a == acts[c].begun
                 b == chan[c].pending
      <4>1. a \in Seq(Prompts) /\ b \in Seq(Prompts)
        BY <1>6
      <4> HIDE DEF a, b
      <4> DEFINE one == <<p>>
                 u == a \o b
      <4>2. one \in Seq(Prompts) /\ u \in Seq(Prompts)
        BY <4>1, ConcatProperties
      <4>3. Append(u, p) = u \o one /\ Append(b, p) = b \o one
        BY <4>1, <4>2, AppendIsConcat
      <4> HIDE DEF one
      <4>4. (a \o b) \o one = a \o (b \o one)
        BY <4>1, <4>2, ConcatAssociative, SMTT(60)
      <4> QED
        BY <4>3, <4>4 DEF a, b
    <3>3. ToBegin(steps) \o kept = kept
      <4>1. kept \in Seq(Prompts)
        BY <1>6, <3>1, AppendProperties
      <4> QED
        BY <1>7, <2>3, <4>1, ConcatEmptySeq
    <3> HIDE DEF steps, kept
    <3> QED
      BY <1>4, <3>1, <3>2, <3>3
  <2> QED
    BY <2>1, <2>2, <2>3
<1>9. IsPrefix(acts'[c].begun, acts'[c].sent)
  <2> HIDE DEF steps, kept, channel
  <2> QED
    BY <1>2, <1>3, <1>7, <1>8, Kept DEF Types
<1>10. chan'[c].ready => chan'[c].pending = <<>> /\ chan'[c].seen
  BY <1>2, <1>3 DEF ActsInv
<1>11. chan'[c].ready = ~wait
  BY <1>2, <1>3, ActsAre DEF Types
<1> HIDE DEF steps, kept, channel
<1>12. ActsInv(c)'
  BY <1>2, <1>3, <1>4, <1>7, <1>8, <1>9, <1>10, <1>11 DEF ActsInv
<1> QED
  BY <1>5, <1>12

\* The steps of a handler.
LEMMA WorkActs ==
    ASSUME Types, Types', NEW c \in Conns, \A k \in Conns : ActsInv(k),
           WorkSend(c) \/ WorkSnapshot(c) \/ WorkSubscribe(c)
    PROVE  \A k \in Conns : ActsInv(k)'
<1> DEFINE w == work[c]
           v == work'[c]
<1>1. /\ w \in Seq(Ops) /\ w # <<>> /\ at[c] = "open" /\ UNCHANGED <<at, chan, acts>>
      /\ Head(w).op \in {"send", "snapshot", "subscribe"}
      /\ \A k \in Conns \ {c} : work'[k] = work[k]
  BY ActsAre DEF WorkSend, WorkSnapshot, WorkSubscribe, Step, Then, history, Types, LoopTypes
<1>2. ASSUME NEW k \in Conns \ {c} PROVE ActsInv(k)'
  BY <1>1, <1>2, SameActs
<1>3. ActsInv(c)
  OBVIOUS
<1>4. /\ Tail(w) \in Seq(Ops) /\ Len(Tail(w)) = Len(w) - 1 /\ Len(w) \in Nat
      /\ \A i \in 1..Len(Tail(w)) : Tail(w)[i] = w[i + 1]
      /\ DOMAIN w = 1..Len(w) /\ DOMAIN Tail(w) = 1..Len(Tail(w)) /\ Head(w) = w[1]
  BY <1>1, HeadTailProperties, LenProperties
<1>5. /\ ToBegin(Tail(w)) = ToBegin(w) /\ Shaped(Tail(w)) /\ (Acting(Tail(w)) => Acting(w))
  BY <1>1, <1>3, BeginTail DEF ActsInv
<1>6. \A i \in DOMAIN Tail(w) : Tail(w)[i].op = "flush" => i = Len(Tail(w)) /\ chan[c].seen
  <2> SUFFICES ASSUME NEW i \in 1..Len(Tail(w)), Tail(w)[i].op = "flush"
               PROVE  i = Len(Tail(w)) /\ chan[c].seen
    BY <1>4
  <2>1. i + 1 \in DOMAIN w /\ w[i + 1].op = "flush"
    BY <1>4
  <2>2. i + 1 = Len(w) /\ chan[c].seen
    BY <1>1, <1>3, <2>1 DEF ActsInv
  <2> QED
    BY <1>4, <2>2
<1>7. /\ v \in Seq(Ops) /\ ToBegin(v) = ToBegin(w) /\ Shaped(v) /\ (Acting(v) => Acting(w))
      /\ \A i \in DOMAIN v : v[i].op = "flush" => i = Len(v) /\ chan[c].seen
  <2>1. CASE v = Tail(w)
    BY <1>4, <1>5, <1>6, <2>1
  <2>2. CASE WorkSnapshot(c)
    <3> DEFINE d == Head(w).doc
               steps == <<Send(Snapshot(d, 1..mirror[d])), Attach(d)>>
    <3>1. /\ steps \in Seq(Ops) /\ DOMAIN steps = 1..2 /\ Len(steps) = 2
          /\ steps[1].op = "send" /\ steps[2].op = "subscribe"
      <4>1. d \in Docs
        BY <1>1, <2>2, OpsAre, HeadTailProperties DEF WorkSnapshot, Step
      <4>2. 1..mirror[d] \in SUBSET Nat
        OBVIOUS
      <4>3. Send(Snapshot(d, 1..mirror[d])) \in Ops /\ Attach(d) \in Ops
        BY <4>1, <4>2, OpsAre, FrameKinds
      <4> QED
        BY <4>3 DEF Send, Attach
    <3>2. Then(c, steps)
      BY <2>2 DEF WorkSnapshot
    <3> HIDE DEF steps
    <3>3. v = steps \o Tail(w)
      BY <3>2 DEF Then, Types, LoopTypes
    <3>4. /\ v \in Seq(Ops) /\ DOMAIN v = 1..(2 + Len(Tail(w))) /\ Len(v) = 2 + Len(Tail(w))
          /\ \A i \in 1..(2 + Len(Tail(w))) : v[i] = IF i <= 2 THEN steps[i] ELSE Tail(w)[i - 2]
      <4> HIDE DEF v
      <4> DEFINE t == Tail(w)
      <4>1. steps \in Seq(Ops) /\ t \in Seq(Ops) /\ Len(steps) = 2
        BY <1>4, <3>1
      <4> HIDE DEF t
      <4>2. /\ steps \o t \in Seq(Ops) /\ Len(steps \o t) = Len(steps) + Len(t)
            /\ \A i \in 1..(Len(steps) + Len(t)) :
                  (steps \o t)[i] = IF i <= Len(steps) THEN steps[i] ELSE t[i - Len(steps)]
        BY <4>1, ConcatProperties
      <4>3. v = steps \o t /\ DOMAIN (steps \o t) = 1..Len(steps \o t)
        BY <3>3, <4>2, LenProperties DEF t
      <4> QED
        BY <4>1, <4>2, <4>3 DEF t
    <3>5. ~Acting(w)
      <4>1. Head(w).op = "snapshot"
        BY <2>2 DEF WorkSnapshot, Step
      <4> QED
        BY <1>1, <1>3, <1>4, <4>1 DEF ActsInv, Shaped
    <3> HIDE DEF v
    <3>6. \A i \in DOMAIN Tail(w) : Tail(w)[i].op # "act"
      BY <1>5, <3>5 DEF Acting
    <3>7. ASSUME NEW i \in DOMAIN v
          PROVE  v[i].op # "act" /\ (v[i].op = "flush" => i = Len(v) /\ chan[c].seen)
      <4>1. CASE i > 2
        <5>1. i - 2 \in DOMAIN Tail(w) /\ v[i] = Tail(w)[i - 2]
          BY <1>4, <3>4, <4>1
        <5>2. i - 2 = Len(Tail(w)) => i = Len(v)
          BY <1>4, <3>4, <4>1
        <5> QED
          BY <1>6, <3>6, <5>1, <5>2
      <4>2. CASE i \in {1, 2}
        BY <1>4, <3>1, <3>4, <4>2
      <4>3. i > 2 \/ i \in {1, 2}
        BY <1>4, <3>4
      <4> QED
        BY <4>1, <4>2, <4>3
    <3>8. ~Acting(v)
      BY <3>7 DEF Acting
    <3> QED
      BY <1>1, <3>4, <3>5, <3>7, <3>8, NothingToBegin DEF Shaped
  <2>3. CASE WorkSend(c) \/ WorkSubscribe(c)
    <3>1. v = <<>> \o Tail(w)
      BY <2>3 DEF WorkSend, WorkSubscribe, Then, Types, LoopTypes
    <3>2. v = Tail(w)
      BY <1>4, <3>1, ConcatEmptySeq
    <3> QED
      BY <2>1, <3>2
  <2> QED
    BY <2>2, <2>3
<1>8. ActsInv(c)'
  <2> HIDE DEF w, v
  <2>1. acts[c].sent = acts[c].begun \o (ToBegin(v) \o chan[c].pending) /\ (Acting(w) => chan[c].ready)
    BY <1>1, <1>3, <1>7 DEF ActsInv, w
  <2> QED
    BY <1>1, <1>3, <1>7, <2>1 DEF ActsInv, v
<1> QED
  BY <1>2, <1>8

LEMMA FlushActs ==
    ASSUME Types, Types', NEW c \in Conns, \A k \in Conns : ActsInv(k), WorkFlush(c)
    PROVE  \A k \in Conns : ActsInv(k)'
<1> DEFINE w == work[c]
           p == chan[c].pending
           v == [i \in DOMAIN p |-> Act(p[i])]
<1>1. /\ w \in Seq(Ops) /\ w # <<>> /\ at[c] = "open" /\ UNCHANGED <<at, acts>>
      /\ Head(w).op = "flush" /\ p \in Seq(Prompts)
      /\ \A k \in Conns \ {c} : work'[k] = work[k] /\ chan'[k] = chan[k]
  BY ActsAre DEF WorkFlush, Step, Then, history, Types, LoopTypes
<1>2. ASSUME NEW k \in Conns \ {c} PROVE ActsInv(k)'
  BY <1>1, <1>2, SameActs
<1>3. ActsInv(c)
  OBVIOUS
<1>4. Head(w) = w[1] /\ 1 \in DOMAIN w /\ Tail(w) \in Seq(Ops) /\ Len(Tail(w)) = Len(w) - 1
  BY <1>1, HeadTailProperties, LenProperties, EmptySeq
<1>5. Len(w) = 1 /\ chan[c].seen /\ ~Acting(w)
  BY <1>1, <1>3, <1>4 DEF ActsInv, Shaped
<1>6. Tail(w) = <<>> /\ ToBegin(w) = <<>>
  <2>1. Len(Tail(w)) = 0
    BY <1>4, <1>5
  <2> QED
    BY <1>1, <1>4, <1>5, <2>1, NothingToBegin, EmptySeq
<1>7. v \in Seq(Ops) /\ Shaped(v) /\ ToBegin(v) = p /\ \A i \in DOMAIN v : v[i].op = "act"
  BY <1>1, BeginAll
<1>8. work'[c] = v
  <2>1. work'[c] = v \o Tail(w)
    BY DEF WorkFlush, Then, Types, LoopTypes
  <2> HIDE DEF v
  <2> QED
    BY <1>6, <1>7, <2>1, ConcatEmptySeq
<1>9. /\ chan'[c].ready = TRUE /\ chan'[c].pending = <<>> /\ chan'[c].seen = chan[c].seen
      /\ chan'[c].v2 = chan[c].v2
  BY ActsAre DEF WorkFlush, Types, LoopTypes, Channels
<1> HIDE DEF v
<1>10. acts'[c].sent = acts'[c].begun \o (ToBegin(work'[c]) \o chan'[c].pending)
  <2>1. <<>> \o p = p /\ p \o <<>> = p
    BY <1>1, ConcatEmptySeq
  <2>2. acts[c].sent = acts[c].begun \o (<<>> \o p)
    BY <1>1, <1>3, <1>6 DEF ActsInv
  <2>3. ToBegin(work'[c]) \o chan'[c].pending = p
    BY <1>7, <1>8, <1>9, <2>1
  <2> QED
    BY <1>1, <2>1, <2>2, <2>3
<1>11. \A i \in DOMAIN work'[c] : work'[c][i].op # "flush"
  BY <1>7, <1>8
<1>12. ActsInv(c)'
  BY <1>1, <1>3, <1>5, <1>7, <1>8, <1>9, <1>10, <1>11 DEF ActsInv
<1> QED
  BY <1>2, <1>12

LEMMA ActActs ==
    ASSUME Types, Types', NEW c \in Conns, \A k \in Conns : ActsInv(k), WorkAct(c)
    PROVE  \A k \in Conns : ActsInv(k)'
<1> DEFINE w == work[c]
           p == Head(w).prompt
           v == <<Send(Note)>> \o Tail(w)
           rest == ToBegin(v) \o chan[c].pending
<1>1. /\ w \in Seq(Ops) /\ w # <<>> /\ at[c] = "open" /\ UNCHANGED <<at, chan>>
      /\ Head(w).op = "act" /\ chan[c].v2
      /\ \A k \in Conns \ {c} : work'[k] = work[k] /\ acts'[k] = acts[k]
      /\ work'[c] = v
  BY ActsAre DEF WorkAct, Step, Then, Types, LoopTypes
<1>2. ASSUME NEW k \in Conns \ {c} PROVE ActsInv(k)'
  BY <1>1, <1>2, SameActs
<1>3. ActsInv(c)
  OBVIOUS
<1>4. /\ v \in Seq(Ops) /\ Shaped(v) /\ p \in Prompts
      /\ ToBegin(w) = <<p>> \o ToBegin(v)
      /\ \A i \in DOMAIN v : v[i].op \in {"send", "act"}
  BY <1>1, <1>3, BeginOne DEF ActsInv
<1>5. acts'[c].begun = Append(acts[c].begun, p) /\ acts'[c].sent = acts[c].sent /\ acts'[c].v2 = acts[c].v2
  BY DEF WorkAct, Types, LoopTypes
<1>6. Acting(w) /\ chan[c].ready
  <2>1. 1 \in DOMAIN w /\ w[1] = Head(w)
    BY <1>1, HeadTailProperties, LenProperties, EmptySeq
  <2>2. Acting(w)
    BY <1>1, <2>1 DEF Acting
  <2> QED
    BY <1>1, <1>3, <2>2 DEF ActsInv
<1> HIDE DEF v, p
<1>7. acts'[c].sent = acts'[c].begun \o rest
  <2> DEFINE b == acts[c].begun
             t == ToBegin(v)
             q == chan[c].pending
             one == <<p>>
  <2>1. b \in Seq(Prompts) /\ q \in Seq(Prompts) /\ t \in Seq(Prompts) /\ one \in Seq(Prompts)
    BY <1>4, ActsAre, BeginType DEF Types
  <2>2. acts[c].sent = b \o ((one \o t) \o q)
    BY <1>1, <1>3, <1>4 DEF ActsInv
  <2>3. Append(b, p) = b \o one
    BY <1>4, <2>1, AppendIsConcat
  <2> HIDE DEF b, t, q, one
  <2>4. (one \o t) \o q = one \o (t \o q) /\ t \o q \in Seq(Prompts)
    BY <2>1, ConcatAssociative, ConcatProperties
  <2>5. b \o (one \o (t \o q)) = (b \o one) \o (t \o q)
    <3> DEFINE r == t \o q
    <3>1. r \in Seq(Prompts)
      BY <2>4
    <3> HIDE DEF r
    <3>2. b \o (one \o r) = (b \o one) \o r
      BY <2>1, <3>1, ConcatAssociative, SMTT(60)
    <3> QED
      BY <3>2 DEF r
  <2> QED
    BY <1>5, <2>2, <2>3, <2>4, <2>5 DEF b, t, q
<1>8. IsPrefix(acts'[c].begun, acts'[c].sent)
  BY <1>1, <1>4, <1>7, Kept DEF Types
<1>9. ActsInv(c)'
  <2>1. acts'[c].begun # <<>> => chan'[c].ready /\ acts'[c].v2
    BY <1>1, <1>3, <1>5, <1>6 DEF ActsInv
  <2>2. chan'[c].v2 = acts'[c].v2 /\ (chan'[c].ready => chan'[c].pending = <<>> /\ chan'[c].seen)
    BY <1>1, <1>3, <1>5 DEF ActsInv
  <2>3. \A i \in DOMAIN v : v[i].op # "flush"
    BY <1>4
  <2>4. acts'[c].sent = acts'[c].begun \o (ToBegin(work'[c]) \o chan'[c].pending)
    BY <1>1, <1>7
  <2> QED
    BY <1>1, <1>4, <1>6, <1>8, <2>1, <2>2, <2>3, <2>4 DEF ActsInv
<1> QED
  BY <1>2, <1>9

LEMMA UnsubscribeActs ==
    ASSUME Types, NEW c \in Conns, NEW d \in Docs, Unsubscribe(c, d), \A k \in Conns : ActsInv(k)
    PROVE  \A k \in Conns : ActsInv(k)'
<1>1. /\ UNCHANGED <<work, acts>>
      /\ \A k \in Conns : at'[k] = at[k] \/ at'[k] = "finish"
      /\ \A k \in Conns \ {c} : chan'[k] = chan[k]
      /\ chan'[c].ready = chan[c].ready /\ chan'[c].seen = chan[c].seen /\ chan'[c].v2 = chan[c].v2
      /\ chan'[c].pending = chan[c].pending
  BY ActsAre DEF Unsubscribe, Types, LoopTypes, Channels, history
<1>2. ASSUME NEW k \in Conns \ {c} PROVE ActsInv(k)'
  BY <1>1, SameActs
<1>3. ActsInv(c)'
  <2>1. work'[c] = work[c] /\ acts'[c] = acts[c] /\ (at'[c] = "open" => at[c] = "open")
    BY <1>1
  <2>2. ActsInv(c)
    OBVIOUS
  <2>3. at'[c] = "open" =>
          /\ acts'[c].sent = acts'[c].begun \o (ToBegin(work'[c]) \o chan'[c].pending)
          /\ Shaped(work'[c]) /\ (Acting(work'[c]) => chan'[c].ready)
          /\ \A i \in DOMAIN work'[c] : work'[c][i].op = "flush" => i = Len(work'[c]) /\ chan'[c].seen
    BY <1>1, <2>1, <2>2 DEF ActsInv
  <2>4. /\ IsPrefix(acts'[c].begun, acts'[c].sent)
        /\ acts'[c].begun # <<>> => chan'[c].ready /\ acts'[c].v2
        /\ chan'[c].v2 = acts'[c].v2
        /\ chan'[c].ready => chan'[c].pending = <<>> /\ chan'[c].seen
    BY <1>1, <2>1, <2>2 DEF ActsInv
  <2> QED
    BY <2>3, <2>4 DEF ActsInv
<1> QED
  BY <1>2, <1>3

LEMMA NextActs ==
    ASSUME Types, Types', [Next]_vars, \A k \in Conns : ActsInv(k)
    PROVE  \A k \in Conns : ActsInv(k)'
<1>1. ASSUME UNCHANGED <<work, chan, acts>>,
             \A k \in Conns : at'[k] = at[k] \/ at'[k] = "finish"
      PROVE  \A k \in Conns : ActsInv(k)'
  BY <1>1, SameActs
<1>2. CASE UNCHANGED vars
  BY <1>1, <1>2 DEF vars, loops, history
<1>3. CASE \E d \in Docs : Persist(d) \/ Ephemeral(d)
  BY <1>1, <1>3 DEF Persist, Ephemeral, loops, history
<1>4. CASE FanOutTask
  BY <1>1, <1>4
     DEF FanOutTask, TakeUpdate, Deliver, FlushDirect, FlushMerged, CloseConn, Flushed, loops, history
<1>5. CASE Executor
  BY <1>1, <1>5 DEF Executor, Conclude, Publish, Published, loops, history
<1>6. ASSUME NEW c \in Conns, SignalClose(c) \/ Leave(c) \/ Receive(c) \/ ReadError(c) \/ WorkEnd(c)
      PROVE  \A k \in Conns : ActsInv(k)'
  BY <1>1, <1>6
     DEF SignalClose, Leave, Receive, ReadError, WorkEnd, loops, history, Types, LoopTypes
<1>7. ASSUME NEW c \in Conns, Finish(c)
      PROVE  \A k \in Conns : ActsInv(k)'
  <2>1. UNCHANGED <<chan, acts>> /\ at'[c] = "gone" /\ \A k \in Conns \ {c} : at'[k] = at[k] /\ work'[k] = work[k]
    BY <1>7 DEF Finish, history, Types, LoopTypes
  <2> QED
    BY <2>1, SameActs
<1>8. ASSUME NEW c \in Conns, Loop(c)
      PROVE  \A k \in Conns : ActsInv(k)'
  BY <1>6, <1>7, <1>8, WorkActs, FlushActs, ActActs DEF Loop, Work
<1>9. ASSUME NEW c \in Conns, FromClient(c)
      PROVE  \A k \in Conns : ActsInv(k)'
  <2>1. CASE \E wanted \in UNION {SetToSeqs(s) : s \in SUBSET Docs}, v2 \in BOOLEAN :
               Subscribe(c, wanted, v2)
    BY <2>1, SubscribeActs
  <2> QED
    BY <1>6, <1>9, <2>1, UnsubscribeActs, ActionActs, ReplyActs DEF FromClient
<1>10. ASSUME NEW c \in Conns, Tick(c) \/ SignalClose(c)
       PROVE  \A k \in Conns : ActsInv(k)'
  BY <1>6, <1>10, ReplyActs
<1> QED
  BY <1>2, <1>3, <1>4, <1>5, <1>8, <1>9, <1>10 DEF Next

-----------------------------------------------------------------------------
(* The order of the increments. *)

\* Less to get, and less to come.
LEMMA LessOrder ==
    ASSUME NEW c, NEW d, OrderInv(c, d), mirror'[d] = mirror[d],
           Rising(outq'[c], d), Rising(sub'[c].pending, d),
           Before(News(outq'[c], d), News(sub'[c].pending, d)),
           Before(client'[c].last[d], News(outq'[c], d) \cup News(sub'[c].pending, d)),
           Got(c, d)' \subseteq Got(c, d),
           Fanned(c, d)' \cup News(feed', d) \subseteq Fanned(c, d) \cup News(feed, d)
    PROVE  OrderInv(c, d)'
<1>1. Before(Got(c, d)', Fanned(c, d)' \cup News(feed', d))
  BY DEF OrderInv, Before
<1>2. \A n \in Got(c, d)' : n <= mirror'[d]
  BY DEF OrderInv
<1> QED
  BY <1>1, <1>2 DEF OrderInv

\* Nothing new for this connection.
LEMMA QuietOrder ==
    ASSUME NEW c, NEW d, OrderInv(c, d), mirror'[d] = mirror[d],
           News(outq'[c], d) = News(outq[c], d), Rising(outq'[c], d),
           sub'[c].pending = sub[c].pending, client'[c].last[d] = client[c].last[d],
           Fanned(c, d)' \cup News(feed', d) \subseteq Fanned(c, d) \cup News(feed, d)
    PROVE  OrderInv(c, d)'
<1>1. Got(c, d)' = Got(c, d)
  BY DEF Got
<1>2. /\ Rising(sub'[c].pending, d) /\ Before(News(outq'[c], d), News(sub'[c].pending, d))
      /\ Before(client'[c].last[d], News(outq'[c], d) \cup News(sub'[c].pending, d))
  BY DEF OrderInv
<1> QED
  BY <1>1, <1>2, LessOrder

\* A frame that is no update is no news.
LEMMA NoUpdate == ASSUME NEW f, f.kind # "update", NEW d PROVE News1(f, d) = {}
BY DEF News1

LEMMA UpdateNews ==
    ASSUME NEW f \in Updates, NEW d
    PROVE  News1(f, d) = (IF f.doc = d THEN f.ups ELSE {}) /\ View1(f, d) = News1(f, d)
BY FrameKinds DEF News1, View1

LEMMA QuietAppend ==
    ASSUME ConnTypes, NEW c \in Conns, NEW f \in Outgoing, f.kind # "update",
           NEW d, OrderInv(c, d)
    PROVE  /\ News(Append(outq[c], f), d) = News(outq[c], d)
           /\ Rising(Append(outq[c], f), d)
<1>1. outq[c] \in Seq(Outgoing) /\ News1(f, d) = {} /\ Rising(outq[c], d)
  BY NoUpdate DEF ConnTypes, OrderInv
<1>2. Before(News(outq[c], d), {})
  BY DEF Before
<1> DEFINE q == outq[c]
<1>3. q \in Seq(Outgoing)
  BY <1>1
<1> HIDE DEF q
<1>4. /\ News(Append(q, f), d) = News(q, d) \cup News1(f, d)
      /\ Rising(Append(q, f), d) <=> Rising(q, d) /\ Before(News(q, d), News1(f, d))
  BY <1>3, Appended
<1> QED
  BY <1>1, <1>2, <1>4 DEF q

LEMMA NewsNats ==
    ASSUME NEW s \in Seq(Outgoing), NEW d
    PROVE  News(s, d) \subseteq Nat
<1>1. DOMAIN s = 1..Len(s) /\ \A i \in 1..Len(s) : s[i] \in Outgoing
  BY LenProperties, ElementOfSeq
<1>2. \A f \in Outgoing : News1(f, d) \subseteq Nat
  BY FrameKinds DEF News1
<1> QED
  BY <1>1, <1>2, NewsOf

LEMMA GotNats ==
    ASSUME ConnTypes, NEW c \in Conns, NEW d \in Docs
    PROVE  Got(c, d) \subseteq Nat
<1>1. outq[c] \in Seq(Outgoing) /\ sub[c].pending \in Seq(Outgoing)
  BY QueuesAre, FrameKinds, SeqMonotonic
<1>2. client[c].last[d] \subseteq Nat
  BY DEF ConnTypes
<1> QED
  BY <1>1, <1>2, NewsNats DEF Got

FeedOrder == \A d \in Docs : FeedInv(d) /\ \A c \in Conns : OrderInv(c, d)

LEMMA InitOrder == Init => FeedOrder
<1> SUFFICES ASSUME Init, NEW d \in Docs
             PROVE  FeedInv(d) /\ \A c \in Conns : OrderInv(c, d)
  BY DEF FeedOrder
<1>1. feed = <<>> /\ fan.left = {}
  BY DEF Init, NoFan
<1>2. News(<<>>, d) = {} /\ Rising(<<>>, d)
  BY NoNews
<1>3. FeedInv(d)
  BY <1>1, <1>2 DEF FeedInv
<1>4. ASSUME NEW c \in Conns
      PROVE  OrderInv(c, d)
  <2>1. outq[c] = <<>> /\ sub[c].pending = <<>> /\ client[c].last[d] = {}
    BY DEF Init, NoSub
  <2>2. Got(c, d) = {}
    BY <1>2, <2>1 DEF Got
  <2> QED
    BY <1>2, <2>1, <2>2 DEF OrderInv, Before
<1> QED
  BY <1>3, <1>4

LEMMA SameFeed ==
    ASSUME FeedOrder, UNCHANGED <<feed, mirror, fan>>, NEW d \in Docs
    PROVE  FeedInv(d)'
BY DEF FeedInv, FeedOrder

\* The queues, the backlogs and what the clients have stay as they are, or
\* change by frames that are no updates.
LEMMA QuietStep ==
    ASSUME Types, FeedOrder, UNCHANGED <<feed, mirror, fan>>,
           \A c \in Conns :
               /\ outq'[c] = outq[c]
                   \/ \E f \in Outgoing : f.kind # "update" /\ outq'[c] = Append(outq[c], f)
               /\ sub'[c].pending = sub[c].pending /\ client'[c].last = client[c].last
    PROVE  FeedOrder'
<1> SUFFICES ASSUME NEW d \in Docs, NEW c \in Conns
             PROVE  FeedInv(d)' /\ OrderInv(c, d)'
  BY SameFeed DEF FeedOrder
<1>1. OrderInv(c, d)
  BY DEF FeedOrder
<1>2. News(outq'[c], d) = News(outq[c], d) /\ Rising(outq'[c], d)
  <2>1. CASE outq'[c] = outq[c]
    BY <1>1, <2>1 DEF OrderInv
  <2>2. CASE \E f \in Outgoing : f.kind # "update" /\ outq'[c] = Append(outq[c], f)
    BY <1>1, <2>2, QuietAppend DEF Types
  <2> QED
    BY <2>1, <2>2
<1>3. Fanned(c, d)' \cup News(feed', d) \subseteq Fanned(c, d) \cup News(feed, d)
  BY DEF Fanned
<1> QED
  BY <1>1, <1>2, <1>3, QuietOrder, SameFeed

LEMMA PersistOrder ==
    ASSUME Types, FeedOrder, NEW d0 \in Docs, Persist(d0)
    PROVE  FeedOrder'
<1> DEFINE f == Update(d0, {mirror[d0] + 1})
<1>1. mirror[d0] \in Nat /\ f \in Updates /\ f.doc = d0 /\ f.ups = {mirror[d0] + 1}
  <2>1. mirror[d0] \in Nat
    BY DEF Types, DocTypes, BudgetTypes
  <2>2. {mirror[d0] + 1} \in Fin
    <3>1. IsFiniteSet({mirror[d0] + 1})
      BY FS_Singleton
    <3> QED
      BY <2>1, <3>1 DEF Fin
  <2> QED
    BY <2>1, <2>2, FrameKinds DEF Update
<1>2. feed' = Append(feed, f) /\ UNCHANGED <<fan, sub, outq, client>> /\ feed \in Seq(Updates)
  BY DEF Persist, Types, DocTypes
<1> HIDE DEF f
<1> SUFFICES ASSUME NEW d \in Docs
             PROVE  FeedInv(d)' /\ \A c \in Conns : OrderInv(c, d)'
  BY DEF FeedOrder
<1>3. /\ News(feed', d) = News(feed, d) \cup News1(f, d)
      /\ Rising(feed', d) <=> Rising(feed, d) /\ Before(News(feed, d), News1(f, d))
  BY <1>1, <1>2, Appended
<1>4. FeedInv(d)
  BY DEF FeedOrder
<1>5. /\ mirror'[d] \in Nat /\ mirror[d] \in Nat /\ mirror[d] <= mirror'[d]
      /\ \A n \in News1(f, d) : n = mirror[d] + 1 /\ n = mirror'[d]
  <2>1. mirror[d] \in Nat /\ mirror'[d] = IF d = d0 THEN mirror[d] + 1 ELSE mirror[d]
    BY DEF Persist, Types, DocTypes, BudgetTypes
  <2>2. News1(f, d) = IF d = d0 THEN {mirror[d] + 1} ELSE {}
    BY <1>1, UpdateNews
  <2> QED
    BY <2>1, <2>2
<1>6. /\ News(feed, d) \subseteq Nat
      /\ fan.left # {} /\ fan.doc = d => fan.ups \subseteq Nat
  <2>1. feed \in Seq(Outgoing)
    BY FrameKinds, SeqMonotonic DEF Types, DocTypes
  <2> QED
    BY <2>1, NewsNats DEF Types, DocTypes, Fin
<1>7. ASSUME NEW S \in SUBSET Nat, \A n \in S : n <= mirror[d]
      PROVE  Before(S, News1(f, d)) /\ \A n \in S : n <= mirror'[d]
  <2> SUFFICES ASSUME NEW n \in S
               PROVE  n <= mirror'[d] /\ \A m \in News1(f, d) : n < m
    BY DEF Before
  <2>1. n \in Nat /\ n <= mirror[d]
    BY <1>7
  <2>2. n <= mirror'[d]
    BY <1>5, <2>1
  <2>3. \A m \in News1(f, d) : m \in Nat /\ m = mirror[d] + 1
    BY <1>5
  <2>4. \A m \in News1(f, d) : n < m
    BY <1>5, <2>1, <2>3
  <2> QED
    BY <2>2, <2>4
<1>8. FeedInv(d)'
  <2>1. Rising(feed', d)
    BY <1>3, <1>4, <1>6, <1>7 DEF FeedInv
  <2>2. \A n \in News(feed', d) : n <= mirror'[d]
    BY <1>3, <1>4, <1>5, <1>6, <1>7 DEF FeedInv
  <2>3. ASSUME fan.left # {}, fan.doc = d
        PROVE  Before(fan.ups, News(feed', d)) /\ \A n \in fan.ups : n <= mirror'[d]
    <3>1. Before(fan.ups, News(feed, d)) /\ Before(fan.ups, News1(f, d))
      BY <1>4, <1>6, <1>7, <2>3 DEF FeedInv
    <3> QED
      BY <1>3, <1>4, <1>6, <1>7, <2>3, <3>1 DEF FeedInv, Before
  <2> QED
    BY <1>2, <2>1, <2>2, <2>3 DEF FeedInv
<1>9. ASSUME NEW c \in Conns
      PROVE  OrderInv(c, d)'
  <2>0. OrderInv(c, d) /\ Got(c, d) \subseteq Nat
    BY GotNats DEF FeedOrder, Types
  <2>1. Got(c, d)' = Got(c, d) /\ Fanned(c, d)' = Fanned(c, d)
    BY <1>2 DEF Got, Fanned
  <2>2. Before(Got(c, d), News1(f, d)) /\ \A n \in Got(c, d) : n <= mirror'[d]
    BY <1>7, <2>0 DEF OrderInv
  <2>3. Before(Got(c, d), Fanned(c, d) \cup News(feed', d))
    BY <1>3, <2>0, <2>2 DEF OrderInv, Before
  <2> QED
    BY <1>2, <2>0, <2>1, <2>2, <2>3 DEF OrderInv
<1> QED
  BY <1>8, <1>9

LEMMA TakeUpdateOrder ==
    ASSUME Types, FeedOrder, TakeUpdate
    PROVE  FeedOrder'
<1> DEFINE u == Head(feed)
<1>1. feed \in Seq(Updates) /\ feed # <<>> /\ feed' = Tail(feed) /\ u \in Updates
  BY HeadTailProperties DEF TakeUpdate, Types, DocTypes
<1>2. /\ fan'.doc = u.doc /\ fan'.ups = u.ups /\ UNCHANGED <<mirror, sub, outq, client>>
      /\ fan.left = {}
  BY DEF TakeUpdate, NoFan
<1> HIDE DEF u
<1> SUFFICES ASSUME NEW d \in Docs
             PROVE  FeedInv(d)' /\ \A c \in Conns : OrderInv(c, d)'
  BY DEF FeedOrder
<1>3. FeedInv(d)
  BY DEF FeedOrder
<1>4. /\ News(feed, d) = News1(u, d) \cup News(feed', d)
      /\ Rising(feed', d) /\ Before(News1(u, d), News(feed', d))
  BY <1>1, <1>3, Taken DEF FeedInv, u
<1>5. News1(u, d) = IF u.doc = d THEN u.ups ELSE {}
  BY <1>1, UpdateNews
<1>6. FeedInv(d)'
  <2>1. \A n \in News(feed', d) \cup News1(u, d) : n <= mirror'[d]
    BY <1>2, <1>3, <1>4 DEF FeedInv
  <2> QED
    BY <1>2, <1>4, <1>5, <2>1 DEF FeedInv
<1>7. ASSUME NEW c \in Conns
      PROVE  OrderInv(c, d)'
  <2>0. OrderInv(c, d)
    BY DEF FeedOrder
  <2>1. Fanned(c, d)' \subseteq News1(u, d)
    BY <1>2, <1>5 DEF Fanned
  <2>2. Rising(outq'[c], d) /\ News(outq'[c], d) = News(outq[c], d)
    BY <1>2, <2>0 DEF OrderInv
  <2> QED
    BY <1>2, <1>4, <2>0, <2>1, <2>2, QuietOrder
<1> QED
  BY <1>6, <1>7

LEMMA DeliverOrder ==
    ASSUME Types, FeedOrder, NEW c \in Conns, Deliver(c)
    PROVE  FeedOrder'
<1> DEFINE f == Update(fan.doc, fan.ups)
<1>1. /\ f \in Updates /\ f.doc = fan.doc /\ f.ups = fan.ups /\ c \in fan.left
      /\ UNCHANGED <<feed, mirror, outq, client>>
      /\ fan'.left = fan.left \ {c} /\ fan'.doc = fan.doc /\ fan'.ups = fan.ups
  BY FrameKinds DEF Deliver, Types, DocTypes, docs, Update
<1>2. \A k \in Conns \ {c} : sub'[k] = sub[k]
  BY DEF Deliver, Types, ConnTypes
<1>3. \/ sub'[c].pending = sub[c].pending
      \/ sub'[c].pending = Append(sub[c].pending, f)
  BY QueuesAre DEF Deliver, Types, Entries
<1> HIDE DEF f
<1> SUFFICES ASSUME NEW d \in Docs, NEW k \in Conns
             PROVE  FeedInv(d)' /\ OrderInv(k, d)'
  <2>1. ASSUME NEW d \in Docs
        PROVE  FeedInv(d)' /\ \A k \in Conns : OrderInv(k, d)'
    OBVIOUS
  <2> QED
    BY <2>1 DEF FeedOrder
<1>4. FeedInv(d) /\ OrderInv(k, d)
  BY DEF FeedOrder
<1>5. FeedInv(d)'
  BY <1>1, <1>4 DEF FeedInv
<1>6. Fanned(k, d)' \subseteq Fanned(k, d) /\ Fanned(c, d)' = {}
  BY <1>1 DEF Fanned
<1>7. CASE sub'[k].pending = sub[k].pending
  <2>1. Rising(outq'[k], d) /\ News(outq'[k], d) = News(outq[k], d)
    BY <1>1, <1>4 DEF OrderInv
  <2> QED
    BY <1>1, <1>4, <1>5, <1>6, <1>7, <2>1, QuietOrder
<1>8. CASE k = c /\ sub'[c].pending = Append(sub[c].pending, f)
  <2>1. News1(f, d) = Fanned(c, d)
    BY <1>1, UpdateNews DEF Fanned
  <2>2. /\ News(sub'[c].pending, d) = News(sub[c].pending, d) \cup Fanned(c, d)
        /\ Rising(sub'[c].pending, d) <=> Rising(sub[c].pending, d) /\ Before(News(sub[c].pending, d), Fanned(c, d))
    <3>1. sub[c].pending \in Seq(Updates)
      BY QueuesAre DEF Types
    <3> QED
      BY <1>1, <1>8, <2>1, <3>1, Appended
  <2>3. Before(Got(c, d), Fanned(c, d)) /\ Before(Got(c, d), News(feed, d))
    BY <1>4, <1>8 DEF OrderInv, Before
  <2>4. Before(Fanned(c, d), News(feed, d)) /\ \A n \in Fanned(c, d) : n <= mirror[d]
    BY <1>1, <1>4 DEF FeedInv, Fanned, Before
  <2>5. Got(c, d)' = Got(c, d) \cup Fanned(c, d)
    BY <1>1, <2>2 DEF Got
  <2>6. Rising(sub'[c].pending, d) /\ Rising(outq'[c], d)
    BY <1>1, <1>4, <1>8, <2>2, <2>3 DEF OrderInv, Got, Before
  <2>7. /\ Before(News(outq'[c], d), News(sub'[c].pending, d))
        /\ Before(client'[c].last[d], News(outq'[c], d) \cup News(sub'[c].pending, d))
    BY <1>1, <1>4, <1>8, <2>2, <2>3 DEF OrderInv, Got, Before
  <2>8. Before(Got(c, d)', Fanned(c, d)' \cup News(feed', d))
    BY <1>1, <1>6, <2>3, <2>4, <2>5 DEF Before
  <2>9. \A n \in Got(c, d)' : n <= mirror'[d]
    BY <1>1, <1>4, <1>8, <2>4, <2>5 DEF OrderInv
  <2> QED
    BY <1>5, <1>8, <2>6, <2>7, <2>8, <2>9 DEF OrderInv
<1> QED
  BY <1>2, <1>3, <1>7, <1>8

\* A flush puts in the queue what it takes from the backlog.
LEMMA TrySendOrder ==
    ASSUME Types, FanInv, FeedOrder, NEW c \in Conns, NEW frames \in Seq(Updates), TrySend(c, frames),
           \A d \in Docs : News(frames, d) = News(sub[c].pending, d) /\ Rising(frames, d),
           UNCHANGED <<feed, mirror, client>>, fan'.left = fan.left, fan'.doc = fan.doc, fan'.ups = fan.ups
    PROVE  FeedOrder'
<1>1. PICK k \in 0..Len(frames) :
        LET kept == SubSeq(frames, k + 1, Len(frames))
        IN  /\ outq' = [outq EXCEPT ![c] = @ \o SubSeq(frames, 1, k)]
            /\ sub' = [sub EXCEPT ![c].pending = kept, ![c].bytes = Weight(kept)]
            /\ Len(outq[c]) + k <= OutCap
  BY TrySendIs DEF FanInv, Weighed, Types
<1> DEFINE sent == SubSeq(frames, 1, k)
           kept == SubSeq(frames, k + 1, Len(frames))
<1>2. sent \in Seq(Updates) /\ kept \in Seq(Updates)
  BY CutFrames
<1>3. \A d \in Docs : /\ News(frames, d) = News(sent, d) \cup News(kept, d)
                      /\ Rising(sent, d) /\ Rising(kept, d) /\ Before(News(sent, d), News(kept, d))
  BY CutFrames
<1>4. /\ outq' = [outq EXCEPT ![c] = @ \o sent]
      /\ sub' = [sub EXCEPT ![c].pending = kept, ![c].bytes = Weight(kept)]
  BY <1>1
<1> HIDE DEF sent, kept
<1>5. /\ outq'[c] = outq[c] \o sent /\ sub'[c].pending = kept
      /\ \A j \in Conns \ {c} : sub'[j] = sub[j] /\ outq'[j] = outq[j]
  BY <1>4, QueuesAre DEF Types, ConnTypes, Entries
<1> SUFFICES ASSUME NEW d \in Docs, NEW j \in Conns
             PROVE  FeedInv(d)' /\ OrderInv(j, d)'
  <2>1. ASSUME NEW d \in Docs
        PROVE  FeedInv(d)' /\ \A j \in Conns : OrderInv(j, d)'
    OBVIOUS
  <2> QED
    BY <2>1 DEF FeedOrder
<1>6. FeedInv(d) /\ OrderInv(j, d)
  BY DEF FeedOrder
<1>7. FeedInv(d)'
  BY <1>6 DEF FeedInv
<1>8. Fanned(j, d)' \cup News(feed', d) \subseteq Fanned(j, d) \cup News(feed, d)
  BY DEF Fanned
<1>9. CASE j # c
  <2>1. Rising(outq'[j], d) /\ News(outq'[j], d) = News(outq[j], d)
    BY <1>5, <1>6, <1>9 DEF OrderInv
  <2> QED
    BY <1>5, <1>6, <1>7, <1>8, <1>9, <2>1, QuietOrder
<1>10. CASE j = c
  <2>1. sent \in Seq(Outgoing) /\ outq[c] \in Seq(Outgoing)
    BY <1>2, FrameKinds, SeqMonotonic, QueuesAre DEF Types
  <2>2. /\ News(outq'[c], d) = News(outq[c], d) \cup News(sent, d)
        /\ Rising(outq'[c], d) <=> Rising(outq[c], d) /\ Rising(sent, d) /\ Before(News(outq[c], d), News(sent, d))
    BY <1>5, <2>1, Joined
  <2>3. News(sub[c].pending, d) = News(sent, d) \cup News(kept, d)
    BY <1>3
  <2>4. /\ Rising(outq[c], d) /\ Before(News(outq[c], d), News(sent, d) \cup News(kept, d))
        /\ Before(client[c].last[d], News(outq[c], d) \cup News(sent, d) \cup News(kept, d))
    BY <1>6, <1>10, <2>3 DEF OrderInv, Before
  <2>5. Rising(outq'[c], d)
    BY <1>3, <2>2, <2>4 DEF Before
  <2>6. Rising(sub'[c].pending, d)
    BY <1>3, <1>5
  <2>7. Before(News(outq'[c], d), News(sub'[c].pending, d))
    BY <1>3, <1>5, <2>2, <2>4 DEF Before
  <2>8. Before(client'[c].last[d], News(outq'[c], d) \cup News(sub'[c].pending, d))
    BY <1>5, <2>2, <2>4 DEF Before
  <2>9. Got(c, d)' \subseteq Got(c, d)
    BY <1>5, <2>2, <2>3 DEF Got
  <2> QED
    BY <1>6, <1>7, <1>8, <1>10, <2>5, <2>6, <2>7, <2>8, <2>9, LessOrder
<1> QED
  BY <1>9, <1>10

LEMMA FlushOrder ==
    ASSUME Types, FanInv, FeedOrder, NEW c \in Conns, FlushDirect(c) \/ FlushMerged(c)
    PROVE  FeedOrder'
<1>1. /\ UNCHANGED <<feed, mirror, client>>
      /\ fan'.left = fan.left /\ fan'.doc = fan.doc /\ fan'.ups = fan.ups
  BY DEF FlushDirect, FlushMerged, Flushed, docs, Types, DocTypes
<1>2. sub[c].pending \in Seq(Updates) /\ \A d \in Docs : Rising(sub[c].pending, d)
  BY QueuesAre DEF Types, FeedOrder, OrderInv
<1>3. CASE TrySend(c, sub[c].pending)
  BY <1>1, <1>2, <1>3, TrySendOrder
<1>4. CASE UNCHANGED <<sub, outq>>
  <2> SUFFICES ASSUME NEW d \in Docs, NEW j \in Conns
               PROVE  FeedInv(d)' /\ OrderInv(j, d)'
    <3>1. ASSUME NEW d \in Docs
          PROVE  FeedInv(d)' /\ \A j \in Conns : OrderInv(j, d)'
      OBVIOUS
    <3> QED
      BY <3>1 DEF FeedOrder
  <2>1. FeedInv(d) /\ OrderInv(j, d)
    BY DEF FeedOrder
  <2>2. FeedInv(d)' /\ Fanned(j, d)' = Fanned(j, d)
    BY <1>1, <2>1 DEF FeedInv, Fanned
  <2>3. Rising(outq'[j], d) /\ News(outq'[j], d) = News(outq[j], d)
    BY <1>4, <2>1 DEF OrderInv
  <2> QED
    BY <1>1, <1>4, <2>1, <2>2, <2>3, QuietOrder
<1>5. CASE FlushMerged(c) /\ sub[c].tx
  <2>1. PICK order \in SetToSeqs({sub[c].pending[i].doc : i \in DOMAIN sub[c].pending}) :
          TrySend(c, [i \in DOMAIN order |-> Merged(sub[c].pending, order[i])])
    BY <1>5 DEF FlushMerged
  <2> DEFINE m == [i \in DOMAIN order |-> Merged(sub[c].pending, order[i])]
  <2>2. m \in Seq(Updates) /\ \A d : News(m, d) = News(sub[c].pending, d) /\ Rising(m, d)
    BY <1>2, MergedFrames
  <2>3. TrySend(c, m)
    BY <2>1
  <2> HIDE DEF m
  <2> QED
    BY <1>1, <2>2, <2>3, TrySendOrder
<1> QED
  BY <1>3, <1>4, <1>5 DEF FlushDirect, FlushMerged

\* Who is closed or gone gets nothing more.
LEMMA CloseOrder ==
    ASSUME Types, FeedOrder, NEW c \in Conns, CloseConn(c) \/ Finish(c)
    PROVE  FeedOrder'
<1>1. /\ UNCHANGED <<feed, mirror, client>>
      /\ fan'.left = fan.left /\ fan'.doc = fan.doc /\ fan'.ups = fan.ups
      /\ sub'[c].pending = <<>> /\ (outq'[c] = outq[c] \/ outq'[c] = <<>>)
      /\ \A j \in Conns \ {c} : sub'[j] = sub[j] /\ outq'[j] = outq[j]
  <2>1. /\ UNCHANGED <<feed, mirror, client>>
        /\ fan'.left = fan.left /\ fan'.doc = fan.doc /\ fan'.ups = fan.ups
    BY DEF CloseConn, Finish, Flushed, docs, Types, DocTypes
  <2>2. sub' = [sub EXCEPT ![c] = NoSub] /\ NoSub.pending = <<>>
    BY DEF CloseConn, Finish, NoSub
  <2>3. UNCHANGED outq \/ outq' = [outq EXCEPT ![c] = <<>>]
    BY DEF CloseConn, Finish
  <2>4. sub'[c].pending = <<>> /\ \A j \in Conns \ {c} : sub'[j] = sub[j]
    BY <2>2, QueuesAre DEF Types
  <2>5. (outq'[c] = outq[c] \/ outq'[c] = <<>>) /\ \A j \in Conns \ {c} : outq'[j] = outq[j]
    BY <2>3 DEF Types, ConnTypes
  <2> QED
    BY <2>1, <2>4, <2>5
<1> SUFFICES ASSUME NEW d \in Docs, NEW j \in Conns
             PROVE  FeedInv(d)' /\ OrderInv(j, d)'
  <2>1. ASSUME NEW d \in Docs
        PROVE  FeedInv(d)' /\ \A j \in Conns : OrderInv(j, d)'
    OBVIOUS
  <2> QED
    BY <2>1 DEF FeedOrder
<1>2. FeedInv(d) /\ OrderInv(j, d)
  BY DEF FeedOrder
<1>3. FeedInv(d)' /\ Fanned(j, d)' = Fanned(j, d)
  BY <1>1, <1>2 DEF FeedInv, Fanned
<1>4. News(<<>>, d) = {} /\ Rising(<<>>, d)
  BY NoNews
<1>5. CASE j # c
  <2>1. Rising(outq'[j], d) /\ News(outq'[j], d) = News(outq[j], d)
    BY <1>1, <1>2, <1>5 DEF OrderInv
  <2> QED
    BY <1>1, <1>2, <1>3, <1>5, <2>1, QuietOrder
<1>6. CASE j = c
  <2>1. Rising(outq'[c], d) /\ News(outq'[c], d) \subseteq News(outq[c], d)
    BY <1>1, <1>2, <1>4, <1>6 DEF OrderInv
  <2>2. News(sub'[c].pending, d) = {} /\ Rising(sub'[c].pending, d)
    BY <1>1, <1>4
  <2>3. Before(News(outq'[c], d), {}) /\ Before(client'[c].last[d], News(outq'[c], d) \cup {})
    BY <1>1, <1>2, <1>6, <2>1 DEF OrderInv, Before
  <2>4. Got(c, d)' \subseteq Got(c, d)
    BY <1>1, <2>1, <2>2 DEF Got
  <2> QED
    BY <1>1, <1>2, <1>3, <1>6, <2>1, <2>2, <2>3, <2>4, LessOrder
<1> QED
  BY <1>5, <1>6

LEMMA ReceiveOrder ==
    ASSUME Types, FeedOrder, NEW c \in Conns, Receive(c)
    PROVE  FeedOrder'
<1> DEFINE f == Head(outq[c])
<1>1. /\ UNCHANGED <<feed, mirror, fan, sub>> /\ outq'[c] = Tail(outq[c])
      /\ outq[c] \in Seq(Outgoing) /\ outq[c] # <<>> /\ f \in Outgoing
      /\ \A j \in Conns \ {c} : client'[j] = client[j] /\ outq'[j] = outq[j]
  BY HeadTailProperties DEF Receive, docs, Types, ConnTypes
<1>2. ASSUME NEW d \in Docs
      PROVE  \/ client'[c].last[d] = client[c].last[d]
             \/ client'[c].last[d] = f.ups /\ f.kind = "update" /\ f.doc = d
  <2>1. CASE UNCHANGED client
    BY <2>1
  <2>2. CASE ~UNCHANGED client
    <3>1. f.kind \in {"update", "snapshot"}
      BY <2>2 DEF Receive
    <3>2. f.doc \in Docs /\ f.ups \in SUBSET Nat
      BY <1>1, <3>1, FrameKinds
    <3>3. client' = [client EXCEPT ![c].saw[f.doc] = @ \cup f.ups,
                                   ![c].last[f.doc] = IF f.kind = "update" THEN f.ups ELSE @]
      BY <2>2 DEF Receive
    <3> HIDE DEF f
    <3>4. client'[c].last[d] = IF d = f.doc /\ f.kind = "update" THEN f.ups ELSE client[c].last[d]
      BY <3>2, <3>3 DEF Types, ConnTypes
    <3> QED
      BY <3>4
  <2> QED
    BY <2>1, <2>2
<1> HIDE DEF f
<1> SUFFICES ASSUME NEW d \in Docs, NEW j \in Conns
             PROVE  FeedInv(d)' /\ OrderInv(j, d)'
  <2>1. ASSUME NEW d \in Docs
        PROVE  FeedInv(d)' /\ \A j \in Conns : OrderInv(j, d)'
    OBVIOUS
  <2> QED
    BY <2>1 DEF FeedOrder
<1>3. FeedInv(d) /\ OrderInv(j, d)
  BY DEF FeedOrder
<1>4. FeedInv(d)' /\ Fanned(j, d)' = Fanned(j, d)
  BY <1>1, <1>3 DEF FeedInv, Fanned
<1>5. CASE j # c
  <2>1. Rising(outq'[j], d) /\ News(outq'[j], d) = News(outq[j], d)
    BY <1>1, <1>3, <1>5 DEF OrderInv
  <2> QED
    BY <1>1, <1>3, <1>4, <1>5, <2>1, QuietOrder
<1>6. CASE j = c
  <2>1. /\ News(outq[c], d) = News1(f, d) \cup News(outq'[c], d)
        /\ Rising(outq'[c], d) /\ Before(News1(f, d), News(outq'[c], d))
    BY <1>1, <1>3, <1>6, Taken DEF OrderInv, f
  <2>2. client'[c].last[d] = client[c].last[d] \/ client'[c].last[d] = News1(f, d)
    BY <1>2 DEF News1
  <2>3. Before(News(outq'[c], d), News(sub[c].pending, d)) /\ Before(News1(f, d), News(sub[c].pending, d))
    BY <1>3, <1>6, <2>1 DEF OrderInv, Before
  <2>4. Before(client[c].last[d], News(outq'[c], d) \cup News(sub[c].pending, d))
    BY <1>3, <1>6, <2>1 DEF OrderInv, Before
  <2>5. Before(client'[c].last[d], News(outq'[c], d) \cup News(sub[c].pending, d))
    BY <2>1, <2>2, <2>3, <2>4 DEF Before
  <2>6. Got(c, d)' \subseteq Got(c, d)
    BY <1>1, <2>1, <2>2 DEF Got
  <2>7. Rising(sub'[c].pending, d) /\ mirror'[d] = mirror[d] /\ sub'[c].pending = sub[c].pending
    BY <1>1, <1>3, <1>6 DEF OrderInv
  <2> QED
    BY <1>1, <1>3, <1>4, <1>6, <2>1, <2>3, <2>5, <2>6, <2>7, LessOrder
<1> QED
  BY <1>5, <1>6

LEMMA QuietOrders ==
    ASSUME Types, FeedOrder,
           \/ \E d \in Docs : Ephemeral(d)
           \/ \E c \in Conns : SignalClose(c) \/ WorkSend(c)
           \/ Publish
    PROVE  FeedOrder'
<1>1. UNCHANGED <<feed, mirror, fan, sub, client>>
  BY DEF Ephemeral, SignalClose, WorkSend, Publish, docs
<1>2. ASSUME NEW k \in Conns
      PROVE  outq'[k] = outq[k] \/ \E f \in Outgoing : f.kind # "update" /\ outq'[k] = Append(outq[k], f)
  <2>1. CASE \E d \in Docs : Ephemeral(d)
    BY <2>1, FrameKinds DEF Ephemeral
  <2>2. CASE \E c \in Conns : SignalClose(c)
    BY <2>2, FrameKinds DEF SignalClose, Types, ConnTypes
  <2>3. ASSUME NEW c \in Conns, WorkSend(c)
        PROVE  outq'[k] = outq[k] \/ \E f \in Outgoing : f.kind # "update" /\ outq'[k] = Append(outq[k], f)
    <3> DEFINE f == Head(work[c]).frame
    <3>1. f \in Outgoing /\ f.kind # "update"
      BY <2>3, OpsAre, FrameKinds, HeadTailProperties DEF WorkSend, Step, Types, LoopTypes
    <3>2. outq'[k] = IF k = c THEN Append(outq[c], f) ELSE outq[k]
      BY <2>3 DEF WorkSend, Types, ConnTypes
    <3> HIDE DEF f
    <3> QED
      BY <3>1, <3>2
  <2>4. CASE Publish
    <3> DEFINE f == Answer(publish.prompt)
    <3>1. f \in Outgoing /\ f.kind # "update"
      BY <2>4, FrameKinds DEF Publish, Types, CommandTypes
    <3>2. outq'[k] = outq[k] \/ outq'[k] = Append(outq[k], f)
      BY <2>4 DEF Publish, Types, ConnTypes
    <3> HIDE DEF f
    <3> QED
      BY <3>1, <3>2
  <2> QED
    BY <2>1, <2>2, <2>3, <2>4
<1> QED
  BY <1>1, <1>2, QuietStep

LEMMA NextOrder ==
    ASSUME Types, FanInv, FeedOrder, [Next]_vars
    PROVE  FeedOrder'
<1>1. ASSUME UNCHANGED <<feed, mirror, fan, outq>>,
             \A c \in Conns : sub'[c].pending = sub[c].pending /\ client'[c].last = client[c].last
      PROVE  FeedOrder'
  BY <1>1, QuietStep
<1>2. CASE UNCHANGED vars
  BY <1>1, <1>2 DEF vars, docs
<1>3. CASE \E d \in Docs : Persist(d) \/ Ephemeral(d)
  BY <1>3, PersistOrder, QuietOrders
<1>4. CASE FanOutTask
  BY <1>4, TakeUpdateOrder, DeliverOrder, FlushOrder, CloseOrder DEF FanOutTask
<1>5. CASE Executor
  BY <1>1, <1>5, QuietOrders DEF Executor, Conclude, Published, docs
<1>6. ASSUME NEW c \in Conns, (\E d \in Docs : Unsubscribe(c, d)) \/ WorkSubscribe(c) \/ Leave(c)
      PROVE  FeedOrder'
  <2>1. UNCHANGED <<feed, mirror, fan, outq>>
    BY <1>6 DEF Unsubscribe, WorkSubscribe, Leave, docs
  <2>2. \A k \in Conns : sub'[k].pending = sub[k].pending /\ client'[k].last = client[k].last
    <3>1. sub \in [Conns -> Entries] /\ client \in [Conns -> Clients]
      BY QueuesAre DEF Types, ConnTypes, Clients
    <3>2. CASE WorkSubscribe(c)
      BY <3>1, <3>2 DEF WorkSubscribe, Entries
    <3>3. CASE \E d \in Docs : Unsubscribe(c, d)
      <4>1. PICK d \in Docs : UNCHANGED sub \/ sub' = [sub EXCEPT ![c].docs = @ \ {d}]
        BY <3>3 DEF Unsubscribe
      <4>2. UNCHANGED client
        BY <3>3 DEF Unsubscribe
      <4> QED
        BY <3>1, <4>1, <4>2 DEF Entries
    <3>4. CASE Leave(c)
      BY <3>1, <3>4 DEF Leave, Clients
    <3> QED
      BY <1>6, <3>2, <3>3, <3>4
  <2> QED
    BY <1>1, <2>1, <2>2
<1>7. ASSUME NEW c \in Conns, Loop(c)
      PROVE  FeedOrder'
  BY <1>1, <1>6, <1>7, QuietOrders, ReceiveOrder, CloseOrder
     DEF Loop, Work, WorkSnapshot, WorkFlush, WorkEnd, WorkAct, ReadError, docs
<1>8. ASSUME NEW c \in Conns, FromClient(c) \/ Tick(c) \/ SignalClose(c)
      PROVE  FeedOrder'
  <2>1. CASE UNCHANGED <<feed, mirror, fan, outq, sub, client>>
    BY <1>1, <2>1
  <2> QED
    BY <1>6, <1>8, <2>1, QuietOrders DEF FromClient, Subscribe, Action, Reply, Tick, Handle, docs
<1> QED
  BY <1>2, <1>3, <1>4, <1>5, <1>7, <1>8 DEF Next

-----------------------------------------------------------------------------
(* The views of the clients. *)

LEMMA RangeJoined ==
    ASSUME NEW S, NEW s \in Seq(S), NEW t \in Seq(S)
    PROVE  Range(s \o t) = Range(s) \cup Range(t)
<1> DEFINE u == s \o t
<1>1. /\ Len(s) \in Nat /\ Len(t) \in Nat /\ DOMAIN s = 1..Len(s) /\ DOMAIN t = 1..Len(t)
      /\ DOMAIN u = 1..(Len(s) + Len(t))
      /\ \A i \in 1..(Len(s) + Len(t)) : u[i] = IF i <= Len(s) THEN s[i] ELSE t[i - Len(s)]
  BY ConcatProperties, LenProperties
<1> HIDE DEF u
<1>2. ASSUME NEW e \in Range(u)
      PROVE  e \in Range(s) \cup Range(t)
  <2>1. PICK i \in 1..(Len(s) + Len(t)) : u[i] = e
    BY <1>1 DEF Range
  <2>2. CASE i <= Len(s)
    BY <1>1, <2>1, <2>2 DEF Range
  <2>3. CASE ~(i <= Len(s))
    <3>1. i - Len(s) \in 1..Len(t) /\ t[i - Len(s)] = e
      BY <1>1, <2>1, <2>3
    <3> QED
      BY <1>1, <3>1 DEF Range
  <2> QED
    BY <2>2, <2>3
<1>3. ASSUME NEW e \in Range(s)
      PROVE  e \in Range(u)
  <2>1. PICK i \in 1..Len(s) : s[i] = e
    BY <1>1 DEF Range
  <2>2. i \in 1..(Len(s) + Len(t)) /\ u[i] = e
    BY <1>1, <2>1
  <2> QED
    BY <1>1, <2>2 DEF Range
<1>4. ASSUME NEW e \in Range(t)
      PROVE  e \in Range(u)
  <2>1. PICK i \in 1..Len(t) : t[i] = e
    BY <1>1 DEF Range
  <2>2. Len(s) + i \in 1..(Len(s) + Len(t)) /\ u[Len(s) + i] = e
    BY <1>1, <2>1
  <2> QED
    BY <1>1, <2>2 DEF Range
<1> QED
  BY <1>2, <1>3, <1>4 DEF u

LEMMA RangeAppended ==
    ASSUME NEW S, NEW s \in Seq(S), NEW e \in S
    PROVE  Range(Append(s, e)) = Range(s) \cup {e}
<1> DEFINE t == Append(s, e)
<1>1. /\ Len(s) \in Nat /\ DOMAIN s = 1..Len(s) /\ DOMAIN t = 1..(Len(s) + 1)
      /\ t[Len(s) + 1] = e /\ \A i \in 1..Len(s) : t[i] = s[i]
  BY AppendProperties, LenProperties
<1> HIDE DEF t
<1>2. 1..(Len(s) + 1) = (1..Len(s)) \cup {Len(s) + 1}
  BY <1>1
<1> QED
  BY <1>1, <1>2 DEF Range, t

LEMMA RangeTaken ==
    ASSUME NEW S, NEW s \in Seq(S), s # <<>>
    PROVE  Range(s) = {Head(s)} \cup Range(Tail(s))
<1> DEFINE t == Tail(s)
<1>1. /\ Len(s) \in Nat /\ Len(s) > 0 /\ DOMAIN s = 1..Len(s) /\ Head(s) = s[1]
      /\ DOMAIN t = 1..(Len(s) - 1) /\ \A i \in 1..(Len(s) - 1) : t[i] = s[i + 1]
  BY HeadTailProperties, LenProperties, EmptySeq
<1> HIDE DEF t
<1>2. ASSUME NEW e \in Range(s)
      PROVE  e \in {Head(s)} \cup Range(t)
  <2>1. PICK i \in 1..Len(s) : s[i] = e
    BY <1>1 DEF Range
  <2>2. CASE i = 1
    BY <1>1, <2>1, <2>2
  <2>3. CASE i # 1
    <3>1. i - 1 \in 1..(Len(s) - 1) /\ t[i - 1] = e
      BY <1>1, <2>1, <2>3
    <3> QED
      BY <1>1, <3>1 DEF Range
  <2> QED
    BY <2>2, <2>3
<1>3. ASSUME NEW e \in Range(t)
      PROVE  e \in Range(s)
  <2>1. PICK i \in 1..(Len(s) - 1) : t[i] = e
    BY <1>1 DEF Range
  <2>2. i + 1 \in 1..Len(s) /\ s[i + 1] = e
    BY <1>1, <2>1
  <2> QED
    BY <1>1, <2>2 DEF Range
<1>4. Head(s) \in Range(s)
  BY <1>1 DEF Range
<1> QED
  BY <1>2, <1>3, <1>4 DEF t

LEMMA ContainsRange ==
    ASSUME NEW S, NEW s \in Seq(S), NEW e
    PROVE  Contains(s, e) <=> e \in Range(s)
<1>1. DOMAIN s = 1..Len(s)
  BY LenProperties
<1> QED
  BY <1>1 DEF Contains, Range

\* The snapshots that the rest of a handler sends.
Posted1(o, d) == IF o.op = "send" /\ o.frame.kind = "snapshot" /\ o.frame.doc = d THEN o.frame.ups ELSE {}
Posted(w, d) == UNION {Posted1(o, d) : o \in Range(w)}

LEMMA PostedIs ==
    ASSUME NEW w, NEW d
    PROVE  Contents({f \in {w[i].frame : i \in {j \in DOMAIN w : w[j].op = "send"}} :
                        f.kind = "snapshot" /\ f.doc = d}) = Posted(w, d)
<1> DEFINE A == Contents({f \in {w[i].frame : i \in {j \in DOMAIN w : w[j].op = "send"}} :
                            f.kind = "snapshot" /\ f.doc = d})
<1>1. ASSUME NEW n \in A
      PROVE  n \in Posted(w, d)
  <2>1. PICK i \in DOMAIN w : /\ w[i].op = "send" /\ w[i].frame.kind = "snapshot"
                              /\ w[i].frame.doc = d /\ n \in w[i].frame.ups
    BY DEF Contents
  <2>2. w[i] \in Range(w) /\ n \in Posted1(w[i], d)
    BY <2>1 DEF Range, Posted1
  <2> QED
    BY <2>2 DEF Posted
<1>2. ASSUME NEW n \in Posted(w, d)
      PROVE  n \in A
  <2>1. PICK i \in DOMAIN w : n \in Posted1(w[i], d)
    BY DEF Posted, Range
  <2>2. /\ w[i].op = "send" /\ w[i].frame.kind = "snapshot"
        /\ w[i].frame.doc = d /\ n \in w[i].frame.ups
    BY <2>1 DEF Posted1
  <2> QED
    BY <2>2 DEF Contents
<1> QED
  BY <1>1, <1>2

\* All that is known of d where a client may see it, or will.
Reached(c, d) ==
    client[c].saw[d] \cup View(feed, d) \cup View(outq[c], d) \cup View(sub[c].pending, d)
        \cup Posted(work[c], d) \cup Fanned(c, d) \cup gap[c][d]

LEMMA PathIs ==
    ASSUME NEW q \in Seq(Outgoing), NEW p \in Seq(Updates), NEW d
    PROVE  Contents(Frames(q \o p, d)) = View(q, d) \cup View(p, d)
<1>1. p \in Seq(Outgoing)
  BY FrameKinds, SeqMonotonic
<1>2. View(q \o p, d) = View(q, d) \cup View(p, d)
  BY <1>1, Joined
<1> QED
  BY <1>2 DEF View

LEMMA ViewIs ==
    ASSUME Types, NEW c \in Conns, NEW d \in Docs
    PROVE  ViewInv(c, d) <=> (Healthy(c) /\ Attaches(c, d) => 1..mirror[d] \subseteq Reached(c, d))
<1>1. Contents(Frames(outq[c] \o sub[c].pending, d)) = View(outq[c], d) \cup View(sub[c].pending, d)
  BY QueuesAre, PathIs DEF Types
<1>2. Contents({f \in Sends(c) : f.kind = "snapshot" /\ f.doc = d}) = Posted(work[c], d)
  BY PostedIs DEF Sends
<1>3. FannedOut(d) = (1..mirror[d]) \ View(feed, d)
  BY DEF FannedOut, View
<1>4. Held(c, d) = client[c].saw[d] \cup (View(outq[c], d) \cup View(sub[c].pending, d))
                     \cup Posted(work[c], d) \cup Fanned(c, d)
  BY <1>1, <1>2 DEF Held, Fanned
<1> QED
  BY <1>3, <1>4 DEF ViewInv, Reached

LEMMA ViewIsNext ==
    ASSUME Types', NEW c \in Conns, NEW d \in Docs
    PROVE  ViewInv(c, d)' <=> (Healthy(c)' /\ Attaches(c, d)' => 1..mirror'[d] \subseteq Reached(c, d)')
<1>1. Contents(Frames(outq'[c] \o sub'[c].pending, d)) = View(outq'[c], d) \cup View(sub'[c].pending, d)
  <2>1. outq'[c] \in Seq(Outgoing) /\ sub'[c].pending \in Seq(Updates)
    BY DEF Types, ConnTypes
  <2> QED
    BY <2>1, PathIs
<1>2. Contents({f \in Sends(c)' : f.kind = "snapshot" /\ f.doc = d}) = Posted(work'[c], d)
  BY PostedIs DEF Sends
<1>3. FannedOut(d)' = (1..mirror'[d]) \ View(feed', d)
  BY DEF FannedOut, View
<1>4. Held(c, d)' = client'[c].saw[d] \cup (View(outq'[c], d) \cup View(sub'[c].pending, d))
                     \cup Posted(work'[c], d) \cup Fanned(c, d)'
  BY <1>1, <1>2 DEF Held, Fanned
<1> QED
  BY <1>3, <1>4 DEF ViewInv, Reached

\* Nothing that was on its way to an attached client is lost.
LEMMA Reaches ==
    ASSUME Types, Types', NEW c \in Conns, NEW d \in Docs, ViewInv(c, d), mirror'[d] = mirror[d],
           Healthy(c)' /\ Attaches(c, d)' =>
               Healthy(c) /\ Attaches(c, d) /\ Reached(c, d) \subseteq Reached(c, d)'
    PROVE  ViewInv(c, d)'
BY ViewIs, ViewIsNext

LEMMA SameView ==
    ASSUME Types, Types', NEW c \in Conns, NEW d \in Docs, ViewInv(c, d), mirror'[d] = mirror[d],
           at'[c] = at[c] \/ at'[c] = "finish", closing'[c] = closing[c],
           outq'[c] = outq[c], client'[c] = client[c], sub'[c] = sub[c], work'[c] = work[c],
           View(feed, d) \cup Fanned(c, d) \cup gap[c][d]
               \subseteq View(feed', d) \cup Fanned(c, d)' \cup gap'[c][d]
    PROVE  ViewInv(c, d)'
<1>1. Healthy(c)' => Healthy(c)
  BY DEF Healthy
<1>2. Attaches(c, d)' => Attaches(c, d)
  BY DEF Attaches
<1>3. Reached(c, d) \subseteq Reached(c, d)'
  BY DEF Reached
<1> QED
  BY <1>1, <1>2, <1>3, Reaches

Whole == \A c \in Conns, d \in Docs : ViewInv(c, d)

\* Of a connection, nothing but the queue gets longer.
LEMMA LongerView ==
    ASSUME Types, Types', NEW c \in Conns, NEW d \in Docs, ViewInv(c, d),
           UNCHANGED <<mirror, feed, fan, client, sub, work, gap, at>>,
           closing'[c] = 0 => closing[c] = 0,
           NEW f \in Outgoing, outq'[c] = outq[c] \/ outq'[c] = Append(outq[c], f)
    PROVE  ViewInv(c, d)'
<1> DEFINE q == outq[c]
<1>1. q \in Seq(Outgoing) /\ outq'[c] \in Seq(Outgoing)
  BY DEF Types, ConnTypes
<1> HIDE DEF q
<1>2. View(q, d) \subseteq View(outq'[c], d) /\ Range(q) \subseteq Range(outq'[c])
  <2>1. View(Append(q, f), d) = View(q, d) \cup View1(f, d)
    BY <1>1, Appended
  <2>2. Range(Append(q, f)) = Range(q) \cup {f}
    BY <1>1, RangeAppended
  <2> QED
    BY <2>1, <2>2 DEF q
<1>3. Healthy(c)' => Healthy(c)
  BY <1>1, <1>2, ContainsRange DEF Healthy, q
<1>4. Attaches(c, d)' => Attaches(c, d)
  BY DEF Attaches
<1>5. Reached(c, d) \subseteq Reached(c, d)'
  BY <1>2 DEF Reached, Fanned, q
<1> QED
  BY <1>3, <1>4, <1>5, Reaches

LEMMA InitView == Init => Whole
<1> SUFFICES ASSUME Init, NEW c \in Conns, NEW d \in Docs
             PROVE  ViewInv(c, d)
  BY DEF Whole
<1>1. mirror[d] = 0
  BY DEF Init
<1>2. 1..0 = {}
  OBVIOUS
<1> QED
  BY <1>1, <1>2 DEF ViewInv, FannedOut

LEMMA PersistView ==
    ASSUME Types, Types', Whole, NEW d0 \in Docs, Persist(d0)
    PROVE  Whole'
<1> SUFFICES ASSUME NEW c \in Conns, NEW d \in Docs
             PROVE  ViewInv(c, d)'
  BY DEF Whole
<1> DEFINE f == Update(d0, {mirror[d0] + 1})
<1>1. mirror[d0] \in Nat /\ mirror[d] \in Nat /\ f \in Updates /\ f.doc = d0 /\ f.ups = {mirror[d0] + 1}
  <2>1. mirror[d0] \in Nat /\ mirror[d] \in Nat
    BY DEF Types, DocTypes, BudgetTypes
  <2>2. {mirror[d0] + 1} \in Fin
    <3>1. IsFiniteSet({mirror[d0] + 1})
      BY FS_Singleton
    <3> QED
      BY <2>1, <3>1 DEF Fin
  <2> QED
    BY <2>1, <2>2, FrameKinds DEF Update
<1>2. /\ feed' = Append(feed, f) /\ feed \in Seq(Updates)
      /\ UNCHANGED <<fan, sub, outq, client, at, work, closing, gap>>
      /\ mirror'[d] = IF d = d0 THEN mirror[d] + 1 ELSE mirror[d]
  BY DEF Persist, Types, DocTypes, loops, history
<1> HIDE DEF f
<1>3. View(feed', d) = View(feed, d) \cup View1(f, d)
  BY <1>1, <1>2, Appended
<1>4. View1(f, d) = IF d = d0 THEN {mirror[d] + 1} ELSE {}
  BY <1>1, UpdateNews
<1>5. (Healthy(c)' => Healthy(c)) /\ (Attaches(c, d)' => Attaches(c, d))
  BY <1>2 DEF Healthy, Attaches
<1>6. Reached(c, d)' = Reached(c, d) \cup View1(f, d)
  BY <1>2, <1>3 DEF Reached, Fanned
<1>7. 1..mirror'[d] \subseteq (1..mirror[d]) \cup View1(f, d)
  BY <1>1, <1>2, <1>4
<1>8. ViewInv(c, d)
  BY DEF Whole
<1> QED
  BY <1>5, <1>6, <1>7, <1>8, ViewIs, ViewIsNext

LEMMA TakeUpdateView ==
    ASSUME Types, Types', Whole, TakeUpdate
    PROVE  Whole'
<1> SUFFICES ASSUME NEW c \in Conns, NEW d \in Docs
             PROVE  ViewInv(c, d)'
  BY DEF Whole
<1> DEFINE u == Head(feed)
           targets == {k \in Conns : u.doc \in sub[k].docs}
<1>1. feed \in Seq(Updates) /\ feed # <<>> /\ feed' = Tail(feed) /\ u \in Updates
  BY HeadTailProperties DEF TakeUpdate, Types, DocTypes
<1>2. /\ fan'.doc = u.doc /\ fan'.ups = u.ups /\ fan'.left = targets /\ fan.left = {}
      /\ UNCHANGED <<mirror, sub, outq, client, at, work, closing>>
      /\ gap' = [k \in Conns |-> IF k \in targets THEN gap[k]
                                 ELSE [gap[k] EXCEPT ![u.doc] = @ \cup u.ups]]
  BY DEF TakeUpdate, NoFan, loops
<1>3. View(feed, d) = View1(u, d) \cup View(feed', d)
  BY <1>1, Taken
<1> HIDE DEF u
<1>4. View1(u, d) = IF u.doc = d THEN u.ups ELSE {}
  BY <1>1, UpdateNews
<1>5. gap'[c][d] = IF c \in targets \/ u.doc # d THEN gap[c][d] ELSE gap[c][d] \cup u.ups
  <2> HIDE DEF targets
  <2> QED
    BY <1>2 DEF Types, ConnTypes
<1> HIDE DEF targets
<1>6. Fanned(c, d) = {} /\ Fanned(c, d)' = IF c \in targets /\ u.doc = d THEN u.ups ELSE {}
  BY <1>2 DEF Fanned
<1>7. View(feed, d) \cup Fanned(c, d) \cup gap[c][d]
        \subseteq View(feed', d) \cup Fanned(c, d)' \cup gap'[c][d]
  BY <1>3, <1>4, <1>5, <1>6
<1>8. ViewInv(c, d)
  BY DEF Whole
<1> QED
  BY <1>2, <1>7, <1>8, SameView

LEMMA DeliverView ==
    ASSUME Types, Types', FanInv, Whole, NEW c \in Conns, Deliver(c)
    PROVE  Whole'
<1> SUFFICES ASSUME NEW k \in Conns, NEW d \in Docs
             PROVE  ViewInv(k, d)'
  BY DEF Whole
<1> DEFINE f == Update(fan.doc, fan.ups)
<1>1. /\ f \in Updates /\ f.doc = fan.doc /\ f.ups = fan.ups /\ c \in fan.left
      /\ UNCHANGED <<feed, mirror, outq, client, at, work, closing, gap>>
      /\ fan'.left = fan.left \ {c} /\ fan'.doc = fan.doc /\ fan'.ups = fan.ups
  BY FrameKinds DEF Deliver, Types, DocTypes, docs, loops, history, Update
<1>2. /\ \A j \in Conns \ {c} : sub'[j] = sub[j]
      /\ sub'[c].docs = sub[c].docs
      /\ sub[c].tx => sub'[c].pending = Append(sub[c].pending, f)
  <2>1. sub \in [Conns -> Entries] /\ sub[c] \in Entries
    BY QueuesAre DEF Types
  <2>2. CASE ~sub[c].tx
    BY <2>2 DEF Deliver
  <2>3. CASE sub[c].tx
    <3> DEFINE p == Append(sub[c].pending, f)
               b == sub[c].bytes + Cardinality(fan.ups)
    <3>1. sub' = [sub EXCEPT ![c].pending = p, ![c].bytes = b]
      BY <2>3 DEF Deliver
    <3> HIDE DEF p, b
    <3>2. /\ \A j \in Conns \ {c} : sub'[j] = sub[j]
          /\ sub'[c].docs = sub[c].docs /\ sub'[c].pending = p
      BY <2>1, <3>1 DEF Entries
    <3> QED
      BY <3>2 DEF p
  <2> QED
    BY <2>2, <2>3
<1> HIDE DEF f
<1>3. ViewInv(k, d)
  BY DEF Whole
<1>4. CASE k # c
  <2>1. Fanned(k, d)' = Fanned(k, d)
    BY <1>1, <1>4 DEF Fanned
  <2> QED
    BY <1>1, <1>2, <1>3, <1>4, <2>1, SameView
<1>5. CASE k = c
  <2>1. Healthy(c)' => sub[c].tx /\ Healthy(c)
    BY <1>1 DEF Healthy, FanInv, Entered, Chosen
  <2>2. Attaches(c, d)' => Attaches(c, d)
    BY <1>1, <1>2 DEF Attaches
  <2>3. sub[c].tx => View(sub'[c].pending, d) = View(sub[c].pending, d) \cup Fanned(c, d)
    <3>1. sub[c].pending \in Seq(Updates)
      BY QueuesAre DEF Types
    <3>2. View(Append(sub[c].pending, f), d) = View(sub[c].pending, d) \cup View1(f, d)
      BY <1>1, <3>1, Appended
    <3>3. View1(f, d) = Fanned(c, d)
      BY <1>1, UpdateNews DEF Fanned
    <3> QED
      BY <1>2, <3>2, <3>3
  <2>4. sub[c].tx => Reached(c, d) \subseteq Reached(c, d)'
    BY <1>1, <2>3 DEF Reached
  <2> QED
    BY <1>1, <1>3, <1>5, <2>1, <2>2, <2>4, Reaches
<1> QED
  BY <1>4, <1>5

LEMMA TrySendView ==
    ASSUME Types, Types', FanInv, Whole, NEW c \in Conns, NEW frames \in Seq(Updates), TrySend(c, frames),
           \A d \in Docs : News(frames, d) = News(sub[c].pending, d),
           UNCHANGED <<feed, mirror, client, at, work, closing, gap>>,
           fan'.left = fan.left, fan'.doc = fan.doc, fan'.ups = fan.ups
    PROVE  Whole'
<1>1. PICK n \in 0..Len(frames) :
        LET kept == SubSeq(frames, n + 1, Len(frames))
        IN  /\ outq' = [outq EXCEPT ![c] = @ \o SubSeq(frames, 1, n)]
            /\ sub' = [sub EXCEPT ![c].pending = kept, ![c].bytes = Weight(kept)]
            /\ Len(outq[c]) + n <= OutCap
  BY TrySendIs DEF FanInv, Weighed, Types
<1> DEFINE sent == SubSeq(frames, 1, n)
           kept == SubSeq(frames, n + 1, Len(frames))
<1>2. sent \in Seq(Updates) /\ kept \in Seq(Updates)
  BY CutFrames
<1>3. \A d \in Docs : View(frames, d) = View(sent, d) \cup View(kept, d)
  BY CutFrames
<1>4. /\ outq' = [outq EXCEPT ![c] = @ \o sent]
      /\ sub' = [sub EXCEPT ![c].pending = kept, ![c].bytes = Weight(kept)]
  BY <1>1
<1> HIDE DEF sent, kept
<1>5. /\ outq'[c] = outq[c] \o sent /\ sub'[c].pending = kept /\ sub'[c].docs = sub[c].docs
      /\ \A j \in Conns \ {c} : sub'[j] = sub[j] /\ outq'[j] = outq[j]
  BY <1>4, QueuesAre DEF Types, ConnTypes, Entries
<1> SUFFICES ASSUME NEW k \in Conns, NEW d \in Docs
             PROVE  ViewInv(k, d)'
  BY DEF Whole
<1>6. ViewInv(k, d) /\ Fanned(k, d)' = Fanned(k, d)
  BY DEF Whole, Fanned
<1>7. CASE k # c
  BY <1>5, <1>6, <1>7, SameView
<1>8. CASE k = c
  <2>1. sent \in Seq(Outgoing) /\ outq[c] \in Seq(Outgoing) /\ outq'[c] \in Seq(Outgoing)
    BY <1>2, FrameKinds, SeqMonotonic, QueuesAre DEF Types, ConnTypes
  <2>2. View(outq'[c], d) = View(outq[c], d) \cup View(sent, d)
    BY <1>5, <2>1, Joined
  <2>3. Range(outq'[c]) = Range(outq[c]) \cup Range(sent)
    BY <1>5, <2>1, RangeJoined
  <2>4. View(sub[c].pending, d) = View(sent, d) \cup View(kept, d)
    <3>1. sub[c].pending \in Seq(Updates)
      BY QueuesAre DEF Types
    <3>2. View(sub[c].pending, d) = News(sub[c].pending, d) /\ View(frames, d) = News(frames, d)
      BY <3>1, ViewIsNews
    <3> QED
      BY <1>3, <3>2
  <2>5. Healthy(c)' => Healthy(c)
    BY <2>1, <2>3, ContainsRange DEF Healthy
  <2>6. Attaches(c, d)' => Attaches(c, d)
    BY <1>5 DEF Attaches
  <2>7. Reached(c, d) \subseteq Reached(c, d)'
    BY <1>5, <1>6, <1>8, <2>2, <2>4 DEF Reached
  <2> QED
    BY <1>6, <1>8, <2>5, <2>6, <2>7, Reaches
<1> QED
  BY <1>7, <1>8

LEMMA FlushView ==
    ASSUME Types, Types', FanInv, Whole, NEW c \in Conns, FlushDirect(c) \/ FlushMerged(c)
    PROVE  Whole'
<1>1. /\ UNCHANGED <<feed, mirror, client, at, work, closing, gap>>
      /\ fan'.left = fan.left /\ fan'.doc = fan.doc /\ fan'.ups = fan.ups
  BY DEF FlushDirect, FlushMerged, Flushed, docs, loops, history, Types, DocTypes
<1>2. sub[c].pending \in Seq(Updates)
  BY QueuesAre DEF Types
<1>3. CASE TrySend(c, sub[c].pending)
  BY <1>1, <1>2, <1>3, TrySendView
<1>4. CASE UNCHANGED <<sub, outq>>
  <2> SUFFICES ASSUME NEW k \in Conns, NEW d \in Docs
               PROVE  ViewInv(k, d)'
    BY DEF Whole
  <2>1. ViewInv(k, d) /\ Fanned(k, d)' = Fanned(k, d)
    BY <1>1 DEF Whole, Fanned
  <2> QED
    BY <1>1, <1>4, <2>1, SameView
<1>5. CASE FlushMerged(c) /\ sub[c].tx
  <2>1. PICK order \in SetToSeqs({sub[c].pending[i].doc : i \in DOMAIN sub[c].pending}) :
          TrySend(c, [i \in DOMAIN order |-> Merged(sub[c].pending, order[i])])
    BY <1>5 DEF FlushMerged
  <2> DEFINE m == [i \in DOMAIN order |-> Merged(sub[c].pending, order[i])]
  <2>2. m \in Seq(Updates) /\ \A d : News(m, d) = News(sub[c].pending, d)
    BY <1>2, MergedFrames
  <2>3. TrySend(c, m)
    BY <2>1
  <2> HIDE DEF m
  <2> QED
    BY <1>1, <2>2, <2>3, TrySendView
<1> QED
  BY <1>3, <1>4, <1>5 DEF FlushDirect, FlushMerged

\* Who is closed for its backlog, or gone, may lose it.
LEMMA CloseView ==
    ASSUME Types, Types', FanInv, Whole, NEW c \in Conns, CloseConn(c) \/ Finish(c)
    PROVE  Whole'
<1>1. /\ UNCHANGED <<feed, mirror, client, gap>>
      /\ fan'.left = fan.left /\ fan'.doc = fan.doc /\ fan'.ups = fan.ups
      /\ \A j \in Conns \ {c} : /\ sub'[j] = sub[j] /\ outq'[j] = outq[j] /\ at'[j] = at[j]
                                /\ work'[j] = work[j] /\ closing'[j] = closing[j]
  BY DEF CloseConn, Finish, Flushed, docs, loops, history, Types, DocTypes, ConnTypes, LoopTypes
<1>2. ~Healthy(c)'
  <2>1. CASE Finish(c)
    BY <2>1 DEF Finish, Healthy, Types, LoopTypes
  <2>2. CASE CloseConn(c)
    <3>1. /\ fan.act = "close" /\ fan.conn = c /\ UNCHANGED at
          /\ closing' = [closing EXCEPT ![c] = @ + IF sub[c].tx THEN 1 ELSE 0]
      BY <2>2 DEF CloseConn, Flushed, loops
    <3>2. at[c] = "open" => sub[c].tx
      BY <3>1 DEF FanInv, Entered, Chosen
    <3>3. closing[c] \in Nat /\ (sub[c].tx => closing'[c] = closing[c] + 1)
      BY <3>1 DEF Types, ConnTypes
    <3> QED
      BY <3>1, <3>2, <3>3 DEF Healthy
  <2> QED
    BY <2>1, <2>2
<1> SUFFICES ASSUME NEW k \in Conns, NEW d \in Docs
             PROVE  ViewInv(k, d)'
  BY DEF Whole
<1>3. ViewInv(k, d) /\ Fanned(k, d)' = Fanned(k, d)
  BY <1>1 DEF Whole, Fanned
<1>4. CASE k # c
  BY <1>1, <1>3, <1>4, SameView
<1>5. CASE k = c
  BY <1>2, <1>5 DEF ViewInv
<1> QED
  BY <1>4, <1>5

LEMMA SenderView ==
    ASSUME Types, Types', Whole,
           \/ \E d \in Docs : Ephemeral(d)
           \/ Publish
    PROVE  Whole'
<1>1. UNCHANGED <<mirror, feed, fan, client, sub, work, gap, at, closing>>
  BY DEF Ephemeral, Publish, docs, loops, history
<1> SUFFICES ASSUME NEW k \in Conns, NEW d \in Docs
             PROVE  ViewInv(k, d)'
  BY DEF Whole
<1>2. PICK f \in Outgoing : outq'[k] = outq[k] \/ outq'[k] = Append(outq[k], f)
  <2>1. CASE \E e \in Docs : Ephemeral(e)
    BY <2>1, FrameKinds DEF Ephemeral
  <2>2. CASE Publish
    <3> DEFINE f == Answer(publish.prompt)
    <3>1. f \in Outgoing
      BY <2>2, FrameKinds DEF Publish, Types, CommandTypes
    <3>2. outq'[k] = outq[k] \/ outq'[k] = Append(outq[k], f)
      BY <2>2 DEF Publish, Types, ConnTypes
    <3> HIDE DEF f
    <3> QED
      BY <3>1, <3>2
  <2> QED
    BY <2>1, <2>2
<1>3. ViewInv(k, d)
  BY DEF Whole
<1> QED
  BY <1>1, <1>2, <1>3, LongerView

LEMMA SignalView ==
    ASSUME Types, Types', Whole, NEW c \in Conns, SignalClose(c)
    PROVE  Whole'
<1>1. /\ UNCHANGED <<mirror, feed, fan, client, sub, work, gap, at>>
      /\ \A k \in Conns \ {c} : closing'[k] = closing[k] /\ outq'[k] = outq[k]
      /\ at[c] = "gone" \/ outq'[c] = Append(outq[c], Close)
  BY DEF SignalClose, docs, loops, history, Types, ConnTypes
<1>2. ~Healthy(c)'
  <2>1. CASE at[c] = "gone"
    BY <1>1, <2>1 DEF Healthy
  <2>2. CASE outq'[c] = Append(outq[c], Close)
    <3>1. outq[c] \in Seq(Outgoing) /\ outq'[c] \in Seq(Outgoing) /\ Close \in Outgoing
      BY FrameKinds DEF Types, ConnTypes
    <3>2. Close \in Range(outq'[c])
      BY <2>2, <3>1, RangeAppended
    <3>3. Contains(outq'[c], Close)
      BY <3>1, <3>2, ContainsRange
    <3> QED
      BY <3>3 DEF Healthy
  <2> QED
    BY <1>1, <2>1, <2>2
<1> SUFFICES ASSUME NEW k \in Conns, NEW d \in Docs
             PROVE  ViewInv(k, d)'
  BY DEF Whole
<1>3. ViewInv(k, d) /\ Fanned(k, d)' = Fanned(k, d)
  BY <1>1 DEF Whole, Fanned
<1>4. CASE k # c
  BY <1>1, <1>3, <1>4, SameView
<1>5. CASE k = c
  BY <1>2, <1>5 DEF ViewInv
<1> QED
  BY <1>4, <1>5

\* A client reads the first frame of its queue.
LEMMA ReceiveView ==
    ASSUME Types, Types', Whole, NEW c \in Conns, Receive(c)
    PROVE  Whole'
<1> DEFINE f == Head(outq[c])
           q == outq[c]
<1>1. /\ UNCHANGED <<feed, mirror, fan, sub, work, closing, gap>> /\ outq'[c] = Tail(q)
      /\ q \in Seq(Outgoing) /\ q # <<>> /\ f \in Outgoing /\ at[c] = "open"
      /\ \A j \in Conns \ {c} : client'[j] = client[j] /\ outq'[j] = outq[j] /\ at'[j] = at[j]
      /\ Tail(q) \in Seq(Outgoing)
  BY HeadTailProperties DEF Receive, Selecting, docs, history, Types, ConnTypes, LoopTypes
<1>2. CASE at'[c] # "finish"
  <2>1. f.kind # "close" /\ client[c].here
    BY <1>2 DEF Receive, Types, LoopTypes
  <2>2. ASSUME NEW d \in Docs
        PROVE  /\ client'[c].saw[d] = client[c].saw[d] \cup View1(f, d)
               /\ client'[c].here = client[c].here
    <3>1. CASE f.kind \notin {"update", "snapshot"}
      <4>1. UNCHANGED client
        BY <2>1, <3>1 DEF Receive
      <4> QED
        BY <3>1, <4>1 DEF View1
    <3>2. CASE f.kind \in {"update", "snapshot"}
      <4>1. f.doc \in Docs /\ f.ups \in SUBSET Nat
        BY <1>1, <3>2, FrameKinds
      <4>2. client' = [client EXCEPT ![c].saw[f.doc] = @ \cup f.ups,
                                     ![c].last[f.doc] = IF f.kind = "update" THEN f.ups ELSE @]
        BY <2>1, <3>2 DEF Receive
      <4> HIDE DEF f
      <4> DEFINE saw == client[c].saw[f.doc] \cup f.ups
                 last == IF f.kind = "update" THEN f.ups ELSE client[c].last[f.doc]
      <4>3. client \in [Conns -> Clients]
        BY DEF Types, ConnTypes, Clients
      <4>4. client' = [client EXCEPT ![c].saw[f.doc] = saw, ![c].last[f.doc] = last]
        BY <4>1, <4>2, <4>3 DEF Clients
      <4> HIDE DEF saw, last
      <4>5. /\ client'[c].saw[d] = IF d = f.doc THEN saw ELSE client[c].saw[d]
            /\ client'[c].here = client[c].here
        BY <4>1, <4>3, <4>4 DEF Clients
      <4> QED
        BY <3>2, <4>5 DEF View1, saw
    <3> QED
      BY <3>1, <3>2
  <2> SUFFICES ASSUME NEW k \in Conns, NEW d \in Docs
               PROVE  ViewInv(k, d)'
    BY DEF Whole
  <2>3. ViewInv(k, d) /\ Fanned(k, d)' = Fanned(k, d)
    BY <1>1 DEF Whole, Fanned
  <2>4. CASE k # c
    BY <1>1, <2>3, <2>4, SameView
  <2>5. CASE k = c
    <3> HIDE DEF q
    <3>1. View(q, d) = View1(f, d) \cup View(Tail(q), d) /\ Range(q) = {f} \cup Range(Tail(q))
      BY <1>1, Taken, RangeTaken DEF q
    <3>2. f # Close
      BY <2>1, FrameKinds
    <3> HIDE DEF f
    <3>3. Contains(q, Close) => Contains(Tail(q), Close)
      BY <1>1, <3>1, <3>2, ContainsRange
    <3>4. Healthy(c)' => Healthy(c)
      BY <1>1, <2>1, <3>3 DEF Healthy, q
    <3>5. Attaches(c, d)' => Attaches(c, d)
      BY <1>1 DEF Attaches
    <3>6. Reached(c, d) \subseteq Reached(c, d)'
      BY <1>1, <2>2, <2>3, <2>5, <3>1 DEF Reached, q
    <3> QED
      BY <1>1, <2>3, <2>5, <3>4, <3>5, <3>6, Reaches
  <2> QED
    BY <2>4, <2>5
<1>3. CASE at'[c] = "finish"
  <2> SUFFICES ASSUME NEW k \in Conns, NEW d \in Docs
               PROVE  ViewInv(k, d)'
    BY DEF Whole
  <2>1. ViewInv(k, d) /\ Fanned(k, d)' = Fanned(k, d)
    BY <1>1 DEF Whole, Fanned
  <2>2. CASE k # c
    BY <1>1, <2>1, <2>2, SameView
  <2>3. CASE k = c
    BY <1>3, <2>3 DEF ViewInv, Healthy
  <2> QED
    BY <2>2, <2>3
<1> QED
  BY <1>2, <1>3

\* The steps of a handler change, nothing else that a view depends on.
LEMMA WorkView ==
    ASSUME Types, Types', Whole, NEW c \in Conns,
           UNCHANGED <<mirror, feed, fan, sub, outq, client, gap, closing, at>>,
           \A k \in Conns \ {c} : work'[k] = work[k],
           \A d \in Docs : Attach(d) \in Range(work'[c]) => Attach(d) \in Range(work[c]),
           \A d \in Docs : Posted(work[c], d) \subseteq Posted(work'[c], d)
    PROVE  Whole'
<1> SUFFICES ASSUME NEW k \in Conns, NEW d \in Docs
             PROVE  ViewInv(k, d)'
  BY DEF Whole
<1>1. ViewInv(k, d) /\ Fanned(k, d)' = Fanned(k, d)
  BY DEF Whole, Fanned
<1>2. CASE k # c
  BY <1>1, <1>2, SameView
<1>3. CASE k = c
  <2>1. Healthy(c)' => Healthy(c)
    BY DEF Healthy
  <2>2. Attaches(c, d)' => Attaches(c, d)
    BY DEF Attaches
  <2>3. Reached(c, d) \subseteq Reached(c, d)'
    BY <1>1, <1>3 DEF Reached
  <2> QED
    BY <1>1, <1>3, <2>1, <2>2, <2>3, Reaches
<1> QED
  BY <1>2, <1>3

LEMMA IdlePosted ==
    ASSUME NEW d
    PROVE  Range(<<>>) = {} /\ Posted(<<>>, d) = {}
<1>1. Range(<<>>) = {}
  BY DEF Range
<1> QED
  BY <1>1 DEF Posted

\* The first step of a handler, and what is put in its place.
LEMMA ThenPosted ==
    ASSUME NEW w \in Seq(Ops), w # <<>>, NEW s \in Seq(Ops), NEW d
    PROVE  /\ Posted(w, d) = Posted1(Head(w), d) \cup Posted(Tail(w), d)
           /\ Posted(s \o Tail(w), d) = Posted(s, d) \cup Posted(Tail(w), d)
           /\ Range(w) = {Head(w)} \cup Range(Tail(w))
           /\ Range(s \o Tail(w)) = Range(s) \cup Range(Tail(w))
<1>1. Range(w) = {Head(w)} \cup Range(Tail(w))
  BY RangeTaken
<1>2. Range(s \o Tail(w)) = Range(s) \cup Range(Tail(w))
  <2> DEFINE t == Tail(w)
  <2>1. t \in Seq(Ops)
    BY HeadTailProperties
  <2> HIDE DEF t
  <2>2. Range(s \o t) = Range(s) \cup Range(t)
    BY <2>1, RangeJoined
  <2> QED
    BY <2>2 DEF t
<1> QED
  BY <1>1, <1>2 DEF Posted

LEMMA HandleView ==
    ASSUME Types, Types', Whole, NEW c \in Conns, NEW steps \in Seq(Ops), NEW channel,
           Handle(c, steps, channel), \A i \in DOMAIN steps : steps[i].op # "subscribe"
    PROVE  Whole'
<1>1. /\ UNCHANGED <<mirror, feed, fan, sub, outq, client, gap, closing, at>>
      /\ work'[c] = steps /\ work[c] = <<>> /\ \A k \in Conns \ {c} : work'[k] = work[k]
  BY DEF Handle, Selecting, docs, Types, LoopTypes
<1>2. \A d \in Docs : Attach(d) \notin Range(work'[c])
  BY <1>1, OpsAre DEF Range
<1>3. \A d \in Docs : Posted(work[c], d) \subseteq Posted(work'[c], d)
  BY <1>1, IdlePosted
<1> QED
  BY <1>1, <1>2, <1>3, WorkView

LEMMA FewOps ==
    ASSUME NEW o \in Ops, o.op # "subscribe", NEW e \in Ops, e.op # "subscribe"
    PROVE  /\ <<>> \in Seq(Ops)
           /\ <<o>> \in Seq(Ops) /\ \A i \in DOMAIN <<o>> : <<o>>[i].op # "subscribe"
           /\ <<o, e>> \in Seq(Ops) /\ \A i \in DOMAIN <<o, e>> : <<o, e>>[i].op # "subscribe"
OBVIOUS

LEMMA ClientView ==
    ASSUME Types, Types', Whole, NEW c \in Conns, FromClient(c) \/ Tick(c)
    PROVE  Whole'
<1>1. ASSUME NEW s \in SUBSET Docs, NEW wanted \in SetToSeqs(s), NEW v2 \in BOOLEAN,
             Subscribe(c, wanted, v2)
      PROVE  Whole'
  <2> DEFINE open == [i \in DOMAIN wanted |-> ReadDoc(wanted[i])]
             first == ~chan[c].seen
             greet == IF first THEN <<Send(Note), Flush>> ELSE <<>>
             channel == [chan[c] EXCEPT !.first = FALSE, !.seen = TRUE, !.v2 = IF first THEN v2 ELSE @]
             steps == open \o greet
  <2>1. steps \in Seq(Ops) /\ \A i \in DOMAIN steps : steps[i].op # "subscribe"
    BY <1>1, Subscription
  <2>2. Handle(c, steps, channel)
    BY <1>1 DEF Subscribe
  <2> HIDE DEF steps, channel
  <2> QED
    BY <2>1, <2>2, HandleView
<1>2. ASSUME NEW p \in Prompts, Action(c, p)
      PROVE  Whole'
  <2>1. PICK steps \in {<<Act(p)>>, <<Send(Note)>>, <<>>}, channel \in {[chan[c] EXCEPT !.first = FALSE, !.pending =
                   IF ~chan[c].ready /\ ~(Len(chan[c].pending) >= PendingLimit) THEN Append(chan[c].pending, p) ELSE chan[c].pending]} :
          Handle(c, steps, channel)
    BY <1>2 DEF Action
  <2>2. steps \in Seq(Ops) /\ \A i \in DOMAIN steps : steps[i].op # "subscribe"
    <3>1. /\ Send(Note) \in Ops /\ Send(Note).op # "subscribe" /\ End \in Ops /\ End.op # "subscribe"
          /\ Act(p) \in Ops /\ Act(p).op # "subscribe"
      BY OpsAre
    <3>2. CASE steps = <<Act(p)>>
      BY <3>1, <3>2, FewOps
    <3>3. CASE steps = <<Send(Note)>>
      BY <3>1, <3>3, FewOps
    <3>4. CASE steps = <<>>
      BY <3>1, <3>4, FewOps
    <3> QED
      BY <2>1, <3>2, <3>3, <3>4
  <2> QED
    BY <2>1, <2>2, HandleView
<1>3. CASE Reply(c) \/ Tick(c)
  <2>1. PICK steps \in {<<End>>, <<Send(Note)>>, <<Send(Note), End>>} : Handle(c, steps, chan[c])
    BY <1>3 DEF Reply, Tick
  <2>2. steps \in Seq(Ops) /\ \A i \in DOMAIN steps : steps[i].op # "subscribe"
    <3>1. /\ Send(Note) \in Ops /\ Send(Note).op # "subscribe" /\ End \in Ops /\ End.op # "subscribe"
      BY OpsAre
    <3>2. CASE steps = <<End>>
      BY <3>1, <3>2, FewOps
    <3>3. CASE steps = <<Send(Note)>>
      BY <3>1, <3>3, FewOps
    <3>4. CASE steps = <<Send(Note), End>>
      BY <3>1, <3>4, FewOps
    <3> QED
      BY <2>1, <3>2, <3>3, <3>4
  <2> QED
    BY <2>1, <2>2, HandleView
<1>4. ASSUME NEW e \in Docs, Unsubscribe(c, e)
      PROVE  Whole'
  <2>1. /\ UNCHANGED <<mirror, feed, fan, outq, work, client, gap, closing>>
        /\ \A k \in Conns : at'[k] = at[k] \/ at'[k] = "finish"
        /\ \A k \in Conns \ {c} : sub'[k] = sub[k]
    BY <1>4 DEF Unsubscribe, docs, history, Types, LoopTypes, ConnTypes
  <2>2. sub'[c].docs \subseteq sub[c].docs /\ sub'[c].pending = sub[c].pending
    <3>1. sub \in [Conns -> Entries]
      BY QueuesAre DEF Types
    <3>2. UNCHANGED sub \/ sub' = [sub EXCEPT ![c].docs = @ \ {e}]
      BY <1>4 DEF Unsubscribe
    <3> QED
      BY <3>1, <3>2 DEF Entries
  <2> SUFFICES ASSUME NEW k \in Conns, NEW d \in Docs
               PROVE  ViewInv(k, d)'
    BY DEF Whole
  <2>3. ViewInv(k, d) /\ Fanned(k, d)' = Fanned(k, d)
    BY <2>1 DEF Whole, Fanned
  <2>4. (Healthy(k)' => Healthy(k)) /\ (Attaches(k, d)' => Attaches(k, d))
    BY <2>1, <2>2 DEF Healthy, Attaches
  <2>5. Reached(k, d) \subseteq Reached(k, d)'
    BY <2>1, <2>2, <2>3 DEF Reached
  <2> QED
    BY <2>1, <2>3, <2>4, <2>5, Reaches
<1>5. CASE Leave(c)
  <2>1. /\ UNCHANGED <<mirror, feed, fan, outq, work, sub, gap, closing, at>>
        /\ \A k \in Conns : client'[k].saw = client[k].saw /\ (client'[k].here => client[k].here)
    <3>1. client \in [Conns -> Clients]
      BY DEF Types, ConnTypes, Clients
    <3> QED
      BY <1>5, <3>1 DEF Leave, docs, loops, history, Clients
  <2> SUFFICES ASSUME NEW k \in Conns, NEW d \in Docs
               PROVE  ViewInv(k, d)'
    BY DEF Whole
  <2>2. ViewInv(k, d) /\ Fanned(k, d)' = Fanned(k, d)
    BY <2>1 DEF Whole, Fanned
  <2>3. (Healthy(k)' => Healthy(k)) /\ (Attaches(k, d)' => Attaches(k, d))
    BY <2>1 DEF Healthy, Attaches
  <2>4. Reached(k, d) \subseteq Reached(k, d)'
    BY <2>1, <2>2 DEF Reached
  <2> QED
    BY <2>1, <2>2, <2>3, <2>4, Reaches
<1> QED
  BY <1>1, <1>2, <1>3, <1>4, <1>5 DEF FromClient

LEMMA WorkViews ==
    ASSUME Types, Types', Whole, NEW c \in Conns, WorkFlush(c) \/ WorkAct(c)
    PROVE  Whole'
<1> DEFINE w == work[c]
           s == IF WorkAct(c) THEN <<Send(Note)>>
                ELSE [i \in DOMAIN chan[c].pending |-> Act(chan[c].pending[i])]
<1>1. /\ UNCHANGED <<mirror, feed, fan, sub, outq, client, gap, closing, at>>
      /\ w \in Seq(Ops) /\ w # <<>> /\ Head(w).op \in {"flush", "act"}
      /\ \A k \in Conns \ {c} : work'[k] = work[k]
      /\ work'[c] = s \o Tail(w)
  BY ActsAre DEF WorkFlush, WorkAct, Step, Then, docs, history, Types, LoopTypes
<1>2. s \in Seq(Ops) /\ \A i \in DOMAIN s : s[i].op # "subscribe"
  <2>1. CASE WorkAct(c)
    BY <2>1, OpsAre
  <2>2. CASE ~WorkAct(c)
    <3> DEFINE p == chan[c].pending
               t == [i \in DOMAIN p |-> Act(p[i])]
    <3>1. p \in Seq(Prompts)
      BY ActsAre DEF Types
    <3> HIDE DEF p
    <3>2. t \in Seq(Ops) /\ \A i \in DOMAIN t : t[i].op = "act"
      BY <3>1, BeginAll
    <3> HIDE DEF t
    <3>3. s = t
      BY <2>2 DEF t, p
    <3> HIDE DEF s
    <3> QED
      BY <3>2, <3>3
  <2> QED
    BY <2>1, <2>2
<1> HIDE DEF s, w
<1>3. \A d \in Docs : Attach(d) \in Range(work'[c]) => Attach(d) \in Range(w)
  <2>1. \A d \in Docs : Attach(d) \notin Range(s)
    BY <1>2, OpsAre DEF Range
  <2>2. Range(w) = {Head(w)} \cup Range(Tail(w))
    BY <1>1, <1>2, ThenPosted
  <2>3. Range(s \o Tail(w)) = Range(s) \cup Range(Tail(w))
    BY <1>1, <1>2, ThenPosted
  <2> QED
    BY <1>1, <2>1, <2>2, <2>3
<1>4. \A d \in Docs : Posted(w, d) \subseteq Posted(work'[c], d)
  <2>1. \A d : Posted1(Head(w), d) = {}
    BY <1>1 DEF Posted1
  <2> QED
    BY <1>1, <1>2, <2>1, ThenPosted
<1> QED
  BY <1>1, <1>3, <1>4, WorkView DEF w

LEMMA WorkSendView ==
    ASSUME Types, Types', Whole, NEW c \in Conns, WorkSend(c)
    PROVE  Whole'
<1> DEFINE w == work[c]
           f == Head(w).frame
           q == outq[c]
<1>1. /\ UNCHANGED <<mirror, feed, fan, sub, client, gap, closing, at>>
      /\ w \in Seq(Ops) /\ w # <<>> /\ Head(w).op = "send" /\ Head(w) \in Ops
      /\ \A k \in Conns \ {c} : work'[k] = work[k] /\ outq'[k] = outq[k]
      /\ work'[c] = <<>> \o Tail(w) /\ outq'[c] = Append(q, f)
      /\ q \in Seq(Outgoing) /\ outq'[c] \in Seq(Outgoing)
  BY ActsAre, HeadTailProperties DEF WorkSend, Step, Then, docs, history, Types, LoopTypes, ConnTypes
<1>2. f \in Snapshots \cup {Note} /\ f \in Outgoing
  BY <1>1, OpsAre, FrameKinds
<1> HIDE DEF w, f, q
<1> SUFFICES ASSUME NEW k \in Conns, NEW d \in Docs
             PROVE  ViewInv(k, d)'
  BY DEF Whole
<1>3. ViewInv(k, d) /\ Fanned(k, d)' = Fanned(k, d)
  BY <1>1 DEF Whole, Fanned
<1>4. CASE k # c
  BY <1>1, <1>3, <1>4, SameView
<1>5. CASE k = c
  <2>1. /\ Posted(w, d) = Posted1(Head(w), d) \cup Posted(Tail(w), d)
        /\ Range(w) = {Head(w)} \cup Range(Tail(w))
        /\ work'[c] = Tail(w)
    <3>1. Tail(w) \in Seq(Ops) /\ <<>> \in Seq(Ops)
      BY <1>1, HeadTailProperties
    <3> QED
      BY <1>1, <3>1, ThenPosted, ConcatEmptySeq
  <2>2. View(outq'[c], d) = View(q, d) \cup View1(f, d) /\ Range(outq'[c]) = Range(q) \cup {f}
    BY <1>1, <1>2, Appended, RangeAppended
  <2>3. Posted1(Head(w), d) \subseteq View1(f, d)
    BY <1>1 DEF Posted1, View1, f
  <2>4. Healthy(c)' => Healthy(c)
    BY <1>1, <2>2, ContainsRange DEF Healthy, q
  <2>5. Attaches(c, d)' => Attaches(c, d)
    BY <1>1, <2>1 DEF Attaches, w
  <2>6. Reached(c, d) \subseteq Reached(c, d)'
    BY <1>1, <1>3, <1>5, <2>1, <2>2, <2>3 DEF Reached, w, q
  <2> QED
    BY <1>1, <1>3, <1>5, <2>4, <2>5, <2>6, Reaches
<1> QED
  BY <1>4, <1>5

LEMMA WorkSnapshotView ==
    ASSUME Types, Types', Whole, NEW c \in Conns, WorkSnapshot(c)
    PROVE  Whole'
<1> DEFINE w == work[c]
           e == Head(w).doc
           snap == Snapshot(e, 1..mirror[e])
           s == <<Send(snap), Attach(e)>>
<1>1. /\ UNCHANGED <<mirror, feed, fan, sub, outq, client, closing, at>>
      /\ w \in Seq(Ops) /\ w # <<>> /\ Head(w).op = "snapshot" /\ Head(w) \in Ops
      /\ \A k \in Conns \ {c} : work'[k] = work[k]
      /\ work'[c] = s \o Tail(w) /\ gap' = [gap EXCEPT ![c][e] = {}]
  BY ActsAre, HeadTailProperties DEF WorkSnapshot, Step, Then, docs, Types, LoopTypes
<1>2. /\ e \in Docs /\ Send(snap) \in Ops /\ Attach(e) \in Ops /\ s \in Seq(Ops)
      /\ Send(snap).op = "send" /\ Send(snap).frame = snap /\ Attach(e).op = "subscribe"
      /\ snap.kind = "snapshot" /\ snap.doc = e /\ snap.ups = 1..mirror[e]
  <2>1. e \in Docs
    BY <1>1, OpsAre
  <2>2. 1..mirror[e] \in SUBSET Nat
    OBVIOUS
  <2>3. snap \in Snapshots
    BY <2>1, <2>2, FrameKinds
  <2>4. Send(snap) \in Ops /\ Attach(e) \in Ops /\ Send(snap).op = "send" /\ Send(snap).frame = snap /\ Attach(e).op = "subscribe"
    BY <2>1, <2>3, OpsAre
  <2> QED
    BY <2>1, <2>4 DEF Snapshot
<1>3. Range(s) = {Send(snap), Attach(e)}
  <2>1. DOMAIN s = {1, 2} /\ s[1] = Send(snap) /\ s[2] = Attach(e)
    OBVIOUS
  <2> HIDE DEF s
  <2> QED
    BY <2>1 DEF Range
<1>4. ASSUME NEW d \in Docs
      PROVE  Posted(s, d) = IF d = e THEN 1..mirror[d] ELSE {}
  <2>1. Posted1(Attach(e), d) = {} /\ Posted1(Send(snap), d) = IF d = e THEN 1..mirror[d] ELSE {}
    BY <1>2 DEF Posted1
  <2> HIDE DEF s, snap
  <2> QED
    BY <1>3, <2>1 DEF Posted
<1> HIDE DEF w, e, snap, s
<1> SUFFICES ASSUME NEW k \in Conns, NEW d \in Docs
             PROVE  ViewInv(k, d)'
  BY DEF Whole
<1>5. ViewInv(k, d) /\ Fanned(k, d)' = Fanned(k, d)
  BY <1>1 DEF Whole, Fanned
<1>6. gap'[k][d] = IF k = c /\ d = e THEN {} ELSE gap[k][d]
  BY <1>1, <1>2 DEF Types, ConnTypes
<1>7. CASE k # c
  BY <1>1, <1>5, <1>6, <1>7, SameView
<1>8. CASE k = c
  <2>1. /\ Posted(w, d) = Posted1(Head(w), d) \cup Posted(Tail(w), d)
        /\ Range(w) = {Head(w)} \cup Range(Tail(w))
        /\ Posted(work'[c], d) = Posted(s, d) \cup Posted(Tail(w), d)
        /\ Range(work'[c]) = Range(s) \cup Range(Tail(w))
    BY <1>1, <1>2, ThenPosted
  <2>2. Posted1(Head(w), d) = {}
    BY <1>1 DEF Posted1
  <2>3. CASE d = e
    <3>1. 1..mirror'[d] \subseteq Reached(c, d)'
      BY <1>1, <1>4, <2>1, <2>3 DEF Reached
    <3> QED
      BY <1>8, <3>1, ViewIsNext
  <2>4. CASE d # e
    <3>1. Healthy(c)' => Healthy(c)
      BY <1>1 DEF Healthy
    <3>2. Attach(d) \notin Range(s)
      BY <1>2, <1>3, <2>4, OpsAre
    <3>3. Attaches(c, d)' => Attaches(c, d)
      BY <1>1, <2>1, <3>2 DEF Attaches, w
    <3>4. Reached(c, d) \subseteq Reached(c, d)'
      BY <1>1, <1>5, <1>6, <1>8, <2>1, <2>2, <2>4 DEF Reached, w
    <3> QED
      BY <1>1, <1>5, <1>8, <3>1, <3>3, <3>4, Reaches
  <2> QED
    BY <2>3, <2>4
<1> QED
  BY <1>7, <1>8

LEMMA WorkSubscribeView ==
    ASSUME Types, Types', Whole, NEW c \in Conns, WorkSubscribe(c)
    PROVE  Whole'
<1> DEFINE w == work[c]
           e == Head(w).doc
<1>1. /\ UNCHANGED <<mirror, feed, fan, outq, client, closing, at, gap>>
      /\ w \in Seq(Ops) /\ w # <<>> /\ Head(w).op = "subscribe" /\ Head(w) \in Ops
      /\ \A k \in Conns \ {c} : work'[k] = work[k]
      /\ work'[c] = <<>> \o Tail(w)
      /\ sub' = [sub EXCEPT ![c].docs = @ \cup {e}, ![c].tx = TRUE]
  BY ActsAre, HeadTailProperties DEF WorkSubscribe, Step, Then, docs, history, Types, LoopTypes
<1>2. e \in Docs /\ Head(w) = Attach(e)
  BY <1>1, OpsAre
<1> HIDE DEF w, e
<1>3. /\ sub'[c].docs = sub[c].docs \cup {e} /\ sub'[c].pending = sub[c].pending
      /\ \A k \in Conns \ {c} : sub'[k] = sub[k]
  BY <1>1, <1>2, QueuesAre DEF Types, Entries
<1> SUFFICES ASSUME NEW k \in Conns, NEW d \in Docs
             PROVE  ViewInv(k, d)'
  BY DEF Whole
<1>4. ViewInv(k, d) /\ Fanned(k, d)' = Fanned(k, d)
  BY <1>1 DEF Whole, Fanned
<1>5. CASE k # c
  BY <1>1, <1>3, <1>4, <1>5, SameView
<1>6. CASE k = c
  <2>1. /\ Posted(w, d) = Posted1(Head(w), d) \cup Posted(Tail(w), d)
        /\ Range(w) = {Head(w)} \cup Range(Tail(w))
        /\ work'[c] = Tail(w)
    <3>1. Tail(w) \in Seq(Ops) /\ <<>> \in Seq(Ops)
      BY <1>1, HeadTailProperties
    <3> QED
      BY <1>1, <3>1, ThenPosted, ConcatEmptySeq
  <2>2. Posted1(Head(w), d) = {}
    BY <1>1 DEF Posted1
  <2>3. Healthy(c)' => Healthy(c)
    BY <1>1 DEF Healthy
  <2>4. Attaches(c, d)' => Attaches(c, d)
    BY <1>2, <1>3, <2>1 DEF Attaches, w
  <2>5. Reached(c, d) \subseteq Reached(c, d)'
    BY <1>1, <1>3, <1>4, <1>6, <2>1, <2>2 DEF Reached, w
  <2> QED
    BY <1>1, <1>4, <1>6, <2>3, <2>4, <2>5, Reaches
<1> QED
  BY <1>5, <1>6

LEMMA NextView ==
    ASSUME Types, Types', FanInv, Whole, [Next]_vars
    PROVE  Whole'
<1>1. ASSUME UNCHANGED <<mirror, feed, fan, sub, outq, client, gap, closing, work>>,
             \A k \in Conns : at'[k] = at[k] \/ at'[k] = "finish"
      PROVE  Whole'
  <2> SUFFICES ASSUME NEW k \in Conns, NEW d \in Docs
               PROVE  ViewInv(k, d)'
    BY DEF Whole
  <2>1. ViewInv(k, d) /\ Fanned(k, d)' = Fanned(k, d)
    BY <1>1 DEF Whole, Fanned
  <2> QED
    BY <1>1, <2>1, SameView
<1>2. CASE UNCHANGED vars
  BY <1>1, <1>2 DEF vars, docs, loops, history
<1>3. CASE \E d \in Docs : Persist(d) \/ Ephemeral(d)
  BY <1>3, PersistView, SenderView
<1>4. CASE FanOutTask
  BY <1>4, TakeUpdateView, DeliverView, FlushView, CloseView DEF FanOutTask
<1>5. CASE Executor
  BY <1>1, <1>5, SenderView DEF Executor, Conclude, Published, docs, loops, history
<1>6. ASSUME NEW c \in Conns, ReadError(c) \/ WorkEnd(c)
      PROVE  Whole'
  BY <1>1, <1>6 DEF ReadError, WorkEnd, docs, history, Types, LoopTypes
<1>7. ASSUME NEW c \in Conns, Loop(c)
      PROVE  Whole'
  BY <1>6, <1>7, WorkViews, WorkSendView, WorkSnapshotView, WorkSubscribeView, ReceiveView, CloseView
     DEF Loop, Work
<1>8. ASSUME NEW c \in Conns, FromClient(c) \/ Tick(c) \/ SignalClose(c)
      PROVE  Whole'
  BY <1>8, ClientView, SignalView
<1> QED
  BY <1>2, <1>3, <1>4, <1>5, <1>7, <1>8 DEF Next

-----------------------------------------------------------------------------
(* The invariant of the clients' channels, and what follows from it. *)

ClientInv == Types /\ FanInv /\ (\A c \in Conns : ActsInv(c)) /\ FeedOrder /\ Whole

LEMMA InitClient == Init => ClientInv
BY InitTypes, InitFan, InitActs, InitOrder, InitView DEF ClientInv

LEMMA NextClient ==
    ASSUME ClientInv, [Next]_vars
    PROVE  ClientInv'
<1> USE DEF ClientInv
<1>1. Types'
  BY NextTypes
<1>2. FanInv'
  BY NextFan
<1>3. (\A c \in Conns : ActsInv(c))'
  BY <1>1, NextActs
<1>4. FeedOrder'
  BY NextOrder
<1>5. Whole'
  BY <1>1, NextView
<1> QED
  BY <1>1, <1>2, <1>3, <1>4, <1>5

\* Increasing increments, of which the first is newer than all the client has.
LEMMA OrderedQueue ==
    ASSUME Types, NEW c \in Conns, NEW d \in Docs, OrderInv(c, d)
    PROVE  InOrder(c, d)
<1> DEFINE s == outq[c] \o sub[c].pending
           rest == {i \in DOMAIN s : s[i].kind = "update" /\ s[i].doc = d}
<1>1. outq[c] \in Seq(Outgoing) /\ sub[c].pending \in Seq(Outgoing)
  BY QueuesAre, FrameKinds, SeqMonotonic DEF Types
<1>2. Rising(s, d) /\ News(s, d) = News(outq[c], d) \cup News(sub[c].pending, d)
  BY <1>1, Joined DEF OrderInv
<1>3. DOMAIN s \subseteq Nat
  <2>1. s \in Seq(Outgoing)
    BY <1>1, ConcatProperties
  <2> HIDE DEF s
  <2> QED
    BY <2>1, LenProperties
<1>4. Before(client[c].last[d], News(s, d))
  BY <1>2 DEF OrderInv
<1> SUFFICES ASSUME NEW i \in rest, NEW n \in s[i].ups
             PROVE  /\ \A m \in client[c].last[d] : m < n
                    /\ \A j \in rest : j < i => \A m \in s[j].ups : m < n
  BY DEF InOrder
<1> HIDE DEF s
<1>5. n \in News(s, d)
  BY DEF News
<1>6. \A m \in client[c].last[d] : m < n
  BY <1>4, <1>5 DEF Before
<1>7. ASSUME NEW j \in rest, j < i, NEW m \in s[j].ups
      PROVE  m < n
  BY <1>2, <1>7 DEF Rising, Before
<1> QED
  BY <1>6, <1>7

LEMMA ClientViews == ASSUME ClientInv PROVE ViewsAreWhole
<1> SUFFICES ASSUME NEW c \in Conns, NEW d \in Docs,
                    at[c] = "open", closing[c] = 0, ~Contains(outq[c], Close)
             PROVE  /\ d \in sub[c].docs /\ client[c].here => FannedOut(d) \subseteq Held(c, d) \cup gap[c][d]
                    /\ InOrder(c, d)
  BY DEF ViewsAreWhole
<1>1. ASSUME d \in sub[c].docs, client[c].here
      PROVE  FannedOut(d) \subseteq Held(c, d) \cup gap[c][d]
  BY <1>1 DEF ClientInv, Whole, ViewInv, Healthy, Attaches
<1>2. InOrder(c, d)
  BY OrderedQueue DEF ClientInv, FeedOrder
<1> QED
  BY <1>1, <1>2

LEMMA ClientTypes == ASSUME Types PROVE TypeOK
BY DEF Types, BudgetTypes, DocTypes, ConnTypes, LoopTypes, CommandTypes, TypeOK

LEMMA ClientBacklogs ==
    ASSUME Types, FanInv, NEW c \in Conns
    PROVE  BacklogIsBounded(c)
<1>1. Entered(c) /\ Weighed(c)
  BY DEF FanInv
<1>2. sub[c].bytes \in Nat /\ Hard \in Nat
  BY QueuesAre, Limits DEF Types
<1> QED
  BY <1>1, <1>2 DEF BacklogIsBounded, Entered, Weighed

\* Whatever the sizes of queues and backlogs: an open connection that is not being closed for its backlog
\* has, or will get, all the updates that were fanned out after it subscribed, its increments in the
\* order they were written (broadcaster.rs).
THEOREM ViewsTheorem == Spec => []ViewsAreWhole
<1>1. ClientInv /\ [Next]_vars => ClientInv'
  BY NextClient
<1>2. ClientInv => ViewsAreWhole
  BY ClientViews
<1> QED
  BY InitClient, <1>1, <1>2, PTL DEF Spec

\* Queues and backlogs stay within their bounds, and the prompts a client sent run once, in its order,
\* after it was ready and only if it negotiated them (broadcaster.rs, chat_channel.rs).
THEOREM ChannelTheorem == Spec => []ChannelInv
<1>1. ClientInv /\ [Next]_vars => ClientInv'
  BY NextClient
<1>2. ClientInv => ChannelInv
  BY ClientTypes, ClientBacklogs DEF ClientInv, ActsInv, ReadyClientsAct, ChannelInv
<1> QED
  BY InitClient, <1>1, <1>2, PTL DEF Spec
=============================================================================
