------------------------ MODULE ChatLifecycle_proofs ------------------------
(***************************************************************************)
(* A session has one live runtime, nobody kills a process without a        *)
(* reason, a create that may be repeated left nothing behind, and the      *)
(* barrier opens only after the comparison: for any chats and sessions,    *)
(* any number of connections and faults and any bound on kills and frames. *)
(*                                                                         *)
(* What is on its way decides: every frame down is known to have a reason  *)
(* that lasts, and the frames of a create tell which of its commands the   *)
(* instance can still execute.                                             *)
(***************************************************************************)
EXTENDS ChatLifecycle, SequenceTheorems, TLAPS

States == Final \cup {"none", "Accepting", "Gap", "PendingClose"}
Callers == Chats \cup {"none", "create", "close"}
Entry == [state : States, sess : Sessions \cup {NoSession},
          confirmed : BOOLEAN, gap : BOOLEAN]
Registry ==
    [chats : [Chats -> Entry], bindings : [Sessions -> Chats \cup {NoChat}],
     pending_close : SUBSET Chats, retry : SUBSET Chats, chat_gap : BOOLEAN]
Snapshot == [conn : Nat, alive : SUBSET Chats]
Work == [pc : {"idle", "write", "resume"}, snap : Snapshot,
         confirm : SUBSET Chats, missing : SUBSET Chats, kill : SUBSET Chats]
Lane == [conn : Nat, latest : Snapshot, required : BOOLEAN, pending : BOOLEAN,
         in_flight : Nat, work : Work]
Instance == [online : BOOLEAN, conn : Nat, known : BOOLEAN, alive : SUBSET Chats]
Killer == [pc : {"idle", "try", "sent"}, again : BOOLEAN, tries : 0..(KillAttempts - 1)]
Creating == [pc : {"spawn", "spawning", "initialize", "taking", "loading", "killing"},
             chat : Chats \ {Old}, sess : Sessions, from : Chats \cup {NoChat},
             durable : BOOLEAN]
Closing == [pc : {"queued", "sent"}, chat : Chats]
DownFrame == [k : {"spawn", "kill"}, chat : Chats, who : Callers]
UpFrame == [k : {"ok", "refused", "exit", "frame", "heartbeat"},
            chat : Chats \cup {NoChat}, who : Callers, alive : SUBSET Chats]

ServerTypes ==
    /\ reg \in Registry /\ inst \in Instance /\ lane \in Lane
    /\ gapping \in SUBSET Chats /\ asked \in SUBSET Chats
    /\ killer \in [Chats -> Killer]
    /\ create = NoCreate \/ create \in Creating
    /\ answer \in [Chats -> {"none", "failed", "unknown", "committed"}]
    /\ closer = NoClose \/ closer \in Closing
WorldTypes ==
    /\ proc \in [Chats -> {"run", "dead", "no"}]
    /\ Len(up) <= MaxReports
    /\ used \in [conns : Nat, events : Nat, ssh : BOOLEAN]
    /\ link \in 0..used.conns /\ inst.conn \in 0..used.conns /\ lane.conn \in 0..used.conns

------------------------------------------------------------------------------
(* The registry.                                                           *)

\* A chat that nobody asked to close has the session that its entry names.
BindingInv ==
    /\ \A c \in Chats \ asked : \A s \in Sessions :
          reg.chats[c].sess = s /\ ~is_terminal(reg, c) => reg.bindings[s] = c
    /\ \A c \in Chats \ registered(reg) : reg.chats[c].sess = NoSession
    /\ create.pc = "taking" => reg.bindings[create.sess] \in {create.from, NoChat}
    /\ create.pc \in {"spawn", "spawning", "initialize", "loading"} /\ create.sess \notin Stored =>
          \A c \in Chats : reg.chats[c].sess # create.sess
    /\ create.pc = "taking" => create.sess \in Stored

\* Nothing is created while the barrier stands.
BarrierShut ==
    lane.pending => /\ create = NoCreate /\ ~used.ssh
                    /\ \A c \in Chats : reg.chats[c].sess = NoSession

\* Everything refers to chats that are registered, or to the one of an earlier run.
Known == registered(reg) \cup {Old}
KnownInv ==
    /\ \A c \in Chats : proc[c] # "no" => c \in Known
    /\ lane.latest.alive \subseteq Known
    /\ create # NoCreate => create.chat \in registered(reg) /\ answer[create.chat] = "none"
    /\ \A c \in Chats : answer[c] # "none" => c \in registered(reg)
    /\ asked \subseteq registered(reg) /\ reg.pending_close \subseteq asked
    /\ closer # NoClose => closer.chat \in asked

------------------------------------------------------------------------------
(* Kills.                                                                  *)

\* A chat that is, or will be, killed is unwanted and stays so.
Hunted(c) == c \in Known /\ Unwanted(c)
HuntInv ==
    /\ \A c \in Chats : killer[c].pc # "idle" => Hunted(c)
    /\ \A c \in reg.retry : Hunted(c)
    /\ lane.work.pc = "write" => \A c \in lane.work.kill : Hunted(c)

\* What is on its way: a spawn belongs to a registered chat, a kill has its reason, and the
\* acknowledgement that a kill task waits for comes after the death.
GoodDown ==
    {f \in DownFrame : /\ f.k = "spawn" => f.chat \in registered(reg)
                       /\ f.k = "kill" => Hunted(f.chat)
                       /\ f.who \in Chats => f.k = "kill" /\ f.chat = f.who}
GoodUp ==
    {f \in UpFrame : /\ f.k # "heartbeat" => f.chat \in Chats
                     /\ f.k \notin {"ok", "refused"} => f.who = "none"
                     /\ f.alive \subseteq Known
                     /\ f.who \in Chats => /\ Hunted(f.who)
                                           /\ f.who \in registered(reg) \/ proc[f.who] # "run"}
LineInv == down \in Seq(GoodDown) /\ up \in Seq(GoodUp)

\* What the snapshot found and the registry does not know is being killed.
Handled(c) == killer[c].pc # "idle" \/ proc[c] # "run" \/ c \in reg.retry
BarrierInv ==
    lane.pending =>
      \A c \in lane.work.snap.alive \ registered(reg) :
         /\ lane.work.pc = "write" => c \in lane.work.kill
         /\ lane.work.pc = "resume" => Handled(c)

------------------------------------------------------------------------------
(* The frames of a create: one at a time waits for an answer; while the    *)
(* spawn is not answered it is the only one; the kill comes after it.      *)

SpawnOf(f, c) == f.k = "spawn" /\ f.chat = c
Silent(q) == \A i \in 1..Len(q) : q[i].who # "create"
Alone(q) == \A i, j \in 1..Len(q) : q[i].who = "create" /\ q[j].who = "create" => i = j
NoSpawn(q, c) == \A i \in 1..Len(q) : ~SpawnOf(q[i], c)

DownOf(w, d) ==
    /\ Alone(d)
    /\ w.pc = "spawn" => NoSpawn(d, w.chat)
    /\ w.pc = "spawning" => \A i \in 1..Len(d) :
          SpawnOf(d[i], w.chat) <=> d[i].who = "create"
    /\ w.pc = "killing" => \A i \in 1..Len(d) : d[i].who = "create" =>
          /\ d[i].k = "kill" /\ d[i].chat = w.chat
          /\ \A j \in 1..Len(d) : SpawnOf(d[j], w.chat) => j < i
UpOf(w, d, u, p) ==
    /\ Alone(u) /\ (Silent(d) \/ Silent(u))
    /\ ~Silent(u) => NoSpawn(d, w.chat)
    /\ \A i \in 1..Len(u) :
          u[i].who = "create" /\ (w.pc = "killing" \/ u[i].k = "refused") => p[w.chat] # "run"
FramesOf(w, d, u, p) ==
    /\ DownOf(w, d) /\ UpOf(w, d, u, p)
    /\ w.pc \notin {"spawning", "killing"} => Silent(d) /\ Silent(u)
    /\ w.pc = "spawn" \/ (w.pc = "spawning" /\ ~Silent(d)) => p[w.chat] # "run"
CreateInv == FramesOf(create, down, up, proc)

IInv == /\ ServerTypes /\ WorldTypes /\ BindingInv /\ BarrierShut /\ KnownInv /\ HuntInv
        /\ LineInv /\ BarrierInv /\ CreateInv /\ FailedMeansDead

------------------------------------------------------------------------------
(* Sequences of frames.                                                    *)

\* The frames of a sequence after its head is gone.
LEMMA TailIs ==
  ASSUME NEW S, NEW q \in Seq(S), q # <<>>
  PROVE  /\ Tail(q) \in Seq(S) /\ Len(Tail(q)) \in Nat /\ Len(q) = Len(Tail(q)) + 1
         /\ 1 \in 1..Len(q) /\ Head(q) = q[1] /\ Head(q) \in S
         /\ \A i \in 1..Len(Tail(q)) : i + 1 \in 1..Len(q) /\ Tail(q)[i] = q[i + 1]
<1>1. Len(q) \in Nat /\ Len(q) # 0
  BY EmptySeq, LenProperties
<1>2. Tail(q) \in Seq(S) /\ Len(Tail(q)) = Len(q) - 1
  BY HeadTailProperties
<1>3. Head(q) = q[1] /\ Head(q) \in S
  BY HeadTailProperties
<1>4. \A i \in 1..Len(Tail(q)) : Tail(q)[i] = q[i + 1]
  BY HeadTailProperties
<1> QED
  BY <1>1, <1>2, <1>3, <1>4

\* The frames of a sequence with one more.
LEMMA AppendIs ==
  ASSUME NEW S, NEW q \in Seq(S), NEW f \in S
  PROVE  /\ Append(q, f) \in Seq(S) /\ Len(q) \in Nat
         /\ Len(Append(q, f)) = Len(q) + 1
         /\ \A i \in 1..Len(q) : Append(q, f)[i] = q[i]
         /\ Append(q, f)[Len(q) + 1] = f
BY AppendProperties, LenProperties

\* A function on an interval from 1 is a sequence.
LEMMA IsSequence ==
  ASSUME NEW T, NEW n \in Nat, NEW f \in [1..n -> T]
  PROVE  f \in Seq(T)
OBVIOUS

\* No frame is lost or moved when a caller gives up, only its name is taken off.
LEMMA ForsakenIs ==
  ASSUME NEW T, NEW q \in Seq(T), NEW who
  PROVE  /\ Len(q) \in Nat /\ Len(Forsaken(q, who)) = Len(q)
         /\ \A i \in 1..Len(q) :
               Forsaken(q, who)[i] = IF q[i].who = who THEN [q[i] EXCEPT !.who = "none"] ELSE q[i]
<1>1. Len(q) \in Nat
  BY LenProperties
<1> QED
  BY <1>1 DEF Forsaken

\* A caller that gives up is one of those known, so the frames keep their form.
LEMMA ForsakenDown ==
  ASSUME NEW q \in Seq(DownFrame), NEW who
  PROVE  /\ Forsaken(q, who) \in Seq(DownFrame)
         /\ Len(q) \in Nat /\ Len(Forsaken(q, who)) = Len(q)
         /\ \A i \in 1..Len(q) : /\ q[i] \in DownFrame
                                 /\ Forsaken(q, who)[i].k = q[i].k
                                 /\ Forsaken(q, who)[i].chat = q[i].chat
                                 /\ Forsaken(q, who)[i].who =
                                      IF q[i].who = who THEN "none" ELSE q[i].who
<1>1. /\ Len(q) \in Nat /\ Len(Forsaken(q, who)) = Len(q)
      /\ \A i \in 1..Len(q) :
            Forsaken(q, who)[i] = IF q[i].who = who THEN [q[i] EXCEPT !.who = "none"] ELSE q[i]
  BY ForsakenIs
<1>2. \A i \in 1..Len(q) : q[i] \in DownFrame
  BY ElementOfSeq
<1>3. \A f \in DownFrame : /\ [f EXCEPT !.who = "none"] \in DownFrame
                           /\ [f EXCEPT !.who = "none"].k = f.k
                           /\ [f EXCEPT !.who = "none"].chat = f.chat
                           /\ [f EXCEPT !.who = "none"].who = "none"
  BY DEF DownFrame, Callers
<1>4. \A i \in 1..Len(q) : Forsaken(q, who)[i] \in DownFrame
  BY <1>1, <1>2, <1>3
<1>5. Forsaken(q, who) \in Seq(DownFrame)
  <2>1. Forsaken(q, who) \in [1..Len(q) -> DownFrame]
    BY <1>4 DEF Forsaken
  <2> QED
    BY <1>1, <2>1, IsSequence
<1>6. ASSUME NEW i \in 1..Len(q)
      PROVE  /\ Forsaken(q, who)[i].k = q[i].k
             /\ Forsaken(q, who)[i].chat = q[i].chat
             /\ Forsaken(q, who)[i].who = IF q[i].who = who THEN "none" ELSE q[i].who
  <2>1. q[i] \in DownFrame
    BY <1>2
  <2>2. CASE q[i].who = who
    BY <1>1, <1>3, <2>1, <2>2
  <2>3. CASE q[i].who # who
    BY <1>1, <2>3
  <2> QED
    BY <2>2, <2>3
<1> QED
  BY <1>1, <1>2, <1>5, <1>6

\* The same for reports.
LEMMA ForsakenUp ==
  ASSUME NEW q \in Seq(UpFrame), NEW who
  PROVE  /\ Forsaken(q, who) \in Seq(UpFrame)
         /\ Len(q) \in Nat /\ Len(Forsaken(q, who)) = Len(q)
         /\ \A i \in 1..Len(q) : /\ q[i] \in UpFrame
                                 /\ Forsaken(q, who)[i].k = q[i].k
                                 /\ Forsaken(q, who)[i].chat = q[i].chat
                                 /\ Forsaken(q, who)[i].alive = q[i].alive
                                 /\ Forsaken(q, who)[i].who =
                                      IF q[i].who = who THEN "none" ELSE q[i].who
<1>1. /\ Len(q) \in Nat /\ Len(Forsaken(q, who)) = Len(q)
      /\ \A i \in 1..Len(q) :
            Forsaken(q, who)[i] = IF q[i].who = who THEN [q[i] EXCEPT !.who = "none"] ELSE q[i]
  BY ForsakenIs
<1>2. \A i \in 1..Len(q) : q[i] \in UpFrame
  BY ElementOfSeq
<1>3. \A f \in UpFrame : /\ [f EXCEPT !.who = "none"] \in UpFrame
                         /\ [f EXCEPT !.who = "none"].k = f.k
                         /\ [f EXCEPT !.who = "none"].chat = f.chat
                         /\ [f EXCEPT !.who = "none"].alive = f.alive
                         /\ [f EXCEPT !.who = "none"].who = "none"
  BY DEF UpFrame, Callers
<1>4. \A i \in 1..Len(q) : Forsaken(q, who)[i] \in UpFrame
  BY <1>1, <1>2, <1>3
<1>5. Forsaken(q, who) \in Seq(UpFrame)
  <2>1. Forsaken(q, who) \in [1..Len(q) -> UpFrame]
    BY <1>4 DEF Forsaken
  <2> QED
    BY <1>1, <2>1, IsSequence
<1>6. ASSUME NEW i \in 1..Len(q)
      PROVE  /\ Forsaken(q, who)[i].k = q[i].k
             /\ Forsaken(q, who)[i].chat = q[i].chat
             /\ Forsaken(q, who)[i].alive = q[i].alive
             /\ Forsaken(q, who)[i].who = IF q[i].who = who THEN "none" ELSE q[i].who
  <2>1. q[i] \in UpFrame
    BY <1>2
  <2>2. CASE q[i].who = who
    BY <1>1, <1>3, <2>1, <2>2
  <2>3. CASE q[i].who # who
    BY <1>1, <2>3
  <2> QED
    BY <2>2, <2>3
<1> QED
  BY <1>1, <1>2, <1>5, <1>6

\* What holds of all frames of a sequence still does, if it does not depend on the caller.
LEMMA ForsakenStays ==
  ASSUME NEW T, NEW q \in Seq(T), NEW who,
         \A f \in T : [f EXCEPT !.who = "none"] \in T
  PROVE  Forsaken(q, who) \in Seq(T)
<1>1. /\ Len(q) \in Nat /\ Len(Forsaken(q, who)) = Len(q)
      /\ \A i \in 1..Len(q) :
            Forsaken(q, who)[i] = IF q[i].who = who THEN [q[i] EXCEPT !.who = "none"] ELSE q[i]
  BY ForsakenIs
<1>2. ASSUME NEW i \in 1..Len(q)
      PROVE  Forsaken(q, who)[i] \in T
  <2>1. q[i] \in T
    BY ElementOfSeq
  <2>2. [q[i] EXCEPT !.who = "none"] \in T
    BY <2>1
  <2> QED
    BY <1>1, <2>1, <2>2
<1>3. Forsaken(q, who) \in [1..Len(q) -> T]
  BY <1>2 DEF Forsaken
<1> QED
  BY <1>1, <1>3, IsSequence

------------------------------------------------------------------------------
(* The frames of the create under way, seen by the steps of others.        *)

\* A report to another caller is read.
LEMMA FramesRead ==
  ASSUME NEW w, NEW d \in Seq(DownFrame), NEW u \in Seq(UpFrame), NEW p,
         FramesOf(w, d, u, p), u # <<>>, Head(u).who # "create"
  PROVE  FramesOf(w, d, Tail(u), p)
<1>1. /\ Tail(u) \in Seq(UpFrame) /\ Len(Tail(u)) \in Nat /\ Len(u) = Len(Tail(u)) + 1
      /\ 1 \in 1..Len(u) /\ Head(u) = u[1]
      /\ \A i \in 1..Len(Tail(u)) : i + 1 \in 1..Len(u) /\ Tail(u)[i] = u[i + 1]
  BY TailIs
<1>2. Alone(Tail(u))
  BY <1>1 DEF FramesOf, UpOf, Alone
<1>3. Silent(u) <=> Silent(Tail(u))
  <2>1. ASSUME Silent(Tail(u)), NEW i \in 1..Len(u)
        PROVE  u[i].who # "create"
    <3>1. CASE i = 1
      BY <1>1, <3>1
    <3>2. CASE i # 1
      <4>1. i - 1 \in 1..Len(Tail(u)) /\ u[i] = Tail(u)[i - 1]
        BY <1>1, <3>2
      <4> QED
        BY <2>1, <4>1 DEF Silent
    <3> QED
      BY <3>1, <3>2
  <2> QED
    BY <1>1, <2>1 DEF Silent
<1>4. \A i \in 1..Len(Tail(u)) :
         Tail(u)[i].who = "create" /\ (w.pc = "killing" \/ Tail(u)[i].k = "refused")
           => p[w.chat] # "run"
  BY <1>1 DEF FramesOf, UpOf
<1> QED
  BY <1>2, <1>3, <1>4 DEF FramesOf, UpOf

\* A report to another caller is sent.
LEMMA FramesReported ==
  ASSUME NEW w, NEW d \in Seq(DownFrame), NEW u \in Seq(UpFrame), NEW p,
         NEW f \in UpFrame, FramesOf(w, d, u, p), f.who # "create"
  PROVE  FramesOf(w, d, Append(u, f), p)
<1>1. /\ Append(u, f) \in Seq(UpFrame) /\ Len(u) \in Nat
      /\ Len(Append(u, f)) = Len(u) + 1
      /\ \A i \in 1..Len(u) : Append(u, f)[i] = u[i]
      /\ Append(u, f)[Len(u) + 1] = f
  BY AppendIs
<1>2. \A i \in 1..Len(Append(u, f)) :
         \/ i \in 1..Len(u) /\ Append(u, f)[i] = u[i]
         \/ Append(u, f)[i].who # "create"
  BY <1>1
<1>3. Alone(Append(u, f))
  BY <1>2 DEF FramesOf, UpOf, Alone
<1>4. Silent(u) <=> Silent(Append(u, f))
  BY <1>1, <1>2 DEF Silent
<1>5. \A i \in 1..Len(Append(u, f)) :
         Append(u, f)[i].who = "create" /\ (w.pc = "killing" \/ Append(u, f)[i].k = "refused")
           => p[w.chat] # "run"
  BY <1>2 DEF FramesOf, UpOf
<1> QED
  BY <1>3, <1>4, <1>5 DEF FramesOf, UpOf

\* A kill for another caller is sent.
LEMMA FramesSent ==
  ASSUME NEW w, NEW d \in Seq(DownFrame), NEW u \in Seq(UpFrame), NEW p,
         NEW f \in DownFrame, FramesOf(w, d, u, p), f.who # "create", f.k = "kill"
  PROVE  FramesOf(w, Append(d, f), u, p)
<1>1. /\ Append(d, f) \in Seq(DownFrame) /\ Len(d) \in Nat
      /\ Len(Append(d, f)) = Len(d) + 1
      /\ \A i \in 1..Len(d) : Append(d, f)[i] = d[i]
      /\ Append(d, f)[Len(d) + 1] = f
  BY AppendIs
<1>2. \A i \in 1..Len(Append(d, f)) :
         \/ i \in 1..Len(d) /\ Append(d, f)[i] = d[i]
         \/ Append(d, f)[i].who # "create" /\ Append(d, f)[i].k = "kill"
  BY <1>1
<1>3. Alone(Append(d, f))
  BY <1>2 DEF FramesOf, DownOf, Alone
<1>4. Silent(d) <=> Silent(Append(d, f))
  BY <1>1, <1>2 DEF Silent
<1>5. \A c : NoSpawn(d, c) <=> NoSpawn(Append(d, f), c)
  BY <1>1, <1>2 DEF NoSpawn, SpawnOf
<1>6. DownOf(w, Append(d, f))
  <2>1. w.pc = "spawning" => \A i \in 1..Len(Append(d, f)) :
          SpawnOf(Append(d, f)[i], w.chat) <=> Append(d, f)[i].who = "create"
    BY <1>2 DEF FramesOf, DownOf, SpawnOf
  <2>2. w.pc = "killing" => \A i \in 1..Len(Append(d, f)) : Append(d, f)[i].who = "create" =>
          /\ Append(d, f)[i].k = "kill" /\ Append(d, f)[i].chat = w.chat
          /\ \A j \in 1..Len(Append(d, f)) : SpawnOf(Append(d, f)[j], w.chat) => j < i
    BY <1>2 DEF FramesOf, DownOf, SpawnOf
  <2> QED
    BY <1>3, <1>5, <2>1, <2>2 DEF FramesOf, DownOf
<1>7. UpOf(w, Append(d, f), u, p)
  BY <1>4, <1>5 DEF FramesOf, UpOf
<1> QED
  BY <1>4, <1>6, <1>7 DEF FramesOf

\* Another caller gives up.
LEMMA FramesForsaken ==
  ASSUME NEW w, NEW d \in Seq(DownFrame), NEW u \in Seq(UpFrame), NEW p,
         NEW who, FramesOf(w, d, u, p), who # "create"
  PROVE  FramesOf(w, Forsaken(d, who), Forsaken(u, who), p)
<1> DEFINE dd == Forsaken(d, who)
           uu == Forsaken(u, who)
<1> HIDE DEF dd, uu
<1>1. /\ Len(dd) = Len(d)
      /\ \A i \in 1..Len(d) : /\ dd[i].k = d[i].k /\ dd[i].chat = d[i].chat
                              /\ dd[i].who = "create" <=> d[i].who = "create"
  BY ForsakenDown DEF dd
<1>2. /\ Len(uu) = Len(u)
      /\ \A i \in 1..Len(u) : /\ uu[i].k = u[i].k /\ uu[i].chat = u[i].chat
                              /\ uu[i].who = "create" <=> u[i].who = "create"
  BY ForsakenUp DEF uu
<1>3. (Silent(dd) <=> Silent(d)) /\ (Silent(uu) <=> Silent(u))
  BY <1>1, <1>2 DEF Silent
<1>4. \A c : NoSpawn(d, c) <=> NoSpawn(dd, c)
  BY <1>1 DEF NoSpawn, SpawnOf
<1>5. Alone(dd) /\ Alone(uu)
  BY <1>1, <1>2 DEF FramesOf, DownOf, UpOf, Alone
<1>6. DownOf(w, dd)
  <2>1. w.pc = "spawning" => \A i \in 1..Len(dd) :
          SpawnOf(dd[i], w.chat) <=> dd[i].who = "create"
    BY <1>1 DEF FramesOf, DownOf, SpawnOf
  <2>2. w.pc = "killing" => \A i \in 1..Len(dd) : dd[i].who = "create" =>
          /\ dd[i].k = "kill" /\ dd[i].chat = w.chat
          /\ \A j \in 1..Len(dd) : SpawnOf(dd[j], w.chat) => j < i
    BY <1>1 DEF FramesOf, DownOf, SpawnOf
  <2> QED
    BY <1>4, <1>5, <2>1, <2>2 DEF FramesOf, DownOf
<1>7. UpOf(w, dd, uu, p)
  BY <1>2, <1>3, <1>4, <1>5 DEF FramesOf, UpOf
<1>8. FramesOf(w, dd, uu, p)
  BY <1>3, <1>6, <1>7 DEF FramesOf
<1> QED
  BY <1>8 DEF dd, uu

\* The connection is lost.
LEMMA FramesLost ==
  ASSUME NEW w, NEW d \in Seq(DownFrame), NEW u \in Seq(UpFrame), NEW p, FramesOf(w, d, u, p)
  PROVE  FramesOf(w, <<>>, <<>>, p)
<1>1. Len(<<>>) = 0
  OBVIOUS
<1> QED
  BY <1>1 DEF FramesOf, DownOf, UpOf, Alone, Silent, NoSpawn

\* A process ends.
LEMMA FramesDeath ==
  ASSUME NEW w, NEW d, NEW u, NEW p, NEW pp, FramesOf(w, d, u, p),
         p[w.chat] # "run" => pp[w.chat] # "run"
  PROVE  FramesOf(w, d, u, pp)
BY DEF FramesOf, UpOf

\* The instance obeys a command and reports to who sent it.  A spawn that is not the one the
\* create under way waits for comes before the kill that ends this create.
LEMMA FramesObeyed ==
  ASSUME NEW w, NEW d \in Seq(DownFrame), NEW u \in Seq(UpFrame), NEW p, NEW pp,
         NEW f \in UpFrame, FramesOf(w, d, u, p), d # <<>>,
         f.who = Head(d).who,
         w.chat # Head(d).chat => (p[w.chat] # "run" => pp[w.chat] # "run"),
         Head(d).k = "spawn" /\ f.k = "refused" => pp = p,
         Head(d).k = "kill" => f.k = "ok" /\ pp[Head(d).chat] # "run"
  PROVE  FramesOf(w, Tail(d), Append(u, f), pp)
<1> DEFINE t == Tail(d)
           v == Append(u, f)
           a == Head(d)
<1>1. /\ t \in Seq(DownFrame) /\ Len(t) \in Nat /\ Len(d) = Len(t) + 1
      /\ 1 \in 1..Len(d) /\ a = d[1] /\ a \in DownFrame
      /\ \A i \in 1..Len(t) : i + 1 \in 1..Len(d) /\ t[i] = d[i + 1]
  BY TailIs
<1>2. /\ v \in Seq(UpFrame) /\ Len(u) \in Nat /\ Len(v) = Len(u) + 1
      /\ \A i \in 1..Len(u) : v[i] = u[i]
      /\ v[Len(u) + 1] = f
  BY AppendIs
<1> HIDE DEF t, v, a
<1>3. a.k = "spawn" \/ a.k = "kill"
  BY <1>1 DEF DownFrame
<1>4. \A i \in 1..Len(v) : (i \in 1..Len(u) /\ v[i] = u[i]) \/ (i = Len(u) + 1 /\ v[i] = f)
  BY <1>2
<1>5. \A i \in 1..Len(d) : i = 1 \/ (i - 1 \in 1..Len(t) /\ d[i] = t[i - 1])
  BY <1>1
<1>6. \A c : NoSpawn(d, c) => NoSpawn(t, c) /\ ~SpawnOf(a, c)
  BY <1>1 DEF NoSpawn
<1>7. Alone(t)
  BY <1>1 DEF FramesOf, DownOf, Alone
<1>8. CASE a.who = "create"
  <2>1. Silent(u) /\ ~Silent(d)
    BY <1>1, <1>8 DEF FramesOf, UpOf, Silent
  <2>2. Silent(t)
    BY <1>1, <1>8 DEF FramesOf, DownOf, Alone, Silent
  <2>3. w.pc \in {"spawning", "killing"}
    BY <2>1 DEF FramesOf
  <2>4. w.pc = "spawning" => \A i \in 1..Len(t) : SpawnOf(t[i], w.chat) <=> t[i].who = "create"
    BY <1>1 DEF FramesOf, DownOf
  <2>5. DownOf(w, t)
    BY <1>7, <2>2, <2>3, <2>4 DEF DownOf, Silent
  <2>6. NoSpawn(t, w.chat)
    <3>1. CASE w.pc = "spawning"
      BY <2>2, <2>4, <3>1 DEF NoSpawn, Silent
    <3>2. CASE w.pc = "killing"
      <4>1. \A j \in 1..Len(d) : SpawnOf(d[j], w.chat) => j < 1
        BY <1>1, <1>8, <3>2 DEF FramesOf, DownOf
      <4> QED
        BY <1>1, <4>1 DEF NoSpawn
    <3> QED
      BY <2>3, <3>1, <3>2
  <2>7. Alone(v)
    BY <1>2, <1>4, <2>1 DEF Alone, Silent
  <2>8. w.pc = "killing" \/ f.k = "refused" => pp[w.chat] # "run"
    <3>1. CASE w.pc = "killing"
      BY <1>1, <1>8, <3>1 DEF FramesOf, DownOf, a
    <3>2. CASE w.pc = "spawning" /\ f.k = "refused"
      <4>1. p[w.chat] # "run"
        BY <2>1, <3>2 DEF FramesOf
      <4>2. pp = p
        BY <1>3, <3>2 DEF a
      <4> QED
        BY <4>1, <4>2
    <3> QED
      BY <2>3, <3>1, <3>2
  <2>9. UpOf(w, t, v, pp)
    BY <1>4, <2>1, <2>2, <2>6, <2>7, <2>8 DEF UpOf, Silent
  <2> QED
    BY <2>2, <2>3, <2>5, <2>9 DEF FramesOf, t, v
<1>9. CASE a.who # "create"
  <2>1. Silent(d) <=> Silent(t)
    BY <1>1, <1>5, <1>9 DEF Silent
  <2>2. Silent(u) <=> Silent(v)
    BY <1>2, <1>4, <1>9 DEF Silent, a
  <2>3. DownOf(w, t)
    <3>1. w.pc = "spawning" => \A i \in 1..Len(t) : SpawnOf(t[i], w.chat) <=> t[i].who = "create"
      BY <1>1 DEF FramesOf, DownOf
    <3>2. w.pc = "killing" => \A i \in 1..Len(t) : t[i].who = "create" =>
             /\ t[i].k = "kill" /\ t[i].chat = w.chat
             /\ \A j \in 1..Len(t) : SpawnOf(t[j], w.chat) => j < i
      <4>1. SUFFICES ASSUME w.pc = "killing", NEW i \in 1..Len(t), t[i].who = "create"
                     PROVE  /\ t[i].k = "kill" /\ t[i].chat = w.chat
                            /\ \A j \in 1..Len(t) : SpawnOf(t[j], w.chat) => j < i
        OBVIOUS
      <4>2. /\ d[i + 1].k = "kill" /\ d[i + 1].chat = w.chat
            /\ \A j \in 1..Len(d) : SpawnOf(d[j], w.chat) => j < i + 1
        BY <1>1, <4>1 DEF FramesOf, DownOf
      <4>3. ASSUME NEW j \in 1..Len(t), SpawnOf(t[j], w.chat)
            PROVE  j < i
        <5>1. j + 1 \in 1..Len(d) /\ SpawnOf(d[j + 1], w.chat)
          BY <1>1, <4>3
        <5>2. j + 1 < i + 1
          BY <4>2, <5>1
        <5> QED
          BY <5>2
      <4> QED
        BY <1>1, <4>2, <4>3
    <3> QED
      BY <1>6, <1>7, <3>1, <3>2 DEF FramesOf, DownOf
  <2>4. ASSUME p[w.chat] # "run", a.chat = w.chat => a.k = "kill"
        PROVE  pp[w.chat] # "run"
    BY <2>4 DEF a
  <2>5. UpOf(w, t, v, pp)
    <3>1. Alone(v)
      BY <1>2, <1>4, <1>9 DEF FramesOf, UpOf, Alone, a
    <3>2. ASSUME NEW i \in 1..Len(v), v[i].who = "create", w.pc = "killing" \/ v[i].k = "refused"
          PROVE  pp[w.chat] # "run"
      <4>1. i \in 1..Len(u) /\ v[i] = u[i]
        BY <1>4, <1>9, <3>2 DEF a
      <4>2. p[w.chat] # "run" /\ ~Silent(u)
        BY <3>2, <4>1 DEF FramesOf, UpOf, Silent
      <4>3. ~SpawnOf(a, w.chat)
        BY <1>6, <4>2 DEF FramesOf, UpOf
      <4> QED
        BY <1>3, <2>4, <4>2, <4>3 DEF SpawnOf
    <3> QED
      BY <1>6, <2>1, <2>2, <3>1, <3>2 DEF FramesOf, UpOf
  <2>6. ASSUME w.pc = "spawn" \/ (w.pc = "spawning" /\ ~Silent(t))
        PROVE  pp[w.chat] # "run"
    <3>1. p[w.chat] # "run"
      BY <2>1, <2>6 DEF FramesOf
    <3>2. ~SpawnOf(a, w.chat)
      BY <1>1, <1>6, <1>9, <2>6 DEF FramesOf, DownOf
    <3> QED
      BY <1>3, <2>4, <3>1, <3>2 DEF SpawnOf
  <2> QED
    BY <2>1, <2>2, <2>3, <2>5, <2>6 DEF FramesOf, t, v
<1> QED
  BY <1>8, <1>9

------------------------------------------------------------------------------
(* What the operations of the registry do.                                 *)

\* Nothing but states, gaps, confirmations and retries: who is registered, the sessions and
\* what is over stay, and a binding only ends with its chat.
Quiet(r, t) ==
    /\ t \in Registry /\ registered(t) = registered(r)
    /\ \A c \in Chats : /\ t.chats[c].sess = r.chats[c].sess
                        /\ is_terminal(r, c) => is_terminal(t, c)
    /\ \A s \in Sessions :
          \/ t.bindings[s] = r.bindings[s]
          \/ t.bindings[s] = NoChat /\ r.bindings[s] \in Chats /\ is_terminal(t, r.bindings[s])
    /\ t.pending_close \subseteq r.pending_close

\* Registry after registry.
LEMMA QuietTwice ==
  ASSUME NEW r \in Registry, NEW t, NEW v, Quiet(r, t), Quiet(t, v)
  PROVE  Quiet(r, v)
<1>1. ASSUME NEW s \in Sessions
      PROVE  \/ v.bindings[s] = r.bindings[s]
             \/ v.bindings[s] = NoChat /\ r.bindings[s] \in Chats /\ is_terminal(v, r.bindings[s])
  BY LifecycleAssumption DEF Quiet, LifecycleAssumption
<1>2. \A c \in Chats : /\ v.chats[c].sess = r.chats[c].sess
                       /\ is_terminal(r, c) => is_terminal(v, c)
  BY DEF Quiet
<1> QED
  BY <1>1, <1>2 DEF Quiet

\* A transition changes states, and the retries stay.
LEMMA TransitionIs ==
  ASSUME NEW r \in Registry, NEW who, NEW state \in States \ {"none"},
         NEW t, t = transition(r, who, state)
  PROVE  Quiet(r, t) /\ t.retry = r.retry
<1> DEFINE moved == {c \in who \cap registered(r) : ~is_terminal(r, c) \/ r.chats[c].state = state}
           free == {s \in Sessions : /\ state \in Final /\ r.bindings[s] \in moved
                                     /\ r.chats[r.bindings[s]].sess = s}
           entry(c) == IF c \notin moved THEN r.chats[c]
                       ELSE [r.chats[c] EXCEPT !.state = state,
                                               !.confirmed = r.chats[c].confirmed /\ state # "Gap"]
           chats == [c \in Chats |-> entry(c)]
           bindings == [s \in Sessions |-> IF s \in free THEN NoChat ELSE r.bindings[s]]
           closing == IF state = "Closed" THEN r.pending_close \ moved ELSE r.pending_close
<1>1. t = [r EXCEPT !.chats = chats, !.bindings = bindings, !.pending_close = closing]
  BY DEF transition
<1>2. /\ \A c \in moved : c \in Chats /\ r.chats[c].state # "none"
      /\ \A c \in moved : ~is_terminal(r, c) \/ r.chats[c].state = state
      /\ \A s \in free : state \in Final /\ r.bindings[s] \in moved
  BY DEF registered
<1>3. ASSUME NEW c \in Chats
      PROVE  /\ entry(c) \in Entry /\ entry(c).sess = r.chats[c].sess
             /\ entry(c).state = IF c \in moved THEN state ELSE r.chats[c].state
  <2>1. r.chats[c] \in Entry
    BY DEF Registry
  <2>2. (r.chats[c].confirmed /\ state # "Gap") \in BOOLEAN
    OBVIOUS
  <2>3. [r.chats[c] EXCEPT !.state = state,
                           !.confirmed = r.chats[c].confirmed /\ state # "Gap"] \in Entry
    BY <2>1, <2>2 DEF Entry
  <2> QED
    BY <2>1, <2>3 DEF Entry
<1> HIDE DEF moved, free, entry
<1>4. chats \in [Chats -> Entry] /\ bindings \in [Sessions -> Chats \cup {NoChat}]
  BY <1>3 DEF Registry
<1> HIDE DEF chats, bindings, closing
<1>5. t.chats = chats /\ t.bindings = bindings /\ t.pending_close = closing
      /\ t.retry = r.retry /\ t.chat_gap = r.chat_gap
      /\ t = [chats |-> t.chats, bindings |-> t.bindings, pending_close |-> t.pending_close,
              retry |-> t.retry, chat_gap |-> t.chat_gap]
  BY <1>1 DEF Registry
<1>6. ASSUME NEW c \in Chats
      PROVE  /\ t.chats[c] \in Entry /\ t.chats[c].sess = r.chats[c].sess
             /\ t.chats[c].state = IF c \in moved THEN state ELSE r.chats[c].state
  BY <1>3, <1>5 DEF chats
<1>7. t.pending_close \in SUBSET Chats /\ t.retry \in SUBSET Chats /\ t.chat_gap \in BOOLEAN
  BY <1>5 DEF Registry, closing
<1>8. t \in Registry
  BY <1>4, <1>5, <1>7 DEF Registry
<1>9. registered(t) = registered(r)
  BY <1>2, <1>6 DEF registered
<1>10. \A c \in Chats : is_terminal(r, c) => is_terminal(t, c)
  BY <1>2, <1>6 DEF is_terminal
<1>11. ASSUME NEW s \in Sessions, t.bindings[s] # r.bindings[s]
       PROVE  t.bindings[s] = NoChat /\ r.bindings[s] \in Chats /\ is_terminal(t, r.bindings[s])
  BY <1>2, <1>5, <1>6, <1>11 DEF is_terminal, bindings
<1>12. t.pending_close \subseteq r.pending_close
  BY <1>5 DEF closing
<1> QED
  BY <1>5, <1>6, <1>8, <1>9, <1>10, <1>11, <1>12 DEF Quiet

\* The registry itself.
LEMMA QuietSame ==
  ASSUME NEW r \in Registry
  PROVE  Quiet(r, r)
BY DEF Quiet

\* Retries are recorded or forgotten, and the condition of a gap raised or cleared.
LEMMA QuietMarks ==
  ASSUME NEW r \in Registry, NEW t \in Registry,
         t.chats = r.chats, t.bindings = r.bindings, t.pending_close = r.pending_close
  PROVE  Quiet(r, t)
BY DEF Quiet, registered, is_terminal

\* Only marks of entries change.
LEMMA QuietEntries ==
  ASSUME NEW r \in Registry, NEW t \in Registry,
         \A c \in Chats : t.chats[c].state = r.chats[c].state /\ t.chats[c].sess = r.chats[c].sess,
         t.bindings = r.bindings, t.pending_close = r.pending_close
  PROVE  Quiet(r, t)
BY DEF Quiet, registered, is_terminal

\* Binding a session names it in one entry and takes it from another.
Binds(r, t, c, s, from) ==
    /\ t \in Registry /\ registered(t) = registered(r)
    /\ t.bindings = [r.bindings EXCEPT ![s] = c]
    /\ t.pending_close = r.pending_close /\ t.retry = r.retry
    /\ \A d \in Chats : /\ is_terminal(t, d) <=> is_terminal(r, d)
                        /\ t.chats[d].state = r.chats[d].state
                        /\ t.chats[d].sess = IF d = c THEN s ELSE IF d = from THEN NoSession
                                             ELSE r.chats[d].sess

\* This is what bind writes.
LEMMA BoundIs ==
  ASSUME NEW r \in Registry, NEW c \in Chats, NEW s \in Sessions,
         NEW from \in Chats \cup {NoChat}, NEW t, t = Bound(r, c, s, from)
  PROVE  Binds(r, t, c, s, from)
<1> DEFINE entry(d) == IF d = c THEN [r.chats[d] EXCEPT !.sess = s, !.confirmed = TRUE]
                       ELSE IF d = from THEN [r.chats[d] EXCEPT !.sess = NoSession] ELSE r.chats[d]
           bindings == [r.bindings EXCEPT ![s] = c]
           chats == [d \in Chats |-> entry(d)]
<1>1. t = [r EXCEPT !.bindings = bindings, !.chats = chats]
  BY DEF Bound, Registry
<1>2. ASSUME NEW d \in Chats
      PROVE  /\ entry(d) \in Entry /\ entry(d).state = r.chats[d].state
             /\ entry(d).sess = IF d = c THEN s ELSE IF d = from THEN NoSession
                                ELSE r.chats[d].sess
  <2>1. r.chats[d] \in Entry
    BY DEF Registry
  <2> QED
    BY <2>1 DEF Entry
<1> HIDE DEF entry
<1>3. chats \in [Chats -> Entry]
  BY <1>2
<1>4. bindings \in [Sessions -> Chats \cup {NoChat}]
  BY DEF Registry
<1>5. /\ t \in Registry /\ t.chats = chats /\ t.bindings = bindings
      /\ t.pending_close = r.pending_close /\ t.retry = r.retry
  <2> HIDE DEF chats, bindings
  <2> QED
    BY <1>1, <1>3, <1>4 DEF Registry
<1>6. \A d \in Chats : /\ t.chats[d].state = r.chats[d].state
                       /\ t.chats[d].sess = IF d = c THEN s ELSE IF d = from THEN NoSession
                                            ELSE r.chats[d].sess
  BY <1>2, <1>5
<1>7. \A d \in Chats : is_terminal(t, d) <=> is_terminal(r, d)
  BY <1>6 DEF is_terminal
<1>8. registered(t) = registered(r)
  BY <1>6 DEF registered
<1> QED
  BY <1>5, <1>6, <1>7, <1>8 DEF Binds

\* Chats K are registered with entries of their own.
Joined(r, K) ==
    [r EXCEPT !.chats = [c \in Chats |->
       IF c \in K THEN [NoEntry EXCEPT !.state = "Accepting"] ELSE r.chats[c]]]

\* The registry after it.
LEMMA RegisteredIs ==
  ASSUME NEW r \in Registry, NEW K \in SUBSET Chats, NEW t, t = Joined(r, K)
  PROVE  /\ t \in Registry /\ registered(t) = registered(r) \cup K
         /\ t.bindings = r.bindings /\ t.pending_close = r.pending_close /\ t.retry = r.retry
         /\ \A c \in Chats \ K : t.chats[c] = r.chats[c]
         /\ \A c \in K : t.chats[c].sess = NoSession /\ t.chats[c].state = "Accepting"
<1> DEFINE new == [NoEntry EXCEPT !.state = "Accepting"]
           chats == [c \in Chats |-> IF c \in K THEN new ELSE r.chats[c]]
<1>1. new \in Entry /\ new.sess = NoSession /\ new.state = "Accepting"
  BY DEF Entry, NoEntry, States
<1> HIDE DEF new
<1>2. chats \in [Chats -> Entry]
  BY <1>1 DEF Registry
<1>3. /\ t \in Registry /\ t.chats = chats /\ t.bindings = r.bindings
      /\ t.pending_close = r.pending_close /\ t.retry = r.retry
  <2>1. t = [r EXCEPT !.chats = chats]
    BY DEF new, Joined
  <2> HIDE DEF chats
  <2> QED
    BY <1>2, <2>1 DEF Registry
<1>4. \A c \in Chats : t.chats[c] = IF c \in K THEN new ELSE r.chats[c]
  BY <1>3
<1>5. registered(t) = registered(r) \cup K
  BY <1>1, <1>4 DEF registered
<1> QED
  BY <1>1, <1>3, <1>4, <1>5

\* A report of the recovery lane: confirmations and gaps.
LEMMA ReconciledIs ==
  ASSUME NEW r \in Registry, NEW w, NEW t, t = Reconciled(r, w)
  PROVE  Quiet(r, t) /\ t.retry = r.retry
<1> DEFINE chats == [c \in Chats |->
        IF c \in w.confirm \cap open_chats(r) THEN [r.chats[c] EXCEPT !.confirmed = TRUE]
        ELSE IF c \in w.missing THEN [r.chats[c] EXCEPT !.confirmed = FALSE] ELSE r.chats[c]]
           judged == [r EXCEPT !.chats = chats]
<1>1. t = transition(judged, w.missing \cap open_chats(r), "Gap")
  BY Zenon DEF Reconciled
<1>2. ASSUME NEW c \in Chats
      PROVE  chats[c] \in Entry /\ chats[c].state = r.chats[c].state /\ chats[c].sess = r.chats[c].sess
  <2>1. r.chats[c] \in Entry
    BY DEF Registry
  <2> QED
    BY <2>1 DEF Entry
<1>3. chats \in [Chats -> Entry]
  BY <1>2
<1>4. /\ judged \in Registry /\ judged.chats = chats /\ judged.bindings = r.bindings
      /\ judged.pending_close = r.pending_close /\ judged.retry = r.retry
  <2> HIDE DEF chats
  <2> QED
    BY <1>3 DEF Registry
<1>5. Quiet(r, judged)
  <2> HIDE DEF judged, chats
  <2>1. \A c \in Chats : judged.chats[c].state = r.chats[c].state /\ judged.chats[c].sess = r.chats[c].sess
    BY <1>2, <1>4
  <2> QED
    BY <1>4, <2>1, QuietEntries
<1> HIDE DEF judged
<1>6. Quiet(judged, t) /\ t.retry = judged.retry
  <2>1. "Gap" \in States \ {"none"}
    BY DEF States
  <2> QED
    BY <1>1, <1>4, <2>1, TransitionIs
<1> QED
  BY <1>4, <1>5, <1>6, QuietTwice

\* A chat is in a gap, and so is the server; or the gap is over.
LEMMA GapIs ==
  ASSUME NEW r \in Registry, NEW c \in Chats, NEW g \in BOOLEAN, NEW state \in {"Gap", "Accepting"},
         NEW t, t = transition([r EXCEPT !.chats[c].gap = g, !.chat_gap = g], {c}, state)
  PROVE  Quiet(r, t) /\ t.retry = r.retry
<1> DEFINE m == [r EXCEPT !.chats[c].gap = g, !.chat_gap = g]
<1>1. r.chats[c] \in Entry
  BY DEF Registry
<1>2. [r.chats[c] EXCEPT !.gap = g] \in Entry
  BY <1>1 DEF Entry
<1>3. [r.chats EXCEPT ![c] = [r.chats[c] EXCEPT !.gap = g]] \in [Chats -> Entry]
  BY <1>2 DEF Registry
<1>4. /\ m.chats = [r.chats EXCEPT ![c] = [r.chats[c] EXCEPT !.gap = g]]
      /\ m.bindings = r.bindings /\ m.pending_close = r.pending_close /\ m.retry = r.retry
      /\ m \in Registry
  BY <1>3 DEF Registry
<1> HIDE DEF m
<1>5. \A d \in Chats : m.chats[d].state = r.chats[d].state /\ m.chats[d].sess = r.chats[d].sess
  BY <1>1, <1>4 DEF Registry, Entry
<1>6. Quiet(r, m)
  BY <1>4, <1>5, QuietEntries
<1>7. Quiet(m, t) /\ t.retry = m.retry
  <2>1. state \in States \ {"none"}
    BY DEF States
  <2>2. t = transition(m, {c}, state)
    BY DEF m
  <2> QED
    BY <1>4, <2>1, <2>2, TransitionIs
<1> QED
  BY <1>4, <1>6, <1>7, QuietTwice

\* A close that finds the instance offline is kept for later.
LEMMA OfflineIs ==
  ASSUME NEW r \in Registry, NEW c \in registered(r), NEW t, t = request_close_offline(r, c)
  PROVE  /\ t \in Registry /\ registered(t) = registered(r)
         /\ t.bindings = r.bindings /\ t.retry = r.retry
         /\ t.pending_close = r.pending_close \cup {c}
         /\ \A d \in Chats : t.chats[d].sess = r.chats[d].sess
         /\ \A d \in Chats \ {c} : t.chats[d] = r.chats[d]
<1>0. c \in Chats
  BY DEF registered
<1>1. r.chats[c] \in Entry
  BY <1>0 DEF Registry
<1>2. [r.chats[c] EXCEPT !.state = "PendingClose"] \in Entry
  BY <1>1 DEF Entry, States
<1>3. [r.chats EXCEPT ![c] = [r.chats[c] EXCEPT !.state = "PendingClose"]] \in [Chats -> Entry]
  BY <1>2 DEF Registry
<1>4. /\ t.chats = [r.chats EXCEPT ![c] = [r.chats[c] EXCEPT !.state = "PendingClose"]]
      /\ t.bindings = r.bindings /\ t.pending_close = r.pending_close \cup {c}
      /\ t.retry = r.retry
  BY DEF request_close_offline, Registry
<1>5. t \in Registry
  BY <1>0, <1>3 DEF request_close_offline, Registry
<1>6. \A d \in Chats \ {c} : t.chats[d] = r.chats[d]
  BY <1>4 DEF Registry
<1>7. t.chats[c].sess = r.chats[c].sess /\ t.chats[c].state = "PendingClose"
  BY <1>0, <1>1, <1>4 DEF Registry, Entry
<1>8. registered(t) = registered(r)
  BY <1>6, <1>7 DEF registered
<1> QED
  BY <1>4, <1>5, <1>6, <1>7, <1>8

------------------------------------------------------------------------------
(* What outlasts a step.                                                   *)

\* A step that leaves every reason for a kill in place.
Lasts ==
    /\ reg' \in Registry /\ registered(reg) \subseteq registered(reg')
    /\ \A c \in registered(reg') \ registered(reg) : ~Hunted(c)
    /\ asked \subseteq asked' /\ used'.ssh = used.ssh
    /\ \A c \in Chats : is_terminal(reg, c) => is_terminal(reg', c) \/ c \in asked'
    /\ \A c \in Chats : answer[c] \in {"failed", "unknown"} => answer'[c] = answer[c]
    /\ create.pc = "killing" =>
          \/ create'.pc = "killing" /\ create'.chat = create.chat
          \/ answer'[create.chat] \in {"failed", "unknown"}

\* A chat that is hunted stays hunted.
LEMMA HuntedStays ==
  ASSUME ServerTypes, Lasts, NEW c \in Chats, Hunted(c)
  PROVE  Hunted(c)'
<1>1. c \in Known'
  BY DEF Lasts, Hunted, Known
<1>2. CASE c \notin registered(reg) /\ ~Adopts(reg)
  <2>1. c \notin registered(reg')
    BY <1>2 DEF Lasts
  <2>2. ~Adopts(reg)'
    BY <1>2 DEF Lasts, Adopts
  <2> QED
    BY <1>1, <2>1, <2>2 DEF Hunted, Unwanted, Adopts
<1>3. CASE c \in registered(reg) /\ is_terminal(reg, c)
  BY <1>1, <1>3 DEF Lasts, Hunted, Unwanted
<1>4. CASE c \in asked
  BY <1>1, <1>4 DEF Lasts, Hunted, Unwanted
<1>5. CASE answer[c] \in {"failed", "unknown"}
  BY <1>1, <1>5 DEF Lasts, Hunted, Unwanted
<1>6. CASE create.chat = c /\ create.pc = "killing"
  BY <1>1, <1>6 DEF Lasts, Hunted, Unwanted
<1> QED
  BY <1>2, <1>3, <1>4, <1>5, <1>6 DEF Hunted, Unwanted

\* Frames keep their reasons too, if only a registered chat can start to run.
LEMMA FramesStay ==
  ASSUME ServerTypes, Lasts,
         \A c \in Chats \ registered(reg) : proc[c] # "run" => proc'[c] # "run"
  PROVE  GoodDown \subseteq GoodDown' /\ GoodUp \subseteq GoodUp'
<1>1. ASSUME NEW f \in GoodDown
      PROVE  f \in GoodDown'
  <2>1. f \in DownFrame /\ f.chat \in Chats
    BY DEF GoodDown, DownFrame
  <2>2. f.k = "kill" => Hunted(f.chat)'
    BY <2>1, HuntedStays DEF GoodDown
  <2> QED
    BY <2>1, <2>2 DEF GoodDown, Lasts
<1>2. ASSUME NEW f \in GoodUp
      PROVE  f \in GoodUp'
  <2>1. f.who \in Chats => Hunted(f.who)'
    BY HuntedStays DEF GoodUp
  <2> QED
    BY <2>1 DEF GoodUp, Lasts, Known
<1> QED
  BY <1>1, <1>2

\* The bindings, when no session is bound.
LEMMA BindingKeeps ==
  ASSUME ServerTypes, BindingInv, Quiet(reg, reg'), asked \subseteq asked',
         create'.pc = "taking" => create' = create,
         create'.pc \in {"spawn", "spawning", "initialize", "loading"} =>
            /\ create.pc \in {"spawn", "spawning", "initialize", "loading"}
            /\ create'.sess = create.sess
  PROVE  BindingInv'
<1>1. ASSUME NEW c \in Chats \ asked', NEW s \in Sessions,
             reg'.chats[c].sess = s, ~is_terminal(reg', c)
      PROVE  reg'.bindings[s] = c
  <2>1. c \in Chats \ asked /\ reg.chats[c].sess = s /\ ~is_terminal(reg, c)
    BY <1>1 DEF Quiet
  <2>2. reg.bindings[s] = c
    BY <2>1 DEF BindingInv
  <2> QED
    BY <1>1, <2>2 DEF Quiet
<1>2. \A c \in Chats \ registered(reg') : reg'.chats[c].sess = NoSession
  BY DEF BindingInv, Quiet
<1>3. create'.pc = "taking" =>
         reg'.bindings[create'.sess] \in {create'.from, NoChat} /\ create'.sess \in Stored
  <2>1. SUFFICES ASSUME create'.pc = "taking"
                 PROVE  reg'.bindings[create'.sess] \in {create'.from, NoChat} /\ create'.sess \in Stored
    OBVIOUS
  <2>2. create' = create /\ create.sess \in Sessions
    BY <2>1 DEF ServerTypes, NoCreate, Creating
  <2>3. reg.bindings[create.sess] \in {create.from, NoChat} /\ create.sess \in Stored
    BY <2>1, <2>2 DEF BindingInv
  <2> QED
    BY <2>2, <2>3 DEF Quiet
<1>4. create'.pc \in {"spawn", "spawning", "initialize", "loading"} /\ create'.sess \notin Stored =>
          \A c \in Chats : reg'.chats[c].sess # create'.sess
  BY DEF BindingInv, Quiet
<1> QED
  BY <1>1, <1>2, <1>3, <1>4 DEF BindingInv

\* A step that has no part in a create and registers and binds nobody.
Steady ==
    /\ Quiet(reg, reg') /\ create' = create /\ answer' = answer
    /\ asked \subseteq asked' /\ used'.ssh = used.ssh

\* The registry is sound after a steady step, and reasons last.
LEMMA SteadyKeeps ==
  ASSUME IInv, Steady
  PROVE  /\ Lasts /\ BindingInv'
         /\ (lane'.pending => lane.pending) => BarrierShut'
<1>1. Lasts
  BY DEF Steady, Quiet, Lasts
<1>2. BindingInv'
  BY BindingKeeps DEF Steady, IInv
<1>3. (lane'.pending => lane.pending) => BarrierShut'
  BY DEF IInv, BarrierShut, Steady, Quiet
<1> QED
  BY <1>1, <1>2, <1>3

\* What the chats under way, and the answers, refer to is still there.
LEMMA KnownKeeps ==
  ASSUME IInv, Steady, asked' \subseteq registered(reg'),
         \A c \in Chats : proc'[c] # "no" => proc[c] # "no" \/ c \in registered(reg),
         lane'.latest.alive \subseteq Known',
         closer' # NoClose => closer'.chat \in asked'
  PROVE  KnownInv'
<1>1. registered(reg') = registered(reg) /\ Known' = Known
  BY DEF Steady, Quiet, Known
<1>2. \A c \in Chats : proc'[c] # "no" => c \in Known'
  BY <1>1 DEF IInv, KnownInv, Known
<1>3. create' # NoCreate => create'.chat \in registered(reg') /\ answer'[create'.chat] = "none"
  BY <1>1 DEF IInv, KnownInv, Steady
<1>4. \A c \in Chats : answer'[c] # "none" => c \in registered(reg')
  BY <1>1 DEF IInv, KnownInv, Steady
<1>5. reg'.pending_close \subseteq asked'
  BY DEF IInv, KnownInv, Steady, Quiet
<1> QED
  BY <1>2, <1>3, <1>4, <1>5 DEF KnownInv

\* What is on its way, seen as frames only.
LEMMA Typed ==
  ASSUME IInv
  PROVE  /\ reg \in Registry /\ down \in Seq(DownFrame) /\ up \in Seq(UpFrame)
         /\ down \in Seq(GoodDown) /\ up \in Seq(GoodUp)
         /\ GoodDown \subseteq DownFrame /\ GoodUp \subseteq UpFrame
         /\ \A c \in Chats : killer[c] \in Killer
<1>1. GoodDown \subseteq DownFrame /\ GoodUp \subseteq UpFrame
  BY DEF GoodDown, GoodUp
<1>2. down \in Seq(GoodDown) /\ up \in Seq(GoodUp)
  BY DEF IInv, LineInv
<1>3. down \in Seq(DownFrame) /\ up \in Seq(UpFrame)
  BY <1>1, <1>2, SeqMonotonic
<1> QED
  BY <1>1, <1>2, <1>3 DEF IInv, ServerTypes

\* No spawn of a chat is on its way: what the operations on the line make of that.
LEMMA NoSpawnIs ==
  ASSUME NEW d \in Seq(DownFrame), NEW c
  PROVE  /\ NoSpawn(<<>>, c)
         /\ d # <<>> /\ NoSpawn(d, c) => NoSpawn(Tail(d), c) /\ ~SpawnOf(Head(d), c)
         /\ \A f \in DownFrame : NoSpawn(d, c) /\ ~SpawnOf(f, c) => NoSpawn(Append(d, f), c)
         /\ \A who : NoSpawn(d, c) => NoSpawn(Forsaken(d, who), c)
<1>1. NoSpawn(<<>>, c)
  BY DEF NoSpawn
<1>2. d # <<>> /\ NoSpawn(d, c) => NoSpawn(Tail(d), c) /\ ~SpawnOf(Head(d), c)
  <2>1. SUFFICES ASSUME d # <<>>, NoSpawn(d, c)
                 PROVE  NoSpawn(Tail(d), c) /\ ~SpawnOf(Head(d), c)
    OBVIOUS
  <2>2. /\ 1 \in 1..Len(d) /\ Head(d) = d[1]
        /\ \A i \in 1..Len(Tail(d)) : i + 1 \in 1..Len(d) /\ Tail(d)[i] = d[i + 1]
    BY <2>1, TailIs
  <2> QED
    BY <2>1, <2>2 DEF NoSpawn
<1>3. ASSUME NEW f \in DownFrame, NoSpawn(d, c), ~SpawnOf(f, c)
      PROVE  NoSpawn(Append(d, f), c)
  <2>1. /\ Len(d) \in Nat /\ Len(Append(d, f)) = Len(d) + 1
        /\ \A i \in 1..Len(d) : Append(d, f)[i] = d[i]
        /\ Append(d, f)[Len(d) + 1] = f
    BY AppendIs
  <2>2. \A i \in 1..Len(Append(d, f)) : i \in 1..Len(d) \/ i = Len(d) + 1
    BY <2>1
  <2> QED
    BY <1>3, <2>1, <2>2 DEF NoSpawn
<1>4. ASSUME NEW who, NoSpawn(d, c)
      PROVE  NoSpawn(Forsaken(d, who), c)
  <2>1. /\ Len(Forsaken(d, who)) = Len(d)
        /\ \A i \in 1..Len(d) : /\ Forsaken(d, who)[i].k = d[i].k
                                /\ Forsaken(d, who)[i].chat = d[i].chat
    BY ForsakenDown
  <2> QED
    BY <1>4, <2>1 DEF NoSpawn, SpawnOf
<1> QED
  BY <1>1, <1>2, <1>3, <1>4

\* FailedMeansDead in these words.
LEMMA FailedIs ==
  FailedMeansDead <=>
    \A c \in Chats : answer[c] = "failed" => proc[c] # "run" /\ NoSpawn(down, c)
BY DEF FailedMeansDead, NoSpawn, SpawnOf

\* Kills keep their reasons if none is added without one.
LEMMA HuntKeeps ==
  ASSUME IInv, Lasts, reg'.retry \subseteq Chats,
         \A c \in Chats : killer'[c].pc # "idle" => killer[c].pc # "idle" \/ Hunted(c),
         \A c \in reg'.retry : c \in reg.retry \/ Hunted(c),
         lane'.work.pc = "write" => lane.work.pc = "write" /\ lane'.work.kill \subseteq lane.work.kill
  PROVE  HuntInv'
<1>1. \A c \in Chats : Hunted(c) => Hunted(c)'
  BY HuntedStays DEF IInv
<1>2. ASSUME NEW c \in Chats, killer'[c].pc # "idle"
      PROVE  Hunted(c)'
  BY <1>1, <1>2 DEF IInv, HuntInv
<1>3. ASSUME NEW c \in reg'.retry
      PROVE  Hunted(c)'
  BY <1>1 DEF IInv, HuntInv
<1>4. ASSUME lane'.work.pc = "write", NEW c \in lane'.work.kill
      PROVE  Hunted(c)'
  <2>1. c \in Chats
    BY <1>4 DEF IInv, ServerTypes, Lane, Work
  <2> QED
    BY <1>1, <1>4, <2>1 DEF IInv, HuntInv
<1> QED
  BY <1>2, <1>3, <1>4 DEF HuntInv

\* What the snapshot found is still handled if the worker goes on with it or stops.
LEMMA BarrierKeeps ==
  ASSUME IInv, Lasts, lane'.pending => lane.pending,
         lane'.work = lane.work \/ lane'.work.pc = "idle",
         \A c \in Chats \ registered(reg) : Handled(c) => Handled(c)'
  PROVE  BarrierInv'
<1>1. CASE lane'.work.pc = "idle"
  BY <1>1 DEF BarrierInv
<1>2. CASE lane'.work = lane.work
  <2>1. lane.work.snap.alive \subseteq Chats
    BY DEF IInv, ServerTypes, Lane, Work, Snapshot
  <2>2. registered(reg) \subseteq registered(reg')
    BY DEF Lasts
  <2> QED
    BY <1>2, <2>1, <2>2 DEF IInv, BarrierInv
<1> QED
  BY <1>1, <1>2

\* A step of the instance or of the connection leaves the server as it is.
ServerStill == UNCHANGED server /\ used'.ssh = used.ssh

\* The parts of the invariant that such a step has to be asked for.
LEMMA WorldStep ==
  ASSUME IInv, ServerStill, WorldTypes', LineInv', CreateInv', FailedMeansDead',
         \A c \in Chats : proc'[c] # "no" => proc[c] # "no" \/ c \in registered(reg),
         \A c \in Chats \ registered(reg) : proc[c] # "run" => proc'[c] # "run"
  PROVE  IInv'
<1>1. Steady
  BY Typed, QuietSame DEF Steady, ServerStill, server
<1>2. Lasts /\ BindingInv' /\ BarrierShut'
  BY <1>1, SteadyKeeps DEF ServerStill, server
<1>3. ServerTypes'
  BY DEF IInv, ServerTypes, ServerStill, server
<1>4. KnownInv'
  <2>1. registered(reg') = registered(reg) /\ Known' = Known
    BY DEF ServerStill, server, Known
  <2>2. /\ asked' \subseteq registered(reg') /\ lane'.latest.alive \subseteq Known'
        /\ closer' # NoClose => closer'.chat \in asked'
    BY <2>1 DEF IInv, KnownInv, ServerStill, server
  <2> QED
    BY <1>1, <2>2, KnownKeeps
<1>5. HuntInv'
  <2>1. /\ reg'.retry \subseteq Chats
        /\ \A c \in Chats : killer'[c].pc # "idle" => killer[c].pc # "idle"
        /\ \A c \in reg'.retry : c \in reg.retry
        /\ lane' = lane
    BY Typed DEF ServerStill, server, Registry
  <2> QED
    BY <1>2, <2>1, HuntKeeps
<1>6. BarrierInv'
  <2>1. lane' = lane
    BY DEF ServerStill, server
  <2>2. \A c \in Chats \ registered(reg) : Handled(c) => Handled(c)'
    BY DEF ServerStill, server, Handled
  <2> QED
    BY <1>2, <2>1, <2>2, BarrierKeeps
<1> QED
  BY <1>2, <1>3, <1>4, <1>5, <1>6 DEF IInv

------------------------------------------------------------------------------
(* The initial states.                                                     *)

\* The values that variables start with are of their types.
LEMMA EmptyIs ==
  /\ EmptyRegistry \in Registry /\ NoWork \in Work /\ NoKill \in Killer
  /\ FreshLane \in Lane /\ [FreshLane EXCEPT !.pending = TRUE] \in Lane
  /\ [FreshLane EXCEPT !.pending = FALSE] \in Lane /\ [FreshLane EXCEPT !.conn = 1] \in Lane
<1>1. NoSnapshot \in Snapshot
  BY DEF NoSnapshot, Snapshot
<1>2. NoWork \in Work
  BY <1>1 DEF NoWork, Work
<1>3. NoEntry \in Entry
  BY DEF NoEntry, Entry, States
<1>4. EmptyRegistry \in Registry
  BY <1>3 DEF EmptyRegistry, Registry
<1>5. NoKill \in Killer
  BY LifecycleAssumption DEF NoKill, Killer, LifecycleAssumption
<1>6. /\ FreshLane \in Lane /\ [FreshLane EXCEPT !.pending = TRUE] \in Lane
      /\ [FreshLane EXCEPT !.pending = FALSE] \in Lane /\ [FreshLane EXCEPT !.conn = 1] \in Lane
  BY <1>1, <1>2 DEF FreshLane, Lane
<1> QED
  BY <1>2, <1>4, <1>5, <1>6

\* Nobody is registered, or only the chat that runs.
LEMMA InitialRegistry ==
  ASSUME Init
  PROVE  /\ reg \in Registry /\ registered(reg) \subseteq {Old}
         /\ reg.pending_close = {} /\ reg.retry = {}
         /\ \A c \in Chats : \A s \in Sessions :
               reg.chats[c].sess = s => reg.bindings[s] = c
         /\ \A c \in Chats \ registered(reg) : reg.chats[c].sess = NoSession
         /\ Starting => \A c \in Chats : reg.chats[c].sess = NoSession
<1>1. CASE Starting
  <2>1. reg = EmptyRegistry
    BY <1>1 DEF Starting
  <2>2. \A c \in Chats : reg.chats[c] = NoEntry
    BY <2>1 DEF EmptyRegistry
  <2>3. registered(reg) = {}
    BY <2>2 DEF registered, NoEntry
  <2>4. \A s \in Sessions : s # NoSession
    BY LifecycleAssumption DEF LifecycleAssumption
  <2> QED
    BY <2>1, <2>2, <2>3, <2>4, EmptyIs DEF EmptyRegistry, NoEntry
<1>2. CASE Running
  <2>1. PICK s \in Stored :
          reg = [EmptyRegistry EXCEPT !.bindings[s] = Old,
                   !.chats[Old] = [state |-> "Accepting", sess |-> s, confirmed |-> TRUE, gap |-> FALSE]]
    BY <1>2 DEF Running
  <2>2. s \in Sessions /\ Old \in Chats /\ \A t \in Sessions : t # NoSession
    BY LifecycleAssumption DEF LifecycleAssumption
  <2>3. [state |-> "Accepting", sess |-> s, confirmed |-> TRUE, gap |-> FALSE] \in Entry
    BY <2>2 DEF Entry, States
  <2>4. NoEntry \in Entry
    BY DEF NoEntry, Entry, States
  <2>5. /\ reg \in Registry /\ reg.bindings = [[t \in Sessions |-> NoChat] EXCEPT ![s] = Old]
        /\ reg.chats = [[c \in Chats |-> NoEntry] EXCEPT ![Old] =
                          [state |-> "Accepting", sess |-> s, confirmed |-> TRUE, gap |-> FALSE]]
        /\ reg.pending_close = {} /\ reg.retry = {}
    BY <2>1, <2>2, <2>3, <2>4 DEF EmptyRegistry, Registry
  <2>6. \A c \in Chats \ {Old} : reg.chats[c] = NoEntry
    BY <2>5
  <2>7. reg.chats[Old].sess = s /\ reg.chats[Old].state = "Accepting" /\ reg.bindings[s] = Old
    BY <2>2, <2>5
  <2>8. registered(reg) = {Old}
    BY <2>2, <2>6, <2>7 DEF registered, NoEntry
  <2>9. ~Starting
    BY <2>2, <2>7 DEF Starting, EmptyRegistry, NoEntry
  <2> QED
    BY <2>2, <2>5, <2>6, <2>7, <2>8, <2>9 DEF NoEntry
<1> QED
  BY <1>1, <1>2 DEF Init

\* Nothing is under way.
LEMMA InitInv == Init => IInv
<1> SUFFICES ASSUME Init
             PROVE  IInv
  OBVIOUS
<1>1. /\ reg \in Registry /\ registered(reg) \subseteq {Old}
      /\ reg.pending_close = {} /\ reg.retry = {}
      /\ \A c \in Chats : \A s \in Sessions :
            reg.chats[c].sess = s => reg.bindings[s] = c
      /\ \A c \in Chats \ registered(reg) : reg.chats[c].sess = NoSession
      /\ Starting => \A c \in Chats : reg.chats[c].sess = NoSession
  BY InitialRegistry
<1>2. /\ gapping = {} /\ killer = [c \in Chats |-> NoKill] /\ create = NoCreate
      /\ answer = [c \in Chats |-> "none"] /\ closer = NoClose /\ asked = {}
      /\ down = <<>> /\ up = <<>>
  BY DEF Init
<1>3. /\ lane \in Lane /\ lane.work.pc = "idle" /\ lane.latest.alive = {}
      /\ lane.conn \in 0..used.conns /\ link \in 0..used.conns
      /\ inst \in Instance /\ inst.conn \in 0..used.conns
      /\ proc = [c \in Chats |-> IF c = Old THEN "run" ELSE "no"]
      /\ used \in [conns : Nat, events : Nat, ssh : BOOLEAN]
      /\ lane.pending => Starting /\ ~used.ssh
  <2>1. CASE Starting
    <3>1. PICK ssh \in BOOLEAN :
             /\ lane = [FreshLane EXCEPT !.pending = ~ssh]
             /\ used = [conns |-> 0, events |-> 1, ssh |-> ssh]
             /\ inst = [online |-> FALSE, conn |-> 0, known |-> FALSE, alive |-> {}]
             /\ proc = [c \in Chats |-> IF c = Old THEN "run" ELSE "no"]
             /\ link = 0
      BY <2>1 DEF Starting
    <3>2. /\ used \in [conns : Nat, events : Nat, ssh : BOOLEAN] /\ used.ssh = ssh
          /\ used.conns = 0 /\ inst \in Instance /\ inst.conn = 0
      BY <3>1 DEF Instance
    <3>3. 0 \in 0..used.conns
      BY <3>2
    <3>4. CASE ssh = TRUE
      <4>1. lane = [FreshLane EXCEPT !.pending = FALSE]
        BY <3>1, <3>4
      <4>2. ~lane.pending /\ lane.work.pc = "idle" /\ lane.latest.alive = {} /\ lane.conn = 0
        BY <4>1 DEF FreshLane, NoWork, NoSnapshot
      <4> QED
        BY <3>1, <3>2, <3>3, <4>1, <4>2, EmptyIs
    <3>5. CASE ssh = FALSE
      <4>1. lane = [FreshLane EXCEPT !.pending = TRUE]
        BY <3>1, <3>5
      <4>2. lane.work.pc = "idle" /\ lane.latest.alive = {} /\ lane.conn = 0
        BY <4>1 DEF FreshLane, NoWork, NoSnapshot
      <4> QED
        BY <2>1, <3>1, <3>5, <3>2, <3>3, <4>1, <4>2, EmptyIs
    <3> QED
      BY <3>4, <3>5
  <2>2. CASE Running
    <3>1. /\ lane = [FreshLane EXCEPT !.conn = 1] /\ link = 1
          /\ used = [conns |-> 1, events |-> 0, ssh |-> FALSE]
          /\ inst = [online |-> TRUE, conn |-> 1, known |-> TRUE, alive |-> {Old}]
          /\ proc = [c \in Chats |-> IF c = Old THEN "run" ELSE "no"]
      BY <2>2 DEF Running
    <3>2. ~lane.pending /\ lane.work.pc = "idle" /\ lane.latest.alive = {} /\ lane.conn = 1
      BY <3>1 DEF FreshLane, NoWork, NoSnapshot
    <3>3. /\ used \in [conns : Nat, events : Nat, ssh : BOOLEAN]
          /\ used.conns = 1 /\ inst \in Instance /\ inst.conn = 1
      BY <3>1, LifecycleAssumption DEF Instance, LifecycleAssumption
    <3> QED
      BY <3>1, <3>2, <3>3, EmptyIs
  <2> QED
    BY <2>1, <2>2 DEF Init
<1>4. ServerTypes
  BY <1>1, <1>2, <1>3, EmptyIs DEF ServerTypes
<1>5. WorldTypes
  <2>1. Len(up) = 0 /\ MaxReports \in Nat
    BY <1>2, LifecycleAssumption DEF LifecycleAssumption
  <2> QED
    BY <1>2, <1>3, <2>1 DEF WorldTypes
<1>6. BindingInv
  BY <1>1, <1>2 DEF BindingInv, NoCreate
<1>7. BarrierShut
  BY <1>1, <1>2, <1>3 DEF BarrierShut
<1>8. KnownInv
  BY <1>1, <1>2, <1>3 DEF KnownInv, Known
<1>9. HuntInv
  BY <1>1, <1>2, <1>3 DEF HuntInv, NoKill
<1>10. LineInv
  BY <1>2, EmptySeq DEF LineInv
<1>11. BarrierInv
  BY <1>3 DEF BarrierInv
<1>12. CreateInv
  <2>1. Len(<<>>) = 0
    OBVIOUS
  <2> QED
    BY <1>2, <2>1 DEF CreateInv, FramesOf, DownOf, UpOf, Alone, Silent, NoSpawn, NoCreate
<1>13. FailedMeansDead
  BY <1>2 DEF FailedMeansDead
<1> QED
  BY <1>4, <1>5, <1>6, <1>7, <1>8, <1>9, <1>10, <1>11, <1>12, <1>13 DEF IInv

------------------------------------------------------------------------------
(* The steps of the instance and of the connection.                        *)

\* A report that nobody waits for is sent.
LEMMA Heard ==
  ASSUME IInv, NEW f, Hear(f), f \in GoodUp', GoodUp \subseteq GoodUp'
  PROVE  /\ Len(up') <= MaxReports /\ up' \in Seq(GoodUp') /\ up' = Append(up, f)
         /\ link # 0
<1>1. up' = Append(up, f) /\ Len(up) < MaxReports /\ link # 0
  BY DEF Hear
<1>2. up \in Seq(GoodUp')
  BY Typed, SeqMonotonic
<1>3. Len(up) \in Nat /\ MaxReports \in Nat
  BY <1>2, LenProperties, LifecycleAssumption DEF LifecycleAssumption
<1>4. Append(up, f) \in Seq(GoodUp') /\ Len(Append(up, f)) = Len(up) + 1
  BY <1>2, AppendIs
<1> QED
  BY <1>1, <1>3, <1>4

\* The server has not moved, so the frames under way keep what they mean.
LEMMA StillGood ==
  ASSUME IInv, ServerStill,
         \A c \in Chats \ registered(reg) : proc[c] # "run" => proc'[c] # "run"
  PROVE  Lasts /\ GoodDown \subseteq GoodDown' /\ GoodUp \subseteq GoodUp'
<1>1. Steady
  BY Typed, QuietSame DEF Steady, ServerStill, server
<1>2. Lasts
  BY <1>1, SteadyKeeps
<1> QED
  BY <1>2, FramesStay DEF IInv

\* Steps that only report: a heartbeat, a frame, an exit.
LEMMA ReportStep ==
  ASSUME IInv, ServerStill, NEW f \in UpFrame, link' = link, used' = used, down' = down,
         f.who = "none", f.alive \subseteq Known, f.k # "heartbeat" => f.chat \in Chats,
         Hear(f) \/ up' = up,
         proc' \in [Chats -> {"run", "dead", "no"}],
         \A c \in Chats : proc'[c] = proc[c] \/ proc'[c] = "no"
  PROVE  IInv'
<1>1. /\ \A c \in Chats : proc'[c] # "no" => proc[c] # "no"
      /\ \A c \in Chats : proc[c] # "run" => proc'[c] # "run"
  OBVIOUS
<1>2. GoodDown \subseteq GoodDown' /\ GoodUp \subseteq GoodUp'
  BY <1>1, StillGood
<1>3. f \in GoodUp'
  <2>1. registered(reg') = registered(reg) /\ Known' = Known
    BY DEF ServerStill, server, Known
  <2>2. f.who \notin Chats
    BY LifecycleAssumption DEF LifecycleAssumption
  <2> QED
    BY <2>1, <2>2 DEF GoodUp
<1>4. Len(up') <= MaxReports /\ up' \in Seq(GoodUp')
  <2>1. CASE Hear(f)
    BY <1>2, <1>3, <2>1, Heard
  <2>2. CASE up' = up
    BY <1>2, <2>2, Typed, SeqMonotonic DEF IInv, WorldTypes
  <2> QED
    BY <2>1, <2>2
<1>5. LineInv'
  <2>1. down \in Seq(GoodDown')
    BY <1>2, Typed, SeqMonotonic
  <2> QED
    BY <1>4, <2>1 DEF LineInv
<1>6. WorldTypes'
  BY <1>4 DEF IInv, WorldTypes, ServerStill, server
<1>7. CreateInv'
  <2>1. FramesOf(create, down, up', proc)
    <3>1. FramesOf(create, down, up, proc)
      BY DEF IInv, CreateInv
    <3>2. CASE Hear(f)
      <4>1. up' = Append(up, f)
        BY <3>2 DEF Hear
      <4> QED
        BY <3>1, <4>1, Typed, FramesReported
    <3> QED
      BY <3>1, <3>2
  <2>2. create = NoCreate \/ create.chat \in Chats
    BY DEF IInv, ServerTypes, Creating
  <2>3. FramesOf(create, down, up', proc')
    <3>1. CASE create = NoCreate
      BY <2>1, <3>1 DEF FramesOf, UpOf, NoCreate, Silent
    <3>2. CASE create.chat \in Chats
      BY <1>1, <2>1, <3>2, FramesDeath
    <3> QED
      BY <2>2, <3>1, <3>2
  <2> QED
    BY <2>3 DEF CreateInv, ServerStill, server
<1>8. FailedMeansDead'
  BY <1>1 DEF IInv, FailedMeansDead, ServerStill, server
<1> QED
  BY <1>1, <1>5, <1>6, <1>7, <1>8, WorldStep

\* A heartbeat names the chats whose processes are there.
LEMMA HeartbeatSent == ASSUME IInv, send_heartbeat PROVE IInv'
<1> DEFINE living == {c \in Chats : proc[c] # "no"}
<1>1. Hear(Beat(living))
  BY DEF send_heartbeat
<1>2. ServerStill /\ link' = link /\ used' = used /\ down' = down /\ proc' = proc
  BY DEF send_heartbeat, ServerStill
<1>3. Beat(living) \in UpFrame /\ Beat(living).who = "none" /\ Beat(living).k = "heartbeat"
      /\ Beat(living).alive = living
  BY DEF Beat, UpFrame, Callers
<1>4. living \subseteq Known
  BY DEF IInv, KnownInv
<1>5. proc \in [Chats -> {"run", "dead", "no"}]
  BY DEF IInv, WorldTypes
<1> HIDE DEF living
<1> QED
  BY <1>1, <1>2, <1>3, <1>4, <1>5, ReportStep

\* An agent speaks.
LEMMA SpeakStep == ASSUME IInv, NEW c \in Chats, Speak(c) PROVE IInv'
<1> DEFINE f == Report("frame", c, "none")
<1>1. Hear(f)
  BY DEF Speak
<1>2. ServerStill /\ link' = link /\ used' = used /\ down' = down /\ proc' = proc
  BY DEF Speak, ServerStill
<1>3. f \in UpFrame /\ f.who = "none" /\ f.chat = c /\ f.alive = {}
  BY DEF Report, UpFrame, Callers
<1>4. proc \in [Chats -> {"run", "dead", "no"}]
  BY DEF IInv, WorldTypes
<1> HIDE DEF f
<1> QED
  BY <1>1, <1>2, <1>3, <1>4, ReportStep

\* An exit is reported, or lost with the connection.
LEMMA ExitStep == ASSUME IInv, NEW c \in Chats, ReportExit(c) PROVE IInv'
<1> DEFINE f == Report("exit", c, "none")
<1>1. Hear(f) \/ up' = up
  BY DEF ReportExit
<1>2. ServerStill /\ link' = link /\ used' = used /\ down' = down
  BY DEF ReportExit, ServerStill
<1>3. f \in UpFrame /\ f.who = "none" /\ f.chat = c /\ f.alive = {}
  BY DEF Report, UpFrame, Callers
<1>4. /\ proc' \in [Chats -> {"run", "dead", "no"}]
      /\ \A d \in Chats : proc'[d] = proc[d] \/ proc'[d] = "no"
  BY DEF IInv, WorldTypes, ReportExit
<1> HIDE DEF f
<1> QED
  BY <1>1, <1>2, <1>3, <1>4, ReportStep

\* A bounded event only counts itself.
LEMMA EventIs ==
  ASSUME WorldTypes, Event \/ used' = used
  PROVE  /\ used' \in [conns : Nat, events : Nat, ssh : BOOLEAN]
         /\ used'.ssh = used.ssh /\ used'.conns = used.conns
BY DEF WorldTypes, Event

\* A process dies of its own.
LEMMA DieStep == ASSUME IInv, NEW c \in Chats, Die(c) PROVE IInv'
<1>1. used' \in [conns : Nat, events : Nat, ssh : BOOLEAN] /\ used'.ssh = used.ssh
      /\ used'.conns = used.conns
  BY EventIs DEF Die, IInv
<1>2. ServerStill /\ link' = link /\ down' = down /\ up' = up
  BY <1>1 DEF Die, ServerStill
<1>3. /\ proc' \in [Chats -> {"run", "dead", "no"}]
      /\ \A d \in Chats : proc'[d] # "no" => proc[d] # "no"
      /\ \A d \in Chats : proc[d] # "run" => proc'[d] # "run"
  BY DEF IInv, WorldTypes, Die
<1>4. GoodDown \subseteq GoodDown' /\ GoodUp \subseteq GoodUp'
  BY <1>2, <1>3, StillGood
<1>5. LineInv'
  BY <1>2, <1>4, Typed, SeqMonotonic DEF LineInv
<1>6. WorldTypes'
  BY <1>1, <1>2, <1>3 DEF IInv, WorldTypes, ServerStill, server
<1>7. CreateInv'
  <2>1. FramesOf(create, down, up, proc)
    BY DEF IInv, CreateInv
  <2>2. create = NoCreate \/ create.chat \in Chats
    BY DEF IInv, ServerTypes, Creating
  <2>3. FramesOf(create, down, up, proc')
    <3>1. CASE create = NoCreate
      BY <2>1, <3>1 DEF FramesOf, UpOf, NoCreate, Silent
    <3>2. CASE create.chat \in Chats
      BY <1>3, <2>1, <3>2, FramesDeath
    <3> QED
      BY <2>2, <3>1, <3>2
  <2> QED
    BY <1>2, <2>3 DEF CreateInv, ServerStill, server
<1>8. FailedMeansDead'
  BY <1>2, <1>3 DEF IInv, FailedMeansDead, ServerStill, server
<1> QED
  BY <1>2, <1>3, <1>5, <1>6, <1>7, <1>8, WorldStep

\* The connection breaks, and what is on its way is lost.
LEMMA BreakStep == ASSUME IInv, Break PROVE IInv'
<1>1. used' \in [conns : Nat, events : Nat, ssh : BOOLEAN] /\ used'.ssh = used.ssh
      /\ used'.conns = used.conns
  BY EventIs DEF Break, IInv
<1>2. ServerStill /\ link' = 0 /\ down' = <<>> /\ up' = <<>> /\ proc' = proc
  BY <1>1 DEF Break, ServerStill
<1>3. LineInv'
  BY <1>2, EmptySeq DEF LineInv
<1>4. WorldTypes'
  <2>1. Len(up') = 0 /\ MaxReports \in Nat /\ used.conns \in Nat
    BY <1>2, LifecycleAssumption DEF LifecycleAssumption, IInv, WorldTypes
  <2> QED
    BY <1>1, <1>2, <2>1 DEF IInv, WorldTypes, ServerStill, server
<1>5. CreateInv'
  BY <1>2, Typed, FramesLost DEF IInv, CreateInv, ServerStill, server
<1>6. FailedMeansDead'
  <2>1. Len(down') = 0
    BY <1>2
  <2> QED
    BY <1>2, <2>1 DEF IInv, FailedMeansDead, ServerStill, server
<1> QED
  BY <1>2, <1>3, <1>4, <1>5, <1>6, WorldStep

\* A report is read: what remains is as good as it was.
LEMMA ReadIs ==
  ASSUME IInv, up # <<>>, up' = Tail(up), GoodUp \subseteq GoodUp'
  PROVE  /\ Len(up') <= MaxReports /\ up' \in Seq(GoodUp')
         /\ Head(up) \in GoodUp /\ Head(up) \in UpFrame
<1>1. up \in Seq(GoodUp) /\ GoodUp \subseteq UpFrame
  BY Typed
<1>2. /\ Tail(up) \in Seq(GoodUp) /\ Len(Tail(up)) \in Nat /\ Len(up) = Len(Tail(up)) + 1
      /\ Head(up) \in GoodUp
  BY <1>1, TailIs
<1>3. Tail(up) \in Seq(GoodUp')
  BY <1>2, SeqMonotonic
<1>4. Len(up) <= MaxReports /\ MaxReports \in Nat
  BY LifecycleAssumption DEF IInv, WorldTypes, LifecycleAssumption
<1> QED
  BY <1>1, <1>2, <1>3, <1>4

\* An answer that nobody waits for is read.
LEMMA LateAckStep == ASSUME IInv, read_late_ack PROVE IInv'
<1>1. /\ ServerStill /\ link' = link /\ used' = used /\ down' = down /\ proc' = proc
      /\ up # <<>> /\ up' = Tail(up) /\ Head(up).who = "none"
  BY DEF read_late_ack, ServerStill
<1>2. GoodDown \subseteq GoodDown' /\ GoodUp \subseteq GoodUp'
  BY <1>1, StillGood
<1>3. LineInv' /\ Len(up') <= MaxReports
  BY <1>1, <1>2, Typed, SeqMonotonic, ReadIs DEF LineInv
<1>4. WorldTypes'
  BY <1>1, <1>3 DEF IInv, WorldTypes, ServerStill, server
<1>5. CreateInv'
  <2>1. FramesOf(create, down, up, proc)
    BY DEF IInv, CreateInv
  <2>2. FramesOf(create, down, Tail(up), proc)
    BY <1>1, <2>1, Typed, FramesRead
  <2> QED
    BY <1>1, <2>2 DEF CreateInv, ServerStill, server
<1>6. FailedMeansDead'
  BY <1>1 DEF IInv, FailedMeansDead, ServerStill, server
<1> QED
  BY <1>1, <1>3, <1>4, <1>5, <1>6, WorldStep

\* The instance obeys: a spawn makes a registered chat run, or is refused; a kill ends in a
\* process that does not run.
LEMMA ObeyStep == ASSUME IInv, Obey PROVE IInv'
<1> DEFINE h == Head(down)
<1>1. down # <<>> /\ down' = Tail(down) /\ UNCHANGED server /\ link' = link
  BY DEF Obey
<1>2. /\ h \in GoodDown /\ h \in DownFrame /\ Tail(down) \in Seq(GoodDown)
      /\ h.chat \in Chats /\ h.who \in Callers /\ h.k \in {"spawn", "kill"}
  <2>1. h \in GoodDown /\ Tail(down) \in Seq(GoodDown)
    BY <1>1, Typed, TailIs
  <2> QED
    BY <2>1 DEF GoodDown, DownFrame
<1>3. Event \/ used' = used
  BY DEF Obey
<1>4. /\ used' \in [conns : Nat, events : Nat, ssh : BOOLEAN] /\ used'.ssh = used.ssh
      /\ used'.conns = used.conns
  BY <1>3, EventIs DEF IInv
<1>5. ServerStill
  BY <1>1, <1>4 DEF ServerStill
<1>6. proc \in [Chats -> {"run", "dead", "no"}]
  BY DEF IInv, WorldTypes
<1>7. \E k \in {"ok", "refused"} :
         /\ Hear(Report(k, h.chat, h.who))
         /\ proc' \in [Chats -> {"run", "dead", "no"}]
         /\ \A c \in Chats \ {h.chat} : proc'[c] = proc[c]
         /\ h.k = "spawn" /\ k = "refused" => proc' = proc
         /\ h.k = "kill" => /\ k = "ok" /\ proc'[h.chat] # "run"
                            /\ proc'[h.chat] # "no" => proc[h.chat] # "no"
  <2>1. CASE h.k = "spawn" /\ proc' = [proc EXCEPT ![h.chat] = "run"]
                /\ Hear(Report("ok", h.chat, h.who))
    BY <1>2, <1>6, <2>1
  <2>2. CASE h.k = "spawn" /\ proc' = proc /\ Hear(Report("refused", h.chat, h.who))
    BY <1>2, <1>6, <2>2
  <2>3. CASE /\ h.k = "kill" /\ Hear(Report("ok", h.chat, h.who))
             /\ proc' = [proc EXCEPT ![h.chat] = IF @ = "run" THEN "dead" ELSE @]
    BY <1>2, <1>6, <2>3
  <2> QED
    BY <2>1, <2>2, <2>3 DEF Obey
<1>8. PICK k \in {"ok", "refused"} :
         /\ Hear(Report(k, h.chat, h.who))
         /\ proc' \in [Chats -> {"run", "dead", "no"}]
         /\ \A c \in Chats \ {h.chat} : proc'[c] = proc[c]
         /\ h.k = "spawn" /\ k = "refused" => proc' = proc
         /\ h.k = "kill" => /\ k = "ok" /\ proc'[h.chat] # "run"
                            /\ proc'[h.chat] # "no" => proc[h.chat] # "no"
  BY <1>7
<1> DEFINE r == Report(k, h.chat, h.who)
<1>9. r \in UpFrame /\ r.who = h.who /\ r.chat = h.chat /\ r.k = k /\ r.alive = {}
  BY <1>2 DEF Report, UpFrame, Callers
<1>10. h.k = "spawn" => h.chat \in registered(reg)
  BY <1>2 DEF GoodDown
<1> HIDE DEF r, h
<1>11. /\ \A c \in Chats : proc'[c] # "no" => proc[c] # "no" \/ c \in registered(reg)
       /\ \A c \in Chats \ registered(reg) : proc[c] # "run" => proc'[c] # "run"
  BY <1>2, <1>8, <1>10
<1>12. GoodDown \subseteq GoodDown' /\ GoodUp \subseteq GoodUp'
  BY <1>5, <1>11, StillGood
<1>13. r \in GoodUp'
  <2>1. ASSUME NEW w \in Chats, w = h.who
        PROVE  Hunted(w)' /\ proc'[w] # "run"
    <3>1. h.k = "kill" /\ h.chat = w
      BY <1>2, <2>1 DEF GoodDown
    <3>2. Hunted(w)
      BY <1>2, <3>1 DEF GoodDown
    <3>3. Lasts
      BY <1>5, <1>11, StillGood
    <3> QED
      BY <1>8, <3>1, <3>2, <3>3, HuntedStays DEF IInv
  <2>2. ASSUME NEW f, f = r
        PROVE  f \in GoodUp'
    <3>1. /\ f \in UpFrame /\ f.who = h.who /\ f.chat \in Chats /\ f.alive = {}
          /\ f.k \in {"ok", "refused"}
      BY <1>2, <1>8, <1>9, <2>2
    <3>2. f.who \in Chats => Hunted(f.who)' /\ proc'[f.who] # "run"
      BY <2>1, <3>1
    <3> QED
      BY <3>1, <3>2 DEF GoodUp
  <2> QED
    BY <2>2
<1>14. Len(up') <= MaxReports /\ up' \in Seq(GoodUp') /\ up' = Append(up, r) /\ link # 0
  <2>1. Hear(r)
    BY <1>8 DEF r
  <2> QED
    BY <1>12, <1>13, <2>1, Heard
<1>15. LineInv'
  <2>1. Tail(down) \in Seq(GoodDown')
    BY <1>2, <1>12, SeqMonotonic
  <2> QED
    BY <1>1, <1>14, <2>1 DEF LineInv
<1>16. WorldTypes'
  BY <1>1, <1>4, <1>8, <1>14 DEF IInv, WorldTypes, server
<1>17. CreateInv'
  <2>1. FramesOf(create, down, up, proc)
    BY DEF IInv, CreateInv
  <2>2. create = NoCreate \/ create.chat \in Chats
    BY DEF IInv, ServerTypes, Creating
  <2>3. CASE create.chat \in Chats
    <3>1. create.chat # h.chat => (proc[create.chat] # "run" => proc'[create.chat] # "run")
      BY <1>8, <2>3
    <3>2. FramesOf(create, Tail(down), Append(up, r), proc')
      BY <1>1, <1>8, <1>9, <2>1, <3>1, Typed, FramesObeyed DEF h
    <3> QED
      BY <1>1, <1>14, <3>2 DEF CreateInv, server
  <2>4. CASE create = NoCreate
    <3>1. Silent(down) /\ Silent(up)
      BY <2>1, <2>4 DEF FramesOf, NoCreate
    <3>2. h.who # "create"
      BY <1>1, <3>1, Typed, TailIs DEF Silent, h
    <3>3. Silent(Tail(down))
      BY <1>1, <3>1, Typed, TailIs DEF Silent
    <3>4. Silent(Append(up, r))
      BY <1>9, <3>1, <3>2, Typed, AppendIs DEF Silent
    <3>5. create.pc = "idle"
      BY <2>4 DEF NoCreate
    <3>6. FramesOf(create, Tail(down), Append(up, r), proc')
      BY <3>3, <3>4, <3>5 DEF FramesOf, DownOf, UpOf, Alone, Silent
    <3> QED
      BY <1>1, <1>14, <3>6 DEF CreateInv, server
  <2> QED
    BY <2>2, <2>3, <2>4
<1>18. FailedMeansDead'
  <2>1. SUFFICES ASSUME NEW c \in Chats, answer[c] = "failed"
                 PROVE  proc'[c] # "run" /\ NoSpawn(Tail(down), c)
    BY <1>1, FailedIs DEF server, FailedMeansDead, NoSpawn, SpawnOf
  <2>2. proc[c] # "run" /\ NoSpawn(down, c)
    BY <2>1, FailedIs DEF IInv
  <2>3. NoSpawn(Tail(down), c) /\ ~SpawnOf(h, c)
    BY <1>1, <2>2, Typed, NoSpawnIs DEF h
  <2> QED
    BY <1>2, <1>8, <2>2, <2>3 DEF SpawnOf
<1> QED
  BY <1>5, <1>11, <1>15, <1>16, <1>17, <1>18, WorldStep

------------------------------------------------------------------------------
(* The server beside the creates: it reads, orders kills and gives up.     *)

Listens ==
    /\ proc' = proc /\ down' = down
    /\ up' = up \/ (up # <<>> /\ up' = Tail(up) /\ Head(up).who # "create")
Orders(c, who) ==
    /\ proc' = proc /\ up' = up
    /\ down' \in {down, Append(down, Frame("kill", c, who))}
Forsakes(who) ==
    /\ proc' = proc /\ down' = Forsaken(down, who) /\ up' = Forsaken(up, who)
LineKept == LineInv' /\ CreateInv' /\ FailedMeansDead' /\ Len(up') <= MaxReports

\* Frames are as good after a steady step.
LEMMA SteadyFrames ==
  ASSUME IInv, Steady, proc' = proc
  PROVE  GoodDown \subseteq GoodDown' /\ GoodUp \subseteq GoodUp'
BY SteadyKeeps, FramesStay DEF IInv

\* A chat whose create failed is not affected by what is not a spawn.
LEMMA FailedKeeps ==
  ASSUME IInv, answer' = answer, proc' = proc,
         \A c \in Chats : NoSpawn(down, c) => NoSpawn(down', c)
  PROVE  FailedMeansDead'
<1>1. \A c \in Chats : answer[c] = "failed" => proc[c] # "run" /\ NoSpawn(down, c)
  BY FailedIs DEF IInv
<1>2. \A c \in Chats : answer'[c] = "failed" => proc'[c] # "run" /\ NoSpawn(down', c)
  BY <1>1
<1> QED
  BY <1>2 DEF FailedMeansDead, NoSpawn, SpawnOf

\* The frames are as good when the server only reads.
LEMMA ListensKeeps == ASSUME IInv, Steady, Listens PROVE LineKept
<1>1. GoodDown \subseteq GoodDown' /\ GoodUp \subseteq GoodUp'
  BY SteadyFrames DEF Listens
<1>2. Len(up') <= MaxReports /\ up' \in Seq(GoodUp')
  <2>1. CASE up' = up
    BY <1>1, <2>1, Typed, SeqMonotonic DEF IInv, WorldTypes
  <2>2. CASE up # <<>> /\ up' = Tail(up)
    BY <1>1, <2>2, ReadIs
  <2> QED
    BY <2>1, <2>2 DEF Listens
<1>3. LineInv'
  BY <1>1, <1>2, Typed, SeqMonotonic DEF LineInv, Listens
<1>4. CreateInv'
  <2>1. FramesOf(create, down, up, proc)
    BY DEF IInv, CreateInv
  <2>2. FramesOf(create, down, up', proc)
    <3>1. CASE up' = up
      BY <2>1, <3>1
    <3>2. CASE up # <<>> /\ up' = Tail(up) /\ Head(up).who # "create"
      BY <2>1, <3>2, Typed, FramesRead
    <3> QED
      BY <3>1, <3>2 DEF Listens
  <2> QED
    BY <2>2 DEF CreateInv, Listens, Steady
<1>5. FailedMeansDead'
  BY FailedKeeps DEF Listens, Steady
<1> QED
  BY <1>2, <1>3, <1>4, <1>5 DEF LineKept

\* The frames are as good when the server sends a kill that has a reason.
LEMMA OrdersKeeps ==
  ASSUME IInv, Steady, NEW c \in Chats, NEW who \in {c, "close"}, Orders(c, who), Hunted(c)
  PROVE  LineKept
<1> DEFINE f == Frame("kill", c, who)
<1>1. GoodDown \subseteq GoodDown' /\ GoodUp \subseteq GoodUp'
  BY SteadyFrames DEF Orders
<1>2. /\ f \in DownFrame /\ f.k = "kill" /\ f.chat = c /\ f.who = who
      /\ who # "create" /\ (who \in Chats => who = c)
  BY LifecycleAssumption DEF Frame, DownFrame, Callers, LifecycleAssumption
<1>3. f \in GoodDown
  BY <1>2 DEF GoodDown
<1>4. down' = down \/ down' = Append(down, f)
  BY DEF Orders
<1> HIDE DEF f
<1>5. down' \in Seq(GoodDown)
  BY <1>3, <1>4, Typed, AppendIs
<1>6. LineInv'
  BY <1>1, <1>5, Typed, SeqMonotonic DEF LineInv, Orders
<1>7. CreateInv'
  <2>1. FramesOf(create, down, up, proc)
    BY DEF IInv, CreateInv
  <2>2. FramesOf(create, down', up, proc)
    BY <1>2, <1>4, <2>1, Typed, FramesSent
  <2> QED
    BY <2>2 DEF CreateInv, Orders, Steady
<1>8. FailedMeansDead'
  <2>1. ASSUME NEW d \in Chats, NoSpawn(down, d)
        PROVE  NoSpawn(down', d)
    <3>1. ~SpawnOf(f, d)
      BY <1>2 DEF SpawnOf
    <3>2. NoSpawn(Append(down, f), d)
      BY <1>2, <2>1, <3>1, Typed, NoSpawnIs
    <3> QED
      BY <1>4, <2>1, <3>2
  <2> QED
    BY <2>1, FailedKeeps DEF Orders, Steady
<1>9. Len(up') <= MaxReports
  BY DEF IInv, WorldTypes, Orders
<1> QED
  BY <1>6, <1>7, <1>8, <1>9 DEF LineKept

\* A frame whose caller gave up is as good as before.
LEMMA ForsakenGood ==
  ASSUME IInv
  PROVE  /\ \A f \in GoodDown : [f EXCEPT !.who = "none"] \in GoodDown
         /\ \A f \in GoodUp : [f EXCEPT !.who = "none"] \in GoodUp
<1>1. "none" \notin Chats
  BY LifecycleAssumption DEF LifecycleAssumption
<1>2. ASSUME NEW f \in GoodDown
      PROVE  [f EXCEPT !.who = "none"] \in GoodDown
  <2> DEFINE g == [f EXCEPT !.who = "none"]
  <2>1. f \in DownFrame
    BY DEF GoodDown
  <2>2. g \in DownFrame /\ g.k = f.k /\ g.chat = f.chat /\ g.who = "none"
    BY <2>1 DEF DownFrame, Callers
  <2> HIDE DEF g
  <2>3. g \in GoodDown
    BY <1>1, <2>2 DEF GoodDown
  <2> QED
    BY <2>3 DEF g
<1>3. ASSUME NEW f \in GoodUp
      PROVE  [f EXCEPT !.who = "none"] \in GoodUp
  <2> DEFINE g == [f EXCEPT !.who = "none"]
  <2>1. f \in UpFrame
    BY DEF GoodUp
  <2>2. g \in UpFrame /\ g.k = f.k /\ g.chat = f.chat /\ g.alive = f.alive /\ g.who = "none"
    BY <2>1 DEF UpFrame, Callers
  <2> HIDE DEF g
  <2>3. g \in GoodUp
    BY <1>1, <2>2 DEF GoodUp
  <2> QED
    BY <2>3 DEF g
<1> QED
  BY <1>2, <1>3

\* The frames are as good when a kill task or a close gives up.
LEMMA ForsakesKeeps ==
  ASSUME IInv, Steady, NEW who, who # "create", Forsakes(who)
  PROVE  LineKept
<1>1. GoodDown \subseteq GoodDown' /\ GoodUp \subseteq GoodUp'
  BY SteadyFrames DEF Forsakes
<1>2. down' \in Seq(GoodDown) /\ up' \in Seq(GoodUp)
  BY Typed, ForsakenGood, ForsakenStays DEF Forsakes
<1>3. LineInv'
  BY <1>1, <1>2, SeqMonotonic DEF LineInv
<1>4. CreateInv'
  <2>1. FramesOf(create, down, up, proc)
    BY DEF IInv, CreateInv
  <2>2. FramesOf(create, down', up', proc)
    BY <2>1, Typed, FramesForsaken DEF Forsakes
  <2> QED
    BY <2>2 DEF CreateInv, Forsakes, Steady
<1>5. FailedMeansDead'
  <2>1. \A d \in Chats : NoSpawn(down, d) => NoSpawn(down', d)
    BY Typed, NoSpawnIs DEF Forsakes
  <2> QED
    BY <2>1, FailedKeeps DEF Forsakes, Steady
<1>6. Len(up') <= MaxReports
  BY Typed, ForsakenUp DEF IInv, WorldTypes, Forsakes
<1> QED
  BY <1>3, <1>4, <1>5, <1>6 DEF LineKept

\* The parts of the invariant that a steady step has to be asked for.
LEMMA ServerStep ==
  ASSUME IInv, Steady, LineKept, lane'.pending => lane.pending, ServerTypes',
         used' \in [conns : Nat, events : Nat, ssh : BOOLEAN],
         link' \in 0..used'.conns, inst'.conn \in 0..used'.conns, lane'.conn \in 0..used'.conns,
         proc' = proc, KnownInv', HuntInv', BarrierInv'
  PROVE  IInv'
<1>1. BindingInv' /\ BarrierShut'
  BY SteadyKeeps
<1>2. WorldTypes'
  BY DEF WorldTypes, IInv, LineKept
<1> QED
  BY <1>1, <1>2 DEF IInv, LineKept

------------------------------------------------------------------------------
(* Connections and heartbeats.                                             *)

\* A step that leaves registry, kills and commands alone and the work of the lane as it is.
LEMMA LaneStep ==
  ASSUME IInv, Listens, UNCHANGED <<reg, killer, create, answer, closer, asked>>,
         lane' \in Lane, lane'.work = lane.work, lane'.pending = lane.pending,
         lane'.latest.alive \subseteq Known, inst' \in Instance, gapping' \subseteq Chats,
         used' \in [conns : Nat, events : Nat, ssh : BOOLEAN], used'.ssh = used.ssh,
         link' \in 0..used'.conns, inst'.conn \in 0..used'.conns, lane'.conn \in 0..used'.conns
  PROVE  IInv'
<1>1. Steady
  BY Typed, QuietSame DEF Steady
<1>2. LineKept
  BY <1>1, ListensKeeps
<1>3. ServerTypes'
  BY DEF IInv, ServerTypes
<1>4. registered(reg') = registered(reg) /\ Known' = Known
  BY DEF Known
<1>5. KnownInv'
  <2>1. /\ asked' \subseteq registered(reg')
        /\ closer' # NoClose => closer'.chat \in asked'
        /\ \A c \in Chats : proc'[c] # "no" => proc[c] # "no"
    BY <1>4 DEF IInv, KnownInv, Listens
  <2> QED
    BY <1>1, <1>4, <2>1, KnownKeeps
<1>6. HuntInv'
  <2>1. reg'.retry \subseteq Chats
    BY Typed DEF Registry
  <2> QED
    BY <1>1, <2>1, SteadyKeeps, HuntKeeps
<1>7. BarrierInv'
  <2>1. \A c \in Chats \ registered(reg) : Handled(c) => Handled(c)'
    BY DEF Handled, Listens
  <2> QED
    BY <1>1, <2>1, SteadyKeeps, BarrierKeeps
<1> QED
  BY <1>1, <1>2, <1>3, <1>5, <1>6, <1>7, ServerStep DEF Listens

\* The types of the variables that the steps of the server read.
LEMMA ServerIs ==
  ASSUME IInv
  PROVE  /\ lane \in Lane /\ inst \in Instance /\ gapping \subseteq Chats
         /\ open_chats(reg) \subseteq Chats
         /\ used \in [conns : Nat, events : Nat, ssh : BOOLEAN]
         /\ link \in 0..used.conns /\ inst.conn \in 0..used.conns /\ lane.conn \in 0..used.conns
         /\ lane.latest.alive \subseteq Known
BY DEF IInv, ServerTypes, WorldTypes, KnownInv, open_chats, registered

\* hello of a new connection.
LEMMA ConnectStep == ASSUME IInv, Connect PROVE IInv'
<1> DEFINE n == used.conns + 1
<1>1. n \in Nat /\ n \in 0..n /\ 0 \in 0..n
  BY ServerIs
<1>2. used' \in [conns : Nat, events : Nat, ssh : BOOLEAN] /\ used'.conns = n /\ used'.ssh = used.ssh
  BY ServerIs DEF Connect
<1>3. inst' \in Instance /\ inst'.conn = n /\ link' = n
  BY <1>1 DEF Connect, Instance
<1>4. /\ lane' \in Lane /\ lane'.work = lane.work /\ lane'.pending = lane.pending
      /\ lane'.latest.alive = {} /\ lane'.conn = n
  BY <1>1, ServerIs DEF Connect, NewEpoch, Lane, NoSnapshot, Snapshot
<1>5. Listens /\ UNCHANGED <<reg, killer, create, answer, closer, asked>> /\ gapping' = gapping
  BY DEF Connect, Listens
<1> QED
  BY <1>1, <1>2, <1>3, <1>4, <1>5, ServerIs, LaneStep

\* The end of the current connection is noticed.
LEMMA DisconnectStep == ASSUME IInv, on_disconnect PROVE IInv'
<1>1. inst' \in Instance /\ inst'.conn = 0 /\ 0 \in 0..used.conns
  <2>1. used.conns \in Nat
    BY ServerIs
  <2>2. inst' \in Instance /\ inst'.conn = 0
    BY ServerIs DEF on_disconnect, Instance
  <2> QED
    BY <2>1, <2>2
<1>2. /\ Listens /\ UNCHANGED <<reg, killer, create, answer, closer, asked>>
      /\ gapping' \subseteq Chats /\ lane' = lane /\ link' = link /\ used' = used
  BY ServerIs DEF on_disconnect, Listens
<1> QED
  BY <1>1, <1>2, ServerIs, LaneStep

\* The instance is taken for offline.
LEMMA SweepStep == ASSUME IInv, sweep_offline PROVE IInv'
<1>1. inst' \in Instance /\ inst'.conn = inst.conn
  BY ServerIs DEF sweep_offline, Instance
<1>2. /\ Listens /\ UNCHANGED <<reg, killer, create, answer, closer, asked>>
      /\ gapping' \subseteq Chats /\ lane' = lane /\ link' = link
  BY ServerIs DEF sweep_offline, Listens
<1>3. used' \in [conns : Nat, events : Nat, ssh : BOOLEAN] /\ used'.ssh = used.ssh
      /\ used'.conns = used.conns
  BY EventIs DEF sweep_offline, IInv
<1> QED
  BY <1>1, <1>2, <1>3, ServerIs, LaneStep

\* A heartbeat is read: its news wait for the worker.
LEMMA HeartbeatRead == ASSUME IInv, read_heartbeat PROVE IInv'
<1> DEFINE alive == Head(up).alive
<1>1. up # <<>> /\ up' = Tail(up) /\ Head(up).k = "heartbeat" /\ record_heartbeat(alive)
  BY DEF read_heartbeat
<1>2. Head(up) \in GoodUp
  BY <1>1, Typed, TailIs
<1>3. alive \subseteq Known /\ alive \subseteq Chats /\ Head(up).who = "none"
  BY <1>1, <1>2 DEF GoodUp, UpFrame
<1>4. inst' \in Instance /\ inst'.conn = inst.conn
  BY <1>1, <1>3, ServerIs DEF record_heartbeat, Instance
<1>5. /\ lane' \in Lane /\ lane'.work = lane.work /\ lane'.pending = lane.pending
      /\ lane'.latest.alive \subseteq Known /\ lane'.conn = lane.conn
  <2>1. CASE lane' = lane
    BY <2>1, ServerIs
  <2>2. CASE lane' = [lane EXCEPT !.latest = [conn |-> inst.conn, alive |-> alive],
                                  !.required = @ \/ ~inst.known]
    <3>1. [conn |-> inst.conn, alive |-> alive] \in Snapshot
      BY <1>3, ServerIs DEF Snapshot, Instance
    <3>2. (lane.required \/ ~inst.known) \in BOOLEAN
      OBVIOUS
    <3> QED
      BY <1>3, <2>2, <3>1, <3>2, ServerIs DEF Lane
  <2> QED
    BY <1>1, <2>1, <2>2 DEF record_heartbeat
<1>6. /\ UNCHANGED <<reg, killer, create, answer, closer, asked>>
      /\ gapping' = gapping /\ link' = link /\ used' = used /\ proc' = proc /\ down' = down
  BY DEF read_heartbeat
<1> QED
  BY <1>1, <1>3, <1>4, <1>5, <1>6, ServerIs, LaneStep DEF Listens

------------------------------------------------------------------------------
(* Kills, closes and what is read.                                         *)

\* A steady step that leaves the lane, the instance and what users asked for as they are.
LEMMA RegistryStep ==
  ASSUME IInv, Quiet(reg, reg'), LineKept, create' = create, answer' = answer, asked' = asked,
         lane' = lane, inst' = inst, link' = link, proc' = proc, gapping' \subseteq Chats,
         Event \/ used' = used,
         closer' = NoClose \/ (closer' \in Closing /\ closer'.chat \in asked),
         killer' \in [Chats -> Killer],
         \A c \in Chats : killer'[c].pc # "idle" => killer[c].pc # "idle" \/ Hunted(c),
         \A c \in reg'.retry : c \in reg.retry \/ Hunted(c),
         \A c \in Chats \ registered(reg) : Handled(c) => Handled(c)'
  PROVE  IInv'
<1>1. used' \in [conns : Nat, events : Nat, ssh : BOOLEAN] /\ used'.ssh = used.ssh
      /\ used'.conns = used.conns
  BY EventIs DEF IInv
<1>2. Steady
  BY <1>1 DEF Steady
<1>3. ServerTypes'
  BY DEF IInv, ServerTypes, Quiet
<1>4. registered(reg') = registered(reg) /\ Known' = Known
  BY DEF Known, Quiet
<1>5. KnownInv'
  <2>1. /\ asked' \subseteq registered(reg') /\ lane'.latest.alive \subseteq Known'
        /\ closer' # NoClose => closer'.chat \in asked'
        /\ \A c \in Chats : proc'[c] # "no" => proc[c] # "no"
    BY <1>4 DEF IInv, KnownInv
  <2> QED
    BY <1>2, <2>1, KnownKeeps
<1>6. HuntInv'
  <2>1. reg'.retry \subseteq Chats
    BY DEF Registry, Quiet
  <2> QED
    BY <1>2, <2>1, SteadyKeeps, HuntKeeps
<1>7. BarrierInv'
  BY <1>2, SteadyKeeps, BarrierKeeps
<1> QED
  BY <1>1, <1>2, <1>3, <1>5, <1>6, <1>7, ServerIs, ServerStep

\* The closer is nobody's or a command for a chat that a user asked to close.
LEMMA CloserIs ==
  ASSUME IInv
  PROVE  /\ closer = NoClose \/ (closer \in Closing /\ closer.chat \in asked)
         /\ asked \subseteq registered(reg) /\ asked \subseteq Chats
         /\ killer \in [Chats -> Killer] /\ gapping \subseteq Chats
         /\ \A c \in asked : Hunted(c)
BY DEF IInv, ServerTypes, KnownInv, Hunted, Known, Unwanted

\* Only the registry moves, quietly, and perhaps one report is read.
LEMMA QuietStep ==
  ASSUME IInv, Quiet(reg, reg'), reg'.retry = reg.retry, Listens,
         UNCHANGED <<inst, lane, killer, create, answer, closer, asked, link>>,
         gapping' \subseteq Chats, Event \/ used' = used
  PROVE  IInv'
<1>1. Steady
  BY EventIs DEF Steady, IInv
<1>2. LineKept
  BY <1>1, ListensKeeps
<1>3. \A c \in Chats \ registered(reg) : Handled(c) => Handled(c)'
  BY DEF Handled, Listens
<1> QED
  BY <1>2, <1>3, CloserIs, RegistryStep DEF Listens

\* A chat of a lost connection falls into a gap.
LEMMA GapStep == ASSUME IInv, NEW c \in Chats, on_instance_disconnect(c) PROVE IInv'
<1>1. Quiet(reg, reg') /\ reg'.retry = reg.retry
  BY Typed, GapIs DEF on_instance_disconnect
<1> QED
  BY <1>1, CloserIs, QuietStep DEF on_instance_disconnect, Listens

\* A pending close ends with the agreement of another instance.
LEMMA ElsewhereStep == ASSUME IInv, NEW c \in Chats, killed_elsewhere(c) PROVE IInv'
<1>1. Quiet(reg, reg') /\ reg'.retry = reg.retry
  BY Typed, TransitionIs DEF killed_elsewhere, States, Final
<1> QED
  BY <1>1, CloserIs, QuietStep DEF killed_elsewhere, Listens

\* The gap condition is cleared for a chat of another instance.
LEMMA RecoveredStep == ASSUME IInv, recovered_elsewhere PROVE IInv'
<1>1. reg' = [reg EXCEPT !.chat_gap = FALSE]
  BY DEF recovered_elsewhere
<1>2. /\ reg' \in Registry /\ reg'.chats = reg.chats /\ reg'.bindings = reg.bindings
      /\ reg'.pending_close = reg.pending_close /\ reg'.retry = reg.retry
  BY <1>1, Typed DEF Registry
<1>3. Quiet(reg, reg')
  BY <1>2, Typed, QuietMarks
<1> QED
  BY <1>2, <1>3, CloserIs, QuietStep DEF recovered_elsewhere, Listens

\* An exit is read, and the chat is over.
LEMMA ExitRead == ASSUME IInv, read_exit PROVE IInv'
<1>1. up # <<>> /\ up' = Tail(up) /\ Head(up).k = "exit"
  BY DEF read_exit
<1>2. Head(up).who = "none"
  BY <1>1, Typed, TailIs DEF GoodUp
<1>3. Quiet(reg, reg') /\ reg'.retry = reg.retry
  <2>1. PICK state \in {"Ended", "Crashed"} : reg' = transition(reg, {Head(up).chat}, state)
    BY DEF read_exit
  <2>2. state \in States \ {"none"}
    BY DEF States, Final
  <2> QED
    BY <2>1, <2>2, Typed, TransitionIs
<1> QED
  BY <1>1, <1>2, <1>3, CloserIs, QuietStep DEF read_exit, Listens

\* A frame of an agent ends the gap of its chat.
LEMMA FrameRead == ASSUME IInv, read_frame PROVE IInv'
<1>1. up # <<>> /\ up' = Tail(up) /\ Head(up).k = "frame"
  BY DEF read_frame
<1>2. Head(up).who = "none" /\ Head(up).chat \in Chats
  BY <1>1, Typed, TailIs DEF GoodUp
<1>3. Quiet(reg, reg') /\ reg'.retry = reg.retry
  <2>1. CASE reg' = reg
    BY <2>1, Typed, QuietSame
  <2>2. CASE reg' = transition([reg EXCEPT !.chats[Head(up).chat].gap = FALSE, !.chat_gap = FALSE],
                               {Head(up).chat}, "Accepting")
    <3>1. PICK c \in Chats : c = Head(up).chat
      BY <1>2
    <3>2. reg' = transition([reg EXCEPT !.chats[c].gap = FALSE, !.chat_gap = FALSE], {c}, "Accepting")
      BY <2>2, <3>1
    <3> QED
      BY <3>2, Typed, GapIs
  <2> QED
    BY <2>1, <2>2 DEF read_frame, recover_from_gap
<1> QED
  BY <1>1, <1>2, <1>3, CloserIs, QuietStep DEF read_frame, Listens

\* The acknowledgement of a close, whose command then ends.
LEMMA CloseAckRead == ASSUME IInv, read_close_ack PROVE IInv'
<1>1. Quiet(reg, reg') /\ reg'.retry = reg.retry
  BY Typed, TransitionIs DEF read_close_ack, States, Final
<1>2. Steady
  BY <1>1 DEF Steady, read_close_ack
<1>3. LineKept
  BY <1>2, ListensKeeps DEF Listens, read_close_ack
<1>4. \A c \in Chats \ registered(reg) : Handled(c) => Handled(c)'
  BY <1>1 DEF Handled, read_close_ack
<1> QED
  BY <1>1, <1>3, <1>4, CloserIs, RegistryStep DEF read_close_ack

\* A kill task that ends may have another behind it.
LEMMA FinishedIs ==
  ASSUME NEW c \in Chats, NEW f \in [Chats -> Killer]
  PROVE  /\ [f EXCEPT ![c] = Finished(@)] \in [Chats -> Killer]
         /\ \A d \in Chats \ {c} : [f EXCEPT ![c] = Finished(@)][d] = f[d]
<1>1. NoKill \in Killer /\ [NoKill EXCEPT !.pc = "try"] \in Killer
  BY EmptyIs DEF Killer
<1>2. Finished(f[c]) \in Killer
  BY <1>1 DEF Finished
<1> QED
  BY <1>2

\* The acknowledgement of a kill task: the chat is closed, and the retry forgotten.
LEMMA KillAckRead == ASSUME IInv, NEW c \in Chats, read_kill_ack(c) PROVE IInv'
<1>1. /\ up # <<>> /\ up' = Tail(up) /\ Head(up).who = c /\ Head(up) \in GoodUp
      /\ killer' = [killer EXCEPT ![c] = Finished(@)]
      /\ UNCHANGED <<inst, gapping, lane, create, answer, closer, asked, proc, link, down, used>>
  BY Typed, TailIs DEF read_kill_ack
<1> DEFINE m == [reg EXCEPT !.retry = @ \ {c}]
<1>2. /\ m \in Registry /\ m.chats = reg.chats /\ m.bindings = reg.bindings
      /\ m.pending_close = reg.pending_close /\ m.retry = reg.retry \ {c}
  BY Typed DEF Registry
<1>3. reg' = transition(m, {c}, "Closed")
  BY DEF read_kill_ack
<1> HIDE DEF m
<1>4. Quiet(reg, m)
  BY <1>2, Typed, QuietMarks
<1>5. Quiet(m, reg') /\ reg'.retry = m.retry
  BY <1>2, <1>3, TransitionIs DEF States, Final
<1>6. Quiet(reg, reg')
  BY <1>4, <1>5, Typed, QuietTwice
<1>7. Steady
  BY <1>1, <1>6 DEF Steady
<1>8. LineKept
  <2>1. c # "create"
    BY LifecycleAssumption DEF LifecycleAssumption
  <2> QED
    BY <1>1, <1>7, <2>1, ListensKeeps DEF Listens
<1>9. killer' \in [Chats -> Killer] /\ \A d \in Chats \ {c} : killer'[d] = killer[d]
  BY <1>1, CloserIs, FinishedIs
<1>10. Hunted(c) /\ (c \in registered(reg) \/ proc[c] # "run")
  BY <1>1 DEF GoodUp
<1>11. \A d \in Chats : killer'[d].pc # "idle" => killer[d].pc # "idle" \/ Hunted(d)
  BY <1>9, <1>10
<1>12. \A d \in Chats \ registered(reg) : Handled(d) => Handled(d)'
  BY <1>1, <1>2, <1>5, <1>9, <1>10 DEF Handled
<1> QED
  BY <1>1, <1>2, <1>5, <1>6, <1>8, <1>9, <1>11, <1>12, CloserIs, RegistryStep

\* A failed attempt is repeated or recorded.
LEMMA AttemptIs ==
  ASSUME IInv, NEW c \in Chats, AttemptFailed(c), killer[c].pc # "idle"
  PROVE  /\ Quiet(reg, reg') /\ Hunted(c)
         /\ killer' \in [Chats -> Killer] /\ \A d \in Chats \ {c} : killer'[d] = killer[d]
         /\ \A d \in reg'.retry : d \in reg.retry \/ d = c
         /\ reg.retry \subseteq reg'.retry
         /\ killer'[c].pc # "idle" \/ c \in reg'.retry
<1>0. Hunted(c)
  BY DEF IInv, HuntInv
<1>1. CASE /\ killer[c].tries + 1 < KillAttempts /\ reg' = reg
           /\ killer' = [killer EXCEPT ![c].pc = "try", ![c].tries = @ + 1]
  <2>1. killer[c] \in Killer /\ KillAttempts \in Nat
    BY Typed, LifecycleAssumption DEF LifecycleAssumption
  <2>2. killer[c].tries + 1 \in 0..(KillAttempts - 1)
    BY <1>1, <2>1 DEF Killer
  <2>3. [killer[c] EXCEPT !.pc = "try", !.tries = killer[c].tries + 1] \in Killer
    BY <2>1, <2>2 DEF Killer
  <2>4. killer' = [killer EXCEPT ![c] = [killer[c] EXCEPT !.pc = "try", !.tries = killer[c].tries + 1]]
    BY <1>1, CloserIs
  <2>5. killer' \in [Chats -> Killer] /\ \A d \in Chats \ {c} : killer'[d] = killer[d]
    BY <2>3, <2>4, CloserIs
  <2>6. killer'[c].pc = "try"
    BY <2>1, <2>4, CloserIs DEF Killer
  <2> QED
    BY <1>0, <1>1, <2>5, <2>6, Typed, QuietSame
<1>2. CASE /\ killer' = [killer EXCEPT ![c] = Finished(@)]
           /\ reg' = [reg EXCEPT !.retry = @ \cup {c}]
  <2>1. killer' \in [Chats -> Killer] /\ \A d \in Chats \ {c} : killer'[d] = killer[d]
    BY <1>2, CloserIs, FinishedIs
  <2>2. /\ reg' \in Registry /\ reg'.chats = reg.chats /\ reg'.bindings = reg.bindings
        /\ reg'.pending_close = reg.pending_close /\ reg'.retry = reg.retry \cup {c}
    BY <1>2, Typed DEF Registry
  <2> QED
    BY <1>0, <2>1, <2>2, Typed, QuietMarks
<1> QED
  BY <1>1, <1>2 DEF AttemptFailed

\* At the gate a chat whose kill failed waits.
LEMMA SkipStep == ASSUME IInv, NEW c \in Chats, orphan_kill_skip(c) PROVE IInv'
<1>1. /\ c \in reg.retry /\ killer' = [killer EXCEPT ![c] = Finished(@)] /\ killer[c].pc # "idle"
      /\ UNCHANGED <<reg, inst, gapping, lane, create, answer, closer, asked, proc, link, down, up, used>>
  BY DEF orphan_kill_skip
<1>2. killer' \in [Chats -> Killer] /\ \A d \in Chats \ {c} : killer'[d] = killer[d]
  BY <1>1, CloserIs, FinishedIs
<1>3. Quiet(reg, reg')
  BY <1>1, Typed, QuietSame
<1>4. LineKept
  BY <1>1, <1>3, ListensKeeps DEF Steady, Listens
<1>5. \A d \in Chats \ registered(reg) : Handled(d) => Handled(d)'
  BY <1>1, <1>2 DEF Handled
<1>6. \A d \in Chats : killer'[d].pc # "idle" => killer[d].pc # "idle"
  BY <1>1, <1>2
<1> QED
  BY <1>1, <1>2, <1>3, <1>4, <1>5, <1>6, CloserIs, RegistryStep

\* A kill task sends its command, or notes that it cannot.
LEMMA TryStep == ASSUME IInv, NEW c \in Chats, orphan_kill_try(c) PROVE IInv'
<1>1. /\ killer[c].pc = "try"
      /\ UNCHANGED <<inst, gapping, lane, create, answer, closer, asked, proc, link, up, used>>
  BY DEF orphan_kill_try
<1>2. Hunted(c)
  BY <1>1 DEF IInv, HuntInv
<1>3. CASE Send(Frame("kill", c, c)) /\ killer' = [killer EXCEPT ![c].pc = "sent"] /\ reg' = reg
  <2>1. killer[c] \in Killer /\ [killer[c] EXCEPT !.pc = "sent"] \in Killer
    BY Typed DEF Killer
  <2>2. killer' = [killer EXCEPT ![c] = [killer[c] EXCEPT !.pc = "sent"]]
    BY <1>3, CloserIs
  <2>3. killer' \in [Chats -> Killer] /\ \A d \in Chats \ {c} : killer'[d] = killer[d]
    BY <2>1, <2>2, CloserIs
  <2>4. killer'[c].pc = "sent"
    BY <2>1, <2>2, CloserIs DEF Killer
  <2>5. Quiet(reg, reg')
    BY <1>3, Typed, QuietSame
  <2>6. Orders(c, c)
    BY <1>1, <1>3 DEF Orders, Send
  <2>7. LineKept
    BY <1>1, <1>2, <2>5, <2>6, OrdersKeeps DEF Steady
  <2>8. \A d \in Chats \ registered(reg) : Handled(d) => Handled(d)'
    BY <1>1, <1>3, <2>3, <2>4 DEF Handled
  <2>9. \A d \in Chats : killer'[d].pc # "idle" => killer[d].pc # "idle" \/ Hunted(d)
    BY <1>1, <2>3
  <2> QED
    BY <1>1, <1>3, <2>3, <2>5, <2>7, <2>8, <2>9, CloserIs, RegistryStep
<1>4. CASE AttemptFailed(c) /\ down' = down
  <2>1. /\ Quiet(reg, reg') /\ Hunted(c)
        /\ killer' \in [Chats -> Killer] /\ \A d \in Chats \ {c} : killer'[d] = killer[d]
        /\ \A d \in reg'.retry : d \in reg.retry \/ d = c
        /\ reg.retry \subseteq reg'.retry
        /\ killer'[c].pc # "idle" \/ c \in reg'.retry
    BY <1>1, <1>4, AttemptIs
  <2>2. LineKept
    BY <1>1, <1>4, <2>1, ListensKeeps DEF Steady, Listens
  <2>3. \A d \in Chats \ registered(reg) : Handled(d) => Handled(d)'
    BY <1>1, <2>1 DEF Handled
  <2>4. \A d \in Chats : killer'[d].pc # "idle" => killer[d].pc # "idle" \/ Hunted(d)
    BY <1>1, <2>1
  <2> QED
    BY <1>1, <2>1, <2>2, <2>3, <2>4, CloserIs, RegistryStep
<1> QED
  BY <1>3, <1>4 DEF orphan_kill_try

\* A kill task gives up.
LEMMA TimeoutStep == ASSUME IInv, NEW c \in Chats, orphan_kill_timeout(c) PROVE IInv'
<1>1. /\ killer[c].pc = "sent" /\ GiveUp(c) /\ AttemptFailed(c)
      /\ UNCHANGED <<inst, gapping, lane, create, answer, closer, asked, proc, link>>
  BY DEF orphan_kill_timeout
<1>2. Event \/ used' = used
  BY <1>1 DEF GiveUp
<1>3. /\ Quiet(reg, reg') /\ Hunted(c)
      /\ killer' \in [Chats -> Killer] /\ \A d \in Chats \ {c} : killer'[d] = killer[d]
      /\ \A d \in reg'.retry : d \in reg.retry \/ d = c
      /\ reg.retry \subseteq reg'.retry
      /\ killer'[c].pc # "idle" \/ c \in reg'.retry
  BY <1>1, AttemptIs
<1>4. LineKept
  <2>1. c # "create"
    BY LifecycleAssumption DEF LifecycleAssumption
  <2>2. Steady
    BY <1>1, <1>2, <1>3, EventIs DEF Steady, IInv
  <2>3. Forsakes(c)
    BY <1>1 DEF Forsakes, GiveUp
  <2> QED
    BY <2>1, <2>2, <2>3, ForsakesKeeps
<1>5. \A d \in Chats \ registered(reg) : Handled(d) => Handled(d)'
  BY <1>1, <1>3 DEF Handled
<1>6. \A d \in Chats : killer'[d].pc # "idle" => killer[d].pc # "idle" \/ Hunted(d)
  BY <1>1, <1>3
<1> QED
  BY <1>1, <1>2, <1>3, <1>4, <1>5, <1>6, CloserIs, RegistryStep

\* A close gives up.
LEMMA CloseTimeout == ASSUME IInv, close_timeout PROVE IInv'
<1>1. /\ GiveUp("close") /\ closer' = NoClose
      /\ UNCHANGED <<reg, inst, gapping, lane, killer, create, answer, asked, proc, link>>
  BY DEF close_timeout
<1>2. Event \/ used' = used
  BY <1>1 DEF GiveUp
<1>3. Quiet(reg, reg')
  BY <1>1, Typed, QuietSame
<1>4. LineKept
  <2>1. Steady
    BY <1>1, <1>2, <1>3, EventIs DEF Steady, IInv
  <2>2. Forsakes("close")
    BY <1>1 DEF Forsakes, GiveUp
  <2> QED
    BY <2>1, <2>2, ForsakesKeeps
<1>5. \A d \in Chats \ registered(reg) : Handled(d) => Handled(d)'
  BY <1>1 DEF Handled
<1> QED
  BY <1>1, <1>2, <1>3, <1>4, <1>5, CloserIs, RegistryStep

\* A user asks to close a chat.
LEMMA CloseSubmit == ASSUME IInv, NEW c \in Chats, close_submit(c) PROVE IInv'
<1>1. /\ c \in registered(reg) /\ Event /\ asked' = asked \cup {c}
      /\ closer' = [pc |-> "queued", chat |-> c]
      /\ UNCHANGED <<reg, inst, gapping, lane, killer, create, answer, proc, link, down, up>>
  BY DEF close_submit
<1>2. used' \in [conns : Nat, events : Nat, ssh : BOOLEAN] /\ used'.ssh = used.ssh
      /\ used'.conns = used.conns
  BY <1>1, EventIs DEF IInv
<1>3. Quiet(reg, reg')
  BY <1>1, Typed, QuietSame
<1>4. Steady
  BY <1>1, <1>2, <1>3 DEF Steady
<1>5. LineKept
  BY <1>1, <1>4, ListensKeeps DEF Listens
<1>6. ServerTypes'
  BY <1>1 DEF IInv, ServerTypes, Closing
<1>7. KnownInv'
  <2>1. registered(reg') = registered(reg) /\ Known' = Known
    BY <1>1 DEF Known
  <2>2. /\ asked' \subseteq registered(reg') /\ lane'.latest.alive \subseteq Known'
        /\ closer' # NoClose => closer'.chat \in asked'
        /\ \A d \in Chats : proc'[d] # "no" => proc[d] # "no"
    BY <1>1, <2>1, CloserIs, ServerIs
  <2> QED
    BY <1>4, <2>2, KnownKeeps
<1>8. HuntInv'
  <2>1. reg'.retry \subseteq Chats
    BY <1>1, Typed DEF Registry
  <2> QED
    BY <1>1, <1>4, <2>1, SteadyKeeps, HuntKeeps
<1>9. BarrierInv'
  <2>1. \A d \in Chats \ registered(reg) : Handled(d) => Handled(d)'
    BY <1>1 DEF Handled
  <2> QED
    BY <1>1, <1>4, <2>1, SteadyKeeps, BarrierKeeps
<1> QED
  BY <1>1, <1>2, <1>4, <1>5, <1>6, <1>7, <1>8, <1>9, ServerIs, ServerStep

\* A step of the registry that is not quiet but keeps all reasons, with nothing sent or read.
LEMMA LastingStep ==
  ASSUME IInv, Lasts, BindingInv', lane'.pending => lane.pending, create' = create, answer' = answer,
         UNCHANGED <<proc, down, up, used, link, inst, gapping, killer>>,
         lane.pending => \A c \in Chats : reg'.chats[c].sess = reg.chats[c].sess,
         lane' \in Lane, lane'.conn = lane.conn, asked' = asked,
         closer' = NoClose \/ closer' = closer,
         reg'.pending_close \subseteq asked, reg'.retry = reg.retry,
         lane'.latest.alive \subseteq Known, HuntInv', BarrierInv'
  PROVE  IInv'
<1>1. ServerTypes'
  BY DEF IInv, ServerTypes, Lasts
<1>2. WorldTypes'
  BY DEF IInv, WorldTypes
<1>3. BarrierShut'
  BY DEF IInv, BarrierShut
<1>4. Known \subseteq Known' /\ registered(reg) \subseteq registered(reg')
  BY DEF Lasts, Known
<1>5. KnownInv'
  BY <1>4 DEF IInv, KnownInv
<1>6. LineInv'
  <2>1. GoodDown \subseteq GoodDown' /\ GoodUp \subseteq GoodUp'
    BY FramesStay DEF IInv
  <2> QED
    BY <2>1, Typed, SeqMonotonic DEF LineInv
<1>7. CreateInv'
  BY DEF IInv, CreateInv
<1>8. FailedMeansDead'
  BY DEF IInv, FailedMeansDead
<1> QED
  BY <1>1, <1>2, <1>3, <1>5, <1>6, <1>7, <1>8 DEF IInv

\* A close is executed: it sends its kill, or leaves it for later.
LEMMA CloseExecute == ASSUME IInv, close_execute PROVE IInv'
<1> DEFINE c == closer.chat
<1>1. /\ closer.pc = "queued"
      /\ UNCHANGED <<inst, gapping, lane, killer, create, answer, asked, proc, link, up, used>>
  BY DEF close_execute
<1>2. closer \in Closing /\ c \in asked /\ c \in registered(reg) /\ c \in Chats /\ Hunted(c)
  BY <1>1, CloserIs DEF NoClose, Closing
<1>3. CASE /\ Send(Frame("kill", closer.chat, "close"))
           /\ closer' = [closer EXCEPT !.pc = "sent"] /\ reg' = reg
  <2>1. closer' \in Closing /\ closer'.chat = c
    BY <1>2, <1>3 DEF Closing
  <2>2. Quiet(reg, reg')
    BY <1>3, Typed, QuietSame
  <2>3. Orders(c, "close")
    BY <1>1, <1>3 DEF Orders, Send
  <2>4. LineKept
    <3>1. PICK d \in Chats : d = c
      BY <1>2
    <3>2. Orders(d, "close") /\ Hunted(d)
      BY <1>2, <2>3, <3>1
    <3> QED
      BY <1>1, <2>2, <3>2, OrdersKeeps DEF Steady
  <2>5. \A d \in Chats \ registered(reg) : Handled(d) => Handled(d)'
    BY <1>1, <1>3 DEF Handled
  <2> QED
    BY <1>1, <1>2, <1>3, <2>1, <2>2, <2>4, <2>5, CloserIs, RegistryStep
<1>4. CASE reg' = reg /\ closer' = NoClose /\ down' = down
  <2>1. Quiet(reg, reg')
    BY <1>4, Typed, QuietSame
  <2>2. LineKept
    BY <1>1, <1>4, <2>1, ListensKeeps DEF Steady, Listens
  <2>3. \A d \in Chats \ registered(reg) : Handled(d) => Handled(d)'
    BY <1>1, <1>4 DEF Handled
  <2> QED
    BY <1>1, <1>4, <2>1, <2>2, <2>3, CloserIs, RegistryStep
<1>5. CASE reg' = request_close_offline(reg, closer.chat) /\ closer' = NoClose /\ down' = down
  <2>1. /\ reg' \in Registry /\ registered(reg') = registered(reg)
        /\ reg'.bindings = reg.bindings /\ reg'.retry = reg.retry
        /\ reg'.pending_close = reg.pending_close \cup {c}
        /\ \A d \in Chats : reg'.chats[d].sess = reg.chats[d].sess
        /\ \A d \in Chats \ {c} : reg'.chats[d] = reg.chats[d]
    BY <1>2, <1>5, Typed, OfflineIs
  <2> HIDE DEF c
  <2>2. Lasts
    BY <1>1, <1>2, <2>1 DEF Lasts, is_terminal
  <2>3. BindingInv'
    <3>1. ASSUME NEW d \in Chats \ asked, NEW s \in Sessions,
                 reg'.chats[d].sess = s, ~is_terminal(reg', d)
          PROVE  reg'.bindings[s] = d
      <4>1. reg'.chats[d] = reg.chats[d]
        BY <1>2, <2>1
      <4> QED
        BY <2>1, <3>1, <4>1 DEF IInv, BindingInv, is_terminal
    <3> QED
      BY <1>1, <2>1, <3>1 DEF IInv, BindingInv
  <2>4. HuntInv'
    BY <1>1, <2>1, <2>2, Typed, HuntKeeps DEF Registry
  <2>5. BarrierInv'
    <3>1. \A d \in Chats \ registered(reg) : Handled(d) => Handled(d)'
      BY <1>1, <2>1 DEF Handled
    <3> QED
      BY <1>1, <2>2, <3>1, BarrierKeeps
  <2>6. reg'.pending_close \subseteq asked
    BY <1>2, <2>1 DEF IInv, KnownInv
  <2> QED
    BY <1>1, <1>5, <2>1, <2>2, <2>3, <2>4, <2>5, <2>6, ServerIs, LastingStep
<1> QED
  BY <1>3, <1>4, <1>5 DEF close_execute

------------------------------------------------------------------------------
(* The recovery lane.                                                      *)

\* What the reading part finds to kill has a reason.
LEMMA ToKillIs ==
  ASSUME IInv, NEW alive \in SUBSET Known, NEW due \in SUBSET reg.retry,
         NEW c \in to_kill(reg, alive) \cup due
  PROVE  c \in Chats /\ Hunted(c)
<1>1. Known \subseteq Chats
  BY LifecycleAssumption DEF Known, registered, LifecycleAssumption
<1>2. CASE c \in due
  BY <1>2, Typed DEF IInv, HuntInv, Registry
<1>3. CASE c \in reg.pending_close
  BY <1>3, CloserIs DEF IInv, KnownInv
<1>4. CASE c \in alive /\ is_terminal(reg, c)
  <2>1. c \in Chats /\ c \in Known
    BY <1>1, <1>4
  <2>2. c \in registered(reg)
    BY <1>4, <2>1 DEF is_terminal, Final, registered
  <2> QED
    BY <1>4, <2>1, <2>2 DEF Hunted, Unwanted
<1>5. CASE c \in alive /\ c \notin registered(reg) /\ ~Adopts(reg)
  BY <1>1, <1>5 DEF Hunted, Unwanted
<1> QED
  BY <1>2, <1>3, <1>4, <1>5 DEF to_kill

\* Where an SSH instance is taken over nothing has a reason to be killed.
LEMMA NothingHunted ==
  ASSUME IInv, registered(reg) = {}, used.ssh
  PROVE  /\ create = NoCreate /\ closer = NoClose /\ asked = {} /\ ~lane.pending
         /\ \A c \in Chats : reg.chats[c].sess = NoSession /\ ~is_terminal(reg, c) /\ ~Hunted(c)
         /\ reg.retry = {} /\ reg.pending_close = {}
<1>1. create = NoCreate /\ closer = NoClose /\ asked = {} /\ reg.pending_close = {}
  BY DEF IInv, KnownInv
<1>2. ~lane.pending
  BY DEF IInv, BarrierShut
<1>3. \A c \in Chats : reg.chats[c].sess = NoSession /\ answer[c] = "none"
  BY DEF IInv, BindingInv, KnownInv
<1>4. \A c \in Chats : ~is_terminal(reg, c)
  BY DEF registered, is_terminal, Final
<1>5. \A c \in Chats : ~Hunted(c)
  BY <1>1, <1>3, <1>4 DEF Hunted, Unwanted, Adopts, NoCreate
<1>6. reg.retry = {}
  BY <1>5, Typed DEF IInv, HuntInv, Registry
<1> QED
  BY <1>1, <1>2, <1>3, <1>4, <1>5, <1>6

\* A snapshot is compared with the registry.
LEMMA ReadStep == ASSUME IInv, reconcile_read PROVE IInv'
<1> DEFINE snap == lane.latest
           r == IF Adopts(reg)
                THEN [reg EXCEPT !.chats = [c \in Chats |->
                        IF c \in snap.alive THEN [NoEntry EXCEPT !.state = "Accepting"] ELSE reg.chats[c]]]
                ELSE reg
<1>1. PICK due \in SUBSET reg.retry :
        /\ reg' = r
        /\ lane' = [lane EXCEPT !.latest = NoSnapshot,
                     !.work = [pc |-> "write", snap |-> snap,
                               confirm |-> snap.alive \cap open_chats(r),
                               missing |-> registered(r) \ snap.alive,
                               kill |-> to_kill(reg, snap.alive) \cup due]]
        /\ UNCHANGED <<inst, gapping, killer, create, answer, closer, asked, proc, link, down, up, used>>
  BY DEF reconcile_read
<1> DEFINE kill == to_kill(reg, snap.alive) \cup due
<1>2. snap \in Snapshot /\ snap.alive \subseteq Known /\ snap.alive \subseteq Chats
  BY ServerIs DEF Lane, Snapshot
<1>3. \A c \in kill : c \in Chats /\ Hunted(c)
  BY <1>2, ToKillIs
<1>4. open_chats(r) \subseteq Chats /\ registered(r) \subseteq Chats
  BY DEF open_chats, registered
<1> HIDE DEF kill, r, snap
<1>5. /\ lane' \in Lane /\ lane'.latest.alive = {} /\ lane'.conn = lane.conn
      /\ lane'.pending = lane.pending
      /\ lane'.work.pc = "write" /\ lane'.work.snap = snap /\ lane'.work.kill = kill
  <2> DEFINE w == [pc |-> "write", snap |-> snap, confirm |-> snap.alive \cap open_chats(r),
                   missing |-> registered(r) \ snap.alive, kill |-> kill]
  <2>1. w \in Work
    BY <1>2, <1>3, <1>4 DEF Work
  <2>2. lane' = [lane EXCEPT !.latest = NoSnapshot, !.work = w]
    BY <1>1 DEF kill
  <2>3. NoSnapshot \in Snapshot /\ NoSnapshot.alive = {}
    BY DEF NoSnapshot, Snapshot
  <2>4. w.pc = "write" /\ w.snap = snap /\ w.kill = kill
    OBVIOUS
  <2> HIDE DEF w
  <2> QED
    BY <2>1, <2>2, <2>3, <2>4, ServerIs DEF Lane
<1>6. CASE ~Adopts(reg)
  <2>1. reg' = reg
    BY <1>1, <1>6 DEF r
  <2>2. Quiet(reg, reg')
    BY <2>1, Typed, QuietSame
  <2>3. Steady
    BY <1>1, <2>2 DEF Steady
  <2>4. Lasts /\ BindingInv'
    BY <2>3, SteadyKeeps
  <2>5. HuntInv'
    <3>1. \A c \in Chats : Hunted(c) => Hunted(c)'
      BY <2>4, HuntedStays DEF IInv
    <3> QED
      BY <1>1, <1>3, <1>5, <2>1, <3>1, Typed DEF IInv, HuntInv, Registry
  <2>6. BarrierInv'
    <3>1. \A c \in snap.alive \ registered(reg) : c \in kill
      BY <1>6 DEF kill, to_kill
    <3> QED
      BY <1>5, <2>1, <3>1 DEF BarrierInv
  <2> QED
    BY <1>1, <1>5, <2>1, <2>4, <2>5, <2>6, LastingStep DEF IInv, KnownInv
<1>7. CASE Adopts(reg)
  <2>1. registered(reg) = {} /\ used.ssh
    BY <1>7 DEF Adopts
  <2>2. /\ create = NoCreate /\ closer = NoClose /\ asked = {} /\ ~lane.pending
        /\ \A c \in Chats : reg.chats[c].sess = NoSession /\ ~is_terminal(reg, c) /\ ~Hunted(c)
        /\ reg.retry = {} /\ reg.pending_close = {}
    BY <2>1, NothingHunted
  <2>3. /\ reg' \in Registry /\ registered(reg') = registered(reg) \cup snap.alive
        /\ reg'.bindings = reg.bindings /\ reg'.pending_close = reg.pending_close
        /\ reg'.retry = reg.retry
        /\ \A c \in Chats \ snap.alive : reg'.chats[c] = reg.chats[c]
        /\ \A c \in snap.alive : reg'.chats[c].sess = NoSession /\ reg'.chats[c].state = "Accepting"
    <3>1. PICK K \in SUBSET Chats : K = snap.alive
      BY <1>2
    <3>2. reg' = Joined(reg, K)
      BY <1>1, <1>7, <3>1 DEF r, Joined
    <3> QED
      BY <3>1, <3>2, Typed, RegisteredIs
  <2>4. Lasts
    BY <1>1, <1>2, <2>2, <2>3 DEF Lasts
  <2>5. \A c \in Chats : reg'.chats[c].sess = NoSession
    BY <2>2, <2>3
  <2>6. BindingInv'
    BY <1>1, <2>2, <2>5, LifecycleAssumption DEF BindingInv, NoCreate, LifecycleAssumption
  <2>7. HuntInv'
    BY <1>1, <1>3, <1>5, <2>2, <2>3 DEF IInv, HuntInv
  <2>8. BarrierInv'
    BY <1>5, <2>2 DEF BarrierInv
  <2> QED
    BY <1>1, <1>5, <2>2, <2>3, <2>4, <2>6, <2>7, <2>8, LastingStep
<1> QED
  BY <1>6, <1>7

\* The kills of a report are queued.
LEMMA QueuedIs ==
  ASSUME IInv, NEW K \in SUBSET Chats
  PROVE  /\ Queued(K) \in [Chats -> Killer]
         /\ \A c \in Chats : Queued(K)[c].pc # "idle" <=> killer[c].pc # "idle" \/ c \in K
<1>1. /\ NoKill \in Killer /\ [NoKill EXCEPT !.pc = "try"] \in Killer
      /\ [NoKill EXCEPT !.pc = "try"].pc = "try"
  BY EmptyIs DEF Killer
<1>2. ASSUME NEW c \in Chats
      PROVE  Queued(K)[c] \in Killer /\ (Queued(K)[c].pc # "idle" <=> killer[c].pc # "idle" \/ c \in K)
  <2>1. killer[c] \in Killer /\ [killer[c] EXCEPT !.again = TRUE] \in Killer
        /\ [killer[c] EXCEPT !.again = TRUE].pc = killer[c].pc
    BY Typed DEF Killer
  <2> QED
    BY <1>1, <2>1 DEF Queued
<1>3. Queued(K) \in [Chats -> Killer]
  BY <1>2 DEF Queued
<1> QED
  BY <1>2, <1>3

\* The report is applied, the kills start, and the barrier may be claimed.
LEMMA WriteStep == ASSUME IInv, reconcile_write PROVE IInv'
<1> DEFINE w == lane.work
<1>1. /\ w.pc = "write" /\ reg' = Reconciled(reg, w) /\ killer' = Queued(w.kill)
      /\ UNCHANGED <<inst, gapping, create, answer, closer, asked, proc, link, down, up, used>>
  BY DEF reconcile_write
<1>2. w \in Work /\ w.kill \subseteq Chats /\ w.snap \in Snapshot /\ w.snap.alive \subseteq Chats
      /\ w.snap.conn \in Nat
  BY ServerIs DEF Lane, Work, Snapshot
<1>3. /\ lane' \in Lane /\ lane'.conn = lane.conn /\ lane'.pending = lane.pending
      /\ lane'.latest = lane.latest
      /\ \/ lane'.work.pc = "idle"
         \/ lane'.work.pc = "resume" /\ lane'.work.snap = w.snap
  <2>1. NoWork \in Work /\ NoWork.pc = "idle"
    BY EmptyIs DEF NoWork
  <2>2. CASE lane' = [lane EXCEPT !.work = NoWork]
    BY <2>1, <2>2, ServerIs DEF Lane
  <2>3. CASE lane' = [lane EXCEPT !.in_flight = w.snap.conn,
                                  !.work = [NoWork EXCEPT !.pc = "resume", !.snap = w.snap]]
    <3> DEFINE v == [NoWork EXCEPT !.pc = "resume", !.snap = w.snap]
    <3>1. v \in Work /\ v.pc = "resume" /\ v.snap = w.snap
      BY <1>2, <2>1 DEF Work
    <3>2. lane' = [lane EXCEPT !.in_flight = w.snap.conn, !.work = v]
      BY <2>3
    <3> HIDE DEF v, w
    <3> QED
      BY <1>2, <3>1, <3>2, ServerIs DEF Lane
  <2> QED
    BY <2>2, <2>3 DEF reconcile_write
<1>4. Quiet(reg, reg') /\ reg'.retry = reg.retry
  BY <1>1, Typed, ReconciledIs
<1>5. Steady
  BY <1>1, <1>4 DEF Steady
<1>6. Lasts
  BY <1>5, SteadyKeeps
<1>7. LineKept
  BY <1>1, <1>5, ListensKeeps DEF Listens
<1>8. /\ killer' \in [Chats -> Killer]
      /\ \A c \in Chats : killer'[c].pc # "idle" <=> killer[c].pc # "idle" \/ c \in w.kill
  BY <1>1, <1>2, QueuedIs
<1>9. ServerTypes'
  BY <1>1, <1>3, <1>4, <1>8 DEF IInv, ServerTypes, Quiet
<1>10. registered(reg') = registered(reg) /\ Known' = Known
  BY <1>4 DEF Quiet, Known
<1>11. KnownInv'
  <2>1. /\ asked' \subseteq registered(reg') /\ lane'.latest.alive \subseteq Known'
        /\ closer' # NoClose => closer'.chat \in asked'
        /\ \A d \in Chats : proc'[d] # "no" => proc[d] # "no"
    BY <1>1, <1>3, <1>10, CloserIs, ServerIs
  <2> QED
    BY <1>5, <2>1, KnownKeeps
<1>12. HuntInv'
  <2>1. \A c \in w.kill : Hunted(c)
    BY <1>1 DEF IInv, HuntInv
  <2>2. \A c \in Chats : killer'[c].pc # "idle" => killer[c].pc # "idle" \/ Hunted(c)
    BY <1>8, <2>1
  <2>3. reg'.retry \subseteq Chats /\ lane'.work.pc # "write"
    BY <1>3, <1>4, Typed DEF Registry
  <2> QED
    BY <1>4, <1>6, <2>2, <2>3, HuntKeeps
<1>13. BarrierInv'
  <2>1. SUFFICES ASSUME lane'.pending, lane'.work.pc = "resume", lane'.work.snap = w.snap,
                        NEW c \in w.snap.alive, c \notin registered(reg)
                 PROVE  killer'[c].pc # "idle"
    BY <1>3, <1>10 DEF BarrierInv, Handled
  <2>2. c \in w.kill
    BY <1>1, <1>3, <2>1 DEF IInv, BarrierInv
  <2> QED
    BY <1>2, <1>8, <2>2
<1> QED
  BY <1>1, <1>3, <1>5, <1>7, <1>9, <1>11, <1>12, <1>13, ServerIs, ServerStep

\* The worker ends its claim.
LEMMA CompleteStep == ASSUME IInv, complete_instance PROVE IInv'
<1>1. UNCHANGED <<reg, inst, gapping, killer, create, answer, closer, asked, proc, link, down, up, used>>
  BY DEF complete_instance
<1>2. /\ lane' \in Lane /\ lane'.conn = lane.conn
      /\ lane'.pending => lane.pending
      /\ lane'.latest = lane.latest /\ lane'.work.pc = "idle"
  BY EmptyIs, ServerIs DEF complete_instance, Lane, NoWork
<1>3. Quiet(reg, reg')
  BY <1>1, Typed, QuietSame
<1>4. Steady
  BY <1>1, <1>3 DEF Steady
<1>5. Lasts /\ BindingInv'
  BY <1>4, SteadyKeeps
<1>6. HuntInv'
  BY <1>1, <1>2, <1>5, Typed, HuntKeeps DEF Registry
<1>7. BarrierInv'
  BY <1>2 DEF BarrierInv
<1> QED
  BY <1>1, <1>2, <1>5, <1>6, <1>7, ServerIs, LastingStep DEF IInv, KnownInv

------------------------------------------------------------------------------
(* The creates.                                                            *)

\* A create under way has a chat of its own, which was not answered yet.
LEMMA CreateIs ==
  ASSUME IInv, create # NoCreate
  PROVE  /\ create \in Creating /\ create.chat \in Chats /\ create.sess \in Sessions
         /\ create.chat \in registered(reg) /\ answer[create.chat] = "none"
         /\ ~lane.pending
BY DEF IInv, ServerTypes, KnownInv, BarrierShut, Creating

\* Its answer is the only one that changes.
LEMMA AnsweredIs ==
  ASSUME IInv, create # NoCreate, NEW v \in {"failed", "unknown", "committed"}, Answered(v)
  PROVE  /\ create' = NoCreate
         /\ answer' \in [Chats -> {"none", "failed", "unknown", "committed"}]
         /\ \A c \in Chats : answer'[c] = IF c = create.chat THEN v ELSE answer[c]
BY CreateIs DEF IInv, ServerTypes, Answered

\* What a step of a create has to show.
LEMMA CreateStep ==
  ASSUME IInv, Lasts, ~lane.pending, BindingInv',
         UNCHANGED <<inst, gapping, lane, killer, closer, asked, proc, link>>,
         Event \/ used' = used,
         create' = NoCreate \/ create' \in Creating,
         answer' \in [Chats -> {"none", "failed", "unknown", "committed"}],
         reg'.pending_close \subseteq asked, reg'.retry = reg.retry,
         create' # NoCreate => create'.chat \in registered(reg') /\ answer'[create'.chat] = "none",
         \A c \in Chats : answer'[c] # "none" => c \in registered(reg'),
         LineInv', Len(up') <= MaxReports, CreateInv', FailedMeansDead'
  PROVE  IInv'
<1>1. /\ used' \in [conns : Nat, events : Nat, ssh : BOOLEAN]
      /\ used'.conns = used.conns
  BY EventIs DEF IInv
<1>2. ServerTypes'
  BY DEF IInv, ServerTypes, Lasts
<1>3. WorldTypes'
  BY <1>1, ServerIs DEF IInv, WorldTypes
<1>4. BarrierShut' /\ BarrierInv'
  BY DEF BarrierShut, BarrierInv
<1>5. Known \subseteq Known' /\ registered(reg) \subseteq registered(reg')
  BY DEF Lasts, Known
<1>6. KnownInv'
  BY <1>5 DEF IInv, KnownInv
<1>7. HuntInv'
  <2>1. reg'.retry \subseteq Chats
    BY Typed DEF Registry
  <2> QED
    BY <2>1, HuntKeeps
<1> QED
  BY <1>2, <1>3, <1>4, <1>6, <1>7 DEF IInv

\* A create that goes on keeps its chat and its session.
Goes(pc) ==
    /\ create' \in Creating /\ create'.pc = pc
    /\ create'.chat = create.chat /\ create'.sess = create.sess /\ answer' = answer
LEMMA GoesIs ==
  ASSUME IInv, create # NoCreate,
         NEW pc \in {"spawn", "spawning", "initialize", "taking", "loading", "killing"},
         create' = [create EXCEPT !.pc = pc], answer' = answer
  PROVE  Goes(pc)
BY CreateIs DEF Goes, Creating

\* A create that goes on, or ends with an answer, leaves the reasons for kills in place.
LEMMA CreateLasts ==
  ASSUME IInv, create # NoCreate, asked' = asked, Event \/ used' = used,
         reg' \in Registry, registered(reg') = registered(reg),
         \A c \in Chats : is_terminal(reg, c) => is_terminal(reg', c),
         \/ /\ create'.chat = create.chat /\ answer' = answer
            /\ create.pc = "killing" => create'.pc = "killing"
         \/ \E v \in {"failed", "unknown", "committed"} :
               Answered(v) /\ (create.pc = "killing" => v # "committed")
  PROVE  Lasts
<1>1. used'.ssh = used.ssh
  BY EventIs DEF IInv
<1>2. \A c \in Chats : answer[c] \in {"failed", "unknown"} => answer'[c] = answer[c]
  BY CreateIs, AnsweredIs
<1>3. create.pc = "killing" =>
          \/ create'.pc = "killing" /\ create'.chat = create.chat
          \/ answer'[create.chat] \in {"failed", "unknown"}
  BY CreateIs, AnsweredIs
<1> QED
  BY <1>1, <1>2, <1>3 DEF Lasts

\* Without a frame of the create on its way, only one about to spawn has a claim.
LEMMA FramesSilent ==
  ASSUME NEW w, NEW d \in Seq(DownFrame), NEW u \in Seq(UpFrame), NEW p, Silent(d), Silent(u),
         w.pc \notin {"spawn", "spawning"}
  PROVE  FramesOf(w, d, u, p)
BY DEF FramesOf, DownOf, UpOf, Silent, Alone

\* The spawn is sent.
LEMMA FramesSpawn ==
  ASSUME NEW w, NEW v, NEW d \in Seq(DownFrame), NEW u \in Seq(UpFrame), NEW p,
         NEW f \in DownFrame, f.k = "spawn", f.who = "create", f.chat = w.chat,
         FramesOf(w, d, u, p), w.pc = "spawn", v.pc = "spawning", v.chat = w.chat
  PROVE  FramesOf(v, d, u, p) /\ FramesOf(v, Append(d, f), u, p)
<1>1. Silent(d) /\ Silent(u) /\ NoSpawn(d, w.chat) /\ p[w.chat] # "run"
  BY DEF FramesOf, DownOf
<1>2. /\ Len(d) \in Nat /\ Len(Append(d, f)) = Len(d) + 1
      /\ \A i \in 1..Len(d) : Append(d, f)[i] = d[i]
      /\ Append(d, f)[Len(d) + 1] = f
  BY AppendIs
<1>3. \A i \in 1..Len(Append(d, f)) :
         \/ i \in 1..Len(d) /\ Append(d, f)[i] = d[i]
         \/ i = Len(d) + 1 /\ Append(d, f)[i] = f
  BY <1>2
<1>4. UpOf(v, d, u, p) /\ UpOf(v, Append(d, f), u, p)
  BY <1>1 DEF UpOf, Alone, Silent
<1>5. DownOf(v, d)
  BY <1>1 DEF DownOf, Alone, Silent, NoSpawn
<1>6. DownOf(v, Append(d, f))
  <2>1. Alone(Append(d, f))
    BY <1>1, <1>3 DEF Alone, Silent
  <2>2. \A i \in 1..Len(Append(d, f)) :
           SpawnOf(Append(d, f)[i], v.chat) <=> Append(d, f)[i].who = "create"
    BY <1>1, <1>3 DEF Silent, NoSpawn, SpawnOf
  <2> QED
    BY <2>1, <2>2 DEF DownOf
<1> QED
  BY <1>1, <1>4, <1>5, <1>6 DEF FramesOf

\* The kill is sent after everything else.
LEMMA FramesKill ==
  ASSUME NEW w, NEW d \in Seq(DownFrame), NEW u \in Seq(UpFrame), NEW p,
         NEW f \in DownFrame, f.k = "kill", f.who = "create", f.chat = w.chat,
         Silent(d), Silent(u), w.pc = "killing"
  PROVE  FramesOf(w, Append(d, f), u, p)
<1>1. /\ Len(d) \in Nat /\ Len(Append(d, f)) = Len(d) + 1
      /\ \A i \in 1..Len(d) : Append(d, f)[i] = d[i]
      /\ Append(d, f)[Len(d) + 1] = f
  BY AppendIs
<1>2. \A i \in 1..Len(Append(d, f)) :
         \/ i \in 1..Len(d) /\ Append(d, f)[i] = d[i]
         \/ i = Len(d) + 1 /\ Append(d, f)[i] = f
  BY <1>1
<1>3. Alone(Append(d, f))
  BY <1>1, <1>2 DEF Alone, Silent
<1>4. ASSUME NEW i \in 1..Len(Append(d, f)), Append(d, f)[i].who = "create"
      PROVE  /\ Append(d, f)[i].k = "kill" /\ Append(d, f)[i].chat = w.chat
             /\ \A j \in 1..Len(Append(d, f)) : SpawnOf(Append(d, f)[j], w.chat) => j < i
  <2>1. i = Len(d) + 1 /\ Append(d, f)[i] = f
    BY <1>2, <1>4 DEF Silent
  <2>2. \A j \in 1..Len(Append(d, f)) : SpawnOf(Append(d, f)[j], w.chat) => j \in 1..Len(d)
    BY <1>2 DEF SpawnOf
  <2> QED
    BY <1>1, <2>1, <2>2
<1>5. DownOf(w, Append(d, f))
  BY <1>3, <1>4 DEF DownOf
<1>6. UpOf(w, Append(d, f), u, p)
  BY DEF UpOf, Silent, Alone
<1> QED
  BY <1>5, <1>6 DEF FramesOf

\* Who gave up has no frames left.
LEMMA ForsakenSilent ==
  ASSUME NEW T, NEW q \in Seq(T), T \in {DownFrame, UpFrame}
  PROVE  Silent(Forsaken(q, "create"))
<1>1. /\ Len(q) \in Nat /\ Len(Forsaken(q, "create")) = Len(q)
      /\ \A i \in 1..Len(q) :
            Forsaken(q, "create")[i].who = IF q[i].who = "create" THEN "none" ELSE q[i].who
  BY ForsakenDown, ForsakenUp
<1> QED
  BY <1>1 DEF Silent
\* The frames keep their meaning after a step of a create.
LEMMA CreateFrames ==
  ASSUME IInv, Lasts, proc' = proc
  PROVE  GoodDown \subseteq GoodDown' /\ GoodUp \subseteq GoodUp'
         /\ down \in Seq(GoodDown') /\ up \in Seq(GoodUp')
<1>1. GoodDown \subseteq GoodDown' /\ GoodUp \subseteq GoodUp'
  BY FramesStay DEF IInv
<1> QED
  BY <1>1, Typed, SeqMonotonic

\* A chat is registered, and a create begins for it.
LEMMA PrepareStep ==
  ASSUME IInv, NEW c \in Chats, NEW s \in Sessions, create_prepare(c, s)
  PROVE  IInv'
<1>1. /\ create = NoCreate /\ ~lane.pending /\ c # Old /\ c \notin registered(reg)
      /\ s \in Stored \/ registered(reg) = {}
      /\ create' = [NoCreate EXCEPT !.pc = "spawn", !.chat = c, !.sess = s]
      /\ UNCHANGED <<inst, gapping, lane, killer, answer, closer, asked, proc, link, down, up, used>>
  BY DEF create_prepare, Healthy
<1>2. /\ reg' \in Registry /\ registered(reg') = registered(reg) \cup {c}
      /\ reg'.bindings = reg.bindings /\ reg'.pending_close = reg.pending_close
      /\ reg'.retry = reg.retry
      /\ \A d \in Chats \ {c} : reg'.chats[d] = reg.chats[d]
      /\ reg'.chats[c].sess = NoSession /\ reg'.chats[c].state = "Accepting"
  <2>1. reg' = register(reg, c)
    BY DEF create_prepare
  <2> DEFINE new == [NoEntry EXCEPT !.state = "Accepting"]
  <2>2. new \in Entry /\ new.sess = NoSession /\ new.state = "Accepting"
    BY DEF Entry, NoEntry, States
  <2>3. reg' = [reg EXCEPT !.chats = [reg.chats EXCEPT ![c] = new]]
    BY <2>1, Typed DEF register, Registry
  <2> HIDE DEF new
  <2>4. /\ reg'.chats = [reg.chats EXCEPT ![c] = new] /\ reg' \in Registry
        /\ reg'.bindings = reg.bindings /\ reg'.pending_close = reg.pending_close
        /\ reg'.retry = reg.retry
    BY <2>2, <2>3, Typed DEF Registry
  <2>5. reg'.chats[c] = new /\ \A d \in Chats \ {c} : reg'.chats[d] = reg.chats[d]
    BY <2>4, Typed DEF Registry
  <2>6. registered(reg') = registered(reg) \cup {c}
    BY <2>2, <2>5 DEF registered
  <2> QED
    BY <2>2, <2>4, <2>5, <2>6
<1>3. create' \in Creating /\ create'.chat = c /\ create'.sess = s /\ create'.pc = "spawn"
  BY <1>1 DEF NoCreate, Creating
<1>4. ~Hunted(c) /\ proc[c] # "run" /\ answer[c] = "none"
  BY <1>1 DEF IInv, KnownInv, Hunted, Known
<1>5. Lasts
  <2>1. \A d \in Chats : is_terminal(reg, d) => is_terminal(reg', d)
    BY <1>1, <1>2 DEF is_terminal, Final, registered
  <2>2. create.pc # "killing"
    BY <1>1 DEF NoCreate
  <2> QED
    BY <1>1, <1>2, <1>4, <2>1, <2>2 DEF Lasts
<1>6. BindingInv'
  <2>1. \A d \in Chats : reg'.chats[d].sess = NoSession \/ (d # c /\ reg'.chats[d] = reg.chats[d])
    BY <1>2
  <2>2. ASSUME NEW d \in Chats \ asked, NEW t \in Sessions,
               reg'.chats[d].sess = t, ~is_terminal(reg', d)
        PROVE  reg'.bindings[t] = d
    BY <1>2, <2>1, <2>2, LifecycleAssumption DEF IInv, BindingInv, is_terminal, LifecycleAssumption
  <2>3. s \notin Stored => \A d \in Chats : reg'.chats[d].sess # s
    BY <1>1, <2>1, LifecycleAssumption DEF IInv, BindingInv, LifecycleAssumption
  <2> QED
    BY <1>1, <1>2, <1>3, <2>1, <2>2, <2>3 DEF IInv, BindingInv
<1>7. CreateInv'
  <2>1. Silent(down) /\ Silent(up)
    BY <1>1 DEF IInv, CreateInv, FramesOf, NoCreate
  <2>2. NoSpawn(down, c)
    BY <1>1, Typed, ElementOfSeq DEF NoSpawn, SpawnOf, GoodDown
  <2> QED
    BY <1>1, <1>3, <1>4, <2>1, <2>2 DEF CreateInv, FramesOf, DownOf, UpOf, Silent, Alone
<1>8. LineInv'
  BY <1>1, <1>5, CreateFrames DEF LineInv
<1>9. FailedMeansDead'
  BY <1>1 DEF IInv, FailedMeansDead
<1>10. /\ reg'.pending_close \subseteq asked
       /\ \A d \in Chats : answer'[d] # "none" => d \in registered(reg')
       /\ answer' \in [Chats -> {"none", "failed", "unknown", "committed"}]
       /\ Len(up') <= MaxReports
  BY <1>1, <1>2 DEF IInv, KnownInv, ServerTypes, WorldTypes
<1> QED
  BY <1>1, <1>2, <1>3, <1>4, <1>5, <1>6, <1>7, <1>8, <1>9, <1>10, CreateStep

\* A create ends, with nothing of its own on its way.
LEMMA EndStep ==
  ASSUME IInv, create # NoCreate, NEW v \in {"failed", "unknown", "committed"}, Answered(v),
         create.pc = "killing" => v # "committed",
         UNCHANGED <<inst, gapping, lane, killer, closer, asked, proc, link>>,
         Event \/ used' = used,
         reg' \in Registry, registered(reg') = registered(reg), BindingInv',
         \A c \in Chats : is_terminal(reg, c) => is_terminal(reg', c),
         reg'.pending_close \subseteq reg.pending_close, reg'.retry = reg.retry,
         down' \in Seq(GoodDown), up' \in Seq(GoodUp), Silent(down'), Silent(up'),
         Len(up') <= MaxReports, \A c \in Chats : NoSpawn(down, c) => NoSpawn(down', c),
         v = "failed" => proc[create.chat] # "run" /\ NoSpawn(down, create.chat)
  PROVE  IInv'
<1>1. /\ create' = NoCreate
      /\ answer' \in [Chats -> {"none", "failed", "unknown", "committed"}]
      /\ \A c \in Chats : answer'[c] = IF c = create.chat THEN v ELSE answer[c]
  BY AnsweredIs
<1>2. create.chat \in Chats /\ create.chat \in registered(reg) /\ ~lane.pending
  BY CreateIs
<1>3. Lasts
  BY CreateLasts
<1>4. GoodDown \subseteq GoodDown' /\ GoodUp \subseteq GoodUp'
  BY <1>3, CreateFrames
<1>5. LineInv'
  BY <1>4, SeqMonotonic DEF LineInv
<1>6. CreateInv'
  <2>1. down' \in Seq(DownFrame) /\ up' \in Seq(UpFrame)
    BY Typed, SeqMonotonic
  <2>2. NoCreate.pc \notin {"spawn", "spawning"}
    BY DEF NoCreate
  <2>3. FramesOf(NoCreate, down', up', proc')
    BY <2>1, <2>2, FramesSilent
  <2> QED
    BY <1>1, <2>3 DEF CreateInv
<1>7. FailedMeansDead'
  <2>1. \A c \in Chats : answer'[c] = "failed" => proc'[c] # "run" /\ NoSpawn(down', c)
    BY <1>1, FailedIs DEF IInv
  <2> QED
    BY <2>1 DEF FailedMeansDead, NoSpawn, SpawnOf
<1>8. \A c \in Chats : answer'[c] # "none" => c \in registered(reg')
  BY <1>1, <1>2 DEF IInv, KnownInv
<1>9. reg'.pending_close \subseteq asked
  BY DEF IInv, KnownInv
<1> QED
  BY <1>1, <1>2, <1>3, <1>5, <1>6, <1>7, <1>8, <1>9, CreateStep

\* A create goes on.
LEMMA GoStep ==
  ASSUME IInv, create # NoCreate, NEW pc, Goes(pc), create.pc = "killing" => pc = "killing",
         UNCHANGED <<inst, gapping, lane, killer, closer, asked, proc, link>>,
         Event \/ used' = used,
         reg' \in Registry, registered(reg') = registered(reg), BindingInv',
         \A c \in Chats : is_terminal(reg, c) => is_terminal(reg', c),
         reg'.pending_close = reg.pending_close, reg'.retry = reg.retry,
         Lasts => LineInv', CreateInv',
         Len(up') <= MaxReports, FailedMeansDead'
  PROVE  IInv'
<1>1. create' \in Creating /\ create'.chat = create.chat /\ answer' = answer /\ create'.pc = pc
  BY DEF Goes
<1>2. Lasts
  BY <1>1, CreateLasts
<1>3. /\ create'.chat \in registered(reg') /\ answer'[create'.chat] = "none"
      /\ \A c \in Chats : answer'[c] # "none" => c \in registered(reg')
      /\ answer' \in [Chats -> {"none", "failed", "unknown", "committed"}]
      /\ reg'.pending_close \subseteq asked
  BY <1>1, CreateIs DEF IInv, KnownInv, ServerTypes
<1> QED
  BY <1>1, <1>2, <1>3, CreateIs, CreateStep
\* Nothing but the state of the create's chat changes: what its steps leave alone.
LEMMA StillIs ==
  ASSUME IInv, reg' = reg
  PROVE  /\ reg' \in Registry /\ registered(reg') = registered(reg)
         /\ \A c \in Chats : is_terminal(reg, c) => is_terminal(reg', c)
         /\ reg'.pending_close = reg.pending_close /\ reg'.retry = reg.retry
BY Typed

\* A create is cleaned up, after the frames q: a kill is sent, or the outcome is unknown.
LEMMA CleanUpStep ==
  ASSUME IInv, create # NoCreate, NEW q \in Seq(GoodDown), NEW durable \in BOOLEAN,
         CleanUp(q, durable), Silent(q), \A c \in Chats : NoSpawn(down, c) => NoSpawn(q, c),
         up' \in Seq(GoodUp), Silent(up'), Len(up') <= MaxReports,
         UNCHANGED <<reg, inst, gapping, lane, killer, closer, asked, proc, link>>,
         Event \/ used' = used
  PROVE  IInv'
<1> DEFINE f == Frame("kill", create.chat, "create")
<1>1. /\ create \in Creating /\ create.chat \in Chats /\ create.chat \in registered(reg)
  BY CreateIs
<1>2. /\ reg' \in Registry /\ registered(reg') = registered(reg)
      /\ \A c \in Chats : is_terminal(reg, c) => is_terminal(reg', c)
      /\ reg'.pending_close = reg.pending_close /\ reg'.retry = reg.retry
  BY StillIs
<1>3. CASE down' = q /\ Answered("unknown")
  <2>1. BindingInv'
    <3>1. create' = NoCreate
      BY <1>3, AnsweredIs
    <3> QED
      BY <3>1 DEF IInv, BindingInv, NoCreate
  <2> QED
    BY <1>2, <1>3, <2>1, EndStep
<1>4. CASE /\ down' \in {q, Append(q, f)} /\ answer' = answer
           /\ create' = [create EXCEPT !.pc = "killing", !.durable = durable]
  <2>1. Goes("killing")
    BY <1>1, <1>4 DEF Goes, Creating
  <2>2. BindingInv'
    BY <2>1 DEF IInv, BindingInv, Goes
  <2>3. f \in DownFrame /\ f.k = "kill" /\ f.who = "create" /\ f.chat = create.chat
    BY <1>1 DEF Frame, DownFrame, Callers
  <2>4. q \in Seq(DownFrame) /\ up' \in Seq(UpFrame)
    BY Typed, SeqMonotonic
  <2> HIDE DEF f
  <2>5. ASSUME Lasts
        PROVE  LineInv'
    <3>1. GoodDown \subseteq GoodDown' /\ GoodUp \subseteq GoodUp'
      BY <2>5, CreateFrames
    <3>2. PICK g \in DownFrame : g = f
      BY <2>3
    <3>3. PICK c \in Chats : c = create.chat
      BY <1>1
    <3>4. Hunted(c)'
      BY <1>1, <1>2, <2>1, <3>3 DEF Hunted, Unwanted, Known, Goes
    <3>5. g \in GoodDown'
      BY <2>3, <3>2, <3>3, <3>4, LifecycleAssumption DEF GoodDown, LifecycleAssumption
    <3>6. q \in Seq(GoodDown') /\ up' \in Seq(GoodUp')
      BY <3>1, SeqMonotonic
    <3>7. Append(q, g) \in Seq(GoodDown')
      BY <3>5, <3>6, AppendIs
    <3> QED
      BY <1>4, <3>2, <3>6, <3>7 DEF LineInv
  <2>6. CreateInv'
    <3>1. PICK w : w = create'
      OBVIOUS
    <3>2. w.pc = "killing" /\ w.chat = create.chat
      BY <2>1, <3>1 DEF Goes
    <3>3. FramesOf(w, q, up', proc') /\ FramesOf(w, Append(q, f), up', proc')
      BY <2>3, <2>4, <3>2, FramesSilent, FramesKill
    <3> QED
      BY <1>4, <3>1, <3>3 DEF CreateInv
  <2>7. FailedMeansDead'
    <3>1. PICK g \in DownFrame : g = f
      BY <2>3
    <3>2. ASSUME NEW c \in Chats, NoSpawn(down, c)
          PROVE  NoSpawn(down', c)
      <4>1. NoSpawn(q, c) /\ ~SpawnOf(g, c)
        BY <2>3, <3>1, <3>2 DEF SpawnOf
      <4>2. NoSpawn(Append(q, g), c)
        BY <2>4, <4>1, NoSpawnIs
      <4> QED
        BY <1>4, <3>1, <4>1, <4>2
    <3> QED
      BY <1>4, <3>2, FailedKeeps
  <2> QED
    BY <1>2, <1>4, <2>1, <2>2, <2>5, <2>6, <2>7, GoStep
<1> QED
  BY <1>3, <1>4 DEF CleanUp

\* The spawn is sent, or nothing was started.
LEMMA SpawnStep == ASSUME IInv, create_spawn PROVE IInv'
<1> DEFINE f == Frame("spawn", create.chat, "create")
<1>1. /\ create.pc = "spawn" /\ create # NoCreate
      /\ UNCHANGED <<inst, gapping, lane, killer, closer, asked, proc, link, up, used>>
  BY DEF create_spawn, NoCreate
<1>2. create \in Creating /\ create.chat \in Chats /\ create.chat \in registered(reg)
  BY <1>1, CreateIs
<1>3. FramesOf(create, down, up, proc) /\ Silent(down) /\ Silent(up)
      /\ NoSpawn(down, create.chat) /\ proc[create.chat] # "run"
  BY <1>1 DEF IInv, CreateInv, FramesOf, DownOf
<1>4. CASE close_local /\ Answered("failed") /\ down' = down
  <2>1. reg' = transition(reg, {create.chat}, "Closed") /\ "Closed" \in States \ {"none"}
    BY <1>4 DEF close_local, States, Final
  <2>2. Quiet(reg, reg') /\ reg'.retry = reg.retry
    BY <2>1, Typed, TransitionIs
  <2>3. create' = NoCreate
    BY <1>1, <1>4, AnsweredIs
  <2>4. BindingInv'
    BY <1>1, <2>2, <2>3, BindingKeeps DEF IInv, NoCreate
  <2> QED
    BY <1>1, <1>3, <1>4, <2>2, <2>4, Typed, EndStep DEF Quiet, IInv, WorldTypes
<1>5. CASE /\ down' \in {down, Append(down, f)} /\ reg' = reg /\ answer' = answer
           /\ create' = [create EXCEPT !.pc = "spawning"]
  <2>1. Goes("spawning")
    BY <1>1, <1>5, GoesIs
  <2>2. BindingInv'
    BY <1>1, <1>5, <2>1 DEF IInv, BindingInv, Goes
  <2>3. f \in DownFrame /\ f.k = "spawn" /\ f.who = "create" /\ f.chat = create.chat
    BY <1>2 DEF Frame, DownFrame, Callers
  <2> HIDE DEF f
  <2>4. PICK g \in DownFrame : g = f
    BY <2>3
  <2>5. ASSUME Lasts
        PROVE  LineInv'
    <3>1. down \in Seq(GoodDown') /\ up \in Seq(GoodUp')
      BY <1>1, <2>5, CreateFrames
    <3>2. g \in GoodDown'
      BY <1>2, <1>5, <2>3, <2>4, LifecycleAssumption DEF GoodDown, LifecycleAssumption
    <3>3. Append(down, g) \in Seq(GoodDown')
      BY <3>1, <3>2, AppendIs
    <3> QED
      BY <1>1, <1>5, <2>4, <3>1, <3>3 DEF LineInv
  <2>6. CreateInv'
    <3>1. PICK w : w = create'
      OBVIOUS
    <3>2. w.pc = "spawning" /\ w.chat = create.chat
      BY <2>1, <3>1 DEF Goes
    <3>3. FramesOf(w, down, up, proc) /\ FramesOf(w, Append(down, f), up, proc)
      BY <1>1, <1>3, <2>3, <3>2, Typed, FramesSpawn
    <3> QED
      BY <1>1, <1>5, <3>1, <3>3 DEF CreateInv
  <2>7. FailedMeansDead'
    <3>1. ASSUME NEW c \in Chats, answer'[c] = "failed"
          PROVE  proc'[c] # "run" /\ NoSpawn(down', c)
      <4>1. answer[c] = "failed" /\ c # create.chat
        BY <1>1, <1>5, <3>1, CreateIs
      <4>2. NoSpawn(down, c) /\ ~SpawnOf(g, c)
        BY <2>3, <2>4, <4>1, FailedIs DEF SpawnOf, IInv
      <4>3. NoSpawn(Append(down, g), c)
        BY <4>2, Typed, NoSpawnIs
      <4>4. NoSpawn(down', c)
        BY <1>5, <2>4, <4>2, <4>3
      <4> QED
        BY <1>1, <4>1, <4>4, FailedIs DEF IInv
    <3> QED
      BY <3>1 DEF FailedMeansDead, NoSpawn, SpawnOf
  <2> QED
    BY <1>1, <1>5, <2>1, <2>2, <2>5, <2>6, <2>7, StillIs, GoStep DEF IInv, WorldTypes
<1> QED
  BY <1>4, <1>5 DEF create_spawn, Send

\* The create gives up on its spawn.
LEMMA SpawnTimeout == ASSUME IInv, create_spawn_timeout PROVE IInv'
<1>1. /\ create # NoCreate
      /\ Event \/ used' = used
      /\ CleanUp(Forsaken(down, "create"), FALSE) /\ up' = Forsaken(up, "create")
      /\ UNCHANGED <<reg, inst, gapping, lane, killer, closer, asked, proc, link>>
  <2>1. create # NoCreate
    BY DEF create_spawn_timeout, NoCreate
  <2> QED
    BY <2>1, Zenon DEF create_spawn_timeout
<1>2. /\ Forsaken(down, "create") \in Seq(GoodDown) /\ up' \in Seq(GoodUp)
      /\ Len(up') = Len(up)
  BY <1>1, Typed, ForsakenGood, ForsakenStays, ForsakenIs
<1>3. Silent(Forsaken(down, "create")) /\ Silent(up')
  BY <1>1, Typed, ForsakenSilent
<1>4. \A c \in Chats : NoSpawn(down, c) => NoSpawn(Forsaken(down, "create"), c)
  BY Typed, NoSpawnIs
<1> QED
  BY <1>1, <1>2, <1>3, <1>4, CleanUpStep DEF IInv, WorldTypes
\* A session is bound to the chat of the create: a chat that had it loses it, and nobody else
\* has it.
LEMMA BoundKeeps ==
  ASSUME IInv, NEW c \in Chats, NEW s \in Sessions, NEW from \in Chats \cup {NoChat},
         NEW t, t = Bound(reg, c, s, from),
         \A d \in Chats \ asked : reg.chats[d].sess = s /\ ~is_terminal(reg, d) => d = from,
         c \in registered(reg)
  PROVE  /\ \A d \in Chats \ asked : \A e \in Sessions :
               t.chats[d].sess = e /\ ~is_terminal(t, d) => t.bindings[e] = d
         /\ \A d \in Chats \ registered(t) : t.chats[d].sess = NoSession
<1>1. /\ t \in Registry /\ registered(t) = registered(reg)
      /\ t.bindings = [reg.bindings EXCEPT ![s] = c]
      /\ \A d \in Chats : /\ is_terminal(t, d) <=> is_terminal(reg, d)
                          /\ t.chats[d].sess = IF d = c THEN s ELSE IF d = from THEN NoSession
                                               ELSE reg.chats[d].sess
  <2>1. Binds(reg, t, c, s, from)
    BY Typed, BoundIs
  <2> QED
    BY <2>1 DEF Binds
<1>2. /\ t.bindings[s] = c
      /\ \A e \in Sessions \ {s} : t.bindings[e] = reg.bindings[e]
  BY <1>1, Typed DEF Registry
<1>3. ASSUME NEW d \in Chats \ asked, NEW e \in Sessions,
             t.chats[d].sess = e, ~is_terminal(t, d)
      PROVE  t.bindings[e] = d
  <2>1. CASE d = c
    BY <1>1, <1>2, <1>3, <2>1
  <2>2. CASE d # c
    <3>1. d # from /\ reg.chats[d].sess = e /\ ~is_terminal(reg, d)
      BY <1>1, <1>3, <2>2, LifecycleAssumption DEF LifecycleAssumption
    <3>2. e # s /\ reg.bindings[e] = d
      BY <3>1 DEF IInv, BindingInv
    <3> QED
      BY <1>2, <3>2
  <2> QED
    BY <2>1, <2>2
<1>4. \A d \in Chats \ registered(t) : t.chats[d].sess = NoSession
  BY <1>1 DEF IInv, BindingInv
<1> QED
  BY <1>3, <1>4

\* A create that has its process: no frame of its own is on its way.
LEMMA AloneIs ==
  ASSUME IInv, create.pc \in {"initialize", "taking", "loading"}
  PROVE  create # NoCreate /\ Silent(down) /\ Silent(up)
BY DEF IInv, CreateInv, FramesOf, NoCreate

\* A create with its process goes on, without a frame.
LEMMA ForthStep ==
  ASSUME IInv, create.pc \in {"initialize", "taking", "loading"},
         NEW pc \in {"taking", "loading"}, Goes(pc),
         UNCHANGED <<inst, gapping, lane, killer, closer, asked, proc, link, down, up, used>>,
         reg' \in Registry, registered(reg') = registered(reg), BindingInv',
         \A c \in Chats : is_terminal(reg, c) => is_terminal(reg', c),
         reg'.pending_close = reg.pending_close, reg'.retry = reg.retry
  PROVE  IInv'
<1>1. create # NoCreate /\ Silent(down) /\ Silent(up)
  BY AloneIs
<1>2. CreateInv'
  <2>1. PICK w : w = create'
    OBVIOUS
  <2>2. w.pc \notin {"spawn", "spawning"}
    BY <2>1 DEF Goes
  <2>3. FramesOf(w, down, up, proc)
    BY <1>1, <2>2, Typed, FramesSilent
  <2> QED
    BY <2>1, <2>3 DEF CreateInv
<1>3. Lasts => LineInv'
  BY CreateFrames DEF LineInv
<1>4. FailedMeansDead'
  BY DEF IInv, FailedMeansDead, Goes
<1> QED
  BY <1>1, <1>2, <1>3, <1>4, GoStep DEF IInv, WorldTypes

\* The agent is initialized, and a stored session is bound, or has to be taken, or is in use.
LEMMA InitializeStep == ASSUME IInv, create_initialize PROVE IInv'
<1> DEFINE holder == reg.bindings[create.sess]
<1>1. /\ create.pc = "initialize" /\ create # NoCreate
      /\ UNCHANGED <<inst, gapping, lane, killer, closer, asked, proc, link, up, used>>
  BY DEF create_initialize, NoCreate
<1>2. /\ create \in Creating /\ create.chat \in Chats /\ create.sess \in Sessions
      /\ create.chat \in registered(reg)
  BY <1>1, CreateIs
<1>3. holder \in Chats \cup {NoChat}
  BY <1>2, Typed DEF Registry
<1>4. CASE /\ create.sess \notin Stored /\ reg' = reg
           /\ create' = [create EXCEPT !.pc = "loading"] /\ UNCHANGED <<answer, down>>
  <2>1. Goes("loading")
    BY <1>1, <1>4, GoesIs
  <2>2. BindingInv'
    BY <1>1, <1>4, <2>1 DEF IInv, BindingInv, Goes
  <2> QED
    BY <1>1, <1>4, <2>1, <2>2, StillIs, ForthStep
<1>5. CASE /\ create.sess \in Stored /\ holder = NoChat
           /\ reg' = Bound(reg, create.chat, create.sess, NoChat)
           /\ create' = [create EXCEPT !.pc = "loading"] /\ UNCHANGED <<answer, down>>
  <2>1. Goes("loading")
    BY <1>1, <1>5, GoesIs
  <2>2. /\ reg' \in Registry /\ registered(reg') = registered(reg)
        /\ reg'.pending_close = reg.pending_close /\ reg'.retry = reg.retry
        /\ \A d \in Chats : is_terminal(reg', d) <=> is_terminal(reg, d)
    <3>1. Binds(reg, reg', create.chat, create.sess, NoChat)
      BY <1>2, <1>5, Typed, BoundIs
    <3> QED
      BY <3>1 DEF Binds
  <2>3. BindingInv'
    <3>1. \A d \in Chats \ asked : reg.chats[d].sess = create.sess /\ ~is_terminal(reg, d) => d = NoChat
      BY <1>2, <1>5 DEF IInv, BindingInv
    <3>2. /\ \A d \in Chats \ asked : \A e \in Sessions :
                 reg'.chats[d].sess = e /\ ~is_terminal(reg', d) => reg'.bindings[e] = d
          /\ \A d \in Chats \ registered(reg') : reg'.chats[d].sess = NoSession
      BY <1>2, <1>5, <3>1, BoundKeeps
    <3> QED
      BY <1>1, <1>5, <2>1, <3>2 DEF BindingInv, Goes
  <2> QED
    BY <1>1, <1>5, <2>1, <2>2, <2>3, ForthStep
<1>6. CASE /\ create.sess \in Stored /\ reg' = reg
           /\ create' = [create EXCEPT !.pc = "taking", !.from = holder] /\ UNCHANGED <<answer, down>>
  <2>1. Goes("taking") /\ create'.from = holder
    BY <1>2, <1>3, <1>6 DEF Goes, Creating
  <2>2. BindingInv'
    BY <1>1, <1>6, <2>1 DEF IInv, BindingInv, Goes
  <2> QED
    BY <1>1, <1>6, <2>1, <2>2, StillIs, ForthStep
<1>7. CASE reg' = reg /\ CleanUp(down, FALSE)
  <2>1. Silent(down) /\ Silent(up)
    BY <1>1, AloneIs
  <2> QED
    BY <1>1, <1>7, <2>1, Typed, CleanUpStep DEF IInv, WorldTypes
<1> QED
  BY <1>4, <1>5, <1>6, <1>7 DEF create_initialize

\* The session is taken from the chat that had no evidence of life.
LEMMA TakeStep == ASSUME IInv, create_take PROVE IInv'
<1>1. /\ create.pc = "taking" /\ create # NoCreate
      /\ create' = [create EXCEPT !.pc = "loading"]
      /\ reg' = Bound(reg, create.chat, create.sess, create.from)
      /\ UNCHANGED <<inst, gapping, lane, killer, answer, closer, asked, proc, link, down, up, used>>
  BY DEF create_take, NoCreate
<1>2. /\ create \in Creating /\ create.chat \in Chats /\ create.sess \in Sessions
      /\ create.from \in Chats \cup {NoChat} /\ create.chat \in registered(reg)
  BY <1>1, CreateIs DEF Creating
<1>3. Goes("loading")
  BY <1>1, GoesIs
<1>4. /\ reg' \in Registry /\ registered(reg') = registered(reg)
      /\ reg'.pending_close = reg.pending_close /\ reg'.retry = reg.retry
      /\ \A d \in Chats : is_terminal(reg', d) <=> is_terminal(reg, d)
  <2>1. Binds(reg, reg', create.chat, create.sess, create.from)
    BY <1>1, <1>2, Typed, BoundIs
  <2> QED
    BY <2>1 DEF Binds
<1>5. BindingInv'
  <2>1. /\ reg.bindings[create.sess] \in {create.from, NoChat}
        /\ create.sess \in Stored
    BY <1>1 DEF IInv, BindingInv
  <2>2. \A d \in Chats \ asked : reg.chats[d].sess = create.sess /\ ~is_terminal(reg, d) => d = create.from
    BY <1>2, <2>1, LifecycleAssumption DEF IInv, BindingInv, LifecycleAssumption
  <2>3. /\ \A d \in Chats \ asked : \A e \in Sessions :
             reg'.chats[d].sess = e /\ ~is_terminal(reg', d) => reg'.bindings[e] = d
        /\ \A d \in Chats \ registered(reg') : reg'.chats[d].sess = NoSession
    BY <1>1, <1>2, <2>2, BoundKeeps
  <2> QED
    BY <1>1, <1>3, <2>1, <2>3 DEF BindingInv, Goes
<1> QED
  BY <1>1, <1>3, <1>4, <1>5, ForthStep
\* The agent has the session, which is bound if it is new, and the create is committed.
LEMMA FinishStep == ASSUME IInv, create_finish PROVE IInv'
<1> DEFINE bound == IF create.sess \in Stored THEN reg
                    ELSE Bound(reg, create.chat, create.sess, NoChat)
<1>1. /\ create.pc = "loading" /\ Answered("committed")
      /\ reg' = transition(bound, {create.chat}, "Accepting")
      /\ UNCHANGED <<inst, gapping, lane, killer, closer, asked, proc, link, down, up, used>>
  BY DEF create_finish
<1>2. create # NoCreate /\ Silent(down) /\ Silent(up)
  BY <1>1, AloneIs
<1>3. /\ create \in Creating /\ create.chat \in Chats /\ create.sess \in Sessions
      /\ create.chat \in registered(reg)
  BY <1>2, CreateIs
<1> HIDE DEF bound
<1>4. PICK b : b = bound
  OBVIOUS
<1>5. /\ b \in Registry /\ registered(b) = registered(reg)
      /\ b.pending_close = reg.pending_close /\ b.retry = reg.retry
      /\ \A d \in Chats : is_terminal(b, d) <=> is_terminal(reg, d)
      /\ \A d \in Chats \ asked : \A e \in Sessions :
            b.chats[d].sess = e /\ ~is_terminal(b, d) => b.bindings[e] = d
      /\ \A d \in Chats \ registered(b) : b.chats[d].sess = NoSession
  <2>1. CASE create.sess \in Stored
    BY <1>4, <2>1, Typed DEF bound, IInv, BindingInv
  <2>2. CASE create.sess \notin Stored
    <3>1. b = Bound(reg, create.chat, create.sess, NoChat)
      BY <1>4, <2>2 DEF bound
    <3>2. Binds(reg, b, create.chat, create.sess, NoChat)
      BY <1>3, <3>1, Typed, BoundIs
    <3>3. \A d \in Chats \ asked :
             reg.chats[d].sess = create.sess /\ ~is_terminal(reg, d) => d = NoChat
      BY <1>1, <2>2 DEF IInv, BindingInv
    <3>4. /\ \A d \in Chats \ asked : \A e \in Sessions :
               b.chats[d].sess = e /\ ~is_terminal(b, d) => b.bindings[e] = d
          /\ \A d \in Chats \ registered(b) : b.chats[d].sess = NoSession
      BY <1>3, <3>1, <3>3, BoundKeeps
    <3> QED
      BY <3>2, <3>4 DEF Binds
  <2> QED
    BY <2>1, <2>2
<1>6. Quiet(b, reg') /\ reg'.retry = reg.retry
  <2>1. reg' = transition(b, {create.chat}, "Accepting") /\ "Accepting" \in States \ {"none"}
    BY <1>1, <1>4 DEF States
  <2> QED
    BY <1>5, <2>1, TransitionIs
<1>7. /\ reg' \in Registry /\ registered(reg') = registered(reg)
      /\ reg'.pending_close \subseteq reg.pending_close
      /\ \A d \in Chats : is_terminal(reg, d) => is_terminal(reg', d)
  BY <1>5, <1>6 DEF Quiet
<1>8. BindingInv'
  <2>1. ASSUME NEW d \in Chats \ asked, NEW e \in Sessions,
               reg'.chats[d].sess = e, ~is_terminal(reg', d)
        PROVE  reg'.bindings[e] = d
    <3>1. b.chats[d].sess = e /\ ~is_terminal(b, d)
      BY <1>6, <2>1 DEF Quiet
    <3>2. b.bindings[e] = d
      BY <1>5, <3>1
    <3> QED
      BY <1>6, <2>1, <3>2 DEF Quiet
  <2>2. \A d \in Chats \ registered(reg') : reg'.chats[d].sess = NoSession
    BY <1>5, <1>6 DEF Quiet
  <2>3. create' = NoCreate
    BY <1>1, <1>2, AnsweredIs
  <2> QED
    BY <1>1, <2>1, <2>2, <2>3 DEF BindingInv, NoCreate
<1> QED
  BY <1>1, <1>2, <1>6, <1>7, <1>8, Typed, EndStep DEF IInv, WorldTypes

\* A step of the create fails.
LEMMA FailStep == ASSUME IInv, create_fail PROVE IInv'
<1>1. /\ create.pc \in {"initialize", "loading"}
      /\ Event \/ used' = used
      /\ \E durable \in BOOLEAN : CleanUp(down, durable)
      /\ UNCHANGED <<reg, inst, gapping, lane, killer, closer, asked, proc, link, up>>
  BY Zenon DEF create_fail
<1>2. create # NoCreate /\ Silent(down) /\ Silent(up)
  BY <1>1, AloneIs
<1>3. PICK durable \in BOOLEAN : CleanUp(down, durable)
  BY <1>1
<1> QED
  BY <1>1, <1>2, <1>3, Typed, CleanUpStep DEF IInv, WorldTypes

\* The create gives up on its kill.
LEMMA CreateKillTimeout == ASSUME IInv, create_kill_timeout PROVE IInv'
<1>1. /\ create.pc = "killing" /\ create # NoCreate /\ Answered("unknown")
      /\ down' = Forsaken(down, "create") /\ up' = Forsaken(up, "create")
      /\ UNCHANGED <<reg, inst, gapping, lane, killer, closer, asked, proc, link>>
  BY DEF create_kill_timeout, GiveUp, NoCreate
<1>2. Event \/ used' = used
  BY DEF create_kill_timeout, GiveUp
<1>3. /\ down' \in Seq(GoodDown) /\ up' \in Seq(GoodUp) /\ Len(up') = Len(up)
  BY <1>1, Typed, ForsakenGood, ForsakenStays, ForsakenIs
<1>4. Silent(down') /\ Silent(up')
  BY <1>1, Typed, ForsakenSilent
<1>5. \A c \in Chats : NoSpawn(down, c) => NoSpawn(down', c)
  BY <1>1, Typed, NoSpawnIs
<1>6. BindingInv'
  <2>1. create' = NoCreate
    BY <1>1, AnsweredIs
  <2> QED
    BY <1>1, <2>1 DEF IInv, BindingInv, NoCreate
<1> QED
  BY <1>1, <1>2, <1>3, <1>4, <1>5, <1>6, StillIs, EndStep DEF IInv, WorldTypes

\* The acknowledgement of the create's command: the process runs, or is not there.
LEMMA CreateAckRead == ASSUME IInv, read_create_ack PROVE IInv'
<1>1. /\ up # <<>> /\ Head(up).who = "create" /\ up' = Tail(up)
      /\ UNCHANGED <<inst, gapping, lane, killer, closer, asked, proc, link, down, used>>
  BY DEF read_create_ack
<1>2. create.pc \in {"spawning", "killing"} /\ create # NoCreate
  BY DEF read_create_ack, NoCreate
<1>3. /\ up' \in Seq(UpFrame) /\ Len(up') \in Nat /\ Len(up) = Len(up') + 1
      /\ 1 \in 1..Len(up) /\ Head(up) = up[1]
      /\ \A i \in 1..Len(up') : i + 1 \in 1..Len(up) /\ up'[i] = up[i + 1]
  BY <1>1, Typed, TailIs
<1>4. up' \in Seq(GoodUp)
  BY <1>1, Typed, TailIs
<1>5. UpOf(create, down, up, proc)
  BY DEF IInv, CreateInv, FramesOf
<1>6. ~Silent(up)
  BY <1>1, <1>3 DEF Silent
<1>7. Silent(down) /\ NoSpawn(down, create.chat)
  BY <1>5, <1>6 DEF UpOf
<1>8. Silent(up')
  <2>1. ASSUME NEW i \in 1..Len(up'), up'[i].who = "create"
        PROVE  FALSE
    <3>1. i + 1 \in 1..Len(up) /\ up[i + 1].who = "create"
      BY <1>3, <2>1
    <3>2. i + 1 = 1
      BY <1>1, <1>3, <1>5, <3>1 DEF UpOf, Alone
    <3> QED
      BY <3>2
  <2> QED
    BY <2>1 DEF Silent
<1>9. create.pc = "killing" \/ Head(up).k = "refused" => proc[create.chat] # "run"
  BY <1>1, <1>3, <1>5 DEF UpOf
<1>10. Len(up') <= MaxReports
  BY <1>3, LifecycleAssumption DEF IInv, WorldTypes, LifecycleAssumption
<1>11. CASE /\ create.pc = "spawning" /\ create' = [create EXCEPT !.pc = "initialize"]
            /\ UNCHANGED <<reg, answer>>
  <2>1. Goes("initialize")
    BY <1>2, <1>11, GoesIs
  <2>2. BindingInv'
    BY <1>1, <1>11, <2>1 DEF IInv, BindingInv, Goes
  <2>3. CreateInv'
    <3>1. PICK w : w = create'
      OBVIOUS
    <3>2. w.pc \notin {"spawn", "spawning"}
      BY <2>1, <3>1 DEF Goes
    <3>3. FramesOf(w, down, up', proc)
      BY <1>3, <1>7, <1>8, <3>2, Typed, FramesSilent
    <3> QED
      BY <1>1, <3>1, <3>3 DEF CreateInv
  <2>4. Lasts => LineInv'
    <3>1. Lasts => GoodUp \subseteq GoodUp' /\ down \in Seq(GoodDown')
      BY <1>1, CreateFrames
    <3> QED
      BY <1>1, <1>4, <3>1, SeqMonotonic DEF LineInv
  <2>5. FailedMeansDead'
    BY <1>1, <1>11 DEF IInv, FailedMeansDead
  <2> QED
    BY <1>1, <1>2, <1>10, <1>11, <2>1, <2>2, <2>3, <2>4, <2>5, StillIs, GoStep
<1>12. ASSUME close_local, NEW v \in {"failed", "unknown"}, Answered(v), proc[create.chat] # "run"
       PROVE  IInv'
  <2>1. reg' = transition(reg, {create.chat}, "Closed") /\ "Closed" \in States \ {"none"}
    BY <1>12 DEF close_local, States, Final
  <2>2. Quiet(reg, reg') /\ reg'.retry = reg.retry
    BY <2>1, Typed, TransitionIs
  <2>3. create' = NoCreate
    BY <1>2, <1>12, AnsweredIs
  <2>4. BindingInv'
    BY <1>1, <2>2, <2>3, BindingKeeps DEF IInv, NoCreate
  <2>5. down' \in Seq(GoodDown) /\ \A c \in Chats : NoSpawn(down, c) => NoSpawn(down', c)
    BY <1>1, Typed
  <2> QED
    BY <1>1, <1>2, <1>4, <1>7, <1>8, <1>10, <1>12, <2>2, <2>4, <2>5, EndStep DEF Quiet
<1>13. CASE /\ create.pc = "killing" /\ close_local
            /\ Answered(IF create.durable THEN "unknown" ELSE "failed")
  <2>1. PICK v \in {"failed", "unknown"} : Answered(v)
    BY <1>13
  <2> QED
    BY <1>9, <1>12, <1>13, <2>1
<1>14. CASE Head(up).k = "refused" /\ close_local /\ Answered("failed")
  BY <1>9, <1>12, <1>14
<1> QED
  BY <1>11, <1>13, <1>14 DEF read_create_ack
------------------------------------------------------------------------------
(* The theorems.                                                           *)

\* No step breaks the invariant.
LEMMA NextStep ==
  ASSUME IInv, [Next]_vars
  PROVE  IInv'
<1>1. CASE UNCHANGED vars
  BY <1>1 DEF vars, server, IInv, ServerTypes, WorldTypes, BindingInv, BarrierShut, KnownInv,
     Known, HuntInv, Hunted, Unwanted, Adopts, LineInv, GoodDown, GoodUp, BarrierInv, Handled,
     CreateInv, FailedMeansDead
<1>2. CASE Obey \/ send_heartbeat \/ Break \/ Connect \/ on_disconnect \/ sweep_offline
  BY <1>2, ObeyStep, HeartbeatSent, BreakStep, ConnectStep, DisconnectStep, SweepStep
<1>3. CASE Reads
  BY <1>3, HeartbeatRead, ExitRead, FrameRead, LateAckStep, CreateAckRead, CloseAckRead,
     KillAckRead DEF Reads
<1>4. CASE Reconciles
  BY <1>4, ReadStep, WriteStep, CompleteStep DEF Reconciles
<1>5. CASE Creates
  BY <1>5, SpawnStep, SpawnTimeout, InitializeStep, TakeStep, FinishStep, FailStep,
     CreateKillTimeout DEF Creates
<1>6. CASE Closes \/ recovered_elsewhere
  BY <1>6, CloseExecute, CloseTimeout, RecoveredStep DEF Closes
<1>7. ASSUME NEW c \in Chats,
             Die(c) \/ ReportExit(c) \/ Speak(c) \/ on_instance_disconnect(c)
               \/ Kills(c) \/ killed_elsewhere(c) \/ close_submit(c)
      PROVE  IInv'
  BY <1>7, DieStep, ExitStep, SpeakStep, GapStep, SkipStep, TryStep, TimeoutStep, ElsewhereStep,
     CloseSubmit DEF Kills
<1>8. ASSUME NEW c \in Chats, NEW s \in Sessions, create_prepare(c, s)
      PROVE  IInv'
  BY <1>8, PrepareStep
<1> QED
  BY <1>1, <1>2, <1>3, <1>4, <1>5, <1>6, <1>7, <1>8 DEF Next

\* The invariant holds in every state: registry, recovery lane, kill tasks, creates, closes, the
\* instance and the frames between them agree as IInv says.
THEOREM Invariance == Spec => []IInv
<1>1. Init => IInv
  BY InitInv
<1>2. IInv /\ [Next]_vars => IInv'
  BY NextStep
<1> QED
  BY <1>1, <1>2, PTL DEF Spec

\* The registry is well typed, a session has one live runtime, to which its binding leads, and
\* nothing can be resumed before the registry was compared with the instance.
THEOREM RegistryIsSound == Spec => []RegistryInv
<1>1. IInv => RegistryInv
  <2>1. SUFFICES ASSUME IInv
                 PROVE  TypeOK /\ OneLiveRuntime /\ NothingToResume
    BY DEF RegistryInv
  <2>2. TypeOK
    <3>1. /\ DOMAIN reg.chats = Chats /\ DOMAIN reg.bindings = Sessions
          /\ reg.pending_close \subseteq Chats /\ reg.retry \subseteq Chats
          /\ \A s \in Sessions : reg.bindings[s] \in Chats \cup {NoChat}
      BY <2>1, Typed DEF Registry
    <3>2. ASSUME NEW c \in Chats
          PROVE  /\ reg.chats[c].state \in States
                 /\ reg.chats[c].sess \in Sessions \cup {NoSession}
                 /\ killer[c].tries \in 0..(KillAttempts - 1)
                 /\ proc[c] \in {"run", "dead", "no"}
      <4>1. reg.chats[c] \in Entry /\ killer[c] \in Killer
        BY <2>1, Typed DEF Registry
      <4> QED
        BY <2>1, <4>1 DEF Entry, Killer, IInv, WorldTypes
    <3>3. KillAttempts \in Nat
      BY LifecycleAssumption DEF LifecycleAssumption
    <3> QED
      BY <2>1, <3>1, <3>2, <3>3 DEF TypeOK, States, IInv, ServerTypes, WorldTypes
  <2>3. OneLiveRuntime
    <3>1. \A c \in Chats : has_live_runtime(c) => ~is_terminal(reg, c)
      BY DEF has_live_runtime, is_terminal, Final
    <3> QED
      BY <2>1, <3>1 DEF OneLiveRuntime, IInv, BindingInv
  <2>4. NothingToResume
    BY <2>1 DEF NothingToResume, open_chats, registered, IInv, BarrierShut
  <2> QED
    BY <2>2, <2>3, <2>4
<1> QED
  BY <1>1, Invariance, PTL

\* A create that was answered with a failure that may be repeated has left no process behind, and
\* none can still be started for it.
THEOREM FailureIsFinal == Spec => []FailedMeansDead
<1>1. IInv => FailedMeansDead
  BY DEF IInv
<1> QED
  BY <1>1, Invariance, PTL

\* A kill that the instance obeys ends no process that somebody still wants.
THEOREM NobodyWantedIsKilled == Spec => KillsAreDeserved
<1>1. ASSUME IInv, [Next]_vars, NEW c \in Chats,
             proc[c] = "run", proc'[c] = "dead", Len(down') < Len(down)
      PROVE  Unwanted(c)
  <2>1. CASE Obey
    <3>1. Head(down) \in GoodDown
      BY <1>1, <2>1, Typed, TailIs DEF Obey
    <3>2. proc \in [Chats -> {"run", "dead", "no"}]
      BY <1>1 DEF IInv, WorldTypes
    <3>3. PICK f \in GoodDown : f = Head(down)
      BY <3>1
    <3>4. CASE f.k = "kill" /\ proc' = [proc EXCEPT ![f.chat] = IF @ = "run" THEN "dead" ELSE @]
      <4>1. f.chat = c
        BY <1>1, <3>2, <3>4
      <4> QED
        BY <3>3, <3>4, <4>1 DEF GoodDown, Hunted
    <3>5. CASE proc' = [proc EXCEPT ![f.chat] = "run"] \/ proc' = proc
      BY <1>1, <3>2, <3>5
    <3> QED
      BY <2>1, <3>3, <3>4, <3>5 DEF Obey
  <2>2. CASE \E d \in Chats : Die(d) \/ ReportExit(d)
    <3>1. down' = down /\ Len(down) \in Nat
      BY <1>1, <2>2, Typed, LenProperties DEF Die, ReportExit
    <3> QED
      BY <1>1, <3>1
  <2>3. CASE proc' = proc
    BY <1>1, <2>3
  <2> QED
    BY <1>1, <2>1, <2>2, <2>3 DEF Next, vars, server, send_heartbeat, Break, Connect,
       on_disconnect, sweep_offline, Reads, read_heartbeat, read_exit, read_frame, read_late_ack,
       read_create_ack, read_close_ack, read_kill_ack, Reconciles, reconcile_read,
       reconcile_write, complete_instance, Creates, create_spawn, create_spawn_timeout,
       create_initialize, create_take, create_finish, create_fail, create_kill_timeout, Closes,
       close_execute, close_timeout, recovered_elsewhere, Speak, on_instance_disconnect, Kills,
       orphan_kill_skip, orphan_kill_try, orphan_kill_timeout, killed_elsewhere, close_submit,
       create_prepare
<1>2. IInv /\ [Next]_vars =>
        [\A c \in Chats : proc[c] = "run" /\ proc'[c] = "dead" /\ Len(down') < Len(down)
            => Unwanted(c)]_vars
  BY <1>1
<1> QED
  BY <1>2, Invariance, PTL DEF Spec, KillsAreDeserved

\* The barrier opens only for the registered connection, and whatever its heartbeat showed is
\* registered, dead or being killed.
THEOREM BarrierOpensForCurrent == Spec => BarrierNeedsCurrent
<1>1. ASSUME IInv, [Next]_vars, lane.pending, ~lane'.pending
      PROVE  /\ lane.work.snap.conn = lane.conn
             /\ \A c \in lane.work.snap.alive :
                  c \in registered(reg) \/ killer[c] # NoKill \/ proc[c] # "run" \/ c \in reg.retry
  <2>1. lane \in Lane
    BY <1>1, ServerIs
  <2>2. CASE complete_instance
    <3>1. lane.work.pc = "resume" /\ lane.work.snap.conn = lane.conn
      BY <1>1, <2>1, <2>2 DEF complete_instance, Completes, Lane
    <3>2. lane.work.snap.alive \subseteq Chats
      BY <2>1 DEF Lane, Work, Snapshot
    <3>3. ASSUME NEW c \in lane.work.snap.alive, c \notin registered(reg)
          PROVE  killer[c] # NoKill \/ proc[c] # "run" \/ c \in reg.retry
      <4>1. Handled(c)
        BY <1>1, <3>1, <3>3 DEF IInv, BarrierInv
      <4> QED
        BY <4>1 DEF Handled, NoKill
    <3> QED
      BY <3>1, <3>3
  <2>3. CASE lane' = lane
    BY <1>1, <2>3
  <2>4. CASE Connect \/ read_heartbeat \/ reconcile_read \/ reconcile_write
    <3>1. lane'.pending = lane.pending
      BY <2>1, <2>4 DEF Connect, NewEpoch, read_heartbeat, record_heartbeat, reconcile_read,
         reconcile_write, Lane
    <3> QED
      BY <1>1, <3>1
  <2> QED
    BY <1>1, <2>2, <2>3, <2>4 DEF Next, vars, server, Obey, send_heartbeat, Break,
       on_disconnect, sweep_offline, Reads, read_exit, read_frame, read_late_ack,
       read_create_ack, read_close_ack, read_kill_ack, Reconciles,
       Creates, create_spawn, create_spawn_timeout,
       create_initialize, create_take, create_finish, create_fail, create_kill_timeout, Closes,
       close_execute, close_timeout, recovered_elsewhere, Die, ReportExit, Speak,
       on_instance_disconnect, Kills,
       orphan_kill_skip, orphan_kill_try, orphan_kill_timeout, killed_elsewhere, close_submit,
       create_prepare
<1>2. IInv /\ [Next]_vars =>
        [lane.pending /\ ~lane'.pending =>
           lane.work.snap.conn = lane.conn /\ \A c \in lane.work.snap.alive :
             c \in registered(reg) \/ killer[c] # NoKill \/ proc[c] # "run" \/ c \in reg.retry]_vars
  BY <1>1
<1> QED
  BY <1>2, Invariance, PTL DEF Spec, BarrierNeedsCurrent

=============================================================================
