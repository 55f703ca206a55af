---------------------------- MODULE ChatLifecycle ----------------------------
(***************************************************************************)
(* The life of a chat: the registry of chats and its bindings to ACP       *)
(* sessions (control/chat_*.rs), the recovery lane that compares the       *)
(* registry with the heartbeats of an instance                             *)
(* (channel/instance_recovery.rs), the kills of processes nobody wants,    *)
(* the creation and closure of runtimes (channel/runtime_*.rs), and the    *)
(* instance that starts, kills and reports the processes.                  *)
(*                                                                         *)
(* One instance is modelled, with one command queue and one report queue   *)
(* per connection.  The routing of acknowledgements is that of AckRouting: *)
(* a frame names who waits for its answer, or "none" when that caller gave *)
(* up.  RPCs to an agent answer or fail without frames of their own.       *)
(***************************************************************************)
EXTENDS Naturals, Sequences, FiniteSets

CONSTANTS
  Chats,          \* the chats there can be
  Old,            \* the chat of which a process may run at the beginning
  Sessions,       \* the ACP sessions
  Stored,         \* the sessions that exist before any create (session/load)
  NoChat, NoSession,
  MaxEvents,      \* bound: close commands, and faults: lost connections, late
                  \* heartbeats and answers, crashes, refusals
  MaxReports,     \* bound: frames on their way to the server
  KillAttempts    \* ORPHAN_KILL_MAX_ATTEMPTS, five in the code

ASSUME LifecycleAssumption ==
  /\ Old \in Chats /\ NoChat \notin Chats /\ Chats \cap {"none", "create", "close"} = {}
  /\ Stored \subseteq Sessions /\ NoSession \notin Sessions
  /\ {MaxReports, KillAttempts} \subseteq Nat \ {0} /\ MaxEvents \in Nat

VARIABLES
  reg,      \* ChatRegistry, with the gap marks and the ChatGap condition
  inst,     \* the instance's entry in the registry of instances
  gapping,  \* the chats a disconnect handler has still to mark
  lane,     \* the recovery lane with its worker, and the pending barrier
  killer,   \* per chat: the task that kills it, and whether another waits
  create,   \* the create command under way
  answer,   \* what the create of each chat was answered
  closer,   \* the close command under way
  asked,    \* history: the chats a user asked to close
  proc,     \* the processes: "run", "dead" but not reported yet, or "no"
  link,     \* the number of the connection the instance holds, or 0
  down, up, \* commands and reports on their way
  used      \* connections and bounded events so far, and the kind of instance

server == <<reg, inst, gapping, lane, killer, create, answer, closer, asked>>
vars == <<server, proc, link, down, up, used>>

Final == {"Ended", "Closed", "Crashed"}
NoEntry == [state |-> "none", sess |-> NoSession, confirmed |-> FALSE, gap |-> FALSE]
NoSnapshot == [conn |-> 0, alive |-> {}]
NoWork == [pc |-> "idle", snap |-> NoSnapshot, confirm |-> {}, missing |-> {}, kill |-> {}]
NoCreate == [pc |-> "idle", chat |-> NoChat, sess |-> NoSession, from |-> NoChat,
             durable |-> FALSE]
NoKill == [pc |-> "idle", again |-> FALSE, tries |-> 0]
NoClose == [pc |-> "idle", chat |-> NoChat]
EmptyRegistry ==
  [chats |-> [c \in Chats |-> NoEntry], bindings |-> [s \in Sessions |-> NoChat],
   pending_close |-> {}, retry |-> {}, chat_gap |-> FALSE]
FreshLane ==
  [conn |-> 0, latest |-> NoSnapshot, required |-> FALSE,
   pending |-> FALSE, in_flight |-> 0, work |-> NoWork]

(***************************************************************************)
(* Either a server that starts with an empty registry, beside an instance  *)
(* where a process of an earlier run lives;   only the local instance     *)
(* belongs to the barrier.  Or a server that runs the chat Old.  The crash *)
(* behind the first counts as an event.                                    *)
(***************************************************************************)
Starting ==
  \E ssh \in BOOLEAN :
     /\ reg = EmptyRegistry
     /\ inst = [online |-> FALSE, conn |-> 0, known |-> FALSE, alive |-> {}]
     /\ lane = [FreshLane EXCEPT !.pending = ~ssh]
     /\ proc = [c \in Chats |-> IF c = Old THEN "run" ELSE "no"]
     /\ link = 0
     /\ used = [conns |-> 0, events |-> 1, ssh |-> ssh]

Running ==
  \E s \in Stored :
     /\ reg = [EmptyRegistry EXCEPT !.bindings[s] = Old,
                 !.chats[Old] = [state |-> "Accepting", sess |-> s, confirmed |-> TRUE, gap |-> FALSE]]
     /\ inst = [online |-> TRUE, conn |-> 1, known |-> TRUE, alive |-> {Old}]
     /\ lane = [FreshLane EXCEPT !.conn = 1]
     /\ proc = [c \in Chats |-> IF c = Old THEN "run" ELSE "no"]
     /\ link = 1
     /\ used = [conns |-> 1, events |-> 0, ssh |-> FALSE]

Init ==
  /\ Starting \/ Running
  /\ gapping = {} /\ killer = [c \in Chats |-> NoKill] /\ create = NoCreate
  /\ answer = [c \in Chats |-> "none"] /\ closer = NoClose /\ asked = {}
  /\ down = <<>> /\ up = <<>>

------------------------------------------------------------------------------
(* ChatRegistry: operations on the registry r. *)

is_terminal(r, c) == r.chats[c].state \in Final
registered(r) == {c \in Chats : r.chats[c].state # "none"}
open_chats(r) == {c \in registered(r) : ~is_terminal(r, c)}

register(r, c) ==
  [r EXCEPT !.chats[c] = [NoEntry EXCEPT !.state = "Accepting"]]

(* A final state is only left for itself; Gap withdraws the confirmation, *)
(* Closed ends the pending close, a final state frees the current binding. *)
transition(r, who, state) ==
  LET moved == {c \in who \cap registered(r) : ~is_terminal(r, c) \/ r.chats[c].state = state}
      free  == {s \in Sessions : /\ state \in Final /\ r.bindings[s] \in moved
                                 /\ r.chats[r.bindings[s]].sess = s}
  IN [r EXCEPT
       !.chats = [c \in Chats |->
          IF c \notin moved THEN r.chats[c]
          ELSE [r.chats[c] EXCEPT !.state = state,
                                  !.confirmed = r.chats[c].confirmed /\ state # "Gap"]],
       !.bindings = [s \in Sessions |-> IF s \in free THEN NoChat ELSE @[s]],
       !.pending_close = IF state = "Closed" THEN @ \ moved ELSE @]

request_close_offline(r, c) ==
  [r EXCEPT !.chats[c].state = "PendingClose", !.pending_close = @ \cup {c}]

\* Mutant: the chat that loses the session keeps it in its own entry.
BoundTwice(r, c, s, from) ==
  [r EXCEPT !.bindings[s] = c, !.chats[c].sess = s, !.chats[c].confirmed = TRUE]

\* bind and bind_recovering, the write: c takes session s, `from` loses it.
Bound(r, c, s, from) ==
  [r EXCEPT !.bindings[s] = c,
            !.chats = [d \in Chats |->
               IF d = c THEN [@[d] EXCEPT !.sess = s, !.confirmed = TRUE]
               ELSE IF d = from THEN [@[d] EXCEPT !.sess = NoSession] ELSE @[d]]]

\* bind_recovering: a binding without evidence of a living process may move.
Stealable(r, c) == ~r.chats[c].confirmed \/ is_terminal(r, c)

------------------------------------------------------------------------------
(* The instance: InstanceRegistry::send_command, and who waits for what. *)

Healthy == ~lane.pending /\ ~reg.chat_gap
CanSend == inst.online /\ inst.conn # 0
Frame(k, c, who) == [k |-> k, chat |-> c, who |-> who]
Beat(alive) == [k |-> "heartbeat", chat |-> NoChat, who |-> "none", alive |-> alive]
Report(k, c, who) == [k |-> k, chat |-> c, who |-> who, alive |-> {}]

Send(f) == down' = IF link = inst.conn THEN Append(down, f) ELSE down
Hear(f) == link # 0 /\ Len(up) < MaxReports /\ up' = Append(up, f)

Event == used.events < MaxEvents /\ used' = [used EXCEPT !.events = @ + 1]

(* A caller gives up: its slot is dropped, a late answer finds no one.  To *)
(* give up on an answer that is still under way counts as a fault.         *)
Forsaken(q, who) ==
  [i \in 1..Len(q) |-> IF q[i].who = who THEN [q[i] EXCEPT !.who = "none"] ELSE q[i]]
Awaited(who) == \E q \in {down, up} : \E i \in 1..Len(q) : q[i].who = who
GiveUp(who) ==
  /\ IF Awaited(who) THEN Event ELSE used' = used
  /\ down' = Forsaken(down, who) /\ up' = Forsaken(up, who)

(* handle_spawn and handle_kill, one command after the other; a kill ends  *)
(* when the process is gone and is always acknowledged.                    *)
Obey ==
  /\ down # <<>> /\ down' = Tail(down)
  /\ LET f == Head(down) IN
     \/ /\ f.k = "spawn" /\ used' = used
        /\ proc' = [proc EXCEPT ![f.chat] = "run"] /\ Hear(Report("ok", f.chat, f.who))
     \/ /\ f.k = "spawn" /\ Event
        /\ proc' = proc /\ Hear(Report("refused", f.chat, f.who))
     \/ /\ f.k = "kill" /\ used' = used
        /\ proc' = [proc EXCEPT ![f.chat] = IF @ = "run" THEN "dead" ELSE @]
        /\ Hear(Report("ok", f.chat, f.who))
  /\ UNCHANGED <<server, link>>

Die(c) ==
  /\ proc[c] = "run" /\ Event /\ proc' = [proc EXCEPT ![c] = "dead"]
  /\ UNCHANGED <<server, link, down, up>>

\* The exit is read from the child and reported, unless there is no connection.
ReportExit(c) ==
  /\ proc[c] = "dead" /\ proc' = [proc EXCEPT ![c] = "no"]
  /\ IF link = 0 THEN up' = up ELSE Hear(Report("exit", c, "none"))
  /\ UNCHANGED <<server, link, down, used>>

(* A heartbeat that brings no news is read without effect, so it is not    *)
(* sent here.                                                              *)
send_heartbeat ==
  LET alive == {c \in Chats : proc[c] # "no"} IN
  /\ ~inst.online \/ ~inst.known \/ inst.alive # alive \/ up # <<>>
  /\ Hear(Beat(alive))
  /\ UNCHANGED <<server, proc, link, down, used>>

\* A frame of the agent; it matters here only for a bound chat in a gap.
Speak(c) ==
  /\ proc[c] = "run" /\ reg.chats[c].state = "Gap" /\ \E s \in Sessions : reg.bindings[s] = c
  /\ Hear(Report("frame", c, "none"))
  /\ UNCHANGED <<server, proc, link, down, used>>

Break ==
  /\ link # 0 /\ Event
  /\ link' = 0 /\ down' = <<>> /\ up' = <<>>
  /\ UNCHANGED <<server, proc>>

\* Mutant: the claim of the earlier connection stays.
NewEpochClaimed(conn) == [lane EXCEPT !.conn = conn, !.latest = NoSnapshot, !.required = FALSE]

\* RecoveryLane::begin_epoch.
NewEpoch(conn) ==
  [lane EXCEPT !.conn = conn, !.latest = NoSnapshot, !.required = FALSE, !.in_flight = 0]

(* hello: the connection replaces the earlier one, whose end is then not   *)
(* noticed any more, and the recovery lane starts a new epoch.             *)
Connect ==
  /\ link = 0
  /\ used' = [used EXCEPT !.conns = @ + 1] /\ link' = used.conns + 1
  /\ inst' = [online |-> TRUE, conn |-> used.conns + 1, known |-> FALSE, alive |-> {}]
  /\ lane' = NewEpoch(used.conns + 1)
  /\ UNCHANGED <<reg, gapping, killer, create, answer, closer, asked, proc, down, up>>

\* on_disconnect of the current connection, and the start of its cleanup.
on_disconnect ==
  /\ inst.conn # 0 /\ link # inst.conn
  /\ inst' = [inst EXCEPT !.online = FALSE, !.conn = 0]
  /\ gapping' = gapping \cup (IF inst.online THEN open_chats(reg) ELSE {})
  /\ UNCHANGED <<reg, lane, killer, create, answer, closer, asked, proc, link, down, up, used>>

\* No heartbeat for too long: offline, but the connection is kept.
sweep_offline ==
  /\ inst.online /\ Event
  /\ inst' = [inst EXCEPT !.online = FALSE]
  /\ gapping' = gapping \cup open_chats(reg)
  /\ UNCHANGED <<reg, lane, killer, create, answer, closer, asked, proc, link, down, up>>

\* on_instance_disconnect, one chat of the list it read.
on_instance_disconnect(c) ==
  /\ c \in gapping /\ gapping' = gapping \ {c}
  /\ reg' = transition([reg EXCEPT !.chats[c].gap = TRUE, !.chat_gap = TRUE], {c}, "Gap")
  /\ UNCHANGED <<inst, lane, killer, create, answer, closer, asked, proc, link, down, up, used>>

------------------------------------------------------------------------------
(* The recovery lane. *)

News(alive) == ~inst.known \/ inst.alive # alive
record_heartbeat(alive) ==
  LET first == ~inst.known
      snap == [conn |-> inst.conn, alive |-> alive]
  IN /\ inst' = [inst EXCEPT !.online = TRUE, !.known = TRUE, !.alive = alive]
     /\ lane' = IF ~News(alive) THEN lane
                ELSE [lane EXCEPT !.latest = snap, !.required = @ \/ first]

\* An SSH instance whose registry is empty is taken over instead of killed.
Adopts(r) == used.ssh /\ registered(r) = {}

\* Mutant: an SSH instance is not taken over.
to_kill_all(r, alive) == {c \in alive : c \notin registered(r) \/ is_terminal(r, c)} \cup r.pending_close

\* Mutant: what is not registered is left alone.
to_kill_known(r, alive) == {c \in alive : is_terminal(r, c)} \cup r.pending_close

\* Mutant: a process is left alone whenever its chat is registered, over or not.
to_kill_unknown(r, alive) ==
  {c \in alive : c \notin registered(r) /\ ~Adopts(r)} \cup r.pending_close

(* reconcile_alive, the reading part: what the snapshot confirms, what it  *)
(* misses, and what has to be killed.                                      *)
to_kill(r, alive) ==
  {c \in alive : is_terminal(r, c) \/ (c \notin registered(r) /\ ~Adopts(r))}
    \cup r.pending_close

reconcile_read ==
  \E due \in SUBSET reg.retry :
    LET snap == lane.latest
        r == IF Adopts(reg)
             THEN [reg EXCEPT !.chats = [c \in Chats |->
                     IF c \in snap.alive THEN [NoEntry EXCEPT !.state = "Accepting"] ELSE @[c]]]
             ELSE reg
    IN /\ lane.work.pc = "idle" /\ snap # NoSnapshot
       /\ reg' = r
       /\ lane' = [lane EXCEPT !.latest = NoSnapshot,
                     !.work = [pc |-> "write", snap |-> snap,
                               confirm |-> snap.alive \cap open_chats(r),
                               missing |-> registered(r) \ snap.alive,
                               kill |-> to_kill(reg, snap.alive) \cup due]]
       /\ UNCHANGED <<inst, gapping, killer, create, answer, closer, asked, proc, link, down, up, used>>

\* kill_chats: a task per list; the gate of a chat lets one kill it at a time.
Queued(K) ==
  [c \in Chats |-> IF c \notin K THEN killer[c]
                   ELSE IF killer[c].pc = "idle" THEN [NoKill EXCEPT !.pc = "try"]
                   ELSE [killer[c] EXCEPT !.again = TRUE]]

\* A later snapshot of the connection has a higher sequence number.
is_current_latest(snap) == lane.conn = snap.conn /\ lane.latest = NoSnapshot
Claimable(snap) == lane.conn = snap.conn /\ lane.required /\ lane.pending /\ lane.in_flight = 0

(* reconcile_alive, the writing part: confirmations, then the gaps.        *)
Reconciled(r, w) ==
  LET judged == [r EXCEPT !.chats = [c \in Chats |->
        IF c \in w.confirm \cap open_chats(r) THEN [@[c] EXCEPT !.confirmed = TRUE]
        ELSE IF c \in w.missing THEN [@[c] EXCEPT !.confirmed = FALSE] ELSE @[c]]]
  IN transition(judged, w.missing \cap open_chats(r), "Gap")

(* The report is applied, the kills start, and the worker claims the       *)
(* barrier if its snapshot is still the newest of the connection.          *)
reconcile_write ==
  LET w == lane.work IN
  /\ w.pc = "write"
  /\ reg' = Reconciled(reg, w)
  /\ killer' = Queued(w.kill)
  /\ lane' = IF is_current_latest(w.snap) /\ Claimable(w.snap)
             THEN [lane EXCEPT !.in_flight = w.snap.conn, !.work = [NoWork EXCEPT !.pc = "resume", !.snap = w.snap]]
             ELSE [lane EXCEPT !.work = NoWork]
  /\ UNCHANGED <<inst, gapping, create, answer, closer, asked, proc, link, down, up, used>>

(* resume_instance_chats_and_wait has nothing to resume while the barrier  *)
(* stands (see NothingToResume), so only its end is left.                  *)
Completes(conn) == lane.conn = conn /\ lane.in_flight = conn
complete_instance ==
  LET conn == lane.work.snap.conn IN
  /\ lane.work.pc = "resume"
  /\ lane' = IF Completes(conn)
             THEN [lane EXCEPT !.work = NoWork, !.in_flight = 0, !.pending = FALSE, !.required = FALSE]
             ELSE [lane EXCEPT !.work = NoWork]
  /\ UNCHANGED <<reg, inst, gapping, killer, create, answer, closer, asked, proc, link, down, up, used>>

------------------------------------------------------------------------------
(* Kills of processes that nobody wants. *)

Finished(k) == IF k.again THEN [NoKill EXCEPT !.pc = "try"] ELSE NoKill

\* An attempt that failed is repeated, and the last one recorded for later.
AttemptFailed(c) ==
  IF killer[c].tries + 1 < KillAttempts
  THEN /\ killer' = [killer EXCEPT ![c].pc = "try", ![c].tries = @ + 1] /\ reg' = reg
  ELSE /\ killer' = [killer EXCEPT ![c] = Finished(@)]
       /\ reg' = [reg EXCEPT !.retry = @ \cup {c}]

\* At the gate: a chat whose last kill failed waits until its backoff is over.
orphan_kill_skip(c) ==
  /\ killer[c].pc = "try" /\ killer[c].tries = 0 /\ c \in reg.retry
  /\ killer' = [killer EXCEPT ![c] = Finished(@)]
  /\ UNCHANGED <<reg, inst, gapping, lane, create, answer, closer, asked, proc, link, down, up, used>>

orphan_kill_try(c) ==
  /\ killer[c].pc = "try"
  /\ IF CanSend
     THEN Send(Frame("kill", c, c)) /\ killer' = [killer EXCEPT ![c].pc = "sent"] /\ reg' = reg
     ELSE AttemptFailed(c) /\ down' = down
  /\ UNCHANGED <<inst, gapping, lane, create, answer, closer, asked, proc, link, up, used>>

orphan_kill_timeout(c) ==
  /\ killer[c].pc = "sent" /\ GiveUp(c) /\ AttemptFailed(c)
  /\ UNCHANGED <<inst, gapping, lane, create, answer, closer, asked, proc, link>>

\* A heartbeat of another instance sends it the kill too, and it agrees.
killed_elsewhere(c) ==
  /\ c \in reg.pending_close /\ reg' = transition(reg, {c}, "Closed")
  /\ UNCHANGED <<inst, gapping, lane, killer, create, answer, closer, asked, proc, link, down, up, used>>

\* report_gap of a chat of another instance: the condition has one flag.
recovered_elsewhere ==
  /\ reg.chat_gap /\ Event /\ reg' = [reg EXCEPT !.chat_gap = FALSE]
  /\ UNCHANGED <<inst, gapping, lane, killer, create, answer, closer, asked, proc, link, down, up>>

------------------------------------------------------------------------------
(* Creation of a runtime, one after the other. *)

\* session/open uses the chat that runs the session, if one is known to.
Reusable(s) ==
  /\ reg.bindings[s] \in open_chats(reg)
  /\ reg.chats[reg.bindings[s]].sess = s /\ reg.chats[reg.bindings[s]].confirmed

(* prepare, for a known session or a new one.  (Bound: a session is only   *)
(* created where no other chat is registered.)                             *)
create_prepare(c, s) ==
  /\ create = NoCreate /\ Healthy
  /\ c # Old /\ c \notin registered(reg)
  /\ IF s \in Stored THEN ~Reusable(s) ELSE registered(reg) = {}
  /\ reg' = register(reg, c)
  /\ create' = [NoCreate EXCEPT !.pc = "spawn", !.chat = c, !.sess = s]
  /\ UNCHANGED <<inst, gapping, lane, killer, answer, closer, asked, proc, link, down, up, used>>

Answered(verdict) == create' = NoCreate /\ answer' = [answer EXCEPT ![create.chat] = verdict]
close_local == reg' = transition(reg, {create.chat}, "Closed")

create_spawn ==
  /\ create.pc = "spawn"
  /\ IF CanSend
     THEN /\ Send(Frame("spawn", create.chat, "create"))
          /\ create' = [create EXCEPT !.pc = "spawning"] /\ UNCHANGED <<reg, answer>>
     ELSE close_local /\ Answered("failed") /\ down' = down
  /\ UNCHANGED <<inst, gapping, lane, killer, closer, asked, proc, link, up, used>>

\* Mutant: an offline instance counts as proof that nothing was started.
CleanUpLocally(q, durable) ==
  IF CanSend
  THEN /\ down' = IF link = inst.conn THEN Append(q, Frame("kill", create.chat, "create")) ELSE q
       /\ create' = [create EXCEPT !.pc = "killing", !.durable = durable] /\ answer' = answer
  ELSE down' = q /\ Answered("failed")

(* confirm_runtime_absent: a kill is sent, over the commands q; without a  *)
(* connection nothing is proved.                                           *)
CleanUp(q, durable) ==
  IF CanSend
  THEN /\ down' = IF link = inst.conn THEN Append(q, Frame("kill", create.chat, "create")) ELSE q
       /\ create' = [create EXCEPT !.pc = "killing", !.durable = durable] /\ answer' = answer
  ELSE down' = q /\ Answered("unknown")

\* The spawn was sent, and what became of it is not known.
create_spawn_timeout ==
  /\ create.pc = "spawning"
  /\ IF Awaited("create") THEN Event ELSE used' = used
  /\ up' = Forsaken(up, "create") /\ CleanUp(Forsaken(down, "create"), FALSE)
  /\ UNCHANGED <<reg, inst, gapping, lane, killer, closer, asked, proc, link>>

\* An RPC to the agent of the created chat can be answered.
Answers == CanSend /\ link = inst.conn /\ proc[create.chat] = "run"

(* initialize, and for a load the binding before the request: free, held   *)
(* by a chat without evidence of life, or in use.                          *)
create_initialize ==
  LET holder == reg.bindings[create.sess]
      known == create.sess \in Stored IN
  /\ create.pc = "initialize" /\ Answers
  /\ \/ /\ ~known /\ reg' = reg /\ create' = [create EXCEPT !.pc = "loading"]
        /\ UNCHANGED <<answer, down>>
     \/ /\ known /\ holder = NoChat /\ reg' = Bound(reg, create.chat, create.sess, NoChat)
        /\ create' = [create EXCEPT !.pc = "loading"] /\ UNCHANGED <<answer, down>>
     \/ /\ known /\ holder # NoChat /\ Stealable(reg, holder) /\ reg' = reg
        /\ create' = [create EXCEPT !.pc = "taking", !.from = holder] /\ UNCHANGED <<answer, down>>
     \/ /\ known /\ holder # NoChat /\ ~Stealable(reg, holder) /\ reg' = reg
        /\ CleanUp(down, FALSE)
  /\ UNCHANGED <<inst, gapping, lane, killer, closer, asked, proc, link, up, used>>

create_take ==
  /\ create.pc = "taking" /\ create' = [create EXCEPT !.pc = "loading"]
  /\ reg' = Bound(reg, create.chat, create.sess, create.from)
  /\ UNCHANGED <<inst, gapping, lane, killer, answer, closer, asked, proc, link, down, up, used>>

(* The answer to session/load or session/new: a new session is bound, and  *)
(* the chat accepts prompts whatever a heartbeat said meanwhile.           *)
create_finish ==
  /\ create.pc = "loading" /\ Answers /\ Answered("committed")
  /\ LET bound == IF create.sess \in Stored THEN reg
                  ELSE Bound(reg, create.chat, create.sess, NoChat)
     IN reg' = transition(bound, {create.chat}, "Accepting")
  /\ UNCHANGED <<inst, gapping, lane, killer, closer, asked, proc, link, down, up, used>>

(* A step fails: before session/new may have reached the agent the runtime *)
(* has to go, later the outcome stays unknown in any case.                 *)
create_fail ==
  /\ create.pc \in {"initialize", "loading"}
  /\ IF Answers THEN Event ELSE used' = used
  /\ \E durable \in BOOLEAN :
       /\ durable => create.pc = "loading" /\ (create.sess \notin Stored \/ Answers)
       /\ CleanUp(down, durable)
  /\ UNCHANGED <<reg, inst, gapping, lane, killer, closer, asked, proc, link, up>>

create_kill_timeout ==
  /\ create.pc = "killing" /\ GiveUp("create") /\ Answered("unknown")
  /\ UNCHANGED <<reg, inst, gapping, lane, killer, closer, asked, proc, link>>

------------------------------------------------------------------------------
(* Closure of a runtime; the command waits in the queue of its chat. *)

close_submit(c) ==
  /\ closer.pc = "idle" /\ Healthy /\ c \in registered(reg) /\ Event
  /\ closer' = [pc |-> "queued", chat |-> c] /\ asked' = asked \cup {c}
  /\ UNCHANGED <<reg, inst, gapping, lane, killer, create, answer, proc, link, down, up>>

close_execute ==
  /\ closer.pc = "queued"
  /\ IF CanSend
     THEN /\ Send(Frame("kill", closer.chat, "close"))
          /\ closer' = [closer EXCEPT !.pc = "sent"] /\ reg' = reg
     ELSE /\ reg' = IF used.conns = 0 THEN reg ELSE request_close_offline(reg, closer.chat)
          /\ closer' = NoClose /\ down' = down
  /\ UNCHANGED <<inst, gapping, lane, killer, create, answer, asked, proc, link, up, used>>

close_timeout ==
  /\ closer.pc = "sent" /\ GiveUp("close") /\ closer' = NoClose
  /\ UNCHANGED <<reg, inst, gapping, lane, killer, create, answer, asked, proc, link>>

------------------------------------------------------------------------------
(* What the server reads from the connection. *)

read_heartbeat ==
  /\ up # <<>> /\ Head(up).k = "heartbeat" /\ up' = Tail(up)
  /\ record_heartbeat(Head(up).alive)
  /\ UNCHANGED <<reg, gapping, killer, create, answer, closer, asked, proc, link, down, used>>

read_exit ==
  /\ up # <<>> /\ Head(up).k = "exit" /\ up' = Tail(up)
  /\ \E state \in {"Ended", "Crashed"} : reg' = transition(reg, {Head(up).chat}, state)
  /\ UNCHANGED <<inst, gapping, lane, killer, create, answer, closer, asked, proc, link, down, used>>

\* recover_from_gap: a frame of a bound chat ends its gap.
recover_from_gap(r, c) ==
  IF r.chats[c].state = "Gap"
  THEN transition([r EXCEPT !.chats[c].gap = FALSE, !.chat_gap = FALSE], {c}, "Accepting")
  ELSE r
read_frame ==
  /\ up # <<>> /\ Head(up).k = "frame" /\ up' = Tail(up)
  /\ reg' = IF \E s \in Sessions : reg.bindings[s] = Head(up).chat
            THEN recover_from_gap(reg, Head(up).chat) ELSE reg
  /\ UNCHANGED <<inst, gapping, lane, killer, create, answer, closer, asked, proc, link, down, used>>

read_late_ack ==
  /\ up # <<>> /\ Head(up).k \in {"ok", "refused"} /\ Head(up).who = "none" /\ up' = Tail(up)
  /\ UNCHANGED <<server, proc, link, down, used>>

read_create_ack ==
  /\ up # <<>> /\ Head(up).who = "create" /\ up' = Tail(up)
  /\ \/ /\ create.pc = "spawning" /\ Head(up).k = "ok"
        /\ create' = [create EXCEPT !.pc = "initialize"] /\ UNCHANGED <<reg, answer>>
     \/ /\ create.pc = "spawning" /\ Head(up).k = "refused"
        /\ close_local /\ Answered("failed")
     \/ /\ create.pc = "killing"
        /\ close_local /\ Answered(IF create.durable THEN "unknown" ELSE "failed")
  /\ UNCHANGED <<inst, gapping, lane, killer, closer, asked, proc, link, down, used>>

read_close_ack ==
  /\ up # <<>> /\ Head(up).who = "close" /\ up' = Tail(up)
  /\ reg' = transition(reg, {closer.chat}, "Closed") /\ closer' = NoClose
  /\ UNCHANGED <<inst, gapping, lane, killer, create, answer, asked, proc, link, down, used>>

read_kill_ack(c) ==
  /\ up # <<>> /\ Head(up).who = c /\ up' = Tail(up)
  /\ reg' = transition([reg EXCEPT !.retry = @ \ {c}], {c}, "Closed")
  /\ killer' = [killer EXCEPT ![c] = Finished(@)]
  /\ UNCHANGED <<inst, gapping, lane, create, answer, closer, asked, proc, link, down, used>>

Reads ==
  \/ read_heartbeat \/ read_exit \/ read_frame \/ read_late_ack
  \/ read_create_ack \/ read_close_ack \/ (\E c \in Chats : read_kill_ack(c))
Reconciles == reconcile_read \/ reconcile_write \/ complete_instance
Kills(c) == orphan_kill_skip(c) \/ orphan_kill_try(c) \/ orphan_kill_timeout(c)
Creates ==
  \/ create_spawn \/ create_spawn_timeout \/ create_initialize \/ create_take
  \/ create_finish \/ create_fail \/ create_kill_timeout
Closes == close_execute \/ close_timeout

Next ==
  \/ Obey \/ send_heartbeat \/ Break \/ Connect \/ on_disconnect \/ sweep_offline
  \/ Reads \/ Reconciles \/ Creates \/ Closes \/ recovered_elsewhere
  \/ \E c \in Chats :
       \/ Die(c) \/ ReportExit(c) \/ Speak(c) \/ on_instance_disconnect(c)
       \/ Kills(c) \/ killed_elsewhere(c) \/ close_submit(c)
       \/ \E s \in Sessions : create_prepare(c, s)

(* The instance reconnects, beats, obeys and reports the exits; the server *)
(* reads, its recovery worker and its kill tasks run.  Nothing is asked of *)
(* the commands under way, nor which step of a process comes first.        *)
InstanceWorks == Obey \/ send_heartbeat \/ Connect \/ \E c \in Chats : ReportExit(c)
ServerWorks == Reads \/ Reconciles \/ on_disconnect \/ \E c \in Chats : Kills(c)
Fairness == WF_vars(InstanceWorks) /\ WF_vars(ServerWorks)

Spec == Init /\ [][Next]_vars /\ Fairness

------------------------------------------------------------------------------
(* Properties. *)

\* Every variable keeps its type, and the registry refers to known chats.
TypeOK ==
  /\ DOMAIN reg.chats = Chats /\ DOMAIN reg.bindings = Sessions
  /\ \A c \in Chats : /\ reg.chats[c].state \in Final \cup {"none", "Accepting", "Gap", "PendingClose"}
                      /\ reg.chats[c].sess \in Sessions \cup {NoSession}
                      /\ killer[c].tries < KillAttempts
                      /\ proc[c] \in {"run", "dead", "no"}
  /\ \A s \in Sessions : reg.bindings[s] \in Chats \cup {NoChat}
  /\ (reg.pending_close \cup reg.retry \cup gapping) \subseteq Chats
  /\ link \in 0..used.conns /\ inst.conn \in 0..used.conns /\ lane.conn \in 0..used.conns
  /\ Len(up) <= MaxReports

(* A create that was answered with a failure that may be repeated has left *)
(* no process behind, and none can still be started for it.                *)
FailedMeansDead ==
  \A c \in Chats : answer[c] = "failed" =>
    proc[c] # "run" /\ \A i \in 1..Len(down) : ~(down[i].k = "spawn" /\ down[i].chat = c)

(* A session has one live runtime at most, and what is addressed to the    *)
(* session reaches that chat.  (A chat that a user closes while the        *)
(* instance is offline may leave a final state again.)                     *)
has_live_runtime(c) == reg.chats[c].state = "Accepting" /\ reg.chats[c].confirmed
OneLiveRuntime ==
  \A s \in Sessions : \A c, d \in {e \in Chats \ asked : has_live_runtime(e) /\ reg.chats[e].sess = s} :
    c = d /\ reg.bindings[s] = c

(* A process is only killed for a reason: no chat knows it, unless it may  *)
(* still be adopted, the chat is over, a user closed it, or its create     *)
(* failed.                                                                 *)
Unwanted(c) ==
  \/ c \notin registered(reg) /\ ~Adopts(reg)
  \/ c \in registered(reg) /\ is_terminal(reg, c)
  \/ c \in asked
  \/ answer[c] \in {"failed", "unknown"}
  \/ create.chat = c /\ create.pc = "killing"
KillsAreDeserved ==
  [][\A c \in Chats : proc[c] = "run" /\ proc'[c] = "dead" /\ Len(down') < Len(down) => Unwanted(c)]_vars

(* The recovery barrier opens only for the connection that is registered,  *)
(* after its heartbeat was compared with the registry.                     *)
BarrierNeedsCurrent ==
  [][lane.pending /\ ~lane'.pending =>
       lane.work.snap.conn = lane.conn /\ \A c \in lane.work.snap.alive :
         c \in registered(reg) \/ killer[c] # NoKill \/ proc[c] # "run" \/ c \in reg.retry]_vars

\* Nothing can be resumed while the barrier stands.
NothingToResume ==
  lane.pending => \A c \in open_chats(reg) : ~reg.chats[c].confirmed \/ reg.chats[c].sess = NoSession

(* The registry is sound: typed, with one runtime for a session, and with  *)
(* nothing to resume before it was compared with the instance.             *)
RegistryInv == TypeOK /\ OneLiveRuntime /\ NothingToResume

(* The barrier opens: connections break finitely often, heartbeats come.   *)
BarrierOpens == <>~lane.pending

(* A living process that the first heartbeat of a connection finds unwanted*)
(* dies, unless the connection is lost or the failed kill was recorded.    *)
Doomed(c) ==
  /\ proc[c] = "run"
  /\ \/ c \in registered(reg) /\ is_terminal(reg, c)
     \/ c \in reg.pending_close
     \/ c \notin registered(reg) /\ ~used.ssh
OrphansDie ==
  \A c \in Chats : (Doomed(c) /\ link # 0 /\ inst.conn = link /\ ~inst.known)
    ~> (proc[c] # "run" \/ c \in reg.retry \/ link = 0)

=============================================================================
