-------------------------- MODULE TerminalService --------------------------
(***************************************************************************)
(* The terminals of the workbench: the routes between browser connections  *)
(* and the PTYs of one instance (control/terminal_service*.rs), the part   *)
(* of the instance registry they hang on, and the PTY host of the instance *)
(* (terminal_host*.rs) behind the event loop of its daemon (hub.rs).       *)
(*                                                                         *)
(* Terminal t is the t-th open that passed admission: the server draws a   *)
(* fresh terminal id and instance request id for each, so one number       *)
(* stands for both, and replies that do not match are left out.  The       *)
(* handlers of the server run one at a time (lifecycle_lock).  The         *)
(* connections of the instance are numbered.                               *)
(***************************************************************************)
EXTENDS Integers, FiniteSets, Sequences

CONSTANTS Browsers, None,
          PrincipalOf,      \* whose token each browser connection presented
          MaxPerPrincipal,  \* MAX_TERMINALS_PER_PRINCIPAL
          MaxPerInstance,   \* MAX_TERMINALS_PER_INSTANCE_HOST
          EventCap,         \* the queue of terminal events of the daemon
          MaxOpens,         \* bound: opens that pass admission
          MaxChunks,        \* bound: chunks of output of one PTY
          MaxLinks,         \* bound: connections of the instance
          Budgets           \* bound: how far one run goes in each, and in all else that
                            \* goes wrong (see Mishap)

Principals == {PrincipalOf[b] : b \in Browsers}
Terminals == 1..MaxOpens
Links == 1..MaxLinks

ASSUME TerminalAssumption ==
    /\ DOMAIN PrincipalOf = Browsers
    /\ {MaxPerPrincipal, MaxPerInstance, MaxOpens, MaxChunks} \subseteq Nat
    /\ {EventCap, MaxLinks} \subseteq Nat \ {0}
    /\ Budgets \subseteq [opens : 0..MaxOpens, chunks : 0..MaxChunks, links : Links,
                         mishaps : Nat]

VARIABLES
    opens,      \* terminals so far
    route,      \* pending or active in TerminalInner; "gone" once removed
    owner,      \* TerminalOwner: browser, connection of the instance, next_output_seq
    principalCount, instanceCount,
    shutting,   \* shutting_down
    browser,    \* the browser connections that are open
    seen,       \* the frames about each terminal that its browser got
    missed,     \* terminals of which it missed one
    userClosed, \* history: terminals their user closed
    conn, online,            \* registry: connection of the instance (0: none), its state
    serving,    \* connections whose loop in the gateway runs
    cut,        \* connections whose disconnect token is cancelled
    greeting,   \* connection that has authenticated and waits for its hello (0: none)
    cleaning,   \* calls of on_instance_disconnect on their way: by the end of a connection,
                \* or by the sweep (0)
    link, links,  \* the daemon's connection (0: none); connections so far
    inbox,      \* what the daemon's loop has not handled yet
    up,         \* frames on their way to the server, per connection
    pty,        \* PTYs of the host: chunks of output read so far
    events,     \* the queue of terminal events
    budget,     \* the bounds of this run
    mishaps     \* how much has gone wrong

routes == <<opens, route, owner, principalCount, instanceCount>>
client == <<seen, missed>>
registry == <<conn, online, serving, greeting, cleaning>>
wire == <<inbox, cut>>
host == <<pty, events>>
vars == <<routes, shutting, browser, client, userClosed, registry, wire, link, links, up,
          host, mishaps, budget>>

Frame(k, t, n) == [kind |-> k, term |-> t, seq |-> n]
DownKinds == {"open", "close", "lost"}
UpKinds == {"opened", "rejected", "output", "exit"}
Frames(kinds) == [kind : kinds, term : 0..MaxOpens, seq : 0..MaxChunks]
Lost == Frame("lost", 0, 0)

Routed == {t \in Terminals : route[t] \in {"pending", "active"}}
Active == {t \in Terminals : route[t] = "active"}
Pending == {t \in Terminals : route[t] = "pending"}
Principal(t) == PrincipalOf[owner[t].browser]
Of(p, S) == {t \in S : Principal(t) = p}

NoOwner == [browser |-> None, link |-> 0, out |-> 1]
NoPty == -1
Sessions == {t \in Terminals : pty[t] # NoPty}

TypeOK ==
    /\ opens \in 0..MaxOpens
    /\ route \in [Terminals -> {"unused", "pending", "active", "gone"}]
    /\ owner \in [Terminals -> [browser : Browsers \cup {None}, link : 0..MaxLinks,
                                out : 1..(MaxChunks + 1)]]
    /\ principalCount \in [Principals -> 0..MaxPerPrincipal]
    /\ instanceCount \in 0..MaxPerInstance
    /\ shutting \in BOOLEAN /\ browser \subseteq Browsers
    /\ seen \in [Terminals -> Seq([kind : {"opened", "output", "exit", "error"},
                                   seq : 0..MaxChunks])]
    /\ missed \subseteq Terminals /\ userClosed \subseteq Terminals
    /\ conn \in 0..MaxLinks /\ online \in BOOLEAN
    /\ serving \subseteq Links /\ cut \subseteq Links
    /\ greeting \in 0..MaxLinks /\ cleaning \subseteq 0..MaxLinks
    /\ link \in 0..MaxLinks /\ links \in Links
    /\ inbox \in Seq(Frames(DownKinds)) /\ up \in [Links -> Seq(Frames(UpKinds))]
    /\ pty \in [Terminals -> 0..MaxChunks \cup {NoPty}]
    /\ events \in Seq(Frames(UpKinds)) /\ budget \in Budgets /\ mishaps \in 0..budget.mishaps

Init ==
    /\ opens = 0 /\ route = [t \in Terminals |-> "unused"]
    /\ owner = [t \in Terminals |-> NoOwner]
    /\ principalCount = [p \in Principals |-> 0] /\ instanceCount = 0
    /\ shutting = FALSE /\ browser = Browsers
    /\ seen = [t \in Terminals |-> <<>>] /\ missed = {} /\ userClosed = {}
    /\ conn = 1 /\ online = TRUE /\ serving = {1} /\ cut = {} /\ greeting = 0
    /\ cleaning = {}
    /\ link = 1 /\ links = 1 /\ inbox = <<>> /\ up = [n \in Links |-> <<>>]
    /\ pty = [t \in Terminals |-> NoPty] /\ events = <<>>
    /\ mishaps = 0 /\ budget \in Budgets

-----------------------------------------------------------------------------
(* What the handlers are built from.                                       *)

\* send_terminal_fire_and_forget found the connection registered: what is sent
\* to a connection the daemon has lost goes nowhere.
Deliver(n, frames) == IF link = n THEN inbox \o frames ELSE inbox

\* send_terminal_close for the terminals of S: a full queue cancels the
\* connection.
\* A second close of the same PTY changes nothing, so one is kept.
Closing == {inbox[i].term : i \in {i \in DOMAIN inbox : inbox[i].kind = "close"}}
Closes(S) ==
    LET order == CHOOSE f \in [1..Cardinality(S) -> S] : {f[i] : i \in DOMAIN f} = S
    IN  [i \in 1..Cardinality(S) |-> Frame("close", order[i], 0)]

SendCloses(n, S) ==
    \/ /\ S = {} \/ n = 0 \/ conn # n
       /\ UNCHANGED wire
    \/ \E fits \in SUBSET S :
         /\ S # {} /\ n # 0 /\ conn = n
         /\ inbox' = Deliver(n, Closes(fits \ Closing))
         /\ cut' = IF fits = S THEN cut ELSE cut \cup {n}

\* Mutant: only a terminal that has answered is closed.
CloseOwnActive(S) == SendCloses(conn, {t \in S \cap Active : owner[t].link = conn})

\* A close goes over the connection its terminal was opened on.
CloseOwn(S) == SendCloses(conn, {t \in S : owner[t].link = conn})

\* dec_count for each of k routes.
Less(n, k) == IF k > n THEN 0 ELSE n - k

\* The routes are dropped.  Who had them is kept as history.
Forget(S) ==
    /\ route' = [t \in Terminals |-> IF t \in S THEN "gone" ELSE route[t]]
    /\ owner' = [t \in Terminals |->
           IF t \in S THEN [NoOwner EXCEPT !.browser = owner[t].browser] ELSE owner[t]]
    /\ UNCHANGED opens

\* Mutant: the counts of the quotas are decremented for openings too.
RemoveRoutesCountsOpenings(S) ==
    /\ Forget(S)
    /\ principalCount' =
           [p \in Principals |-> Less(principalCount[p], Cardinality(Of(p, S)))]
    /\ instanceCount' = Less(instanceCount, Cardinality(S))

RemoveRoutes(S) ==
    /\ Forget(S)
    /\ principalCount' = [p \in Principals |->
           Less(principalCount[p], Cardinality(Of(p, S \cap Active)))]
    /\ instanceCount' = Less(instanceCount, Cardinality(S \cap Active))

\* try_send to the browsers of S: a full queue loses the frame, and nobody
\* looks.
Tell(S, what) ==
    \E full \in SUBSET S :
        /\ missed' = missed \cup full
        /\ seen' = [t \in Terminals |->
                        IF t \in S \ full THEN Append(seen[t], what) ELSE seen[t]]

\* A queue that is full counts once against the bound.
Mishap(k) == mishaps' = mishaps + k /\ mishaps' <= budget.mishaps
QueuesFull == Mishap(Cardinality(cut' \ cut) + Cardinality(missed' \ missed))

Note(k, n) == [kind |-> k, seq |-> n]

\* Mutant: those whose terminal was still opening are forgotten.
TellEndOfOpen(S) == Tell(S \cap Active, Note("exit", 0))

\* TerminalExit to those whose terminal was active, TerminalError to the rest.
TellEnd(S) ==
    \E full \in SUBSET S :
        /\ missed' = missed \cup full
        /\ seen' = [t \in Terminals |->
              IF t \in S \ full
                THEN Append(seen[t], Note(IF t \in Active THEN "exit" ELSE "error", 0))
                ELSE seen[t]]

FailActive(t) == RemoveRoutes({t}) /\ CloseOwn({t}) /\ Tell({t}, Note("error", 0))

\* cleanup_instance_routes: the closes go over the connection that is live now.
CleanupRoutes ==
    /\ RemoveRoutes(Routed)
    /\ SendCloses(conn, Routed)
    /\ TellEnd(Routed)
    /\ QueuesFull

-----------------------------------------------------------------------------
(* Frames of the browsers.                                                 *)

\* Opens that are pending count as well as those that succeeded.
Quota(b) ==
    /\ principalCount[PrincipalOf[b]] + Cardinality(Of(PrincipalOf[b], Pending))
         < MaxPerPrincipal
    /\ instanceCount + Cardinality(Pending) < MaxPerInstance

Admitted(b) == conn # 0 /\ ~shutting /\ Quota(b)

\* handle_open past its refusals, which change nothing: the route is reserved
\* before the frame is sent and given up when it cannot be.
HandleOpen(b) ==
    /\ b \in browser /\ opens < budget.opens /\ Admitted(b)
    /\ opens' = opens + 1
    /\ owner' = [owner EXCEPT ![opens + 1] = [browser |-> b, link |-> conn, out |-> 1]]
    /\ \/ /\ online
          /\ inbox' = Deliver(conn, <<Frame("open", opens + 1, 0)>>)
          /\ route' = [route EXCEPT ![opens + 1] = "pending"]
          /\ UNCHANGED <<client, mishaps>>
       \/ /\ route' = [route EXCEPT ![opens + 1] = "gone"]
          /\ Tell({opens + 1}, Note("error", 0))
          /\ Mishap((IF online THEN 1 ELSE 0) + Cardinality(missed' \ missed))
          /\ UNCHANGED inbox
    /\ UNCHANGED <<principalCount, instanceCount, shutting, browser, userClosed, registry,
                   cut, link, links, up, host>>

\* send_terminal_input and send_terminal_resize need an instance that serves.
Reachable(t) == online /\ conn = owner[t].link

\* handle_input and handle_resize.  What they pass on only the PTY sees; when
\* it cannot be passed on, or the input is not the next in sequence or finds
\* the queue full, the terminal ends.
HandleInput(t) ==
    /\ t \in Active /\ owner[t].browser \in browser
    /\ FailActive(t)
    /\ Mishap((IF Reachable(t) THEN 1 ELSE 0) + Cardinality(cut' \ cut)
                + Cardinality(missed' \ missed))
    /\ UNCHANGED <<shutting, browser, userClosed, registry, link, links, up, host>>

\* handle_close, by terminal or by the request that opened it.
HandleClose(t) ==
    /\ t \in Routed /\ owner[t].browser \in browser
    /\ RemoveRoutes({t}) /\ CloseOwn({t})
    /\ userClosed' = userClosed \cup {t}
    /\ Mishap(Cardinality(cut' \ cut))
    /\ UNCHANGED <<shutting, browser, client, registry, link, links, up, host>>

\* disconnect: the browser's connection has ended.
Disconnect(b) ==
    LET mine == {t \in Routed : owner[t].browser = b}
    IN  /\ b \in browser /\ browser' = browser \ {b}
        /\ RemoveRoutes(mine) /\ CloseOwn(mine)
        /\ Mishap(1 + Cardinality(cut' \ cut))
        /\ UNCHANGED <<shutting, client, userClosed, registry, link, links, up, host>>

-----------------------------------------------------------------------------
(* Frames of the instance, which the loop of connection n reads in order.  *)
(* Those of a connection that is not the registered one change nothing.    *)

Reading(n) == n \in serving /\ up[n] # <<>>
Read(n) == up' = [up EXCEPT ![n] = Tail(@)]
Untouched == UNCHANGED <<shutting, browser, userClosed, registry, link, links, host>>

\* on_instance_opened.  The terminal is the user's once its browser has been
\* told; an open nobody waits for any more is closed.
OnOpened(n) ==
    LET frame == Head(up[n])
        t == frame.term
        waiting == t \in Pending /\ owner[t].link = n
    IN  /\ Reading(n) /\ frame.kind = "opened" /\ conn = n /\ Read(n)
        /\ \/ /\ waiting
              /\ Tell({t}, Note("opened", 0))
              /\ \/ /\ t \notin missed'
                    /\ route' = [route EXCEPT ![t] = "active"]
                    /\ principalCount' = [principalCount EXCEPT ![Principal(t)] = @ + 1]
                    /\ instanceCount' = instanceCount + 1
                    /\ UNCHANGED <<opens, owner, wire>>
                 \/ t \in missed' /\ RemoveRoutes({t}) /\ SendCloses(n, {t})
           \/ /\ ~waiting
              /\ IF shutting THEN UNCHANGED wire ELSE SendCloses(n, {t})
              /\ UNCHANGED <<routes, client>>
        /\ QueuesFull /\ Untouched

\* on_instance_opened with ok = false.
OnRejected(n) ==
    LET frame == Head(up[n])
        t == frame.term
    IN  /\ Reading(n) /\ frame.kind = "rejected" /\ conn = n /\ Read(n)
        /\ IF t \in Pending /\ owner[t].link = n
             THEN RemoveRoutes({t}) /\ Tell({t}, Note("error", 0))
             ELSE UNCHANGED <<routes, client>>
        /\ UNCHANGED wire /\ QueuesFull /\ Untouched

\* What happens to a terminal whose output finds its browser's queue full.
LosesOutput(t) == RemoveRoutes({t}) /\ CloseOwn({t})

\* on_instance_output.
OnOutput(n) ==
    LET frame == Head(up[n])
        t == frame.term
        mine == t \in Active /\ owner[t].link = n
    IN  /\ Reading(n) /\ frame.kind = "output" /\ conn = n /\ ~shutting /\ Read(n)
        /\ \/ /\ ~mine /\ SendCloses(n, {t})
              /\ UNCHANGED <<routes, client>>
           \/ mine /\ frame.seq # owner[t].out /\ FailActive(t)
           \/ /\ mine /\ frame.seq = owner[t].out
              /\ Tell({t}, Note("output", frame.seq))
              /\ \/ /\ seen' # seen
                    /\ owner' = [owner EXCEPT ![t].out = @ + 1]
                    /\ UNCHANGED <<opens, route, principalCount, instanceCount, wire>>
                 \/ seen' = seen /\ LosesOutput(t)
        /\ QueuesFull /\ Untouched

\* on_instance_exit.
OnExit(n) ==
    LET frame == Head(up[n])
        t == frame.term
    IN  /\ Reading(n) /\ frame.kind = "exit" /\ conn = n /\ ~shutting /\ Read(n)
        /\ IF t \in Active /\ owner[t].link = n
             THEN RemoveRoutes({t}) /\ Tell({t}, Note("exit", 0))
             ELSE UNCHANGED <<routes, client>>
        /\ UNCHANGED wire /\ QueuesFull /\ Untouched

\* Frames of an old connection, and output and exits once the server stops.
Ignore(n) ==
    /\ Reading(n) /\ Read(n)
    /\ conn # n \/ (shutting /\ Head(up[n]).kind \in {"output", "exit"})
    /\ UNCHANGED <<routes, client, wire, mishaps>> /\ Untouched

ServerReads(n) == OnOpened(n) \/ OnRejected(n) \/ OnOutput(n) \/ OnExit(n) \/ Ignore(n)

-----------------------------------------------------------------------------
(* The connection of the instance, as the server sees it.                  *)

\* on_instance_connection_hello.  Every entry is replaced and its routes are
\* cleaned up; the new connection carries nothing until that is done, so no
\* close is sent.
Hello ==
    /\ greeting # 0 /\ ~shutting
    /\ conn' = greeting /\ online' = TRUE /\ greeting' = 0
    /\ serving' = serving \cup {greeting}
    /\ cut' = IF conn = 0 THEN cut ELSE cut \cup {conn}
    /\ RemoveRoutes(Routed) /\ TellEnd(Routed)
    /\ Mishap(Cardinality(missed' \ missed))
    /\ UNCHANGED <<shutting, browser, userClosed, cleaning, inbox, link, links, up, host>>

\* Mutant: the routes of an instance that went quiet are left to its connection.
SweepWithoutCleanup ==
    /\ online /\ ~shutting /\ Mishap(1)
    /\ online' = FALSE
    /\ UNCHANGED <<routes, shutting, browser, client, userClosed, conn, serving, greeting,
                   cleaning, wire, link, links, up, host>>

\* sweep_offline: the connection stays registered.
SweepOffline ==
    /\ online /\ ~shutting /\ Mishap(1)
    /\ online' = FALSE
    /\ cleaning' = cleaning \cup {0}
    /\ UNCHANGED <<routes, shutting, browser, client, userClosed, conn, serving, greeting,
                   wire, link, links, up, host>>

\* on_connection_heartbeat of the registered connection.
Heartbeat ==
    /\ ~online /\ conn # 0 /\ conn = link /\ conn \in serving
    /\ online' = TRUE
    /\ UNCHANGED <<routes, shutting, browser, client, userClosed, conn, serving, greeting,
                   cleaning, wire, link, links, up, host, mishaps>>

\* The daemon loses connection link: its loop still handles what has arrived.
LoseLink ==
    /\ link' = 0
    /\ \E k \in 0..Len(inbox) :
         /\ \A i \in (k + 1)..Len(inbox) : inbox[i] # Lost
         /\ inbox' = Append(SubSeq(inbox, 1, k), Lost)

\* The loop of connection n ends, and on_disconnect.  An entry that has been
\* replaced is left alone.
ServerEnds(n) ==
    /\ n \in serving
    /\ n \in cut \/ shutting \/ (link # n /\ up[n] = <<>>)
    /\ serving' = serving \ {n}
    /\ up' = [up EXCEPT ![n] = <<>>]
    /\ IF link = n THEN LoseLink ELSE UNCHANGED <<link, inbox>>
    /\ IF conn = n
         THEN /\ conn' = 0 /\ online' = FALSE
              /\ cleaning' = IF online THEN cleaning \cup {n} ELSE cleaning
         ELSE UNCHANGED <<conn, online, cleaning>>
    /\ UNCHANGED <<routes, shutting, browser, client, userClosed, greeting, cut, links, host,
                   mishaps>>

\* on_instance_disconnect, from the loop of a connection or from the sweep.
OnInstanceDisconnect(w) ==
    /\ w \in cleaning /\ cleaning' = cleaning \ {w}
    /\ CleanupRoutes
    /\ UNCHANGED <<shutting, browser, userClosed, conn, online, serving, greeting, link,
                   links, up, host>>

\* sweep_expired_pending.
SweepPending(t) ==
    /\ t \in Pending /\ ~shutting
    /\ RemoveRoutes({t}) /\ CloseOwn({t}) /\ Tell({t}, Note("error", 0)) /\ QueuesFull
    /\ UNCHANGED <<shutting, browser, userClosed, registry, link, links, up, host>>

\* Hub::serve on its signal: the periodic task is stopped, then shutdown.
Shutdown ==
    /\ ~shutting /\ shutting' = TRUE
    /\ Forget(Routed)
    /\ principalCount' = [p \in Principals |-> 0] /\ instanceCount' = 0
    /\ TellEnd(Routed) /\ CloseOwn(Routed)
    /\ Mishap(1 + Cardinality(cut' \ cut) + Cardinality(missed' \ missed))
    /\ cleaning' = cleaning \ {0}
    /\ UNCHANGED <<browser, userClosed, conn, online, serving, greeting, link,
                   links, up, host>>

-----------------------------------------------------------------------------
(* The daemon.                                                             *)

ServerSide == UNCHANGED <<routes, shutting, browser, client, userClosed, registry, cut>>

LinkDrops ==
    /\ link # 0 /\ links < budget.links /\ LoseLink
    /\ ServerSide /\ UNCHANGED <<links, up, host, mishaps>>

\* The transport has authenticated again; the loop may still be behind.
Reconnect ==
    /\ link = 0 /\ links < budget.links /\ greeting = 0 /\ ~shutting
    /\ links' = links + 1 /\ link' = links + 1 /\ greeting' = links + 1
    /\ UNCHANGED <<routes, shutting, browser, client, userClosed, conn, online, serving,
                   cleaning, wire, up, host, mishaps>>

\* The handlers of handlers.rs for opens and closes, and
\* TransportEvent::Disconnected.
Handle(frame) ==
    LET t == frame.term
    IN  \/ /\ frame = Lost /\ pty' = [u \in Terminals |-> NoPty]
           /\ UNCHANGED <<up, mishaps>>
        \/ /\ frame.kind = "open"
           /\ \/ /\ Cardinality(Sessions) < MaxPerInstance /\ link # 0
                 /\ up' = [up EXCEPT ![link] = Append(@, Frame("opened", t, 0))]
                 /\ pty' = [pty EXCEPT ![t] = 0] /\ UNCHANGED mishaps
              \* The host is full or the shell does not start.
              \/ /\ link # 0
                 /\ up' = [up EXCEPT ![link] = Append(@, Frame("rejected", t, 0))]
                 /\ Mishap(IF Cardinality(Sessions) < MaxPerInstance THEN 1 ELSE 0)
                 /\ UNCHANGED pty
              \* The answer cannot be sent: the new PTY is closed again.
              \/ link = 0 /\ UNCHANGED <<up, pty, mishaps>>
        \/ /\ frame.kind = "close" /\ pty' = [pty EXCEPT ![t] = NoPty]
           /\ UNCHANGED <<up, mishaps>>

HubHandles ==
    /\ inbox # <<>> /\ inbox' = Tail(inbox) /\ Handle(Head(inbox))
    /\ ServerSide /\ UNCHANGED <<link, links, events>>

\* The reader thread of a PTY finds output.
PtyOutput(t) ==
    /\ t \in Sessions /\ pty[t] < budget.chunks /\ Len(events) < EventCap
    /\ pty' = [pty EXCEPT ![t] = @ + 1]
    /\ events' = Append(events, Frame("output", t, pty[t] + 1))
    /\ ServerSide /\ UNCHANGED <<inbox, link, links, up, mishaps>>

\* Mutant: an exit that finds the queue full is dropped.
PtyEndsUnheard(t) ==
    /\ t \in Sessions /\ pty' = [pty EXCEPT ![t] = NoPty]
    /\ events' = IF Len(events) < EventCap
                   THEN Append(events, Frame("exit", t, 0)) ELSE events
    /\ ServerSide /\ UNCHANGED <<inbox, link, links, up, mishaps>>

\* The shell has ended, the queue of events is full, or an input or a resize
\* fails: the PTY is killed and its exit reported once the queue has room.  A
\* PTY that was closed reports nothing.
PtyEnds(t) ==
    /\ t \in Sessions /\ pty' = [pty EXCEPT ![t] = NoPty]
    /\ events' = Append(events, Frame("exit", t, 0))
    /\ ServerSide /\ UNCHANGED <<inbox, link, links, up, mishaps>>

\* forward_terminal_event.
HubForwards ==
    LET event == Head(events)
    IN  /\ events # <<>> /\ events' = Tail(events)
        /\ \/ /\ link # 0
              /\ up' = [up EXCEPT ![link] = Append(@, event)]
              /\ UNCHANGED pty
           \/ link = 0 /\ pty' = [pty EXCEPT ![event.term] = NoPty] /\ UNCHANGED up
        /\ ServerSide
        /\ UNCHANGED <<inbox, link, links, mishaps>>

-----------------------------------------------------------------------------

FromBrowsers ==
    \/ \E b \in Browsers : Disconnect(b) \/ HandleOpen(b)
    \/ \E t \in Terminals : HandleInput(t) \/ HandleClose(t)

Step ==
    \/ FromBrowsers
    \/ \E n \in Links : ServerReads(n) \/ ServerEnds(n)
    \/ \E w \in 0..MaxLinks : OnInstanceDisconnect(w)
    \/ \E t \in Terminals : SweepPending(t) \/ PtyOutput(t) \/ PtyEnds(t)
    \/ Hello \/ SweepOffline \/ Heartbeat \/ Shutdown
    \/ LinkDrops \/ Reconnect \/ HubHandles \/ HubForwards

Next == Step /\ UNCHANGED budget

Spec == Init /\ [][Next]_vars

\* Loops that read, and the timer of the sweep; no user, no PTY and no
\* connection is bound to do anything.
ServerWorks ==
    /\ \/ \E n \in Links : ServerReads(n) \/ ServerEnds(n)
       \/ \E w \in 0..MaxLinks : OnInstanceDisconnect(w)
       \/ \E t \in Terminals : SweepPending(t)
       \/ Hello
    /\ UNCHANGED budget
DaemonWorks == (HubHandles \/ HubForwards) /\ UNCHANGED budget

FairSpec == Spec /\ WF_vars(ServerWorks) /\ WF_vars(DaemonWorks)

-----------------------------------------------------------------------------
(* Properties.                                                             *)

\* A PTY that runs is one its user can reach, or its end is on its way: a close
\* or the loss of the connection among what the daemon handles next, or a
\* connection that is about to be cut.  The close that answers a late
\* announcement is not needed for it.
EveryPtyAccounted ==
    \A t \in Sessions :
        \/ t \in Routed /\ owner[t].link = link
        \/ \E i \in DOMAIN inbox : inbox[i] = Lost \/ inbox[i] = Frame("close", t, 0)
        \/ link \in cut

\* The counts the quotas read are the routes that are active, whatever
\* removed the others.
QuotaBalance ==
    /\ \A p \in Principals : principalCount[p] = Cardinality(Of(p, Active))
    /\ instanceCount = Cardinality(Active)

\* No principal and no instance has more terminals, open or opening, than it may.
QuotaHolds ==
    /\ \A p \in Principals : Cardinality(Of(p, Routed)) <= MaxPerPrincipal
    /\ Cardinality(Routed) <= MaxPerInstance

\* The quotas are what they claim to be: the counts are of what is there, and what is there,
\* with the opens under way, is within them.
QuotaInv == QuotaBalance /\ QuotaHolds

\* A route over a connection that is not the registered one is about to be
\* cleaned up, whichever of the sweep, the end of the connection and the next
\* hello came first.
StaleRouteIsCleaned ==
    \A t \in Routed : owner[t].link # conn => cleaning # {}

\* What a browser sees of its terminal: the answer to its open, the output
\* without a gap, and one end, as far as its queue had room.
StreamIsWhole ==
    \A t \in Terminals :
        LET at(i) == seen[t][i].kind
        IN  /\ \A i \in DOMAIN seen[t] :
                 /\ at(i) = "opened" => i = 1
                 /\ at(i) = "output" => i > 1 /\ seen[t][i].seq = i - 1
                 /\ at(i) \in {"exit", "error"} => i = Len(seen[t])

\* A terminal that is gone has told its user so, unless they closed it, left,
\* or lost a frame about it.
EndIsTold ==
    \A t \in Terminals :
        route[t] = "gone" =>
            \/ t \in userClosed \cup missed \/ owner[t].browser \notin browser
            \/ seen[t] # <<>> /\ seen[t][Len(seen[t])].kind \in {"exit", "error"}

\* A browser is told all of it, in order, and once, for every way a terminal can end.
StreamInv == TypeOK /\ StreamIsWhole /\ EndIsTold

\* Again and again the server's routes and the PTYs of the instance are the
\* same terminals: no open is left unanswered, no route outlives its PTY and
\* no PTY its route.
RoutesAndPtysAgree == []<>(Pending = {} /\ Active = Sessions)

=============================================================================
