------------------------------ MODULE MarketFeed ------------------------------
(***************************************************************************)
(* How the public market reaches an owner's chart.  The App holds one      *)
(* connection to the venue per route, public for quotes and market for     *)
(* bars, and relays both to a page through a bounded queue and a web       *)
(* socket.  The page reads a window of completed bars and puts the bars of *)
(* the stream behind it; whatever may have lost a bar on the way must end  *)
(* in another reading of the window.                                       *)
(*                                                                         *)
(* Time is the number of the bar in progress.  One page is open.           *)
(***************************************************************************)
EXTENDS Integers, Sequences, FiniteSets, SequencesExt

CONSTANTS
  Horizon,    \* bound: the last bar
  Capacity,   \* _QUEUE_CAPACITY, 256 in the code
  Backlog,    \* bound: events the socket takes before a send waits
  MaxFaults   \* bound: what goes wrong

ASSUME FeedAssumption ==
  /\ Horizon \in Nat /\ Capacity \in Nat \ {0} /\ Backlog \in Nat \ {0} /\ MaxFaults \in Nat

VARIABLES
  now,       \* the bar in progress
  route,     \* external: the routes that are up
  notice,    \* external: reconnected routes whose handler has not run yet
  clients,   \* _clients: NONE, STARTING, UP
  live,      \* _route_live: the routes heard of
  server,    \* the state of _status
  queue,     \* the subscriber's queue
  over,      \* the subscriber is in _overflowed_subscribers
  boundary,  \* its RECONNECTING is sent and the flag not yet taken back
  socket,    \* the page's socket: NONE, OPEN, with WAITING for the clients' start
  wire,      \* events on the socket
  page,      \* the page's snapshot and the hook's variables
  chart,     \* the chart's loader and bars
  faults     \* bound: faults so far

venue  == <<now, route, notice>>
relay  == <<clients, live, server>>
sub    == <<queue, over, boundary>>
line   == <<socket, wire>>
vars   == <<venue, relay, sub, line, page, chart, faults>>

Routes == {"public", "market"}

\* No bar: bars are numbered from 1, and the window may end with the one before.
None == -1

Quote       == [kind |-> "quote", state |-> "", at |-> now]
Bar         == [kind |-> "bar", state |-> "", at |-> now]
Status(s)   == [kind |-> "status", state |-> s, at |-> 0]

Faulty == faults < MaxFaults /\ faults' = faults + 1

(***************************************************************************)
(* The App's relay.                                                        *)
(***************************************************************************)

Subscribed == socket # "NONE"

Overflows(events) == over \/ Len(queue) + Len(events) > Capacity

\* Mutant: a full queue loses its oldest event and nobody is told.
PutSilently(events) ==
  LET all == queue \o events
  IN queue' = SubSeq(all, Len(all) - Capacity + 1, Len(all)) /\ over' = over

\* A queue that overflows keeps its newest event alone until the subscriber is told.
PutOverflow(events) == queue' = <<Last(events)>> /\ over' = TRUE

Publish(events) ==
  /\ IF ~Subscribed THEN UNCHANGED <<queue, over>>
     ELSE IF Overflows(events) THEN PutOverflow(events)
     ELSE queue' = queue \o events /\ UNCHANGED over
  /\ UNCHANGED boundary

\* A message of a route: when every route is heard again the feed is LIVE.
\* Bound: no two equal messages wait.
Decode(r, event) ==
  /\ clients # "NONE" /\ r \in route
  /\ ~Contains(queue, event)
  /\ live' = live \cup {r}
  /\ LET back == live' = Routes /\ server # "LIVE"
     IN /\ server' = IF back THEN "LIVE" ELSE server
        /\ Publish(IF back THEN <<Status("LIVE"), event>> ELSE <<event>>)
  /\ IF over' /\ ~over THEN Faulty ELSE UNCHANGED faults
  /\ UNCHANGED <<route, notice, clients, line, page, chart>>

SendQuote == Decode("public", Quote) /\ UNCHANGED now

SendBar == Decode("market", Bar) /\ UNCHANGED now

Lose(r) ==
  /\ clients = "UP" /\ r \in route /\ Faulty
  /\ route' = route \ {r}
  /\ UNCHANGED <<now, notice, relay, sub, line, page, chart>>

\* The venue's client connects and subscribes again on its own.
Resubscribe(r) ==
  /\ r \in Routes \ route /\ clients = "UP"
  /\ route' = route \cup {r} /\ notice' = notice \cup {r}
  /\ UNCHANGED <<now, relay, sub, line, page, chart, faults>>

Reconnected(r) ==
  /\ r \in notice
  /\ notice' = notice \ {r}
  /\ live' = live \ {r} /\ server' = "RECONNECTING"
  /\ Publish(<<Status("RECONNECTING")>>)
  /\ UNCHANGED <<now, route, clients, line, page, chart, faults>>

\* A page subscribes; the first to do so starts the venue's clients.
Connect ==
  /\ socket = "NONE"
  /\ over' = FALSE /\ boundary' = FALSE /\ wire' = <<>>
  /\ IF clients = "NONE"
       THEN /\ clients' = "STARTING" /\ server' = "CONNECTING" /\ live' = {}
            /\ route' = {"public"} /\ notice' = {}
            /\ socket' = "WAITING" /\ queue' = <<Status("CONNECTING")>>
       ELSE socket' = "OPEN" /\ queue' = <<Status(server)>> /\ UNCHANGED <<relay, route, notice>>
  /\ UNCHANGED <<now, page, chart, faults>>

Started ==
  /\ clients = "STARTING"
  /\ clients' = "UP" /\ live' = Routes /\ server' = "LIVE"
  /\ route' = Routes
  /\ socket' = IF socket = "WAITING" THEN "OPEN" ELSE socket
  /\ Publish(<<Status("LIVE")>>)
  /\ UNCHANGED <<now, notice, wire, page, chart, faults>>

Forward ==
  /\ socket = "OPEN" /\ queue # <<>> /\ ~boundary /\ Len(wire) < Backlog
  /\ IF over
       THEN wire' = Append(wire, Status("RECONNECTING")) /\ boundary' = TRUE /\ UNCHANGED queue
       ELSE wire' = Append(wire, Head(queue)) /\ queue' = Tail(queue) /\ UNCHANGED boundary
  /\ UNCHANGED <<venue, relay, over, socket, page, chart, faults>>

\* The boundary's send has returned.
Resume ==
  /\ boundary
  /\ boundary' = FALSE /\ over' = FALSE
  /\ UNCHANGED <<venue, relay, queue, line, page, chart, faults>>

(***************************************************************************)
(* The chart.                                                              *)
(***************************************************************************)

\* A bar of the stream follows a window that is loaded, while it is fresh.
Merged(c, bar) ==
  IF c.loading \/ c.top = None \/ bar <= c.top \/ now > bar + 1 THEN c
  ELSE [c EXCEPT !.top = bar, !.hole = @ \/ bar > c.top + 1]

\* The page renders a new generation: the chart drops its bars and loads.
Load ==
  /\ chart.due
  /\ chart' = [due |-> FALSE, loading |-> TRUE, top |-> None, hole |-> FALSE, failed |-> FALSE]
  /\ UNCHANGED <<venue, relay, sub, line, page, faults>>

\* The window ends with the last completed bar; the bar in progress comes from the stream.
Window == [chart EXCEPT !.loading = FALSE, !.top = now - 1]

Show ==
  /\ chart.loading
  /\ \/ chart' = (IF page.bar = None THEN Window ELSE Merged(Window, page.bar)) /\ UNCHANGED faults
     \/ chart' = [chart EXCEPT !.loading = FALSE, !.failed = TRUE] /\ Faulty
  /\ UNCHANGED <<venue, relay, sub, line, page>>

(***************************************************************************)
(* The page's hook.                                                        *)
(***************************************************************************)

\* What the page shows is no longer current: the next quote starts a new generation.
Awaiting(p, status, seen, timer) ==
  [p EXCEPT !.status = status, !.awaiting = TRUE, !.pending = FALSE, !.bar = None,
            !.seen = seen, !.timer = timer]

ApplyServerStatus(p, state) ==
  IF state = "LIVE"
    THEN LET stale == p.seen # "FRESH"
         IN [p EXCEPT !.status = IF stale THEN "STALE" ELSE "LIVE",
                      !.bar = IF stale THEN None ELSE @, !.timer = TRUE]
    ELSE Awaiting(p, state, p.seen, FALSE)

\* An event older than the limit, or from a clock too far ahead.
Untimely(event) == event.kind # "status" /\ (now > event.at + 1 \/ faults < MaxFaults)

Timely(event) == event.kind = "status" \/ now <= event.at + 1

ReceiveUsable(event) ==
  /\ CASE event.kind = "status" -> page' = ApplyServerStatus(page, event.state)
       [] event.kind = "quote" -> page' = [page EXCEPT !.seen = "FRESH", !.timer = TRUE, !.pending = TRUE]
       [] event.kind = "bar" -> page' = [page EXCEPT !.bar = event.at]
  /\ chart' = IF event.kind = "bar" THEN Merged(chart, event.at) ELSE chart
  /\ UNCHANGED faults

ReceiveUntimely(event) ==
  /\ page' = Awaiting(page, "STALE", "NONE", FALSE)
  /\ IF now > event.at + 1 THEN UNCHANGED faults ELSE Faulty
  /\ UNCHANGED chart

Receive ==
  /\ socket = "OPEN" /\ wire # <<>>
  /\ wire' = Tail(wire)
  /\ LET event == Head(wire)
     IN \/ Timely(event) /\ ReceiveUsable(event)
        \/ Untimely(event) /\ ReceiveUntimely(event)
  /\ UNCHANGED <<venue, relay, sub, socket>>

\* The quotes of a quarter of a second are shown together.
CommitPendingQuote ==
  /\ page.pending
  /\ page' = [page EXCEPT !.pending = FALSE, !.awaiting = FALSE, !.status = "LIVE"]
  /\ chart' = [chart EXCEPT !.due = @ \/ page.awaiting]
  /\ UNCHANGED <<venue, relay, sub, line, faults>>

\* Five seconds without a quote.  The timer armed by the last one fires.
Age ==
  /\ page.timer \/ page.seen = "FRESH"
  /\ IF page.timer
       THEN /\ Faulty
            /\ page' = [page EXCEPT !.status = "STALE", !.awaiting = TRUE, !.bar = None, !.timer = FALSE,
                                    !.seen = IF @ = "FRESH" THEN "OLD" ELSE @]
       ELSE page' = [page EXCEPT !.seen = "OLD"] /\ UNCHANGED faults
  /\ UNCHANGED <<venue, relay, sub, line, chart>>

\* Mutant: the page takes a closed socket for the end.
CloseForgotten(reason) == socket' = "GONE" /\ page' = Awaiting(page, reason, page.seen, FALSE)

\* onclose: what is shown is cleared and another socket is opened after a delay.
Closed(reason) == socket' = "NONE" /\ page' = Awaiting(page, reason, page.seen, FALSE)

Unsubscribed == queue' = <<>> /\ over' = FALSE /\ boundary' = FALSE /\ wire' = <<>>

Drop ==
  /\ socket # "NONE" /\ Faulty
  /\ Closed("RECONNECTING") /\ Unsubscribed
  /\ UNCHANGED <<venue, relay, chart>>

\* The subscriber that started the clients is told; one that came meanwhile stays.
StartFails ==
  /\ clients = "STARTING" /\ Faulty
  /\ clients' = "NONE" /\ server' = "FAILED" /\ live' = {} /\ route' = {}
  /\ IF socket = "WAITING" THEN Closed("RECONNECTING") /\ Unsubscribed
     ELSE Publish(<<Status("FAILED")>>) /\ UNCHANGED <<line, page>>
  /\ UNCHANGED <<now, notice, chart>>

(***************************************************************************)
(* Time.  A window is read, and the clients are started, within one bar;   *)
(* a market route that is up sends a bar once more when it closes.         *)
(***************************************************************************)

Tick ==
  /\ now < Horizon /\ ~chart.loading /\ clients # "STARTING"
  /\ now' = now + 1
  /\ IF "market" \in route /\ ~Contains(queue, Bar)
       THEN Decode("market", Bar)
       ELSE UNCHANGED <<route, notice, relay, sub, line, page, chart, faults>>

Init ==
  /\ now = 1 /\ route = {} /\ notice = {}
  /\ clients = "NONE" /\ live = {} /\ server = "CONNECTING"
  /\ queue = <<>> /\ over = FALSE /\ boundary = FALSE
  /\ socket = "NONE" /\ wire = <<>>
  /\ page = [status |-> "CONNECTING", awaiting |-> TRUE, pending |-> FALSE, bar |-> None,
             seen |-> "NONE", timer |-> FALSE]
  /\ chart = [due |-> FALSE, loading |-> TRUE, top |-> None, hole |-> FALSE, failed |-> FALSE]
  /\ faults = 0

Relay == Forward \/ Resume \/ Started \/ StartFails \/ \E r \in Routes : Reconnected(r)

Next ==
  \/ SendQuote \/ SendBar \/ \E r \in Routes : Lose(r) \/ Resubscribe(r)
  \/ Relay \/ Connect \/ Drop
  \/ Receive \/ CommitPendingQuote \/ Age \/ Load \/ Show
  \/ Tick

\* The venue keeps sending and its client reconnects; tasks, timers and renders run.
Fairness ==
  /\ SF_vars(SendQuote) /\ SF_vars(SendBar)
  /\ \A r \in Routes : WF_vars(Resubscribe(r)) /\ WF_vars(Reconnected(r))
  /\ WF_vars(Connect) /\ WF_vars(Started) /\ WF_vars(Forward) /\ WF_vars(Resume)
  /\ WF_vars(Receive) /\ WF_vars(CommitPendingQuote) /\ WF_vars(Load) /\ WF_vars(Show)

Spec == Init /\ [][Next]_vars /\ Fairness

\* A page that subscribed while another's start was failing: nobody starts the clients again.
Orphaned == clients = "NONE" /\ socket = "OPEN"

\* A bar missing in the middle of the chart is never taken for the market:
\* the page has dropped its window or will, or the notice that it must is on
\* its way (marketStream.ts awaitingFreshQuote and generation,
\* public_market_stream.py _put).
NoSilentHole ==
  chart.hole =>
    \/ page.awaiting \/ chart.due \/ chart.loading
    \/ notice # {} \/ over
    \/ Contains(queue \o wire, Status("RECONNECTING"))

Restored ==
  page.status = "LIVE" /\ ~chart.hole /\ (chart.top # None \/ chart.failed)

\* Once nothing fails any more, the page is LIVE for good with every bar of its
\* window, or says that the window could not be read.
Recovers == <>[](Orphaned \/ Restored)
=============================================================================
