---------------------------- MODULE EventStream ----------------------------
(***************************************************************************)
(* The event stream, from the row that a transaction appends to what a     *)
(* console page shows: the core numbers the rows, one broadcaster in the   *)
(* web process polls them and copies them into a bounded queue per         *)
(* connection, a connection starts with a replay of what its browser has   *)
(* missed, and an event makes the page ask again for what its topic        *)
(* concerns.  Such a request is answered later, or fails for good.  One    *)
(* query of each page is followed, its overview or its list.               *)
(*                                                                         *)
(* Reads use the connection of the open transaction, so the broadcaster    *)
(* can see a row that is rolled back; the next row then takes its number.  *)
(***************************************************************************)
EXTENDS Naturals, Sequences, FiniteSets, SequencesExt, FiniteSetsExt

CONSTANTS
  Pages,            \* open console pages
  QueueSize,        \* events that a connection's queue holds
  HistorySize,      \* events that the broadcaster remembers
  ReadLimit,        \* rows that the core returns at most
  ConnectionLimit,  \* sse_connection_limit
  Topics,           \* the topics of the rows, by their number
  MaxEvents,        \* bound: rows in the stream
  MaxBreaks,        \* bound: broken connections, web restarts, failed requests and returns
  MaxRollBacks      \* bound: numbers of rows that are rolled back

ASSUME StreamAssumption ==
  /\ IsFiniteSet(Pages)
  /\ {QueueSize, HistorySize, ReadLimit, ConnectionLimit} \subseteq Nat \ {0}
  /\ {MaxEvents, MaxBreaks, MaxRollBacks} \subseteq Nat
  /\ Topics \in [1..MaxEvents -> {"incident", "other"}]

\* What a page asks for: the overview on every event, the list on its topic only.
Queries == {"bootstrap", "incidents"}

VARIABLES
  committed, \* the number of the last row of stream_events that is committed
  oldest,    \* the first row that cleanup has kept
  open,      \* a transaction is open that has appended the next row
  web,       \* the broadcaster
  page,      \* the pages' connections
  view,      \* the query of each page
  lingering, \* broken connections whose slot is not free yet
  breaks,    \* how much of MaxBreaks is spent
  skipped,   \* history: events that a page was not sent since a limit was reached
  reused     \* history: numbers of rows that were rolled back

coreVars == <<committed, open, oldest, reused>>
webVars == <<web, lingering, breaks>>

vars == <<coreVars, webVars, page, view, skipped>>

-----------------------------------------------------------------------------
(* The core.                                                               *)

\* The last row that a read on the shared connection sees.
Visible == IF open THEN committed + 1 ELSE committed

\* The rows from one on, as many as the limit allows.
Rows(first) ==
  [i \in 1..Min({ReadLimit, Max({0, Visible + 1 - first})}) |-> first + i - 1]

\* stream_events_after, with the limit that _rpc_stream_events enforces.
RowsAfter(after) == Rows(Max({after + 1, oldest}))

\* A transaction appends its row; nothing is committed yet.
AppendRow ==
  /\ ~open
  /\ committed < MaxEvents
  /\ open' = TRUE
  /\ UNCHANGED <<committed, oldest, reused, webVars, page, view, skipped>>

Commit ==
  /\ open
  /\ committed' = Visible
  /\ open' = FALSE
  /\ UNCHANGED <<oldest, reused, webVars, page, view, skipped>>

\* A later statement fails or the core dies: the number is free again.
RollBack ==
  /\ open
  /\ Cardinality(reused) < MaxRollBacks
  /\ open' = FALSE
  /\ reused' = reused \cup {Visible}
  /\ UNCHANGED <<committed, oldest, webVars, page, view, skipped>>

\* cleanup deletes rows that have reached the retention period of a year; the
\* broadcaster, which polls twice a second, has seen them long ago.
Expire ==
  /\ ~open
  /\ oldest <= Min({committed, web.cursor})
  /\ oldest' = oldest + 1
  /\ UNCHANGED <<committed, open, reused, webVars, page, view, skipped>>

-----------------------------------------------------------------------------
(* The broadcaster.                                                        *)

\* The connection has a queue.
Subscribed(c) == page[c].state \in {"opening", "streaming"}

\* The core answers the broadcaster's poll.
Poll ==
  /\ web.reply = <<>>
  /\ RowsAfter(web.cursor) # <<>>
  /\ web' = [web EXCEPT !.reply = RowsAfter(web.cursor)]
  /\ UNCHANGED <<coreVars, lingering, breaks, page, view, skipped>>

\* How many events of the answer fit into the queue of a connection.
Room(c) == Min({Len(web.reply), QueueSize - Len(page[c].queue)})

Remembered(events) == SubSeq(events, Max({1, Len(events) + 1 - HistorySize}), Len(events))

\* EventBroadcaster._run with the answer: the cursor, the history and the queues.
Broadcast ==
  LET dropped(c) == {web.reply[i] : i \in (Room(c) + 1)..Len(web.reply)} IN
  /\ web.reply # <<>>
  /\ web' = [cursor |-> Last(web.reply), history |-> Remembered(web.history \o web.reply),
             reply |-> <<>>]
  /\ page' = [c \in Pages |->
       IF Subscribed(c) THEN [page[c] EXCEPT !.queue = @ \o SubSeq(web.reply, 1, Room(c))]
                        ELSE page[c]]
  /\ skipped' = [c \in Pages |->
       IF Subscribed(c) THEN skipped[c] \cup dropped(c) ELSE skipped[c]]
  /\ UNCHANGED <<coreVars, lingering, breaks, view>>

-----------------------------------------------------------------------------
(* A connection, in the web process.                                       *)

Connections == Cardinality({c \in Pages : Subscribed(c)}) + lingering

\* The route counts the connection and subscribes it before anything is replayed;
\* a browser that is refused with 429 does not try again.
Connect(c) ==
  /\ page[c].state = "closed"
  /\ page' = [page EXCEPT ![c].state = IF Connections >= ConnectionLimit
                                       THEN "refused" ELSE "opening"]
  /\ UNCHANGED <<coreVars, webVars, view, skipped>>

\* Where the history, which is ascending, goes on after an event.
Newer(after) == {i \in DOMAIN web.history : web.history[i] > after}
From(first) == SubSeq(web.history, first, Len(web.history))

\* Faulty variant of Cached: whatever the history still holds is replayed.
Cached_Whatever(after) == IF Newer(after) # {} THEN From(Min(Newer(after))) ELSE <<>>

\* What the history holds after an event, if nothing is missing in between.
Cached(after) ==
  IF Newer(after) # {} /\ web.history[Min(Newer(after))] <= after + 1
  THEN From(Min(Newer(after))) ELSE <<>>

\* EventBroadcaster.replay: the history if it reaches back, else what the core
\* returns; cleanup and the read limit leave gaps that nothing closes.
Replay(c) ==
  LET cached == Cached(page[c].last)
      rows == RowsAfter(page[c].last)
      reach == IF rows = <<>> THEN oldest - 1 ELSE Last(rows)
  IN  /\ page[c].state = "opening"
      /\ page' = [page EXCEPT ![c].state = "streaming",
                              ![c].replay = IF cached # <<>> THEN cached ELSE rows]
      /\ skipped' = [skipped EXCEPT ![c] = IF cached # <<>> THEN @
           ELSE @ \cup {id \in 1..Visible : page[c].last < id /\ (id < oldest \/ reach < id)}]
      /\ UNCHANGED <<coreVars, webVars, view>>

\* What an event makes a page ask for again.
Concerned(id) == IF Topics[id] = "incident" THEN Queries ELSE {"bootstrap"}

\* The last change up to a row that shows in what a query returns.
Latest(last, query) == Max({0} \cup {id \in 1..last : query \in Concerned(id)})

\* The first request of a query, which nothing replaces.
FirstLoad(q) == ~q.loaded /\ q.request # "none"

\* Faulty variant of Asked: a request that is under way will do.
Asked_Joins(q) ==
  IF q.request # "none" THEN q
  ELSE [q EXCEPT !.request = "asked", !.missed = FALSE, !.failed = q.loaded /\ q.failed]

\* A query is asked for: a request under way is given up for a new one, unless it
\* is the first.  If there were data before, a failure is shown until they come again.
Asked(q) ==
  IF FirstLoad(q) THEN q
  ELSE [q EXCEPT !.request = "asked", !.answer = 0, !.missed = FALSE,
                 !.failed = q.loaded /\ q.failed]

\* invalidateQueries: an event that comes during the first request does nothing.
Invalidated(q) == IF FirstLoad(q) THEN [q EXCEPT !.missed = TRUE] ELSE Asked(q)

\* An event reaches the browser, which remembers its number, and the page.
Send(c, id, rest) ==
  /\ page' = [page EXCEPT ![c] = [rest EXCEPT !.last = id]]
  /\ view' = [view EXCEPT ![c] = IF @.of \in Concerned(id) THEN Invalidated(@) ELSE @]
  /\ skipped' = [skipped EXCEPT ![c] = @ \ {id}]

SendReplayed(c) ==
  /\ page[c].replay # <<>>
  /\ Send(c, Head(page[c].replay), [page[c] EXCEPT !.replay = Tail(@)])
  /\ UNCHANGED <<coreVars, webVars>>

\* Faulty variant of Known: every queued event is sent.
Known_Never(c, id) == FALSE

\* An event that the replay has already brought.
Known(c, id) == id <= page[c].last

\* The loop of generate, once the replay is done.
SendQueued(c) ==
  LET id == Head(page[c].queue)
      rest == [page[c] EXCEPT !.queue = Tail(@)]
  IN  /\ page[c].state = "streaming"
      /\ page[c].replay = <<>>
      /\ page[c].queue # <<>>
      /\ IF Known(c, id)
         THEN page' = [page EXCEPT ![c] = rest] /\ UNCHANGED <<view, skipped>>
         ELSE Send(c, id, rest)
      /\ UNCHANGED <<coreVars, webVars>>

Break == breaks < MaxBreaks /\ breaks' = breaks + 1

Closed(p) == [p EXCEPT !.state = "closed", !.replay = <<>>, !.queue = <<>>]

\* The connection breaks or its replay fails.  The browser opens another one
\* while the slot of the old one is taken until the web process notices.
Lose(c) ==
  /\ Subscribed(c)
  /\ Break
  /\ page' = [page EXCEPT ![c] = Closed(@)]
  /\ lingering' = lingering + 1
  /\ UNCHANGED <<coreVars, web, view, skipped>>

\* generate ends: its queue is unsubscribed and its slot is free.
Release ==
  /\ lingering > 0
  /\ lingering' = lingering - 1
  /\ UNCHANGED <<coreVars, web, breaks, page, view, skipped>>

\* The web process stops and starts; EventBroadcaster.start takes the number of the
\* last row as its cursor.
Restart ==
  /\ Break
  /\ page' = [c \in Pages |-> IF Subscribed(c) THEN Closed(page[c]) ELSE page[c]]
  /\ lingering' = 0
  /\ web' = [cursor |-> IF oldest > Visible THEN 0 ELSE Visible,
             history |-> <<>>, reply |-> <<>>]
  /\ UNCHANGED <<coreVars, view, skipped>>

-----------------------------------------------------------------------------
(* The requests of a page.                                                 *)

SetView(c, q) ==
  /\ view' = [view EXCEPT ![c] = q]
  /\ UNCHANGED <<coreVars, web, lingering, page, skipped>>

\* Faulty variant of FallBack: a refused page waits for its stream.
FallBack_Closed(c) ==
  /\ page[c].state = "closed"
  /\ view[c].of = "bootstrap" /\ view[c].request = "none"
  /\ SetView(c, Asked(view[c]))
  /\ UNCHANGED breaks

\* A page whose stream is not live asks for its overview every 15 seconds.
FallBack(c) ==
  /\ page[c].state \in {"closed", "refused"}
  /\ view[c].of = "bootstrap" /\ view[c].request = "none"
  /\ SetView(c, Asked(view[c]))
  /\ UNCHANGED breaks

\* The page becomes visible again, the browser is back online, a list is put up
\* again, or the button under an error is pressed.
Return(c) == Break /\ SetView(c, Asked(view[c]))

\* The core reads what a request asks for, in an open transaction too.
Answer(c) ==
  /\ view[c].request = "asked"
  /\ SetView(c, [view[c] EXCEPT !.request = "answered",
                         !.answer = Latest(Visible, view[c].of)])
  /\ UNCHANGED breaks

\* The page gets the answer of the request that it waits for.
Show(c) ==
  /\ view[c].request = "answered"
  /\ SetView(c, [view[c] EXCEPT !.request = "none", !.answer = 0, !.loaded = TRUE,
                         !.shown = view[c].answer, !.failed = FALSE])
  /\ UNCHANGED breaks

\* A request and its two repetitions fail: the page says so instead of its data.
Fail(c) ==
  /\ view[c].request = "asked"
  /\ Break
  /\ SetView(c, [view[c] EXCEPT !.request = "none", !.failed = TRUE])

-----------------------------------------------------------------------------
NewPage == [state |-> "closed", last |-> 0, replay |-> <<>>, queue |-> <<>>]

\* A query is asked for when its page is opened.
NewQuery(query) ==
  [of |-> query, loaded |-> FALSE, shown |-> 0, request |-> "asked", answer |-> 0,
   failed |-> FALSE, missed |-> FALSE]

Init ==
  /\ committed = 0
  /\ open = FALSE
  /\ oldest = 1
  /\ web = [cursor |-> 0, history |-> <<>>, reply |-> <<>>]
  /\ page = [c \in Pages |-> NewPage]
  /\ view \in [Pages -> {NewQuery(query) : query \in Queries}]
  /\ lingering = 0
  /\ breaks = 0
  /\ skipped = [c \in Pages |-> {}]
  /\ reused = {}

Core == AppendRow \/ Commit \/ RollBack \/ Expire

Web ==
  \/ Poll \/ Broadcast \/ Release \/ Restart
  \/ \E c \in Pages : Connect(c) \/ Replay(c) \/ SendReplayed(c) \/ SendQueued(c) \/ Lose(c)

Console == \E c \in Pages : FallBack(c) \/ Return(c) \/ Answer(c) \/ Show(c) \/ Fail(c)

Next == Core \/ Web \/ Console

Spec == Init /\ [][Next]_vars

\* The broadcaster polls for ever, connections are served, and browsers open
\* them again; a request that does not fail is answered.  Nothing has to break.
Fairness ==
  /\ WF_vars(Commit) /\ WF_vars(Poll) /\ WF_vars(Broadcast)
  /\ \A c \in Pages :
       /\ WF_vars(Connect(c)) /\ WF_vars(Replay(c))
       /\ WF_vars(SendReplayed(c)) /\ WF_vars(SendQueued(c))
       /\ WF_vars(FallBack(c))
       /\ WF_vars(Answer(c)) /\ WF_vars(Show(c))

FairSpec == Spec /\ Fairness

-----------------------------------------------------------------------------
(* What should hold.                                                       *)

Page == [state : {"closed", "opening", "streaming", "refused"}, last : Nat,
         replay : Seq(Nat), queue : Seq(Nat)]

View == [of : Queries, loaded : BOOLEAN, shown : Nat,
         request : {"none", "asked", "answered"}, answer : Nat,
         failed : BOOLEAN, missed : BOOLEAN]

\* Every variable keeps its type; queues, history, answers and connections stay
\* within their limits.
TypeOK ==
  /\ committed \in 0..MaxEvents
  /\ open \in BOOLEAN
  /\ oldest \in 1..(committed + 1)
  /\ web \in [cursor : Nat, history : Seq(Nat), reply : Seq(Nat)]
  /\ Len(web.history) <= HistorySize /\ Len(web.reply) <= ReadLimit
  /\ page \in [Pages -> Page]
  /\ \A c \in Pages : Len(page[c].queue) <= QueueSize
  /\ view \in [Pages -> View]
  /\ lingering \in Nat /\ Connections <= ConnectionLimit
  /\ breaks \in 0..MaxBreaks
  /\ skipped \in [Pages -> SUBSET Nat]
  /\ reused \subseteq Nat

\* A browser is sent the events in order, however often it connects again and
\* whatever its replay and its queue have in common (generate).
SentInOrder == [][\A c \in Pages : page[c].last <= page'[c].last]_page

\* An event that a page passes over was dropped by its own full queue or left out
\* of its replay by cleanup or the read limit: neither a reconnection nor a restart
\* of the web process loses anything.  Numbers that were used
\* twice are excepted.
GapsHaveCauses ==
  [][\A c \in Pages : \A id \in (page[c].last + 1)..(page'[c].last - 1) :
       id \in skipped[c] \cup reused]_page

\* The page says that it has no data yet, or that it could not get them.
Admitted(c) == ~view[c].loaded \/ view[c].failed

\* A number was used twice, or the page shows what was rolled back.
Misled(c) == Latest(committed, view[c].of) \in reused \/ view[c].shown > committed

Fresh(c) == view[c].shown = Latest(committed, view[c].of)

\* The queue is full of events that the page has, or gets from its replay.
Clogged(c) ==
  /\ Len(page[c].queue) = QueueSize
  /\ Last(page[c].queue) <= Max({page[c].last} \cup Range(page[c].replay))

\* In the end every overview shows the current state or says that it does not, although
\* queues overflow, replays are cut off, connections break or are refused, and
\* requests fail or are overtaken by the next change: what is left of the stream,
\* or the polling of a page without one, makes the page ask again.  Four cases are
\* excepted: an event during the first request, what is rolled back, a year in
\* which nothing else was appended, and a queue that was full of what the replay brings.
OverviewCatchesUp ==
  \A c \in Pages : view[c].of = "bootstrap" =>
    <>Clogged(c) \/ <>[](\/ Fresh(c) \/ Admitted(c) \/ view[c].missed \/ Misled(c)
                        \/ oldest > committed)

\* So does a list that only its own topic refreshes, unless the page was refused a
\* connection or its last event was skipped.
ListsCatchUp ==
  \A c \in Pages : view[c].of = "incidents" =>
    <>[](\/ Fresh(c) \/ Admitted(c) \/ view[c].missed \/ Misled(c)
         \/ page[c].state = "refused"
         \/ Latest(committed, "incidents") \in skipped[c])
=============================================================================
