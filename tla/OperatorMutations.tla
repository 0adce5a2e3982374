------------------------- MODULE OperatorMutations -------------------------
(***************************************************************************)
(* The mutations of one incident by operators: acknowledge, add a note and *)
(* close.  Each carries the version of the incident the operator looked at *)
(* and an idempotency key, so that a retry is recognised.                   *)
(*                                                                         *)
(* A console page keeps the incident it shows and one key per operation.   *)
(* The core runs one write transaction at a time; waiters for the write    *)
(* lock are served first come first served, and a mutation is finished     *)
(* even when its page has given up.  Reads take no lock: they use the      *)
(* connection of the open transaction and see what it has written.         *)
(*                                                                         *)
(* The version is the only content of an If-Match header, and a key with   *)
(* its request hash the only content of an idempotency record.  An answer  *)
(* carries the incident as a read at the time of its arrival shows it.     *)
(***************************************************************************)
EXTENDS Naturals, Sequences, SequencesExt

CONSTANTS
  Consoles,     \* open pages on the incident
  Engine,       \* the author of the changes that no operator makes
  Used,         \* bound: the operations that operators choose
  MaxNotes,     \* bound: texts that a page submits as notes
  MaxMoves,     \* bound: changes that the engine begins
  MaxTimeouts,  \* bound: requests and refetches that get no answer
  MaxLosses     \* bound: core crashes and transactions that fail

Operations == {"acknowledge", "note", "close"}

ASSUME MutationAssumption ==
  /\ Used \subseteq Operations
  /\ Engine \notin Consoles
  /\ {MaxNotes, MaxMoves, MaxTimeouts, MaxLosses} \subseteq Nat

VARIABLES
  row,       \* the committed row of incidents, with the log of its changes
  records,   \* the committed rows of idempotency_records
  tx,        \* the open write transaction
  requests,  \* mutations that wait for the write lock
  page,      \* the console pages
  moves,     \* how much of MaxMoves is spent
  timeouts,  \* how much of MaxTimeouts is spent
  losses     \* how much of MaxLosses is spent

vars == <<row, records, tx, requests, page, moves, timeouts, losses>>

Active == {"open", "recovering"}

\* Every change has a name: its author and a number; a mutation's is its key.
NoName == <<Engine, 0>>

-----------------------------------------------------------------------------
(* The core.                                                               *)

\* The row a transaction or a read of the shared connection works on.
Visible == IF tx.open THEN tx.row ELSE row

\* Faulty variant of Changed: the version stays.
Changed_SameVersion(r, change) == [r EXCEPT !.log = Append(@, change)]

\* Every change of the row counts its version up.
Changed(r, change) == [r EXCEPT !.version = @ + 1, !.log = Append(@, change)]

NoRequest == [page |-> Engine, op |-> "note", key |-> NoName,
              signature |-> [version |-> 0, body |-> 0], seen |-> NoName, live |-> FALSE]

NoTransaction(r) == [open |-> FALSE, row |-> r, request |-> NoRequest]

\* set_incident_state
Moves == [open |-> {"recovering", "resolved"}, recovering |-> {"open", "resolved"},
          resolved |-> {}, closed |-> {}]

\* A transaction of the engine: an asset is attached or the severity raised, or
\* the state moves.
Move(to) ==
  /\ ~tx.open
  /\ moves < MaxMoves
  /\ to = row.state \/ to \in Moves[row.state]
  /\ moves' = moves + 1
  /\ LET change == [name |-> <<Engine, moves + 1>>, op |-> "move", body |-> 0, seen |-> NoName]
     IN  tx' = [open |-> TRUE, row |-> [Changed(row, change) EXCEPT !.state = to],
                request |-> NoRequest]
  /\ UNCHANGED <<row, records, requests, page, timeouts, losses>>

\* The record that a key has left behind.
Recorded(r) == {record \in records : record.key = r.key /\ record.op = r.op}

\* Faulty variant of Replayed: the record is not looked for.
Replayed_Never(r) == FALSE

\* _idempotency_unlocked
Replayed(r) == Recorded(r) # {}

\* Faulty variant of Current: any version will do.
Current_Any(r) == TRUE

Current(r) == row.version = r.signature.version

Permitted(r) ==
  IF r.op = "close" THEN row.state = "resolved" ELSE row.state \in Active

\* The answer without a write, or "commit".
Verdict(r) ==
  IF Replayed(r)
  THEN IF \E record \in Recorded(r) : record.signature # r.signature
       THEN "key_conflict"
       ELSE "ok"
  ELSE IF Current(r) /\ Permitted(r) THEN "commit"
  ELSE "conflict"

\* The row with the mutation; a second acknowledgement leaves it alone.
Mutated(r) ==
  LET change == [name |-> r.key, op |-> r.op, body |-> r.signature.body, seen |-> r.seen]
  IN  CASE r.op = "acknowledge" -> IF row.acked THEN row
                                   ELSE [Changed(row, change) EXCEPT !.acked = TRUE]
        [] r.op = "note" -> Changed(row, change)
        [] r.op = "close" -> [Changed(row, change) EXCEPT !.state = "closed"]

\* The response of the core for a request whose page still waits for it.
Answer(r, kind) ==
  page' = IF r.live THEN [page EXCEPT ![r.page].answer = kind] ELSE page

\* Faulty variant of Begin: the page is answered before the commit.
Begin_AnswerFirst ==
  LET r == Head(requests) IN
  /\ ~tx.open
  /\ requests # <<>>
  /\ requests' = Tail(requests)
  /\ IF Verdict(r) = "commit"
     THEN /\ tx' = [open |-> TRUE, row |-> Mutated(r), request |-> r]
          /\ Answer(r, "ok")
     ELSE /\ Answer(r, Verdict(r))
          /\ UNCHANGED tx
  /\ UNCHANGED <<row, records, moves, timeouts, losses>>

\* acknowledge, add_note and close_incident up to their commit.
Begin ==
  LET r == Head(requests) IN
  /\ ~tx.open
  /\ requests # <<>>
  /\ requests' = Tail(requests)
  /\ IF Verdict(r) = "commit"
     THEN /\ tx' = [open |-> TRUE, row |-> Mutated(r), request |-> r]
          /\ UNCHANGED page
     ELSE /\ Answer(r, Verdict(r))
          /\ UNCHANGED tx
  /\ UNCHANGED <<row, records, moves, timeouts, losses>>

\* _store_idempotency_unlocked is part of the same transaction.
Commit ==
  /\ tx.open
  /\ row' = tx.row
  /\ tx' = NoTransaction(tx.row)
  /\ LET r == tx.request
     IN  /\ records' = IF r.page = Engine THEN records
                       ELSE records \cup {[op |-> r.op, key |-> r.key, signature |-> r.signature]}
         /\ Answer(r, "ok")
  /\ UNCHANGED <<requests, moves, timeouts, losses>>

Lose == losses < MaxLosses /\ losses' = losses + 1

\* A statement or the commit fails: the transaction is rolled back.
RollBack ==
  /\ tx.open
  /\ Lose
  /\ tx' = NoTransaction(row)
  /\ Answer(tx.request, "error")
  /\ UNCHANGED <<row, records, requests, moves, timeouts>>

\* The core dies: its connections break, and with them every call in flight.
Crash ==
  /\ Lose
  /\ tx' = NoTransaction(row)
  /\ requests' = <<>>
  /\ page' = [c \in Consoles |-> IF page[c].busy # "idle" /\ page[c].answer = "none"
                                 THEN [page[c] EXCEPT !.answer = "error"]
                                 ELSE page[c]]
  /\ UNCHANGED <<row, records, moves, timeouts>>

\* A record is a day old and cleanup deletes it.  One whose key no page holds
\* is never looked for again, so its deletion is left out.
Expire(record) ==
  /\ ~tx.open
  /\ record \in records
  /\ \E c \in Consoles : page[c].keys[record.op].key = record.key
  /\ records' = records \ {record}
  /\ UNCHANGED <<row, tx, requests, page, moves, timeouts, losses>>

-----------------------------------------------------------------------------
(* A console page.                                                         *)

\* What an operator sees of a row; seen names the last change it includes.
Shown(r) ==
  [version |-> r.version, state |-> r.state, acked |-> r.acked,
   seen |-> IF r.log = <<>> THEN NoName ELSE Last(r.log).name]

\* No signature has version 0.
NoEntry == [key |-> NoName, signature |-> [version |-> 0, body |-> 0]]

\* The buttons of IncidentDetailPage.
Offered(c, op) ==
  LET view == page[c].view
  IN  CASE op = "acknowledge" -> view.state \in Active /\ ~view.acked
        [] op = "note" -> view.state \in Active /\ page[c].draft <= MaxNotes
        [] op = "close" -> view.state = "resolved"

Signature(c, op) ==
  [version |-> page[c].view.version, body |-> IF op = "note" THEN page[c].draft ELSE 0]

\* Faulty variant of SameRequest: the body is left out of the signature.
SameRequest_AnyBody(entry, signature) == entry.signature.version = signature.version

\* The key of an operation is kept as long as the request stays the same.
SameRequest(entry, signature) == entry.signature = signature

\* OperationKeyStore.keyFor, and the request.
Submit(c, op) ==
  LET entry == page[c].keys[op]
      signature == Signature(c, op)
      kept == SameRequest(entry, signature)
      key == IF kept THEN entry.key ELSE <<c, page[c].issued + 1>>
  IN  /\ page[c].busy = "idle"
      /\ Offered(c, op)
      /\ page' = [page EXCEPT
           ![c].busy = op,
           ![c].issued = IF kept THEN @ ELSE @ + 1,
           ![c].keys[op] = IF kept THEN @ ELSE [key |-> key, signature |-> signature]]
      /\ requests' = Append(requests, [page |-> c, op |-> op, key |-> key,
           signature |-> signature, seen |-> page[c].view.seen, live |-> TRUE])
      /\ UNCHANGED <<row, records, tx, moves, timeouts, losses>>

\* Nobody waits for the answer to a request of this page any more.
Forget(r, c) == IF r.page = c THEN [r EXCEPT !.live = FALSE] ELSE r

TimeOut == timeouts < MaxTimeouts /\ timeouts' = timeouts + 1

\* The call takes ten seconds or its answer gets lost: the page sees an error,
\* the core still finishes what it has received.
GiveUp(c) ==
  /\ page[c].busy # "idle"
  /\ TimeOut
  /\ page' = [page EXCEPT ![c].busy = "idle", ![c].answer = "none"]
  /\ requests' = [i \in DOMAIN requests |-> Forget(requests[i], c)]
  /\ tx' = [tx EXCEPT !.request = Forget(@, c)]
  /\ UNCHANGED <<row, records, moves, losses>>

\* The request never reaches the core.
Refuse(c) ==
  /\ \E i \in DOMAIN requests :
       /\ requests[i].page = c /\ requests[i].live
       /\ requests' = RemoveAt(requests, i)
  /\ TimeOut
  /\ page' = [page EXCEPT ![c].answer = "error"]
  /\ UNCHANGED <<row, records, tx, moves, losses>>

\* onSuccess: the key is cleared, the answer is shown and the draft is emptied.
Succeed(c) ==
  LET op == page[c].busy IN
  /\ page[c].answer = "ok"
  /\ page' = [page EXCEPT ![c].busy = "idle", ![c].answer = "none", ![c].keys[op] = NoEntry,
                          ![c].draft = IF op = "note" THEN @ + 1 ELSE @,
                          ![c].view = Shown(Visible)]
  /\ UNCHANGED <<row, records, tx, requests, moves, timeouts, losses>>

\* onError with status 409; the refetch may fail or come after the next click.
Conflict(c) ==
  LET op == page[c].busy
      forgotten == [page EXCEPT ![c].busy = "idle", ![c].answer = "none", ![c].keys[op] = NoEntry]
  IN  /\ page[c].answer \in {"conflict", "key_conflict"}
      /\ \/ page' = [forgotten EXCEPT ![c].view = Shown(Visible)] /\ UNCHANGED timeouts
         \/ page' = forgotten /\ TimeOut
      /\ UNCHANGED <<row, records, tx, requests, moves, losses>>

\* Faulty variant of Fail: the buttons stay disabled.
Fail_Busy(c) ==
  /\ page[c].answer = "error"
  /\ page' = [page EXCEPT ![c].answer = "none"]
  /\ UNCHANGED <<row, records, tx, requests, moves, timeouts, losses>>

\* onError with any other status: key and draft stay for a retry.
Fail(c) ==
  /\ page[c].answer = "error"
  /\ page' = [page EXCEPT ![c].busy = "idle", ![c].answer = "none"]
  /\ UNCHANGED <<row, records, tx, requests, moves, timeouts, losses>>

Receive(c) == Succeed(c) \/ Conflict(c) \/ Fail(c)

\* The page becomes visible again, or the browser comes back online.
Refetch(c) ==
  /\ page' = [page EXCEPT ![c].view = Shown(Visible)]
  /\ UNCHANGED <<row, records, tx, requests, moves, timeouts, losses>>

\* The operator writes another text; success empties it all the same.
Edit(c) ==
  /\ page[c].draft < MaxNotes
  /\ page' = [page EXCEPT ![c].draft = @ + 1]
  /\ UNCHANGED <<row, records, tx, requests, moves, timeouts, losses>>

-----------------------------------------------------------------------------
Opened == [version |-> 1, state |-> "open", acked |-> FALSE, log |-> <<>>]

Init ==
  /\ row = Opened
  /\ records = {}
  /\ tx = NoTransaction(Opened)
  /\ requests = <<>>
  /\ page = [c \in Consoles |->
       [view |-> Shown(Opened), keys |-> [op \in Operations |-> NoEntry], issued |-> 0,
        draft |-> 1, busy |-> "idle", answer |-> "none"]]
  /\ moves = 0
  /\ timeouts = 0
  /\ losses = 0

Core ==
  \/ \E to \in {"open", "recovering", "resolved", "closed"} : Move(to)
  \/ Begin
  \/ Commit
  \/ RollBack
  \/ Crash
  \/ \E record \in records : Expire(record)

Console(c) ==
  \/ \E op \in Used : Submit(c, op)
  \/ GiveUp(c)
  \/ Refuse(c)
  \/ Receive(c)
  \/ Refetch(c)
  \/ Edit(c)

Next == Core \/ \E c \in Consoles : Console(c)

Spec == Init /\ [][Next]_vars

\* The core serves its waiters, pages handle their answers, and an operator
\* who has a note to add keeps trying.
Fairness ==
  /\ WF_vars(Begin)
  /\ WF_vars(Commit)
  /\ \A c \in Consoles : WF_vars(Receive(c)) /\ WF_vars(Submit(c, "note"))

FairSpec == Spec /\ Fairness

-----------------------------------------------------------------------------
(* What should hold.                                                       *)

States == Active \cup {"resolved", "closed"}

Names == (Consoles \cup {Engine}) \X Nat

Changes == [name : Names, op : Operations \cup {"move"}, body : Nat, seen : Names]

Rows == [version : Nat, state : States, acked : BOOLEAN, log : Seq(Changes)]

Signatures == [version : Nat, body : Nat]

Requests == [page : Consoles \cup {Engine}, op : Operations, key : Names,
             signature : Signatures, seen : Names, live : BOOLEAN]

Pages ==
  [view : [version : Nat, state : States, acked : BOOLEAN, seen : Names],
   keys : [Operations -> [key : Names, signature : Signatures]],
   issued : Nat, draft : 1..(MaxNotes + 1), busy : Operations \cup {"idle"},
   answer : {"none", "ok", "conflict", "key_conflict", "error"}]

\* Every variable keeps its type, and no page shows an answer it does not wait for.
TypeOK ==
  /\ row \in Rows
  /\ records \subseteq [op : Operations, key : Names, signature : Signatures]
  /\ tx \in [open : BOOLEAN, row : Rows, request : Requests]
  /\ requests \in Seq(Requests)
  /\ page \in [Consoles -> Pages]
  /\ \A c \in Consoles : page[c].answer # "none" => page[c].busy # "idle"
  /\ moves \in 0..MaxMoves
  /\ timeouts \in 0..MaxTimeouts
  /\ losses \in 0..MaxLosses

Applied(name) == \E i \in DOMAIN row.log : row.log[i].name = name

\* The key of the request whose answer a page waits for.
KeyInUse(c) == page[c].keys[page[c].busy].key

\* A key changes the incident at most once, however often its request is sent
\* and even when its record has expired before the retry arrives.
AppliedOnce ==
  \A i, j \in DOMAIN row.log : row.log[i].name = row.log[j].name => i = j

\* An operator changes the incident that the page showed: a mutation directly
\* follows the last change that its operator had seen.  After a transaction was
\* undone this is not so: get_incident may have shown what it wrote, under a
\* version that another change then takes.
ActsOnWhatWasSeen ==
  losses = 0 => \A i \in DOMAIN row.log : row.log[i].op # "move" =>
    row.log[i].seen = IF i = 1 THEN NoName ELSE row.log[i - 1].name

\* A page that reports success has changed the committed incident, or found it
\* acknowledged: neither a crash nor a failed transaction takes it back.
SuccessIsDurable ==
  \A c \in Consoles : page[c].answer = "ok" =>
    Applied(KeyInUse(c)) \/ (page[c].busy = "acknowledge" /\ row.acked)

\* An operator is told of a conflict only if the mutation was not applied, or so
\* long ago that its record has expired.
ConflictIsReal ==
  \A c \in Consoles : page[c].answer = "conflict" /\ Applied(KeyInUse(c)) =>
    \A record \in records : record.key # KeyInUse(c)

\* The console never sends one key with two different requests.
KeysFitRequests == \A c \in Consoles : page[c].answer # "key_conflict"

\* A note that its operator keeps submitting is recorded, unless the text is
\* changed or the incident, or what the page shows of it, stops being active.
NotesLand ==
  \A c \in Consoles : \A n \in 1..MaxNotes :
    page[c].draft = n ~>
      \/ page[c].draft # n
      \/ row.state \notin Active \/ page[c].view.state \notin Active
      \/ \E i \in DOMAIN row.log : row.log[i].op = "note" /\ row.log[i].name[1] = c
                                   /\ row.log[i].body = n
=============================================================================
