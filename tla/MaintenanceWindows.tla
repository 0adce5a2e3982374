------------------------- MODULE MaintenanceWindows -------------------------
(***************************************************************************)
(* The maintenance windows that mute the alerts of an asset: operators     *)
(* create and cancel them from console pages, with an idempotency key for  *)
(* each form or cancellation, and the core runs the requests one at a time.*)
(*                                                                         *)
(* A request whose page has stopped waiting is performed all the same, at  *)
(* any later time; cleanup forgets the records of keys after a day; an     *)
(* asset is retired by the configuration.  The windows are those of one    *)
(* asset; a key stands for the form or the version that it was drawn for.  *)
(***************************************************************************)
EXTENDS Naturals, Sequences, FiniteSetsExt

CONSTANTS
  Consoles,     \* open pages
  MaxForms,     \* bound: forms that a page submits
  MaxTimeouts,  \* bound: requests that get no answer
  MaxFailures,  \* bound: transactions that fail
  MaxRetirals   \* bound: times the asset is retired

ASSUME WindowsAssumption ==
  {MaxForms, MaxTimeouts, MaxFailures, MaxRetirals} \subseteq Nat

VARIABLES
  windows,    \* rows of maintenance_windows, by id
  records,    \* rows of idempotency_records: the window that a key led to
  retired,    \* retired_at of the asset is set
  requests,   \* requests on their way to the core
  page,       \* the pages
  spent,      \* how much of the bounds is spent
  forgotten,  \* history: forms whose records were deleted
  told        \* history: what pages were told of a form or a cancellation

vars == <<windows, records, retired, requests, page, spent, forgotten, told>>

\* A page has one form, and may cancel every window: an operation is Create, or
\* the id of the window to cancel.
Create == 0

-----------------------------------------------------------------------------
(* The core.                                                               *)

\* Faulty variant of Recorded: no key is known.
Recorded_Never(r) == {}

\* _idempotency_unlocked
Recorded(r) == {record \in records : record.key = r.key /\ record.op = r.op}

NewWindow(form) == [form |-> form, cancelled |-> FALSE, version |-> 1, phase |-> "ahead"]

\* Faulty variant of Verdict: the asset is looked up before the key.
Verdict_AssetFirst(r) ==
  IF r.op = Create THEN IF retired THEN "refused" ELSE "ok"
  ELSE IF Recorded(r) # {} THEN "ok"
  ELSE IF windows[r.op].version # r.version THEN "conflict" ELSE "ok"

\* What the core answers.
Verdict(r) ==
  IF Recorded(r) # {} THEN "ok"
  ELSE IF r.op = Create THEN IF retired THEN "refused" ELSE "ok"
  ELSE IF windows[r.op].version # r.version THEN "conflict" ELSE "ok"

\* A window that is cancelled already is left alone.
Cancelled(w) == IF w.cancelled THEN w ELSE [w EXCEPT !.cancelled = TRUE, !.version = @ + 1]

\* create_maintenance and cancel_maintenance: the write and its record.
Write(r) ==
  IF Verdict(r) = "ok" /\ Recorded(r) = {}
  THEN /\ windows' = IF r.op = Create THEN Append(windows, NewWindow(r.form))
                                        ELSE [windows EXCEPT ![r.op] = Cancelled(@)]
       /\ records' = records \cup
            {[key |-> r.key, op |-> r.op, window |-> IF r.op = Create THEN Len(windows) + 1 ELSE r.op]}
  ELSE UNCHANGED <<windows, records>>

-----------------------------------------------------------------------------
(* A page.                                                                 *)

\* The windows that maintenance_list returns are those that are not over.
Listed(list) == {id \in DOMAIN list : list[id].phase # "over"}

\* The key that a page keeps for an operation which has not succeeded.
Held(p, op) == {entry \in page[p].keys : entry.op = op}

Clear(p, op) == [page[p] EXCEPT !.waiting = @ \ {op}, !.keys = @ \ Held(p, op)]

\* Faulty variant of Receive: an error leaves the page busy.
Receive_ErrorUnseen(r, verdict, list) ==
  page' = IF ~r.live \/ verdict = "failed" THEN page
          ELSE [page EXCEPT ![r.page] =
            IF verdict = "ok" THEN Clear(r.page, r.op)
                              ELSE [Clear(r.page, r.op) EXCEPT !.list = list]]

\* The answer: success clears the key, a conflict also loads the list, an error keeps it.
Receive(r, verdict, list) ==
  page' = IF ~r.live THEN page
          ELSE [page EXCEPT ![r.page] =
            CASE verdict = "ok" -> Clear(r.page, r.op)
              [] verdict = "conflict" -> [Clear(r.page, r.op) EXCEPT !.list = list]
              [] OTHER -> [page[r.page] EXCEPT !.waiting = @ \ {r.op}]]

\* A request in full.
Perform(r) ==
  /\ requests' = requests \ {r}
  /\ Write(r)
  /\ Receive(r, Verdict(r), windows')
  /\ told' = IF ~r.live THEN told
             ELSE told \cup {[form |-> r.form, op |-> r.op, verdict |-> Verdict(r)]}
  /\ UNCHANGED <<retired, spent, forgotten>>

\* Its transaction is rolled back.
Fail(r) ==
  /\ spent.failures < MaxFailures
  /\ spent' = [spent EXCEPT !.failures = @ + 1]
  /\ requests' = requests \ {r}
  /\ Receive(r, "failed", windows)
  /\ UNCHANGED <<windows, records, retired, forgotten, told>>

\* Faulty variant of KeyFor: every attempt draws a key.
KeyFor_Fresh(p, op) == <<p, page[p].drawn + 1>>

\* OperationKeyStore.keyFor: what failed is tried again with its key.
KeyFor(p, op) ==
  IF Held(p, op) = {} THEN <<p, page[p].drawn + 1>>
                      ELSE (CHOOSE entry \in Held(p, op) : TRUE).key

Send(p, op, version, form) ==
  LET key == KeyFor(p, op) IN
  /\ requests' = requests \cup
       {[page |-> p, op |-> op, key |-> key, version |-> version, form |-> form, live |-> TRUE]}
  /\ page' = [page EXCEPT ![p].waiting = @ \cup {op},
                          ![p].keys = @ \cup {[op |-> op, key |-> key]},
                          ![p].drawn = Max({@, key[2]}),
                          ![p].form = IF op = Create THEN form ELSE @]
  /\ UNCHANGED <<windows, records, retired, forgotten, told>>

\* A new form is submitted.  One that was edited has another signature.
Submit(p) ==
  /\ Create \notin page[p].waiting
  /\ Held(p, Create) = {}
  /\ spent.forms < MaxForms
  /\ Send(p, Create, 0, spent.forms + 1)
  /\ spent' = [spent EXCEPT !.forms = @ + 1]

\* The form is still there after an error, and is submitted again.
Resubmit(p) ==
  /\ Create \notin page[p].waiting
  /\ Held(p, Create) # {}
  /\ Send(p, Create, 0, page[p].form)
  /\ UNCHANGED spent

\* The form that has failed is edited: its signature and with it its key change.
Edit(p) ==
  /\ Create \notin page[p].waiting
  /\ Held(p, Create) # {}
  /\ page' = [page EXCEPT ![p].keys = @ \ Held(p, Create)]
  /\ UNCHANGED <<windows, records, retired, requests, spent, forgotten, told>>

\* The button of a window that the list shows as not cancelled; one at a time.
Cancel(p, id) ==
  /\ page[p].waiting \subseteq {Create}
  /\ id \in Listed(page[p].list)
  /\ ~page[p].list[id].cancelled
  /\ Send(p, id, page[p].list[id].version, 0)
  /\ UNCHANGED spent

\* The page gets no answer in time, or none at all.
TimeOut(p, op) ==
  /\ spent.timeouts < MaxTimeouts
  /\ spent' = [spent EXCEPT !.timeouts = @ + 1]
  /\ page' = [page EXCEPT ![p].waiting = @ \ {op}]
  /\ requests' = {IF r.page = p /\ r.op = op THEN [r EXCEPT !.live = FALSE] ELSE r : r \in requests}
  /\ UNCHANGED <<windows, records, retired, forgotten, told>>

\* The list is read again, at an event of the stream or after a success.
Fetch(p) ==
  /\ page' = [page EXCEPT ![p].list = windows]
  /\ UNCHANGED <<windows, records, retired, requests, spent, forgotten, told>>

-----------------------------------------------------------------------------
(* Time.                                                                   *)

\* A window starts or ends; cancelled or not, its row stays.
Pass(id) ==
  /\ windows[id].phase # "over"
  /\ windows' = [windows EXCEPT ![id].phase = IF @ = "ahead" THEN "on" ELSE "over"]
  /\ UNCHANGED <<records, retired, requests, page, spent, forgotten, told>>

\* cleanup deletes a record that is more than a day old.
Forget(record) ==
  /\ records' = records \ {record}
  /\ forgotten' = IF record.op = Create THEN forgotten \cup {windows[record.window].form}
                                           ELSE forgotten
  /\ UNCHANGED <<windows, retired, requests, page, spent, told>>

\* The core restarts with a configuration without the asset, or with it again.
Configure ==
  /\ retired \/ spent.retirals < MaxRetirals
  /\ retired' = ~retired
  /\ spent' = [spent EXCEPT !.retirals = IF retired THEN @ ELSE @ + 1]
  /\ UNCHANGED <<windows, records, requests, page, forgotten, told>>

\* _is_maintenance_active_unlocked
Mutes(w) == ~w.cancelled /\ w.phase = "on"

-----------------------------------------------------------------------------
Init ==
  /\ windows = <<>>
  /\ records = {}
  /\ retired = FALSE
  /\ requests = {}
  /\ page = [p \in Consoles |-> [waiting |-> {}, drawn |-> 0, form |-> 0,
                                 list |-> <<>>, keys |-> {}]]
  /\ spent = [forms |-> 0, timeouts |-> 0, failures |-> 0, retirals |-> 0]
  /\ forgotten = {}
  /\ told = {}

Next ==
  \/ \E r \in requests : Perform(r) \/ Fail(r)
  \/ \E p \in Consoles :
       \/ Submit(p) \/ Resubmit(p) \/ Edit(p) \/ Fetch(p)
       \/ \E op \in page[p].waiting : TimeOut(p, op)
       \/ \E id \in DOMAIN page[p].list : Cancel(p, id)
  \/ \E id \in DOMAIN windows : Pass(id)
  \/ \E record \in records : Forget(record)
  \/ Configure

Spec == Init /\ [][Next]_vars

\* The windows there can be: a form is sent again only after a request that got no
\* answer.
Ids == 1..(MaxForms + MaxTimeouts)

\* The write lock is handed over in the order of arrival, so no request waits for
\* ever; the lists are read again and an operator presses every button that cancels.
Fairness ==
  \A p \in Consoles :
    /\ WF_vars(Fetch(p))
    /\ \A op \in {Create} \cup Ids :
         WF_vars(\E r \in requests : r.page = p /\ r.op = op /\ Perform(r))
    /\ \A id \in Ids : WF_vars(id \in DOMAIN page[p].list /\ Cancel(p, id))

FairSpec == Spec /\ Fairness

-----------------------------------------------------------------------------
(* What should hold.                                                       *)

Keys == Consoles \X Nat
Window == [form : Nat, cancelled : BOOLEAN, version : Nat, phase : {"ahead", "on", "over"}]

\* Every variable keeps its type; a key has one record.
TypeOK ==
  /\ windows \in Seq(Window)
  /\ records \subseteq [key : Keys, op : Nat, window : DOMAIN windows]
  /\ \A one, other \in records : one.key = other.key => one = other
  /\ requests \subseteq [page : Consoles, op : Nat, key : Keys, version : Nat,
                         form : Nat, live : BOOLEAN]
  /\ retired \in BOOLEAN
  /\ page \in [Consoles -> [waiting : SUBSET Nat, drawn : Nat, form : Nat,
                            list : Seq(Window), keys : SUBSET [op : Nat, key : Keys]]]
  /\ spent \in [forms : Nat, timeouts : Nat, failures : Nat, retirals : Nat]
  /\ forgotten \subseteq Nat
  /\ told \subseteq [form : Nat, op : Nat, verdict : {"ok", "refused", "conflict"}]

\* A form that is submitted again after an error, or whose first request arrives
\* after its retry, leads to one window (create_maintenance), unless the record of
\* its key was deleted in between: no retry may follow after a day.
OneWindowPerForm ==
  \A i, j \in DOMAIN windows :
    i # j /\ windows[i].form = windows[j].form => windows[i].form \in forgotten

\* Nor is a form refused that a window exists for already, although its asset may
\* have been retired since then: the record is looked up before the asset.
NotRefusedOnceCreated ==
  [][\A t \in told' \ told : t.op = Create /\ t.verdict = "refused" =>
       \A id \in DOMAIN windows : windows[id].form # t.form \/ t.form \in forgotten]_vars

\* An operator who was told that a window is cancelled will not find it muting
\* alerts, nor a copy of it that a late request has made.
CancelledStaysQuiet ==
  \A t \in told : t.op # Create /\ t.verdict = "ok" =>
    \A id \in DOMAIN windows :
      windows[id].form = windows[t.op].form /\ Mutes(windows[id]) => windows[id].form \in forgotten

\* An operator who keeps pressing Cancel gets every window cancelled, through
\* errors and lost answers.
CancelLands == <>[](\A id \in DOMAIN windows : windows[id].cancelled \/ windows[id].phase = "over")
=============================================================================
