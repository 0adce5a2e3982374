---------------------- MODULE MaintenanceWindowsProofs ----------------------
(***************************************************************************)
(* Proofs of the safety properties of MaintenanceWindows, for any pages,   *)
(* forms, timeouts, failures and retirements.                              *)
(*                                                                         *)
(* The invariant follows the keys: wherever a key is, in a request, on a   *)
(* page or in a record, it is used for one operation and one form, and a   *)
(* form is used with one key (OneUsePerKey).  So a second request of a     *)
(* form finds the record of the first, unless it was deleted.              *)
(***************************************************************************)
EXTENDS MaintenanceWindows, TLAPS

-----------------------------------------------------------------------------
(* The inductive invariant.                                                *)

\* What a key is used for; which window is cancelled says the operation.
Use(key, op, form) == [key |-> key, op |-> op, form |-> IF op = Create THEN form ELSE 0]

UseOfEntry(p, entry) == Use(entry.key, entry.op, page[p].form)
UseOfRecord(record) == Use(record.key, record.op, windows[record.window].form)

Uses ==
  {Use(r.key, r.op, r.form) : r \in requests}
    \cup (UNION {{UseOfEntry(p, entry) : entry \in page[p].keys} : p \in Consoles})
    \cup {UseOfRecord(record) : record \in records}

OneUsePerKey ==
  \A use, other \in Uses :
    \/ use = other
    \/ use.key # other.key /\ (use.op = Create /\ other.op = Create => use.form # other.form)

\* What is used has been drawn.
UsesIssued ==
  \A use \in Uses :
    /\ use.key \in Keys /\ use.key[2] \in 1..page[use.key[1]].drawn
    /\ use.op = Create => use.form \in 1..spent.forms

HeldOnce ==
  \A p \in Consoles : \A entry, other \in page[p].keys :
    entry.key[1] = p /\ (entry.op = other.op => entry = other)

ListsLag == \A p \in Consoles : Len(page[p].list) <= Len(windows)

IdsExist ==
  /\ \A r \in requests : r.op # Create => r.op \in DOMAIN windows
  /\ \A record \in records : record.op # Create => record.op \in DOMAIN windows
  /\ \A t \in told : t.op # Create => t.op \in DOMAIN windows

\* A window has the record of the form that created it.
WindowsRecorded ==
  \A id \in DOMAIN windows :
    \/ windows[id].form \in forgotten
    \/ \E record \in records : record.op = Create /\ record.window = id

CancelsDone ==
  /\ \A record \in records : record.op # Create => windows[record.op].cancelled
  /\ \A t \in told : t.op # Create /\ t.verdict = "ok" => windows[t.op].cancelled

IInv ==
  /\ TypeOK /\ OneUsePerKey /\ UsesIssued /\ HeldOnce
  /\ ListsLag /\ IdsExist /\ WindowsRecorded /\ OneWindowPerForm /\ CancelsDone

-----------------------------------------------------------------------------
(* Types.                                                                  *)

Request == [page : Consoles, op : Nat, key : Keys, version : Nat, form : Nat, live : BOOLEAN]
Page == [waiting : SUBSET Nat, drawn : Nat, form : Nat, list : Seq(Window),
         keys : SUBSET [op : Nat, key : Keys]]
Spent == [forms : Nat, timeouts : Nat, failures : Nat, retirals : Nat]

LEMMA MaxOfTwo ==
  ASSUME NEW a \in Nat, NEW b \in Nat
  PROVE  Max({a, b}) = IF a <= b THEN b ELSE a
BY DEF Max

\* What the types say of the rows of windows.
LEMMA WindowsTyped ==
  ASSUME TypeOK
  PROVE  /\ windows \in Seq(Window) /\ Len(windows) \in Nat /\ DOMAIN windows = 1..Len(windows)
         /\ \A id \in DOMAIN windows : windows[id] \in Window
BY DEF TypeOK

\* The uses after a step, one kind at a time.
LEMMA UsesAfter ==
  ASSUME NEW use \in Uses'
  PROVE  \/ \E r \in requests' : use = Use(r.key, r.op, r.form)
         \/ \E p \in Consoles : \E entry \in page'[p].keys :
              use = Use(entry.key, entry.op, page'[p].form)
         \/ \E record \in records' :
              use = Use(record.key, record.op, windows'[record.window].form)
BY DEF Uses, UseOfEntry, UseOfRecord

LEMMA EntriesAreUses ==
  \A p \in Consoles : \A entry \in page[p].keys :
    Use(entry.key, entry.op, page[p].form) \in Uses
<1> SUFFICES ASSUME NEW p \in Consoles, NEW entry \in page[p].keys
             PROVE  Use(entry.key, entry.op, page[p].form) \in Uses
  OBVIOUS
<1>1. UseOfEntry(p, entry) \in UNION {{UseOfEntry(q, e) : e \in page[q].keys} : q \in Consoles}
  OBVIOUS
<1> QED
  BY <1>1 DEF Uses, UseOfEntry

LEMMA UsesShrink ==
  ASSUME OneUsePerKey, UsesIssued, TypeOK,
         \A r \in requests' : \E q \in requests : q.key = r.key /\ q.op = r.op /\ q.form = r.form,
         \A p \in Consoles : /\ page'[p].keys \subseteq page[p].keys
                             /\ page'[p].form = page[p].form /\ page'[p].drawn = page[p].drawn,
         \A record \in records' : UseOfRecord(record)' \in Uses,
         spent'.forms = spent.forms
  PROVE  OneUsePerKey' /\ UsesIssued'
<1>1. Uses' \subseteq Uses
  <2> SUFFICES ASSUME NEW use \in Uses' PROVE use \in Uses
    OBVIOUS
  <2>1. CASE \E r \in requests' : use = Use(r.key, r.op, r.form)
    BY <2>1 DEF Uses
  <2>2. CASE \E p \in Consoles : \E entry \in page'[p].keys :
               use = Use(entry.key, entry.op, page'[p].form)
    BY <2>2, EntriesAreUses
  <2>3. CASE \E record \in records' :
               use = Use(record.key, record.op, windows'[record.window].form)
    BY <2>3 DEF UseOfRecord
  <2> QED
    BY <2>1, <2>2, <2>3, UsesAfter
<1>2. OneUsePerKey'
  BY <1>1 DEF OneUsePerKey
<1>3. UsesIssued'
  <2> SUFFICES ASSUME NEW use \in Uses'
               PROVE  /\ use.key \in Keys /\ use.key[2] \in 1..page'[use.key[1]].drawn
                      /\ use.op = Create => use.form \in 1..spent'.forms
    BY DEF UsesIssued
  <2>1. use \in Uses /\ use.key[1] \in Consoles
    BY <1>1 DEF UsesIssued, Keys
  <2> QED
    BY <2>1 DEF UsesIssued
<1> QED
  BY <1>2, <1>3

-----------------------------------------------------------------------------
(* The core.                                                               *)

LEMMA RequestTyped ==
  ASSUME TypeOK, IdsExist, NEW r \in requests
  PROVE  /\ r \in Request /\ (r.op # Create => r.op \in DOMAIN windows)
         /\ Use(r.key, r.op, r.form) \in Uses
BY DEF TypeOK, IdsExist, Request, Uses

\* An answer clears the key or keeps it, and may bring a list.
LEMMA ReceiveKeeps ==
  ASSUME TypeOK, NEW r \in requests, NEW verdict, NEW list \in Seq(Window),
         Receive(r, verdict, list)
  PROVE  /\ page' \in [Consoles -> Page]
         /\ \A p \in Consoles : /\ page'[p].keys \subseteq page[p].keys
                                /\ page'[p].form = page[p].form
                                /\ page'[p].drawn = page[p].drawn
                                /\ page'[p].list \in {page[p].list, list}
<1>1. r.page \in Consoles /\ page \in [Consoles -> Page]
  BY DEF TypeOK, Page
<1> DEFINE clear == Clear(r.page, r.op)
<1>2. /\ clear \in Page /\ clear.keys \subseteq page[r.page].keys
      /\ clear.form = page[r.page].form /\ clear.drawn = page[r.page].drawn
      /\ clear.list = page[r.page].list
  BY <1>1 DEF Clear, Page
<1> HIDE DEF clear
<1>3. CASE ~r.live
  BY <1>1, <1>3 DEF Receive
<1>4. CASE r.live /\ verdict = "ok"
  <2>1. page' = [page EXCEPT ![r.page] = clear]
    BY <1>4 DEF Receive, clear
  <2> QED
    BY <1>1, <1>2, <2>1
<1>5. CASE r.live /\ verdict = "conflict"
  <2>1. page' = [page EXCEPT ![r.page] = [clear EXCEPT !.list = list]]
    BY <1>5 DEF Receive, clear
  <2> QED
    BY <1>1, <1>2, <2>1 DEF Page
<1>6. CASE r.live /\ verdict \notin {"ok", "conflict"}
  <2>1. page' = [page EXCEPT ![r.page] = [page[r.page] EXCEPT !.waiting = @ \ {r.op}]]
    BY <1>6 DEF Receive
  <2> QED
    BY <1>1, <2>1 DEF Page
<1> QED
  BY <1>3, <1>4, <1>5, <1>6

\* What is recorded was done by the same use of the key.
LEMMA RecordedUses ==
  ASSUME IInv, NEW r \in requests, NEW record \in records
  PROVE  /\ record.key = r.key => record \in Recorded(r)
         /\ r.op = Create /\ record.op = Create /\ windows[record.window].form = r.form
              => record \in Recorded(r)
<1>1. Use(r.key, r.op, r.form) \in Uses
  BY RequestTyped DEF IInv
<1>2. UseOfRecord(record) \in Uses
  BY DEF Uses
<1> QED
  BY <1>1, <1>2 DEF IInv, OneUsePerKey, Use, UseOfRecord, Recorded

\* A form that has no record has no window, unless its record was deleted.
LEMMA UnrecordedIsNew ==
  ASSUME IInv, NEW r \in requests, r.op = Create, Recorded(r) = {}
  PROVE  \A id \in DOMAIN windows : windows[id].form # r.form \/ r.form \in forgotten
<1> SUFFICES ASSUME NEW id \in DOMAIN windows, windows[id].form = r.form, r.form \notin forgotten
             PROVE  FALSE
  OBVIOUS
<1>1. PICK record \in records : record.op = Create /\ record.window = id
  BY DEF IInv, WindowsRecorded
<1> QED
  BY <1>1, RecordedUses

LEMMA CancelledTyped ==
  ASSUME NEW w \in Window
  PROVE  Cancelled(w) \in Window /\ Cancelled(w).cancelled /\ Cancelled(w).form = w.form
<1>1. CASE w.cancelled
  BY <1>1 DEF Cancelled
<1>2. CASE ~w.cancelled
  <2>1. Cancelled(w) = [w EXCEPT !.cancelled = TRUE, !.version = w.version + 1]
    BY <1>2 DEF Cancelled
  <2>2. w.version + 1 \in Nat
    BY DEF Window
  <2> QED
    BY <2>1, <2>2 DEF Window
<1> QED
  BY <1>1, <1>2

\* What a write does to the windows: they keep their forms and remain cancelled.
LEMMA WriteKeeps ==
  ASSUME IInv, NEW r \in requests, Write(r)
  PROVE  /\ windows' \in Seq(Window) /\ Len(windows) <= Len(windows')
         /\ DOMAIN windows \subseteq DOMAIN windows'
         /\ \A id \in DOMAIN windows : /\ windows'[id].form = windows[id].form
                                       /\ windows[id].cancelled => windows'[id].cancelled
         /\ Verdict(r) # "ok" \/ Recorded(r) # {} => UNCHANGED <<windows, records>>
         /\ r.op # Create /\ Verdict(r) = "ok" => windows'[r.op].cancelled
<1>1. /\ windows \in Seq(Window) /\ Len(windows) \in Nat /\ DOMAIN windows = 1..Len(windows)
      /\ \A id \in DOMAIN windows : windows[id] \in Window
  BY WindowsTyped DEF IInv
<1>2. r \in Request /\ (r.op # Create => r.op \in DOMAIN windows)
  BY RequestTyped DEF IInv
<1>3. CASE Verdict(r) # "ok" \/ Recorded(r) # {}
  <2>1. UNCHANGED <<windows, records>>
    BY <1>3 DEF Write
  <2>2. r.op # Create /\ Recorded(r) # {} => windows[r.op].cancelled
    BY DEF Recorded, IInv, CancelsDone
  <2> QED
    BY <1>1, <1>3, <2>1, <2>2
<1>4. CASE Verdict(r) = "ok" /\ Recorded(r) = {} /\ r.op = Create
  <2>1. windows' = Append(windows, NewWindow(r.form)) /\ NewWindow(r.form) \in Window
    BY <1>2, <1>4 DEF Write, NewWindow, Window, Request
  <2> QED
    BY <1>1, <1>4, <2>1
<1>5. CASE Verdict(r) = "ok" /\ Recorded(r) = {} /\ r.op # Create
  <2>1. windows' = [windows EXCEPT ![r.op] = Cancelled(windows[r.op])]
    BY <1>5 DEF Write
  <2>2. /\ Cancelled(windows[r.op]) \in Window /\ Cancelled(windows[r.op]).cancelled
        /\ Cancelled(windows[r.op]).form = windows[r.op].form
    BY <1>1, <1>2, <1>5, CancelledTyped
  <2> QED
    BY <1>1, <1>2, <1>5, <2>1, <2>2
<1> QED
  BY <1>3, <1>4, <1>5

\* The record that a write adds, and the window it leads to.
LEMMA WriteRecords ==
  ASSUME IInv, NEW r \in requests, Write(r), Verdict(r) = "ok", Recorded(r) = {}
  PROVE  \E record :
           /\ records' = records \cup {record}
           /\ record \in [key : Keys, op : Nat, window : DOMAIN windows']
           /\ record.key = r.key /\ record.op = r.op
           /\ r.op = Create => /\ record.window = Len(windows) + 1
                               /\ DOMAIN windows' = DOMAIN windows \cup {record.window}
                               /\ windows'[record.window].form = r.form
           /\ r.op # Create => DOMAIN windows' = DOMAIN windows
<1> DEFINE record == [key |-> r.key, op |-> r.op,
                      window |-> IF r.op = Create THEN Len(windows) + 1 ELSE r.op]
<1>1. /\ windows \in Seq(Window) /\ Len(windows) \in Nat /\ DOMAIN windows = 1..Len(windows)
  BY WindowsTyped DEF IInv
<1>2. r \in Request /\ (r.op # Create => r.op \in DOMAIN windows)
  BY RequestTyped DEF IInv
<1>3. records' = records \cup {record}
  BY DEF Write
<1>4. CASE r.op = Create
  <2>1. windows' = Append(windows, NewWindow(r.form))
    BY <1>4 DEF Write
  <2>2. /\ DOMAIN windows' = DOMAIN windows \cup {Len(windows) + 1}
        /\ windows'[Len(windows) + 1].form = r.form
    BY <1>1, <2>1 DEF NewWindow
  <2>3. record.window = Len(windows) + 1 /\ record.key = r.key /\ record.op = r.op
    BY <1>4
  <2>4. record \in [key : Keys, op : Nat, window : DOMAIN windows']
    BY <1>2, <1>4, <2>2 DEF Request
  <2> HIDE DEF record
  <2> QED
    BY <1>3, <1>4, <2>2, <2>3, <2>4
<1>5. CASE r.op # Create
  <2>1. DOMAIN windows' = DOMAIN windows
    BY <1>1, <1>5 DEF Write
  <2> QED
    BY <1>2, <1>3, <1>5, <2>1 DEF Request
<1> QED
  BY <1>4, <1>5

\* A recorded verdict is "ok", and so is one that writes; others change no row.
LEMMA PerformKeeps ==
  ASSUME IInv, NEW r \in requests, Perform(r)
  PROVE  IInv'
<1> DEFINE verdict == Verdict(r)
<1> DEFINE answer == [form |-> r.form, op |-> r.op, verdict |-> verdict]
<1> DEFINE wrote == verdict = "ok" /\ Recorded(r) = {}
<1>1. /\ requests' = requests \ {r} /\ Write(r) /\ Receive(r, verdict, windows')
      /\ told' \in {told, told \cup {answer}}
      /\ UNCHANGED <<retired, spent, forgotten>>
  BY DEF Perform
<1>2. /\ r \in Request /\ (r.op # Create => r.op \in DOMAIN windows)
      /\ Use(r.key, r.op, r.form) \in Uses
  BY RequestTyped DEF IInv
<1>3. verdict \in {"ok", "refused", "conflict"}
  BY DEF Verdict
<1>4. answer \in [form : Nat, op : Nat, verdict : {"ok", "refused", "conflict"}]
      /\ answer.op = r.op /\ answer.verdict = verdict
  BY <1>2, <1>3 DEF Request
<1>5. /\ windows' \in Seq(Window) /\ Len(windows) <= Len(windows')
      /\ DOMAIN windows \subseteq DOMAIN windows'
      /\ \A id \in DOMAIN windows : /\ windows'[id].form = windows[id].form
                                    /\ windows[id].cancelled => windows'[id].cancelled
      /\ ~wrote => UNCHANGED <<windows, records>>
      /\ r.op # Create /\ verdict = "ok" => windows'[r.op].cancelled
  BY <1>1, WriteKeeps
<1>6. /\ page' \in [Consoles -> Page]
      /\ \A p \in Consoles : /\ page'[p].keys \subseteq page[p].keys
                             /\ page'[p].form = page[p].form
                             /\ page'[p].drawn = page[p].drawn
                             /\ page'[p].list \in {page[p].list, windows'}
  BY <1>1, <1>5, ReceiveKeeps DEF IInv
<1>7. wrote => \E record :
        /\ records' = records \cup {record}
        /\ record \in [key : Keys, op : Nat, window : DOMAIN windows']
        /\ record.key = r.key /\ record.op = r.op
        /\ r.op = Create => /\ record.window = Len(windows) + 1
                            /\ DOMAIN windows' = DOMAIN windows \cup {record.window}
                            /\ windows'[record.window].form = r.form
        /\ r.op # Create => DOMAIN windows' = DOMAIN windows
  BY <1>1, WriteRecords
<1> HIDE DEF verdict, answer
<1>8. /\ records \subseteq [key : Keys, op : Nat, window : DOMAIN windows]
      /\ \A record \in records : record.window \in DOMAIN windows'
  BY <1>5 DEF IInv, TypeOK
<1>9. TypeOK'
  <2>1. records' \subseteq [key : Keys, op : Nat, window : DOMAIN windows']
    BY <1>5, <1>7, <1>8
  <2>2. ASSUME NEW one \in records', NEW other \in records', one.key = other.key
        PROVE  one = other
    <3>1. \A record \in records : wrote => record.key # r.key
      BY RecordedUses
    <3>2. CASE wrote
      <4>1. PICK new : records' = records \cup {new} /\ new.key = r.key
        BY <1>7, <3>2
      <4>2. \A record \in records : record.key # r.key
        BY <3>1, <3>2
      <4> QED
        BY <2>2, <4>1, <4>2 DEF IInv, TypeOK
    <3>3. CASE ~wrote
      BY <1>5, <2>2, <3>3 DEF IInv, TypeOK
    <3> QED
      BY <3>2, <3>3
  <2> QED
    BY <1>1, <1>4, <1>5, <1>6, <2>1, <2>2 DEF IInv, TypeOK, Page
<1>10. OneUsePerKey' /\ UsesIssued'
  <2>1. ASSUME NEW record \in records' PROVE UseOfRecord(record)' \in Uses
    <3>1. CASE record \in records
      <4>1. UseOfRecord(record)' = UseOfRecord(record)
        BY <1>5, <1>8, <3>1 DEF UseOfRecord
      <4> QED
        BY <3>1, <4>1 DEF Uses
    <3>2. CASE record \notin records
      <4>1. UseOfRecord(record)' = Use(r.key, r.op, r.form)
        BY <1>5, <1>7, <2>1, <3>2 DEF UseOfRecord, Use
      <4> QED
        BY <1>2, <4>1
    <3> QED
      BY <3>1, <3>2
  <2> QED
    BY <1>1, <1>6, <2>1, UsesShrink DEF IInv
<1>11. HeldOnce'
  BY <1>6 DEF IInv, HeldOnce
<1>12. ListsLag'
  <2>1. /\ Len(windows) \in Nat /\ Len(windows') \in Nat
        /\ \A p \in Consoles : Len(page[p].list) \in Nat
    BY <1>5, WindowsTyped DEF IInv, TypeOK
  <2> QED
    BY <1>5, <1>6, <2>1 DEF IInv, ListsLag
<1>13. IdsExist'
  BY <1>1, <1>2, <1>4, <1>5, <1>7 DEF IInv, IdsExist
<1>14. WindowsRecorded'
  BY <1>1, <1>5, <1>7 DEF IInv, WindowsRecorded
<1>15. OneWindowPerForm'
  <2>1. CASE wrote /\ r.op = Create
    <3>1. \A id \in DOMAIN windows : windows[id].form # r.form \/ r.form \in forgotten
      BY <2>1, UnrecordedIsNew
    <3>2. PICK new : DOMAIN windows' = DOMAIN windows \cup {new} /\ windows'[new].form = r.form
      BY <1>7, <2>1
    <3>3. \A id \in DOMAIN windows : windows'[id].form = windows[id].form
      BY <1>5
    <3>4. forgotten' = forgotten
      BY <1>1
    <3> QED
      BY <3>1, <3>2, <3>3, <3>4 DEF IInv, OneWindowPerForm
  <2>2. CASE ~(wrote /\ r.op = Create)
    <3>1. DOMAIN windows' = DOMAIN windows
      BY <1>5, <1>7, <2>2
    <3> QED
      BY <1>1, <1>5, <3>1 DEF IInv, OneWindowPerForm
  <2> QED
    BY <2>1, <2>2
<1>16. CancelsDone'
  <2>1. /\ \A record \in records : record.op # Create => record.op \in DOMAIN windows
        /\ \A t \in told : t.op # Create => t.op \in DOMAIN windows
    BY DEF IInv, IdsExist
  <2> QED
    BY <1>1, <1>4, <1>5, <1>7, <2>1 DEF IInv, CancelsDone
<1> QED
  BY <1>9, <1>10, <1>11, <1>12, <1>13, <1>14, <1>15, <1>16 DEF IInv

\* The rows and the answers do not change.
LEMMA RowsUntouched ==
  ASSUME IInv, UNCHANGED <<windows, records, forgotten, told>>,
         \A r \in requests' : \E q \in requests : q.op = r.op
  PROVE  IdsExist' /\ WindowsRecorded' /\ OneWindowPerForm' /\ CancelsDone'
BY DEF IInv, IdsExist, WindowsRecorded, OneWindowPerForm, CancelsDone

LEMMA SpentTyped ==
  ASSUME IInv
  PROVE  /\ [spent EXCEPT !.failures = @ + 1] \in Spent
         /\ [spent EXCEPT !.timeouts = @ + 1] \in Spent
         /\ [spent EXCEPT !.retirals = IF retired THEN @ ELSE @ + 1] \in Spent
         /\ [spent EXCEPT !.retirals = IF retired THEN @ ELSE @ + 1].forms = spent.forms
<1>1. spent \in Spent
  BY DEF IInv, TypeOK, Spent
<1>2. spent.failures + 1 \in Nat /\ spent.timeouts + 1 \in Nat /\ spent.retirals + 1 \in Nat
  BY <1>1 DEF Spent
<1> QED
  BY <1>1, <1>2 DEF Spent

LEMMA FailKeeps ==
  ASSUME IInv, NEW r \in requests, Fail(r)
  PROVE  IInv'
<1>1. /\ requests' = requests \ {r} /\ Receive(r, "failed", windows)
      /\ spent' = [spent EXCEPT !.failures = @ + 1]
      /\ UNCHANGED <<windows, records, retired, forgotten, told>>
  BY DEF Fail
<1>2. /\ page' \in [Consoles -> Page]
      /\ \A p \in Consoles : /\ page'[p].keys \subseteq page[p].keys
                             /\ page'[p].form = page[p].form
                             /\ page'[p].drawn = page[p].drawn
                             /\ page'[p].list \in {page[p].list, windows}
  BY <1>1, WindowsTyped, ReceiveKeeps DEF IInv
<1>3. TypeOK'
  <2>1. spent' \in Spent
    BY <1>1, SpentTyped
  <2> QED
    BY <1>1, <1>2, <2>1 DEF IInv, TypeOK, Page, Spent
<1>4. OneUsePerKey' /\ UsesIssued'
  <2>1. \A record \in records' : UseOfRecord(record)' \in Uses
    BY <1>1 DEF UseOfRecord, Uses
  <2> QED
    BY <1>1, <1>2, <2>1, UsesShrink DEF IInv, TypeOK
<1>5. HeldOnce' /\ ListsLag'
  BY <1>1, <1>2, WindowsTyped DEF IInv, HeldOnce, ListsLag
<1> QED
  BY <1>1, <1>3, <1>4, <1>5, RowsUntouched DEF IInv

-----------------------------------------------------------------------------
(* A page and time.                                                        *)

LEMMA TimeOutKeeps ==
  ASSUME IInv, NEW p \in Consoles, NEW op \in page[p].waiting, TimeOut(p, op)
  PROVE  IInv'
<1>1. /\ requests' = {IF r.page = p /\ r.op = op THEN [r EXCEPT !.live = FALSE] ELSE r : r \in requests}
      /\ page' = [page EXCEPT ![p].waiting = @ \ {op}]
      /\ spent' = [spent EXCEPT !.timeouts = @ + 1]
      /\ UNCHANGED <<windows, records, retired, forgotten, told>>
  BY DEF TimeOut
<1>2. ASSUME NEW r \in requests'
      PROVE  r \in Request /\ \E q \in requests : q.key = r.key /\ q.op = r.op /\ q.form = r.form
  <2>1. PICK q \in requests :
          r = IF q.page = p /\ q.op = op THEN [q EXCEPT !.live = FALSE] ELSE q
    BY <1>1
  <2>2. q \in Request
    BY RequestTyped DEF IInv
  <2> QED
    BY <2>1, <2>2 DEF Request
<1>3. page \in [Consoles -> Page]
  BY DEF IInv, TypeOK, Page
<1>4. /\ page' \in [Consoles -> Page]
      /\ \A q \in Consoles : /\ page'[q].keys = page[q].keys /\ page'[q].form = page[q].form
                             /\ page'[q].drawn = page[q].drawn /\ page'[q].list = page[q].list
  BY <1>1, <1>3 DEF Page
<1>5. TypeOK'
  <2>1. spent' \in Spent
    BY <1>1, SpentTyped
  <2>2. requests' \subseteq Request
    BY <1>2
  <2> QED
    BY <1>1, <1>4, <2>1, <2>2 DEF IInv, TypeOK, Page, Request, Spent
<1>6. OneUsePerKey' /\ UsesIssued'
  <2>1. \A record \in records' : UseOfRecord(record)' \in Uses
    BY <1>1 DEF UseOfRecord, Uses
  <2> QED
    BY <1>1, <1>2, <1>4, <2>1, UsesShrink DEF IInv, TypeOK
<1>7. HeldOnce' /\ ListsLag'
  BY <1>1, <1>4 DEF IInv, HeldOnce, ListsLag
<1> QED
  BY <1>1, <1>2, <1>5, <1>6, <1>7, RowsUntouched DEF IInv

\* A page that reads the list or drops its key.
LEMMA PageChanges ==
  ASSUME IInv, UNCHANGED <<windows, records, retired, requests, spent, forgotten, told>>,
         page' \in [Consoles -> Page],
         \A p \in Consoles : /\ page'[p].keys \subseteq page[p].keys
                             /\ page'[p].form = page[p].form
                             /\ page'[p].drawn = page[p].drawn
                             /\ page'[p].list \in {page[p].list, windows}
  PROVE  IInv'
<1>1. TypeOK'
  BY DEF IInv, TypeOK, Page
<1>2. OneUsePerKey' /\ UsesIssued'
  <2>1. \A record \in records' : UseOfRecord(record)' \in Uses
    BY DEF UseOfRecord, Uses
  <2> QED
    BY <2>1, UsesShrink DEF IInv
<1>3. HeldOnce' /\ ListsLag'
  BY WindowsTyped DEF IInv, HeldOnce, ListsLag
<1> QED
  BY <1>1, <1>2, <1>3, RowsUntouched DEF IInv

LEMMA FetchKeeps ==
  ASSUME IInv, NEW p \in Consoles, Fetch(p)
  PROVE  IInv'
<1>1. page \in [Consoles -> Page] /\ windows \in Seq(Window)
  BY DEF IInv, TypeOK, Page
<1>2. page' = [page EXCEPT ![p].list = windows]
  BY DEF Fetch
<1>3. /\ page' \in [Consoles -> Page]
      /\ \A q \in Consoles : /\ page'[q].keys = page[q].keys /\ page'[q].form = page[q].form
                             /\ page'[q].drawn = page[q].drawn
                             /\ page'[q].list \in {page[q].list, windows}
  BY <1>1, <1>2 DEF Page
<1> QED
  BY <1>3, PageChanges DEF Fetch

LEMMA EditKeeps ==
  ASSUME IInv, NEW p \in Consoles, Edit(p)
  PROVE  IInv'
<1>1. page \in [Consoles -> Page]
  BY DEF IInv, TypeOK, Page
<1>2. page' = [page EXCEPT ![p].keys = @ \ Held(p, Create)]
  BY DEF Edit
<1>3. /\ page' \in [Consoles -> Page]
      /\ \A q \in Consoles : /\ page'[q].keys \subseteq page[q].keys
                             /\ page'[q].form = page[q].form
                             /\ page'[q].drawn = page[q].drawn /\ page'[q].list = page[q].list
  BY <1>1, <1>2 DEF Page
<1> QED
  BY <1>3, PageChanges DEF Edit

LEMMA PassKeeps ==
  ASSUME IInv, NEW id \in DOMAIN windows, Pass(id)
  PROVE  IInv'
<1>1. /\ windows' = [windows EXCEPT ![id].phase = IF @ = "ahead" THEN "on" ELSE "over"]
      /\ UNCHANGED <<records, retired, requests, page, spent, forgotten, told>>
  BY DEF Pass
<1>2. /\ windows \in Seq(Window) /\ DOMAIN windows = 1..Len(windows) /\ Len(windows) \in Nat
      /\ \A w \in DOMAIN windows : windows[w] \in Window
  BY WindowsTyped DEF IInv
<1>3. /\ windows' \in Seq(Window) /\ DOMAIN windows' = DOMAIN windows
      /\ Len(windows') = Len(windows)
      /\ \A w \in DOMAIN windows : /\ windows'[w].form = windows[w].form
                                   /\ windows'[w].cancelled = windows[w].cancelled
  <2> DEFINE row == [windows[id] EXCEPT !.phase = IF @ = "ahead" THEN "on" ELSE "over"]
  <2>1. windows' = [windows EXCEPT ![id] = row]
    BY <1>1
  <2>2. /\ row \in Window /\ row.form = windows[id].form
        /\ row.cancelled = windows[id].cancelled
    BY <1>2 DEF Window
  <2> HIDE DEF row
  <2> QED
    BY <1>2, <2>1, <2>2
<1>4. TypeOK'
  BY <1>1, <1>3 DEF IInv, TypeOK
<1>5. OneUsePerKey' /\ UsesIssued'
  <2>1. ASSUME NEW record \in records PROVE UseOfRecord(record)' = UseOfRecord(record)
    BY <1>1, <1>3 DEF UseOfRecord, IInv, TypeOK
  <2>2. \A record \in records' : UseOfRecord(record)' \in Uses
    BY <1>1, <2>1 DEF Uses
  <2> QED
    BY <1>1, <2>2, UsesShrink DEF IInv
<1>6. HeldOnce' /\ ListsLag'
  BY <1>1, <1>3 DEF IInv, HeldOnce, ListsLag
<1>7. IdsExist' /\ WindowsRecorded' /\ OneWindowPerForm' /\ CancelsDone'
  BY <1>1, <1>3 DEF IInv, IdsExist, WindowsRecorded, OneWindowPerForm, CancelsDone
<1> QED
  BY <1>4, <1>5, <1>6, <1>7 DEF IInv

LEMMA ForgetKeeps ==
  ASSUME IInv, NEW record \in records, Forget(record)
  PROVE  IInv'
<1>1. /\ records' = records \ {record}
      /\ forgotten' = IF record.op = Create THEN forgotten \cup {windows[record.window].form}
                                               ELSE forgotten
      /\ UNCHANGED <<windows, retired, requests, page, spent, told>>
  BY DEF Forget
<1>2. forgotten' \subseteq Nat
  BY <1>1, WindowsTyped DEF IInv, TypeOK, Window
<1>3. TypeOK'
  BY <1>1, <1>2 DEF IInv, TypeOK
<1>4. OneUsePerKey' /\ UsesIssued'
  <2>1. \A other \in records' : UseOfRecord(other)' \in Uses
    BY <1>1 DEF UseOfRecord, Uses
  <2> QED
    BY <1>1, <2>1, UsesShrink DEF IInv
<1>5. HeldOnce' /\ ListsLag' /\ IdsExist' /\ CancelsDone'
  BY <1>1 DEF IInv, HeldOnce, ListsLag, IdsExist, CancelsDone
<1>6. WindowsRecorded' /\ OneWindowPerForm'
  BY <1>1 DEF IInv, WindowsRecorded, OneWindowPerForm
<1> QED
  BY <1>3, <1>4, <1>5, <1>6 DEF IInv

LEMMA ConfigureKeeps ==
  ASSUME IInv, Configure
  PROVE  IInv'
<1>1. /\ retired' = ~retired
      /\ spent' = [spent EXCEPT !.retirals = IF retired THEN @ ELSE @ + 1]
      /\ UNCHANGED <<windows, records, requests, page, forgotten, told>>
  BY DEF Configure
<1>2. TypeOK' /\ spent'.forms = spent.forms
  <2>1. spent' \in Spent /\ spent'.forms = spent.forms
    BY <1>1, SpentTyped
  <2>2. retired' \in BOOLEAN
    BY <1>1
  <2> QED
    BY <1>1, <2>1, <2>2 DEF IInv, TypeOK, Spent
<1>3. OneUsePerKey' /\ UsesIssued'
  <2>1. \A record \in records' : UseOfRecord(record)' \in Uses
    BY <1>1 DEF UseOfRecord, Uses
  <2> QED
    BY <1>1, <1>2, <2>1, UsesShrink DEF IInv
<1>4. HeldOnce' /\ ListsLag'
  BY <1>1 DEF IInv, HeldOnce, ListsLag
<1> QED
  BY <1>1, <1>2, <1>3, <1>4, RowsUntouched DEF IInv

-----------------------------------------------------------------------------
(* A request.                                                              *)

\* The key of a request is one that the page holds, or has just drawn.
LEMMA KeyIsHeldOrDrawn ==
  ASSUME IInv, NEW p \in Consoles, NEW op
  PROVE  /\ KeyFor(p, op) \in Keys /\ KeyFor(p, op)[1] = p
         /\ Held(p, op) = {} => KeyFor(p, op)[2] = page[p].drawn + 1
         /\ Held(p, op) # {} => /\ KeyFor(p, op)[2] \in 1..page[p].drawn
                                /\ \A entry \in Held(p, op) : entry.key = KeyFor(p, op)
<1>1. page[p].drawn \in Nat
  BY DEF IInv, TypeOK
<1>2. CASE Held(p, op) = {}
  <2>1. KeyFor(p, op) = <<p, page[p].drawn + 1>>
    BY <1>2 DEF KeyFor
  <2> QED
    BY <1>1, <1>2, <2>1 DEF Keys
<1>3. CASE Held(p, op) # {}
  <2>1. PICK held \in Held(p, op) : KeyFor(p, op) = held.key
    BY <1>3 DEF KeyFor
  <2>2. held \in page[p].keys /\ held.op = op
    BY DEF Held
  <2>3. held.key \in Keys /\ held.key[1] = p
    BY <2>2 DEF IInv, TypeOK, HeldOnce
  <2>4. Use(held.key, held.op, page[p].form) \in Uses
    BY <2>2, EntriesAreUses
  <2>5. held.key[2] \in 1..page[p].drawn
    BY <2>3, <2>4 DEF IInv, UsesIssued, Use
  <2>6. \A entry \in Held(p, op) : entry = held
    BY <2>2 DEF Held, IInv, HeldOnce
  <2> QED
    BY <1>3, <2>1, <2>3, <2>5, <2>6
<1> QED
  BY <1>2, <1>3

\* What a request sends is a use that there is, or a key and a form of which nothing
\* has been heard.
LEMMA SendKeeps ==
  ASSUME IInv, NEW p \in Consoles, NEW op \in Nat, NEW version \in Nat, NEW form \in Nat,
         Send(p, op, version, form),
         op # Create => op \in DOMAIN windows /\ spent' = spent,
         op = Create => IF Held(p, op) = {}
                        THEN form = spent.forms + 1 /\ spent' = [spent EXCEPT !.forms = @ + 1]
                        ELSE form = page[p].form /\ spent' = spent
  PROVE  IInv'
<1> DEFINE key == KeyFor(p, op)
<1> DEFINE sent == [page |-> p, op |-> op, key |-> key, version |-> version, form |-> form,
                    live |-> TRUE]
<1> DEFINE use == Use(key, op, form)
<1> DEFINE drawn == Max({page[p].drawn, key[2]})
<1>1. /\ requests' = requests \cup {sent}
      /\ page' = [page EXCEPT ![p].waiting = @ \cup {op},
                              ![p].keys = @ \cup {[op |-> op, key |-> key]},
                              ![p].drawn = drawn,
                              ![p].form = IF op = Create THEN form ELSE @]
      /\ UNCHANGED <<windows, records, retired, forgotten, told>>
  BY DEF Send
<1>2. /\ key \in Keys /\ key[1] = p
      /\ Held(p, op) = {} => key[2] = page[p].drawn + 1
      /\ Held(p, op) # {} => /\ key[2] \in 1..page[p].drawn
                             /\ \A entry \in Held(p, op) : entry.key = key
  BY KeyIsHeldOrDrawn
<1> HIDE DEF key
<1>3. page[p].drawn \in Nat /\ key[2] \in Nat /\ page \in [Consoles -> Page]
  BY <1>2 DEF IInv, TypeOK, Page, Keys
<1>4. drawn = IF Held(p, op) = {} THEN page[p].drawn + 1 ELSE page[p].drawn
  BY <1>2, <1>3, MaxOfTwo
<1>5. drawn \in Nat /\ page[p].drawn <= drawn /\ key[2] \in 1..drawn
  BY <1>2, <1>3, <1>4
<1> HIDE DEF drawn
<1>6. /\ page' \in [Consoles -> Page]
      /\ page'[p].keys = page[p].keys \cup {[op |-> op, key |-> key]}
      /\ page'[p].drawn = drawn
      /\ page'[p].form = IF op = Create THEN form ELSE page[p].form
      /\ page'[p].list = page[p].list
      /\ \A q \in Consoles : q # p => page'[q] = page[q]
  <2> DEFINE entries == page[p].keys \cup {[op |-> op, key |-> key]}
  <2> DEFINE formOf == IF op = Create THEN form ELSE page[p].form
  <2>1. page[p] \in Page
    BY <1>3
  <2>2. /\ page[p].waiting \cup {op} \in SUBSET Nat /\ formOf \in Nat
        /\ entries \in SUBSET [op : Nat, key : Keys]
    BY <1>2, <2>1 DEF Page
  <2>3. page' = [page EXCEPT ![p].waiting = page[p].waiting \cup {op}, ![p].keys = entries,
                             ![p].drawn = drawn, ![p].form = formOf]
    BY <1>1
  <2> HIDE DEF entries, formOf
  <2>4. page' = [page EXCEPT ![p] =
                  [page[p] EXCEPT !.waiting = page[p].waiting \cup {op}, !.keys = entries,
                                  !.drawn = drawn, !.form = formOf]]
    BY <1>3, <2>3
  <2>5. page'[p] \in Page /\ page'[p].keys = entries /\ page'[p].drawn = drawn
        /\ page'[p].form = formOf /\ page'[p].list = page[p].list
    BY <1>3, <1>5, <2>1, <2>2, <2>4 DEF Page
  <2>6. page' \in [Consoles -> Page] /\ \A q \in Consoles : q # p => page'[q] = page[q]
    BY <1>3, <2>4, <2>5
  <2> QED
    BY <2>5, <2>6 DEF entries, formOf
<1>7. spent \in Spent /\ spent' \in Spent /\ spent.forms \in Nat /\ spent'.forms \in Nat
      /\ spent.forms <= spent'.forms
  <2>1. spent \in Spent /\ spent.forms \in Nat /\ spent.forms + 1 \in Nat
    BY DEF IInv, TypeOK, Spent
  <2>2. [spent EXCEPT !.forms = spent.forms + 1] \in Spent
    BY <2>1 DEF Spent
  <2>3. [spent EXCEPT !.forms = spent.forms + 1].forms = spent.forms + 1
    BY <2>1 DEF Spent
  <2>4. spent' = spent \/ spent' = [spent EXCEPT !.forms = spent.forms + 1]
    OBVIOUS
  <2>5. CASE spent' = spent
    BY <2>1, <2>5
  <2>6. CASE spent' = [spent EXCEPT !.forms = spent.forms + 1]
    <3>1. spent' \in Spent /\ spent'.forms = spent.forms + 1
      BY <2>2, <2>3, <2>6
    <3> QED
      BY <2>1, <3>1
  <2> QED
    BY <2>4, <2>5, <2>6
<1>8. TypeOK'
  <2>1. sent \in Request
    BY <1>2 DEF Request
  <2> QED
    BY <1>1, <1>6, <1>7, <2>1 DEF IInv, TypeOK, Page, Request, Spent
<1>9. Uses' \subseteq Uses \cup {use}
  <2> SUFFICES ASSUME NEW u \in Uses' PROVE u \in Uses \cup {use}
    OBVIOUS
  <2>1. CASE \E r \in requests' : u = Use(r.key, r.op, r.form)
    BY <1>1, <2>1 DEF Uses
  <2>2. CASE \E q \in Consoles : \E entry \in page'[q].keys :
               u = Use(entry.key, entry.op, page'[q].form)
    <3>0. PICK q \in Consoles : \E entry \in page'[q].keys :
                 u = Use(entry.key, entry.op, page'[q].form)
      BY <2>2
    <3>1. PICK entry \in page'[q].keys : u = Use(entry.key, entry.op, page'[q].form)
      BY <3>0
    <3>2. CASE q # p
      BY <1>6, <3>1, <3>2, EntriesAreUses
    <3>3. CASE q = p /\ entry = [op |-> op, key |-> key]
      BY <1>6, <3>1, <3>3 DEF Use
    <3>4. CASE q = p /\ entry # [op |-> op, key |-> key]
      <4>1. entry \in page[p].keys
        BY <1>6, <3>1, <3>4
      <4>2. entry.op = Create => page'[p].form = page[p].form
        BY <1>6, <4>1 DEF Held
      <4>3. u = Use(entry.key, entry.op, page[p].form)
        BY <3>1, <3>4, <4>2 DEF Use
      <4> QED
        BY <4>1, <4>3, EntriesAreUses
    <3> QED
      BY <3>2, <3>3, <3>4
  <2>3. CASE \E record \in records' : u = Use(record.key, record.op, windows'[record.window].form)
    BY <1>1, <2>3 DEF Uses, UseOfRecord
  <2> QED
    BY <2>1, <2>2, <2>3, UsesAfter
<1>10. Held(p, op) # {} => use \in Uses
  <2> SUFFICES ASSUME Held(p, op) # {} PROVE use \in Uses
    OBVIOUS
  <2>1. PICK entry \in page[p].keys : entry.op = op /\ entry.key = key
    BY <1>2 DEF Held
  <2>2. use = Use(entry.key, entry.op, page[p].form)
    BY <2>1 DEF Use
  <2> QED
    BY <2>1, <2>2, EntriesAreUses
<1>11. Held(p, op) = {} => \A u \in Uses :
         u.key # key /\ (op = Create /\ u.op = Create => u.form # form)
  <2> SUFFICES ASSUME Held(p, op) = {}, NEW u \in Uses
               PROVE  u.key # key /\ (op = Create /\ u.op = Create => u.form # form)
    OBVIOUS
  <2>1. u.key[2] \in 1..page[u.key[1]].drawn /\ (u.op = Create => u.form \in 1..spent.forms)
    BY DEF IInv, UsesIssued
  <2>2. u.key # key
    BY <1>2, <1>3, <2>1
  <2>3. op = Create /\ u.op = Create => u.form # form
    BY <1>7, <2>1
  <2> QED
    BY <2>2, <2>3
<1>12. use.key = key /\ use.op = op /\ (op = Create => use.form = form)
  BY DEF Use
<1> HIDE DEF use
<1>13. OneUsePerKey'
  <2>1. \A u, other \in Uses \cup {use} :
          \/ u = other
          \/ u.key # other.key /\ (u.op = Create /\ other.op = Create => u.form # other.form)
    BY <1>10, <1>11, <1>12 DEF IInv, OneUsePerKey
  <2> QED
    BY <1>9, <2>1 DEF OneUsePerKey
<1>14. UsesIssued'
  <2> SUFFICES ASSUME NEW u \in Uses'
               PROVE  /\ u.key \in Keys /\ u.key[2] \in 1..page'[u.key[1]].drawn
                      /\ u.op = Create => u.form \in 1..spent'.forms
    BY DEF UsesIssued
  <2>1. CASE u \in Uses
    <3>1. /\ u.key \in Keys /\ u.key[1] \in Consoles
          /\ u.key[2] \in 1..page[u.key[1]].drawn
          /\ u.op = Create => u.form \in 1..spent.forms
      BY <2>1 DEF IInv, UsesIssued, Keys
    <3>2. page[u.key[1]].drawn <= page'[u.key[1]].drawn /\ page'[u.key[1]].drawn \in Nat
          /\ page[u.key[1]].drawn \in Nat
      <4>1. page[u.key[1]].drawn \in Nat
        BY <1>3, <3>1 DEF Page
      <4>2. CASE u.key[1] = p
        BY <1>5, <1>6, <4>1, <4>2
      <4>3. CASE u.key[1] # p
        BY <1>6, <3>1, <4>1, <4>3
      <4> QED
        BY <4>1, <4>2, <4>3
    <3> QED
      BY <1>7, <3>1, <3>2
  <2>2. CASE u \notin Uses
    <3>1. u = use /\ Held(p, op) = {}
      BY <1>9, <1>10, <2>2
    <3>2. op = Create => form \in 1..spent'.forms
      <4> SUFFICES ASSUME op = Create PROVE form \in 1..spent'.forms
        OBVIOUS
      <4>1. form = spent.forms + 1 /\ spent' = [spent EXCEPT !.forms = spent.forms + 1]
        BY <3>1
      <4> QED
        BY <1>7, <4>1 DEF Spent
    <3> QED
      BY <1>2, <1>5, <1>6, <1>12, <3>1, <3>2
  <2> QED
    BY <2>1, <2>2
<1>15. HeldOnce'
  <2>1. \A entry \in page'[p].keys :
          \/ entry \in page[p].keys
          \/ entry = [op |-> op, key |-> key]
    BY <1>6
  <2>2. \A entry \in page[p].keys : entry.op = op => entry.key = key
    BY <1>2 DEF Held
  <2>3. \A entry \in page[p].keys : entry.op = op => entry = [op |-> op, key |-> key]
    BY <1>3, <2>2 DEF Page
  <2> QED
    BY <1>2, <1>6, <2>1, <2>3 DEF IInv, HeldOnce
<1>16. ListsLag'
  BY <1>1, <1>6 DEF IInv, ListsLag
<1>17. IdsExist' /\ WindowsRecorded' /\ OneWindowPerForm' /\ CancelsDone'
  BY <1>1 DEF IInv, IdsExist, WindowsRecorded, OneWindowPerForm, CancelsDone
<1> QED
  BY <1>8, <1>13, <1>14, <1>15, <1>16, <1>17 DEF IInv

LEMMA SubmitKeeps ==
  ASSUME IInv, NEW p \in Consoles, Submit(p) \/ Resubmit(p)
  PROVE  IInv'
<1>1. spent.forms + 1 \in Nat /\ page[p].form \in Nat
  BY DEF IInv, TypeOK
<1>2. CASE Submit(p)
  BY <1>1, <1>2, SendKeeps DEF Submit, Create
<1>3. CASE Resubmit(p)
  BY <1>1, <1>3, SendKeeps DEF Resubmit, Create
<1> QED
  BY <1>2, <1>3

LEMMA CancelKeeps ==
  ASSUME IInv, NEW p \in Consoles, NEW id \in DOMAIN page[p].list, Cancel(p, id)
  PROVE  IInv'
<1>1. /\ page[p].list \in Seq(Window) /\ Len(page[p].list) \in Nat
      /\ DOMAIN page[p].list = 1..Len(page[p].list) /\ page[p].list[id] \in Window
  BY DEF IInv, TypeOK
<1>2. /\ id \in Nat /\ id # Create /\ page[p].list[id].version \in Nat
      /\ id \in DOMAIN windows
  <2>1. Len(page[p].list) <= Len(windows) /\ Len(windows) \in Nat
        /\ DOMAIN windows = 1..Len(windows)
    BY WindowsTyped DEF IInv, ListsLag
  <2>2. id \in Nat /\ id # 0 /\ id \in 1..Len(windows)
    BY <1>1, <2>1
  <2>3. page[p].list[id].version \in Nat
    BY <1>1 DEF Window
  <2> QED
    BY <2>1, <2>2, <2>3 DEF Create
<1>3. Send(p, id, page[p].list[id].version, 0) /\ spent' = spent
  BY DEF Cancel
<1> QED
  BY <1>2, <1>3, SendKeeps

-----------------------------------------------------------------------------
(* The invariant and what follows from it.                                 *)

LEMMA InitHolds == Init => IInv
<1> SUFFICES ASSUME Init PROVE IInv
  OBVIOUS
<1>1. TypeOK
  <2>1. <<>> \in Seq(Window)
    OBVIOUS
  <2>2. [waiting |-> {}, drawn |-> 0, form |-> 0, list |-> <<>>, keys |-> {}] \in Page
    BY <2>1 DEF Page
  <2>3. page \in [Consoles -> Page]
    BY <2>2 DEF Init
  <2>4. spent \in Spent
    BY DEF Init, Spent
  <2> QED
    BY <2>1, <2>3, <2>4 DEF Init, TypeOK, Page, Spent
<1>2. Uses = {}
  BY DEF Init, Uses
<1>3. OneUsePerKey /\ UsesIssued
  BY <1>2 DEF OneUsePerKey, UsesIssued
<1> QED
  BY <1>1, <1>3 DEF Init, IInv, HeldOnce, ListsLag, IdsExist, WindowsRecorded,
     OneWindowPerForm, CancelsDone

LEMMA NextKeeps == IInv /\ [Next]_vars => IInv'
<1> SUFFICES ASSUME IInv, [Next]_vars PROVE IInv'
  OBVIOUS
<1>1. CASE \E r \in requests : Perform(r) \/ Fail(r)
  BY <1>1, PerformKeeps, FailKeeps
<1>2. CASE \E p \in Consoles : Submit(p) \/ Resubmit(p) \/ Edit(p) \/ Fetch(p)
  BY <1>2, SubmitKeeps, EditKeeps, FetchKeeps
<1>3. CASE \E p \in Consoles : \E op \in page[p].waiting : TimeOut(p, op)
  BY <1>3, TimeOutKeeps
<1>4. CASE \E p \in Consoles : \E id \in DOMAIN page[p].list : Cancel(p, id)
  BY <1>4, CancelKeeps
<1>5. CASE \E id \in DOMAIN windows : Pass(id)
  BY <1>5, PassKeeps
<1>6. CASE \E record \in records : Forget(record)
  BY <1>6, ForgetKeeps
<1>7. CASE Configure
  BY <1>7, ConfigureKeeps
<1>8. CASE UNCHANGED vars
  <2>1. page \in [Consoles -> Page]
    BY DEF IInv, TypeOK, Page
  <2> QED
    BY <1>8, <2>1, PageChanges DEF vars
<1> QED
  BY <1>1, <1>2, <1>3, <1>4, <1>5, <1>6, <1>7, <1>8 DEF Next

LEMMA InvariantHolds == Spec => []IInv
BY InitHolds, NextKeeps, PTL DEF Spec

\* Every variable keeps its type: a record names a window that exists, and a key has
\* one record.
THEOREM TypeCorrect == Spec => []TypeOK
<1>1. IInv => TypeOK
  BY DEF IInv
<1> QED
  BY <1>1, InvariantHolds, PTL

\* A form leads to one window, unless the record of its key was deleted: a retry
\* carries the key of the first request (OneUsePerKey), whose record stays as long as
\* nothing deletes it (WindowsRecorded).
THEOREM FormsAreNotDoubled == Spec => []OneWindowPerForm
<1>1. IInv => OneWindowPerForm
  BY DEF IInv
<1> QED
  BY <1>1, InvariantHolds, PTL

\* A form whose window exists is not refused: a refusal means that its key has no
\* record.
THEOREM CreationIsNotDenied == Spec => NotRefusedOnceCreated
<1> DEFINE refusedOnlyNew ==
      \A t \in told' \ told : t.op = Create /\ t.verdict = "refused" =>
        \A id \in DOMAIN windows : windows[id].form # t.form \/ t.form \in forgotten
<1>1. IInv /\ [Next]_vars => refusedOnlyNew
  <2> SUFFICES ASSUME IInv, [Next]_vars, NEW t \in told' \ told,
                      t.op = Create, t.verdict = "refused"
               PROVE  \A id \in DOMAIN windows : windows[id].form # t.form \/ t.form \in forgotten
    OBVIOUS
  <2>1. PICK r \in requests : Perform(r)
    <3>1. told' # told
      OBVIOUS
    <3>2. ~\E r \in requests : Fail(r)
      BY <3>1 DEF Fail
    <3>3. ~\E p \in Consoles :
             \/ Submit(p) \/ Resubmit(p) \/ Edit(p) \/ Fetch(p)
             \/ \E op \in page[p].waiting : TimeOut(p, op)
             \/ \E id \in DOMAIN page[p].list : Cancel(p, id)
      <4>1. ASSUME NEW p, NEW op, NEW version, NEW form, Send(p, op, version, form)
            PROVE  told' = told
        BY <4>1 DEF Send
      <4>2. ASSUME NEW p \in Consoles
            PROVE  ~(Submit(p) \/ Resubmit(p) \/ Edit(p) \/ Fetch(p))
        BY <3>1, <4>1 DEF Submit, Resubmit, Edit, Fetch
      <4>3. \A p \in Consoles : \A op \in page[p].waiting : ~TimeOut(p, op)
        BY <3>1 DEF TimeOut
      <4>4. \A p \in Consoles : \A id \in DOMAIN page[p].list : ~Cancel(p, id)
        BY <3>1, <4>1 DEF Cancel
      <4> QED
        BY <4>2, <4>3, <4>4
    <3>4. ~\E id \in DOMAIN windows : Pass(id)
      BY <3>1 DEF Pass
    <3>5. ~\E record \in records : Forget(record)
      BY <3>1 DEF Forget
    <3>6. ~Configure /\ ~UNCHANGED vars
      BY <3>1 DEF Configure, vars
    <3> QED
      BY <3>2, <3>3, <3>4, <3>5, <3>6 DEF Next
  <2>2. t.form = r.form /\ t.op = r.op /\ t.verdict = Verdict(r)
    BY <2>1 DEF Perform
  <2>3. Recorded(r) = {}
    BY <2>2 DEF Verdict
  <2> QED
    BY <2>2, <2>3, UnrecordedIsNew
<1>2. refusedOnlyNew => [refusedOnlyNew]_vars
  OBVIOUS
<1> QED
  BY <1>1, InvariantHolds, PTL DEF Spec, NotRefusedOnceCreated

\* A window that an operator was told is cancelled stays cancelled (CancelsDone), and
\* no late request of its form makes another one.
THEOREM CancelledIsQuiet == Spec => []CancelledStaysQuiet
<1>1. IInv => CancelledStaysQuiet
  <2> SUFFICES ASSUME IInv, NEW t \in told, t.op # Create, t.verdict = "ok",
                      NEW id \in DOMAIN windows, windows[id].form = windows[t.op].form,
                      Mutes(windows[id])
               PROVE  windows[id].form \in forgotten
    BY DEF CancelledStaysQuiet
  <2>1. t.op \in DOMAIN windows /\ windows[t.op].cancelled
    BY DEF IInv, IdsExist, CancelsDone
  <2>2. id # t.op
    BY <2>1 DEF Mutes
  <2> QED
    BY <2>1, <2>2 DEF IInv, OneWindowPerForm
<1> QED
  BY <1>1, InvariantHolds, PTL
=============================================================================
