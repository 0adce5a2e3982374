---------------------- MODULE OperatorMutationsProofs ----------------------
(***************************************************************************)
(* Proofs of the safety properties of OperatorMutations, for any number of *)
(* pages, notes, engine changes, timeouts and losses.                      *)
(*                                                                         *)
(* The argument: wherever a key is, it stands for one request, and so for  *)
(* one version.  A change made for a request of version v is the v-th of   *)
(* its incident; hence a key has at most one place in the log, even when   *)
(* its record is gone.  A page has one live request, behind which nothing  *)
(* of that page waits, so no later answer contradicts the one it shows.    *)
(***************************************************************************)
EXTENDS OperatorMutations, SequenceTheorems, TLAPS

\* A key somewhere stands for an operation and its signature.
Carried(o, k, s) ==
  \/ \E i \in DOMAIN requests :
       requests[i].op = o /\ requests[i].key = k /\ requests[i].signature = s
  \/ /\ tx.request.page # Engine
     /\ tx.request.op = o /\ tx.request.key = k /\ tx.request.signature = s
  \/ \E record \in records : record.op = o /\ record.key = k /\ record.signature = s
  \/ \E c \in Consoles : page[c].keys[o] = [key |-> k, signature |-> s] /\ s.version # 0
  \/ \E i \in DOMAIN tx.row.log :
       /\ tx.row.log[i].op = o /\ tx.row.log[i].name = k
       /\ s = [version |-> i, body |-> tx.row.log[i].body]

OneRequestPerKey ==
  \A o1, o2 \in Operations, k \in Names, s1, s2 \in Signatures :
    Carried(o1, k, s1) /\ Carried(o2, k, s2) => o1 = o2 /\ s1 = s2

\* Every key in use was issued.
KeysIssued ==
  \A o \in Operations, k \in Names, s \in Signatures :
    Carried(o, k, s) => k[1] \in Consoles /\ k[2] <= page[k[1]].issued

KeysOwned ==
  /\ \A i \in DOMAIN requests : requests[i].key[1] = requests[i].page
  /\ tx.request.key[1] = tx.request.page
  /\ \A c \in Consoles : \A o \in Operations :
       page[c].keys[o].signature.version # 0 => page[c].keys[o].key[1] = c
  /\ \A c \in Consoles :
       page[c].busy # "idle" => page[c].keys[page[c].busy].signature.version # 0

\* The page of a live request waits for its answer.
Awaited(r) ==
  r.live => /\ page[r.page].busy = r.op
            /\ page[r.page].answer = "none"
            /\ page[r.page].keys[r.op].key = r.key

QueueInOrder ==
  /\ \A i \in DOMAIN requests : requests[i].page \in Consoles /\ Awaited(requests[i])
  /\ tx.request.page = Engine => ~tx.request.live
  /\ Awaited(tx.request)
  /\ \A i, j \in DOMAIN requests :
       i < j /\ requests[i].live => requests[j].page # requests[i].page
  /\ \A i \in DOMAIN requests : tx.request.live => requests[i].page # tx.request.page

\* A page that has got an answer of the core has nothing left in the core.
AnsweredLast ==
  \A c \in Consoles : page[c].answer \in {"ok", "conflict", "key_conflict"} =>
    /\ tx.request.page # c
    /\ \A i \in DOMAIN requests : requests[i].page # c

VersionsCount ==
  /\ row.version = Len(row.log) + 1
  /\ tx.row.version = Len(tx.row.log) + 1
  /\ \A c \in Consoles : page[c].view.version # 0

\* The request or the row of a transaction has what was asked for.
Done(request, r) ==
  \/ \E i \in DOMAIN r.log : r.log[i].name = request.key
  \/ request.op = "acknowledge" /\ r.acked

TransactionExtends ==
  /\ ~tx.open => tx = NoTransaction(row)
  /\ \A i \in DOMAIN row.log : i \in DOMAIN tx.row.log /\ tx.row.log[i] = row.log[i]
  /\ row.acked => tx.row.acked
  /\ tx.request.page # Engine => Done(tx.request, tx.row)

NamesOnce ==
  /\ \A i, j \in DOMAIN tx.row.log : tx.row.log[i].name = tx.row.log[j].name => i = j
  /\ \A i \in DOMAIN tx.row.log :
       tx.row.log[i].op = "move" => tx.row.log[i].name[1] = Engine /\ tx.row.log[i].name[2] <= moves

RecordsReal == \A record \in records : Done(record, row)

\* A conflict is shown only while no record has the key.
ConflictUnrecorded ==
  \A c \in Consoles : page[c].answer = "conflict" =>
    \A record \in records : record.key # KeyInUse(c)

DraftFits == \A c \in Consoles : page[c].busy = "note" => page[c].draft <= MaxNotes

IInv ==
  /\ TypeOK
  /\ DraftFits
  /\ VersionsCount
  /\ TransactionExtends
  /\ NamesOnce
  /\ OneRequestPerKey
  /\ KeysIssued
  /\ KeysOwned
  /\ QueueInOrder
  /\ AnsweredLast
  /\ RecordsReal
  /\ SuccessIsDurable
  /\ ConflictUnrecorded
  /\ KeysFitRequests
-----------------------------------------------------------------------------
(* Types.                                                                  *)

Views == [version : Nat, state : States, acked : BOOLEAN, seen : Names]

Entries == [key : Names, signature : Signatures]

LEMMA NoneTypes ==
  /\ NoName \in Names
  /\ NoRequest \in Requests
  /\ NoEntry \in Entries
BY DEF NoName, Names, NoRequest, Requests, Operations, Signatures, NoEntry, Entries

LEMMA ShownType ==
  ASSUME NEW r \in Rows
  PROVE  Shown(r) \in Views /\ Shown(r).version = r.version
<1>1. r.log \in Seq(Changes) BY DEF Rows
<1>2. CASE r.log = <<>> BY <1>2, NoneTypes DEF Shown, Views, Rows
<1>3. CASE r.log # <<>>
  <2>1. Len(r.log) \in 1..Len(r.log) BY <1>1, <1>3
  <2>2. r.log[Len(r.log)] \in Changes BY <1>1, <2>1
  <2>3. Last(r.log).name \in Names BY <2>2 DEF Last, Changes, Names
  <2>. QED BY <1>3, <2>3 DEF Shown, Views, Rows
<1>. QED BY <1>2, <1>3

LEMMA ChangedType ==
  ASSUME NEW r \in Rows, NEW change \in Changes
  PROVE  /\ Changed(r, change) \in Rows
         /\ Changed(r, change).version = r.version + 1
         /\ Changed(r, change).state = r.state
         /\ Changed(r, change).acked = r.acked
         /\ Len(Changed(r, change).log) = Len(r.log) + 1
         /\ \A i \in DOMAIN r.log : /\ i \in DOMAIN Changed(r, change).log
                                    /\ Changed(r, change).log[i] = r.log[i]
         /\ Len(r.log) + 1 \in DOMAIN Changed(r, change).log
         /\ Changed(r, change).log[Len(r.log) + 1] = change
         /\ \A i \in DOMAIN Changed(r, change).log : i \in DOMAIN r.log \/ i = Len(r.log) + 1
<1>. DEFINE n == Len(r.log) + 1
<1>1. r.log \in Seq(Changes) /\ r.version \in Nat /\ Len(r.log) \in Nat BY DEF Rows
<1>2. /\ Append(r.log, change) \in Seq(Changes)
      /\ Len(Append(r.log, change)) = n
      /\ DOMAIN Append(r.log, change) = 1..n
      /\ DOMAIN r.log = 1..Len(r.log)
      /\ \A i \in 1..Len(r.log) : Append(r.log, change)[i] = r.log[i]
      /\ Append(r.log, change)[n] = change
  BY <1>1
<1>3. Changed(r, change) = [version |-> r.version + 1, state |-> r.state,
                            acked |-> r.acked, log |-> Append(r.log, change)]
  <2>. DEFINE l == Append(r.log, change)
              r1 == [r EXCEPT !.version = r.version + 1]
  <2>1. r1 = [version |-> r.version + 1, state |-> r.state, acked |-> r.acked, log |-> r.log]
    BY DEF Rows
  <2>2. Changed(r, change) = [r1 EXCEPT !.log = l] BY DEF Changed
  <2>. HIDE DEF l, r1
  <2>3. [r1 EXCEPT !.log = l]
        = [version |-> r.version + 1, state |-> r.state, acked |-> r.acked, log |-> l]
    BY <2>1
  <2>. QED BY <2>2, <2>3 DEF l
<1>4. Changed(r, change) \in Rows BY <1>1, <1>2, <1>3 DEF Rows
<1>5. Changed(r, change).log = Append(r.log, change) BY <1>3
<1>6. /\ Changed(r, change).version = r.version + 1
      /\ Changed(r, change).state = r.state
      /\ Changed(r, change).acked = r.acked
  BY <1>3
<1>7. /\ \A i \in DOMAIN r.log : /\ i \in DOMAIN Append(r.log, change)
                                 /\ Append(r.log, change)[i] = r.log[i]
      /\ n \in DOMAIN Append(r.log, change)
      /\ \A i \in DOMAIN Append(r.log, change) : i \in DOMAIN r.log \/ i = n
  BY <1>1, <1>2
<1>. QED BY <1>2, <1>4, <1>5, <1>6, <1>7

LEMMA VisibleType ==
  ASSUME TypeOK
  PROVE  Visible \in Rows
BY DEF TypeOK, Visible

LEMMA HeadType ==
  ASSUME TypeOK, requests # <<>>
  PROVE  /\ Head(requests) = requests[1]
         /\ 1 \in DOMAIN requests
         /\ requests[1] \in Requests
         /\ Tail(requests) \in Seq(Requests)
         /\ DOMAIN Tail(requests) = 1..(Len(requests) - 1)
         /\ \A i \in DOMAIN Tail(requests) : i + 1 \in DOMAIN requests
                                             /\ Tail(requests)[i] = requests[i + 1]
BY DEF TypeOK

\* What a mutation writes.
LEMMA MutatedType ==
  ASSUME TypeOK, NEW r \in Requests
  PROVE  LET change == [name |-> r.key, op |-> r.op, body |-> r.signature.body, seen |-> r.seen]
         IN  /\ change \in Changes
             /\ Mutated(r) \in Rows
             /\ \/ r.op = "acknowledge" /\ row.acked /\ Mutated(r) = row
                \/ /\ Mutated(r).log = Changed(row, change).log
                   /\ Mutated(r).version = row.version + 1
             /\ row.acked => Mutated(r).acked
<1>. DEFINE change == [name |-> r.key, op |-> r.op, body |-> r.signature.body, seen |-> r.seen]
<1>1. change \in Changes BY DEF Requests, Changes, Signatures, Names
<1>2. row \in Rows BY DEF TypeOK
<1>3. /\ Changed(row, change) \in Rows
      /\ Changed(row, change).version = row.version + 1
      /\ Changed(row, change).acked = row.acked
  BY <1>1, <1>2, ChangedType
<1>. HIDE DEF change
<1>4. r.op \in Operations BY DEF Requests
<1>5. Mutated(r) = CASE r.op = "acknowledge" -> IF row.acked THEN row
                                   ELSE [Changed(row, change) EXCEPT !.acked = TRUE]
        [] r.op = "note" -> Changed(row, change)
        [] r.op = "close" -> [Changed(row, change) EXCEPT !.state = "closed"]
  BY DEF Mutated, change
<1>6. CASE r.op = "acknowledge" BY <1>2, <1>3, <1>5, <1>6, <1>1 DEF Rows, change
<1>7. CASE r.op = "note" BY <1>2, <1>3, <1>5, <1>7, <1>1 DEF Rows, change
<1>8. CASE r.op = "close" BY <1>2, <1>3, <1>5, <1>8, <1>1 DEF Rows, change, States
<1>. QED BY <1>4, <1>6, <1>7, <1>8 DEF Operations

LEMMA PageType ==
  ASSUME TypeOK, NEW c \in Consoles, NEW p \in Pages, page' = [page EXCEPT ![c] = p],
         p.answer # "none" => p.busy # "idle"
  PROVE  /\ page' \in [Consoles -> Pages]
         /\ \A d \in Consoles : page'[d].answer # "none" => page'[d].busy # "idle"
         /\ page'[c] = p
         /\ \A d \in Consoles : d # c => page'[d] = page[d]
BY DEF TypeOK

LEMMA AnswerType ==
  ASSUME TypeOK, NEW r \in Requests, NEW kind \in {"ok", "conflict", "key_conflict", "error"},
         Answer(r, kind),
         r.live => r.page \in Consoles /\ page[r.page].busy # "idle"
  PROVE  /\ page' \in [Consoles -> Pages]
         /\ \A c \in Consoles : page'[c].answer # "none" => page'[c].busy # "idle"
         /\ \A c \in Consoles : /\ page'[c].busy = page[c].busy
                                /\ page'[c].keys = page[c].keys
                                /\ page'[c].issued = page[c].issued
                                /\ page'[c].draft = page[c].draft
                                /\ page'[c].view = page[c].view
                                /\ page'[c].answer = IF r.live /\ c = r.page THEN kind
                                                     ELSE page[c].answer
<1>1. CASE ~r.live BY <1>1 DEF Answer, TypeOK
<1>2. CASE r.live
  <2>. DEFINE p == [page[r.page] EXCEPT !.answer = kind]
  <2>1. page[r.page] \in Pages BY <1>2 DEF TypeOK
  <2>2. /\ p \in Pages /\ p.busy = page[r.page].busy /\ p.keys = page[r.page].keys
        /\ p.issued = page[r.page].issued /\ p.draft = page[r.page].draft
        /\ p.view = page[r.page].view /\ p.answer = kind
    BY <2>1 DEF Pages
  <2>3. page' = [page EXCEPT ![r.page] = p] BY <1>2 DEF Answer
  <2>. HIDE DEF p
  <2>. QED BY <1>2, <2>2, <2>3, PageType
<1>. QED BY <1>1, <1>2
-----------------------------------------------------------------------------
(* The queue of requests.                                                  *)

LEMMA Leaves ==
  ASSUME TypeOK, requests # <<>>, requests' = Tail(requests)
  PROVE  /\ requests' \in Seq(Requests)
         /\ \A i \in DOMAIN requests' : i + 1 \in DOMAIN requests /\ i + 1 > 1
                                        /\ requests'[i] = requests[i + 1]
         /\ \A i, j \in DOMAIN requests' : i < j => i + 1 < j + 1
BY HeadType DEF TypeOK

LEMMA Arrives ==
  ASSUME TypeOK, NEW r \in Requests, requests' = Append(requests, r)
  PROVE  /\ requests' \in Seq(Requests)
         /\ \A i \in DOMAIN requests' :
              \/ i \in DOMAIN requests /\ requests'[i] = requests[i]
              \/ i \notin DOMAIN requests /\ requests'[i] = r
         /\ \A i, j \in DOMAIN requests' :
              i < j => i \in DOMAIN requests /\ requests'[i] = requests[i]
BY DEF TypeOK

LEMMA Removed ==
  ASSUME TypeOK, NEW i \in DOMAIN requests, requests' = RemoveAt(requests, i)
  PROVE  /\ requests' \in Seq(Requests)
         /\ \A j \in DOMAIN requests' :
              LET k == IF j < i THEN j ELSE j + 1
              IN  k \in DOMAIN requests /\ k # i /\ requests'[j] = requests[k]
         /\ \A j1, j2 \in DOMAIN requests' :
              j1 < j2 => (IF j1 < i THEN j1 ELSE j1 + 1) < (IF j2 < i THEN j2 ELSE j2 + 1)
<1>. DEFINE front == SubSeq(requests, 1, i - 1)
            back == SubSeq(requests, i + 1, Len(requests))
<1>1. requests \in Seq(Requests) /\ DOMAIN requests = 1..Len(requests) /\ Len(requests) \in Nat
      /\ i \in Nat /\ i >= 1 /\ i <= Len(requests)
  BY DEF TypeOK
<1>2. \A k \in 1..Len(requests) : requests[k] \in Requests BY <1>1
<1>3. /\ front \in Seq(Requests) /\ Len(front) = i - 1
      /\ \A k \in 1..(i - 1) : front[k] = requests[k]
  <2>1. \A k \in 1..(i - 1) : requests[k] \in Requests BY <1>1, <1>2
  <2>2. /\ SubSeq(requests, 1, i - 1) \in Seq(Requests)
        /\ Len(SubSeq(requests, 1, i - 1)) = IF 1 <= i - 1 THEN i - 1 - 1 + 1 ELSE 0
        /\ \A k \in 1..(i - 1 - 1 + 1) : SubSeq(requests, 1, i - 1)[k] = requests[1 + k - 1]
    BY <1>1, <2>1, SubSeqProperties
  <2>. QED BY <1>1, <2>2
<1>4. /\ back \in Seq(Requests) /\ Len(back) = Len(requests) - i
      /\ \A k \in 1..(Len(requests) - i) : back[k] = requests[i + k]
  <2>1. \A k \in (i + 1)..Len(requests) : requests[k] \in Requests BY <1>1, <1>2
  <2>2. /\ SubSeq(requests, i + 1, Len(requests)) \in Seq(Requests)
        /\ Len(SubSeq(requests, i + 1, Len(requests)))
           = IF i + 1 <= Len(requests) THEN Len(requests) - (i + 1) + 1 ELSE 0
        /\ \A k \in 1..(Len(requests) - (i + 1) + 1) :
             SubSeq(requests, i + 1, Len(requests))[k] = requests[i + 1 + k - 1]
    BY <1>1, <2>1, SubSeqProperties
  <2>. QED BY <1>1, <2>2
<1>. HIDE DEF front, back
<1>5. /\ front \o back \in Seq(Requests)
      /\ Len(front \o back) = Len(requests) - 1
      /\ \A k \in 1..(Len(requests) - 1) :
           (front \o back)[k] = IF k <= i - 1 THEN front[k] ELSE back[k - (i - 1)]
  <2>1. /\ front \o back \in Seq(Requests)
        /\ Len(front \o back) = Len(front) + Len(back)
        /\ \A k \in 1..(Len(front) + Len(back)) :
             (front \o back)[k] = IF k <= Len(front) THEN front[k] ELSE back[k - Len(front)]
    BY <1>3, <1>4, ConcatProperties, Zenon
  <2>2. Len(front) + Len(back) = Len(requests) - 1 BY <1>1, <1>3, <1>4
  <2>3. Len(front) = i - 1 BY <1>3
  <2>. QED BY <2>1, <2>2, <2>3
<1>6. requests' = front \o back BY DEF RemoveAt, front, back
<1>7. DOMAIN requests' = 1..(Len(requests) - 1) BY <1>5, <1>6
<1>8. ASSUME NEW j \in DOMAIN requests'
      PROVE  LET k == IF j < i THEN j ELSE j + 1
             IN  k \in DOMAIN requests /\ k # i /\ requests'[j] = requests[k]
  <2>1. CASE j < i
    <3>1. j \in 1..(i - 1) /\ j <= i - 1 BY <1>1, <1>7, <2>1
    <3>2. requests'[j] = front[j] BY <1>5, <1>6, <1>7, <3>1
    <3>3. front[j] = requests[j] BY <1>3, <3>1
    <3>. QED BY <1>1, <1>7, <2>1, <3>2, <3>3
  <2>2. CASE j >= i
    <3>1. j - (i - 1) \in 1..(Len(requests) - i) /\ i + (j - (i - 1)) = j + 1
      BY <1>1, <1>7, <2>2
    <3>2. requests'[j] = back[j - (i - 1)]
      <4>1. ~(j <= i - 1) /\ j \in 1..(Len(requests) - 1) BY <1>1, <1>7, <2>2
      <4>. QED BY <1>5, <1>6, <4>1
    <3>3. back[j - (i - 1)] = requests[j + 1] BY <1>4, <3>1
    <3>. QED BY <1>1, <1>7, <2>2, <3>2, <3>3
  <2>. QED BY <1>1, <1>7, <2>1, <2>2
<1>9. \A j1, j2 \in DOMAIN requests' :
        j1 < j2 => (IF j1 < i THEN j1 ELSE j1 + 1) < (IF j2 < i THEN j2 ELSE j2 + 1)
  BY <1>1, <1>7
<1>. QED BY <1>5, <1>6, <1>8, <1>9

LEMMA Forgotten ==
  ASSUME TypeOK, NEW c \in Consoles,
         requests' = [i \in DOMAIN requests |-> Forget(requests[i], c)]
  PROVE  /\ requests' \in Seq(Requests)
         /\ DOMAIN requests' = DOMAIN requests
         /\ \A i \in DOMAIN requests : requests'[i] = Forget(requests[i], c)
<1>1. ASSUME NEW r \in Requests PROVE Forget(r, c) \in Requests
  BY DEF Forget, Requests
<1>2. requests \in Seq(Requests) /\ DOMAIN requests = 1..Len(requests) /\ Len(requests) \in Nat
  BY DEF TypeOK
<1>3. requests' \in [1..Len(requests) -> Requests] BY <1>1, <1>2
<1>4. requests' \in Seq(Requests) BY <1>2, <1>3
<1>. QED BY <1>2, <1>4

LEMMA ForgetFields ==
  ASSUME NEW r \in Requests, NEW c \in Consoles
  PROVE  /\ Forget(r, c) \in Requests
         /\ Forget(r, c).page = r.page
         /\ Forget(r, c).op = r.op
         /\ Forget(r, c).key = r.key
         /\ Forget(r, c).signature = r.signature /\ Forget(r, c).seen = r.seen
         /\ Forget(r, c).live => r.live /\ r.page # c
BY DEF Forget, Requests
-----------------------------------------------------------------------------
(* The fields of a page.                                                   *)

LEMMA SetBusy ==
  ASSUME NEW p \in Pages, NEW b \in Operations \cup {"idle"}
  PROVE  LET q == [p EXCEPT !.busy = b]
         IN  /\ q \in Pages /\ q.busy = b /\ q.answer = p.answer /\ q.keys = p.keys
             /\ q.issued = p.issued /\ q.draft = p.draft /\ q.view = p.view
BY DEF Pages

LEMMA SetAnswer ==
  ASSUME NEW p \in Pages, NEW a \in {"none", "ok", "conflict", "key_conflict", "error"}
  PROVE  LET q == [p EXCEPT !.answer = a]
         IN  /\ q \in Pages /\ q.busy = p.busy /\ q.answer = a /\ q.keys = p.keys
             /\ q.issued = p.issued /\ q.draft = p.draft /\ q.view = p.view
BY DEF Pages

LEMMA SetIssued ==
  ASSUME NEW p \in Pages, NEW n \in Nat
  PROVE  LET q == [p EXCEPT !.issued = n]
         IN  /\ q \in Pages /\ q.busy = p.busy /\ q.answer = p.answer /\ q.keys = p.keys
             /\ q.issued = n /\ q.draft = p.draft /\ q.view = p.view
BY DEF Pages

LEMMA SetKey ==
  ASSUME NEW p \in Pages, NEW op \in Operations, NEW entry \in Entries
  PROVE  LET q == [p EXCEPT !.keys = [p.keys EXCEPT ![op] = entry]]
         IN  /\ q \in Pages /\ q.busy = p.busy /\ q.answer = p.answer
             /\ q.keys[op] = entry
             /\ \A o \in Operations : o # op => q.keys[o] = p.keys[o]
             /\ q.issued = p.issued /\ q.draft = p.draft /\ q.view = p.view
<1>. DEFINE keys == [p.keys EXCEPT ![op] = entry]
<1>1. p.keys \in [Operations -> Entries] BY DEF Pages, Entries
<1>2. keys \in [Operations -> Entries] /\ keys[op] = entry
      /\ \A o \in Operations : o # op => keys[o] = p.keys[o]
  BY <1>1
<1>. HIDE DEF keys
<1>3. LET q == [p EXCEPT !.keys = keys]
      IN  /\ q \in Pages /\ q.busy = p.busy /\ q.answer = p.answer /\ q.keys = keys
          /\ q.issued = p.issued /\ q.draft = p.draft /\ q.view = p.view
  BY <1>2 DEF Pages, Entries
<1>. QED BY <1>2, <1>3 DEF keys

LEMMA SetDraft ==
  ASSUME NEW p \in Pages, NEW n \in 1..(MaxNotes + 1)
  PROVE  LET q == [p EXCEPT !.draft = n]
         IN  /\ q \in Pages /\ q.busy = p.busy /\ q.answer = p.answer /\ q.keys = p.keys
             /\ q.issued = p.issued /\ q.draft = n /\ q.view = p.view
BY DEF Pages

LEMMA SetView ==
  ASSUME NEW p \in Pages, NEW v \in Views
  PROVE  LET q == [p EXCEPT !.view = v]
         IN  /\ q \in Pages /\ q.busy = p.busy /\ q.answer = p.answer /\ q.keys = p.keys
             /\ q.issued = p.issued /\ q.draft = p.draft /\ q.view = v
BY DEF Pages, Views

\* What an action of one page does to it.
LEMMA SubmitPage ==
  ASSUME TypeOK, NEW c \in Consoles, NEW op \in Operations, Submit(c, op)
  PROVE  LET kept == SameRequest(page[c].keys[op], Signature(c, op))
             key == IF kept THEN page[c].keys[op].key ELSE <<c, page[c].issued + 1>>
         IN  /\ page' \in [Consoles -> Pages]
             /\ \A d \in Consoles : d # c => page'[d] = page[d]
             /\ page[c].busy = "idle" /\ page[c].answer = "none"
             /\ page'[c].busy = op /\ page'[c].answer = "none"
             /\ page'[c].issued = IF kept THEN page[c].issued ELSE page[c].issued + 1
             /\ page'[c].keys[op] = [key |-> key, signature |-> Signature(c, op)]
             /\ \A o \in Operations : o # op => page'[c].keys[o] = page[c].keys[o]
             /\ page'[c].draft = page[c].draft /\ page'[c].view = page[c].view
             /\ Signature(c, op) \in Signatures /\ key \in Names
<1>. DEFINE signature == Signature(c, op)
            kept == SameRequest(page[c].keys[op], signature)
            key == IF kept THEN page[c].keys[op].key ELSE <<c, page[c].issued + 1>>
            entry == [key |-> key, signature |-> signature]
            issued == IF kept THEN page[c].issued ELSE page[c].issued + 1
            p1 == [page[c] EXCEPT !.busy = op]
            p2 == [p1 EXCEPT !.issued = issued]
            p3 == [p2 EXCEPT !.keys = [p2.keys EXCEPT ![op] = entry]]
<1>1. page \in [Consoles -> Pages] /\ page[c] \in Pages
      /\ page[c].keys \in [Operations -> Entries] /\ page[c].issued \in Nat
  BY DEF TypeOK, Pages, Entries
<1>2. page[c].busy = "idle" /\ page[c].answer = "none" BY DEF Submit, TypeOK
<1>3. signature \in Signatures BY <1>1 DEF Signature, Signatures, Pages
<1>4. page' = [page EXCEPT
           ![c].busy = op,
           ![c].issued = IF kept THEN @ ELSE @ + 1,
           ![c].keys[op] = IF kept THEN @ ELSE [key |-> key, signature |-> signature]]
  BY Zenon DEF Submit
<1>5. kept => page[c].keys[op] = entry
  BY <1>1 DEF SameRequest, Entries
<1>6. key \in Names /\ entry \in Entries /\ issued \in Nat
  BY <1>1, <1>3 DEF Entries, Names
<1>. HIDE DEF signature, kept, key, entry, issued
<1>7. p1 \in Pages /\ p1.busy = op /\ p1.answer = page[c].answer /\ p1.keys = page[c].keys
      /\ p1.draft = page[c].draft /\ p1.view = page[c].view /\ p1.issued = page[c].issued
  BY <1>1, SetBusy
<1>8. p2 \in Pages /\ p2.busy = op /\ p2.answer = page[c].answer /\ p2.keys = page[c].keys
      /\ p2.draft = page[c].draft /\ p2.view = page[c].view /\ p2.issued = issued
  <2>. HIDE DEF p1
  <2>. QED BY <1>6, <1>7, SetIssued
<1>9. /\ p3 \in Pages /\ p3.busy = op /\ p3.answer = page[c].answer /\ p3.issued = issued
      /\ p3.keys[op] = entry
      /\ \A o \in Operations : o # op => p3.keys[o] = page[c].keys[o]
      /\ p3.draft = page[c].draft /\ p3.view = page[c].view
  <2>. HIDE DEF p2
  <2>. QED BY <1>6, <1>8, SetKey
<1>10. page' = [page EXCEPT ![c] = p3]
  <2>1. page' = [page EXCEPT ![c].busy = op, ![c].issued = issued, ![c].keys[op] = entry]
    <3>1. CASE kept
      <4>1. page' = [page EXCEPT ![c].busy = op, ![c].issued = page[c].issued,
                                 ![c].keys[op] = page[c].keys[op]]
        BY <1>1, <1>4, <3>1
      <4>2. issued = page[c].issued /\ page[c].keys[op] = entry BY <3>1, <1>5 DEF issued
      <4>. QED BY <4>1, <4>2
    <3>2. CASE ~kept
      <4>1. page' = [page EXCEPT ![c].busy = op, ![c].issued = page[c].issued + 1,
                                 ![c].keys[op] = entry]
        BY <1>1, <1>4, <3>2 DEF entry
      <4>2. issued = page[c].issued + 1 BY <3>2 DEF issued
      <4>. QED BY <4>1, <4>2
    <3>. QED BY <3>1, <3>2
  <2>. QED BY <1>1, <2>1, <1>7, <1>8
<1>. HIDE DEF p3
<1>11. page' \in [Consoles -> Pages] /\ page'[c] = p3
       /\ \A d \in Consoles : d # c => page'[d] = page[d]
  BY <1>1, <1>9, <1>10
<1>12. /\ page'[c].busy = op /\ page'[c].answer = "none"
       /\ page'[c].issued = issued /\ page'[c].keys[op] = entry
       /\ \A o \in Operations : o # op => page'[c].keys[o] = page[c].keys[o]
       /\ page'[c].draft = page[c].draft /\ page'[c].view = page[c].view
  BY <1>2, <1>9, <1>11, Zenon
<1>. QED BY <1>2, <1>3, <1>6, <1>11, <1>12, Zenon DEF kept, key, signature, entry, issued

LEMMA VisibleVersion ==
  ASSUME TypeOK, VersionsCount
  PROVE  Shown(Visible) \in Views /\ Shown(Visible).version # 0
<1>1. Visible \in Rows BY VisibleType
<1>2. Visible.version # 0 BY DEF VersionsCount, Visible, TypeOK, Rows
<1>. QED BY <1>1, <1>2, ShownType

\* A page that has got its answer, or waits for it no longer.
Released(c) ==
  /\ page' \in [Consoles -> Pages]
  /\ \A d \in Consoles : d # c => page'[d] = page[d]
  /\ page'[c].busy = "idle" /\ page'[c].answer = "none"
  /\ page'[c].issued = page[c].issued
  /\ \A o \in Operations : page'[c].keys[o] \in {page[c].keys[o], NoEntry}
  /\ page'[c].view.version # 0
  /\ page'[c].view \in {page[c].view, Shown(Visible)}

LEMMA LeftAlone ==
  ASSUME TypeOK, VersionsCount, NEW c \in Consoles,
         page' = [page EXCEPT ![c].busy = "idle", ![c].answer = "none"]
  PROVE  Released(c)
<1>. DEFINE p1 == [page[c] EXCEPT !.busy = "idle"]
            p2 == [p1 EXCEPT !.answer = "none"]
<1>1. page \in [Consoles -> Pages] /\ page[c] \in Pages BY DEF TypeOK
<1>2. p1 \in Pages /\ p1.busy = "idle" /\ p1.keys = page[c].keys
      /\ p1.view = page[c].view /\ p1.issued = page[c].issued
  BY <1>1, SetBusy
<1>3. page' = [page EXCEPT ![c] = p2] BY <1>1
<1>. HIDE DEF p1
<1>4. p2 \in Pages /\ p2.busy = "idle" /\ p2.answer = "none" /\ p2.keys = page[c].keys
      /\ p2.view = page[c].view /\ p2.issued = page[c].issued
  BY <1>2, SetAnswer
<1>. HIDE DEF p2
<1>5. page' \in [Consoles -> Pages] /\ page'[c] = p2
      /\ \A d \in Consoles : d # c => page'[d] = page[d]
  BY <1>1, <1>3, <1>4
<1>. QED BY <1>4, <1>5 DEF Released, VersionsCount

LEMMA ForgottenKey ==
  ASSUME TypeOK, NEW c \in Consoles, NEW op \in Operations
  PROVE  \E p \in Pages :
           /\ [page EXCEPT ![c].busy = "idle", ![c].answer = "none", ![c].keys[op] = NoEntry]
              = [page EXCEPT ![c] = p]
           /\ p.busy = "idle" /\ p.answer = "none" /\ p.issued = page[c].issued
           /\ \A o \in Operations : p.keys[o] \in {page[c].keys[o], NoEntry}
           /\ p.draft = page[c].draft /\ p.view = page[c].view
<1>. DEFINE p1 == [page[c] EXCEPT !.busy = "idle"]
            p2 == [p1 EXCEPT !.answer = "none"]
            p3 == [p2 EXCEPT !.keys = [p2.keys EXCEPT ![op] = NoEntry]]
<1>1. page \in [Consoles -> Pages] /\ page[c] \in Pages BY DEF TypeOK
<1>2. p1 \in Pages /\ p1.busy = "idle" /\ p1.keys = page[c].keys
      /\ p1.issued = page[c].issued /\ p1.draft = page[c].draft /\ p1.view = page[c].view
  BY <1>1, SetBusy
<1>3. p2 \in Pages /\ p2.busy = "idle" /\ p2.answer = "none" /\ p2.keys = page[c].keys
      /\ p2.issued = page[c].issued /\ p2.draft = page[c].draft /\ p2.view = page[c].view
  <2>. HIDE DEF p1
  <2>. QED BY <1>2, SetAnswer
<1>4. [page EXCEPT ![c].busy = "idle", ![c].answer = "none", ![c].keys[op] = NoEntry]
      = [page EXCEPT ![c] = p3]
  <2>1. [page EXCEPT ![c].busy = "idle", ![c].answer = "none", ![c].keys[op] = NoEntry]
        = [page EXCEPT ![c] = [p2 EXCEPT !.keys[op] = NoEntry]]
    BY Zenon
  <2>2. [p2 EXCEPT !.keys[op] = NoEntry] = p3
    <3>. HIDE DEF p2
    <3>. QED BY <1>3 DEF Pages
  <2>. QED BY <2>1, <2>2, Zenon
<1>5. /\ p3 \in Pages /\ p3.busy = p2.busy /\ p3.answer = p2.answer
      /\ p3.keys[op] = NoEntry
      /\ \A o \in Operations : o # op => p3.keys[o] = p2.keys[o]
      /\ p3.issued = p2.issued /\ p3.draft = p2.draft /\ p3.view = p2.view
  <2>. HIDE DEF p2
  <2>. QED BY <1>3, SetKey, NoneTypes, Zenon
<1>. HIDE DEF p2, p3
<1>6. \A o \in Operations : p3.keys[o] \in {page[c].keys[o], NoEntry}
  <2>. TAKE o \in Operations
  <2>1. CASE o = op BY <1>5, <2>1
  <2>2. CASE o # op BY <1>3, <1>5, <2>2
  <2>. QED BY <2>1, <2>2
<1>. p3 \in Pages BY <1>5
<1>. WITNESS p3 \in Pages
<1>. QED BY <1>3, <1>4, <1>5, <1>6

LEMMA ReleasedBy ==
  ASSUME TypeOK, NEW c \in Consoles, NEW p \in Pages, page' = [page EXCEPT ![c] = p],
         p.busy = "idle", p.answer = "none", p.issued = page[c].issued,
         \A o \in Operations : p.keys[o] \in {page[c].keys[o], NoEntry},
         p.view.version # 0, p.view \in {page[c].view, Shown(Visible)}
  PROVE  Released(c)
BY PageType, Zenon DEF Released

LEMMA ReleasedPage ==
  ASSUME TypeOK, VersionsCount, DraftFits, NEW c \in Consoles, GiveUp(c) \/ Receive(c)
  PROVE  Released(c)
<1>1. page \in [Consoles -> Pages] /\ page[c] \in Pages BY DEF TypeOK
<1>2. page[c].draft \in 1..(MaxNotes + 1) /\ page[c].view.version # 0
  BY <1>1 DEF Pages, VersionsCount
<1>3. page[c].answer # "none" => page[c].busy \in Operations
  BY <1>1 DEF TypeOK, Pages
<1>4. ASSUME GiveUp(c) \/ Fail(c) PROVE Released(c)
  BY <1>4, LeftAlone DEF GiveUp, Fail
<1>. DEFINE op == page[c].busy
            forgotten == [page EXCEPT ![c].busy = "idle", ![c].answer = "none",
                                      ![c].keys[op] = NoEntry]
<1>5. ASSUME op \in Operations
      PROVE  \E p \in Pages :
               /\ forgotten = [page EXCEPT ![c] = p]
               /\ p.busy = "idle" /\ p.answer = "none" /\ p.issued = page[c].issued
               /\ \A o \in Operations : p.keys[o] \in {page[c].keys[o], NoEntry}
               /\ p.draft = page[c].draft /\ p.view = page[c].view
  BY <1>5, ForgottenKey
<1>6. ASSUME Succeed(c) PROVE Released(c)
  <2>. DEFINE n == IF op = "note" THEN page[c].draft + 1 ELSE page[c].draft
  <2>1. op \in Operations BY <1>3, <1>6 DEF Succeed
  <2>2. n \in 1..(MaxNotes + 1) BY <1>2, MutationAssumption DEF DraftFits
  <2>3. page' = [[forgotten EXCEPT ![c].draft = n] EXCEPT ![c].view = Shown(Visible)]
    BY <1>1, <1>6 DEF Succeed
  <2>4. PICK p \in Pages :
          /\ forgotten = [page EXCEPT ![c] = p]
          /\ p.busy = "idle" /\ p.answer = "none" /\ p.issued = page[c].issued
          /\ \A o \in Operations : p.keys[o] \in {page[c].keys[o], NoEntry}
          /\ p.draft = page[c].draft /\ p.view = page[c].view
    BY <1>5, <2>1
  <2>. DEFINE q == [p EXCEPT !.draft = n]
              w == [q EXCEPT !.view = Shown(Visible)]
  <2>. HIDE DEF forgotten, n
  <2>5. q \in Pages /\ q.busy = "idle" /\ q.answer = "none" /\ q.issued = page[c].issued
        /\ q.keys = p.keys
    BY <2>2, <2>4, SetDraft
  <2>6. page' = [page EXCEPT ![c] = w] BY <1>1, <2>3, <2>4
  <2>. HIDE DEF q
  <2>7. w \in Pages /\ w.busy = "idle" /\ w.answer = "none" /\ w.issued = page[c].issued
        /\ w.keys = p.keys /\ w.view.version # 0 /\ w.view = Shown(Visible)
    BY <2>5, SetView, VisibleVersion
  <2>. HIDE DEF w
  <2>. QED BY <2>4, <2>6, <2>7, ReleasedBy
<1>7. ASSUME Conflict(c) PROVE Released(c)
  <2>1. op \in Operations BY <1>3, <1>7 DEF Conflict
  <2>2. page' = forgotten \/ page' = [forgotten EXCEPT ![c].view = Shown(Visible)]
    BY <1>7 DEF Conflict
  <2>3. PICK p \in Pages :
          /\ forgotten = [page EXCEPT ![c] = p]
          /\ p.busy = "idle" /\ p.answer = "none" /\ p.issued = page[c].issued
          /\ \A o \in Operations : p.keys[o] \in {page[c].keys[o], NoEntry}
          /\ p.draft = page[c].draft /\ p.view = page[c].view
    BY <1>5, <2>1
  <2>. HIDE DEF forgotten
  <2>4. CASE page' = forgotten BY <1>2, <2>3, <2>4, ReleasedBy
  <2>5. CASE page' = [forgotten EXCEPT ![c].view = Shown(Visible)]
    <3>. DEFINE w == [p EXCEPT !.view = Shown(Visible)]
    <3>1. w \in Pages /\ w.busy = "idle" /\ w.answer = "none" /\ w.issued = page[c].issued
          /\ w.keys = p.keys /\ w.view.version # 0 /\ w.view = Shown(Visible)
      BY <2>3, SetView, VisibleVersion
    <3>2. page' = [page EXCEPT ![c] = w] BY <1>1, <2>3, <2>5
    <3>. HIDE DEF w
    <3>. QED BY <2>3, <3>1, <3>2, ReleasedBy
  <2>. QED BY <2>2, <2>4, <2>5
<1>. QED BY <1>4, <1>6, <1>7 DEF Receive
-----------------------------------------------------------------------------
(* Each action keeps the types; what it does is stated for later use.      *)

\* A request of the core fits its page.
LEMMA LiveFits ==
  ASSUME TypeOK, QueueInOrder
  PROVE  /\ tx.request \in Requests
         /\ tx.request.live => tx.request.page \in Consoles /\ page[tx.request.page].busy # "idle"
         /\ \A i \in DOMAIN requests :
              /\ requests[i] \in Requests
              /\ requests[i].page \in Consoles
              /\ requests[i].live => page[requests[i].page].busy # "idle"
<1>1. tx.request \in Requests BY DEF TypeOK
<1>2. \A i \in DOMAIN requests : requests[i] \in Requests BY DEF TypeOK
<1>3. \A r \in Requests : r.op # "idle" BY DEF Requests, Operations
<1>. QED BY <1>1, <1>2, <1>3 DEF QueueInOrder, Awaited, Requests

LEMMA ClosedType ==
  ASSUME NEW r \in Rows
  PROVE  /\ NoTransaction(r) \in [open : BOOLEAN, row : Rows, request : Requests]
         /\ NoTransaction(r).open = FALSE
         /\ NoTransaction(r).row = r
         /\ NoTransaction(r).request = NoRequest
BY NoneTypes DEF NoTransaction

LEMMA MoveEffect ==
  ASSUME IInv, NEW to \in States, Move(to)
  PROVE  /\ TypeOK'
         /\ tx'.open = TRUE /\ tx'.request = NoRequest
         /\ tx'.row.version = row.version + 1
         /\ tx'.row.acked = row.acked
         /\ \E change \in Changes :
              /\ tx'.row.log = Changed(row, change).log
              /\ change.name = <<Engine, moves + 1>> /\ change.op = "move"
<1>. DEFINE change == [name |-> <<Engine, moves + 1>>, op |-> "move", body |-> 0, seen |-> NoName]
            r == [Changed(row, change) EXCEPT !.state = to]
<1>1. TypeOK /\ row \in Rows /\ moves \in Nat BY DEF IInv, TypeOK
<1>2. change \in Changes BY <1>1, NoneTypes DEF Changes, Names
<1>3. tx' = [open |-> TRUE, row |-> r, request |-> NoRequest] BY Zenon DEF Move
<1>. HIDE DEF change
<1>4. Changed(row, change) \in Rows /\ Changed(row, change).version = row.version + 1
      /\ Changed(row, change).acked = row.acked
  BY <1>1, <1>2, ChangedType
<1>5. r \in Rows /\ r.version = row.version + 1 /\ r.acked = row.acked
      /\ r.log = Changed(row, change).log
  BY <1>4 DEF Rows
<1>. HIDE DEF r
<1>6. tx' \in [open : BOOLEAN, row : Rows, request : Requests] BY <1>3, <1>5, NoneTypes
<1>7. TypeOK'
  <2>1. UNCHANGED <<row, records, requests, page, timeouts, losses>>
        /\ moves < MaxMoves /\ moves' = moves + 1
    BY Zenon DEF Move
  <2>2. moves' \in 0..MaxMoves BY <2>1, <1>1, MutationAssumption DEF TypeOK
  <2>. QED BY <2>1, <2>2, <1>1, <1>6 DEF TypeOK
<1>8. change.name = <<Engine, moves + 1>> /\ change.op = "move" BY DEF change
<1>. QED BY <1>2, <1>3, <1>5, <1>7, <1>8

\* A mutation that is answered without a write.
LEMMA RefusalEffect ==
  ASSUME IInv, Begin, Verdict(requests[1]) # "commit"
  PROVE  /\ TypeOK'
         /\ UNCHANGED <<row, records, tx, moves, timeouts, losses>>
         /\ ~tx.open
         /\ requests # <<>> /\ requests' = Tail(requests)
         /\ Verdict(requests[1]) \in {"ok", "conflict", "key_conflict"}
         /\ Answer(requests[1], Verdict(requests[1]))
<1>. DEFINE r == requests[1]
<1>1. TypeOK /\ QueueInOrder /\ requests # <<>> BY DEF IInv, Begin
<1>2. Head(requests) = r /\ 1 \in DOMAIN requests /\ requests' \in Seq(Requests)
  BY <1>1, HeadType DEF Begin
<1>3. /\ UNCHANGED <<row, records, tx, moves, timeouts, losses>>
      /\ ~tx.open
      /\ requests # <<>> /\ requests' = Tail(requests)
      /\ Answer(r, Verdict(r))
  BY <1>2 DEF Begin
<1>4. Verdict(r) \in {"ok", "conflict", "key_conflict"} BY DEF Verdict
<1>5. /\ page' \in [Consoles -> Pages]
      /\ \A c \in Consoles : page'[c].answer # "none" => page'[c].busy # "idle"
  BY <1>1, <1>2, <1>3, <1>4, LiveFits, AnswerType
<1>6. TypeOK' BY <1>1, <1>2, <1>3, <1>5 DEF TypeOK
<1>. QED BY <1>3, <1>4, <1>6

LEMMA WriteEffect ==
  ASSUME IInv, Begin, Verdict(requests[1]) = "commit"
  PROVE  /\ TypeOK'
         /\ UNCHANGED <<row, records, page, moves, timeouts, losses>>
         /\ ~tx.open
         /\ requests # <<>> /\ requests' = Tail(requests)
         /\ tx' = [open |-> TRUE, row |-> Mutated(requests[1]), request |-> requests[1]]
         /\ ~Replayed(requests[1]) /\ Current(requests[1])
<1>. DEFINE r == requests[1]
<1>1. TypeOK /\ requests # <<>> BY DEF IInv, Begin
<1>2. Head(requests) = r /\ r \in Requests /\ requests' \in Seq(Requests)
  BY <1>1, HeadType DEF Begin
<1>3. /\ UNCHANGED <<row, records, page, moves, timeouts, losses>>
      /\ ~tx.open
      /\ requests # <<>> /\ requests' = Tail(requests)
      /\ tx' = [open |-> TRUE, row |-> Mutated(r), request |-> r]
  BY <1>2 DEF Begin
<1>4. ~Replayed(r) /\ Current(r) BY DEF Verdict
<1>5. Mutated(r) \in Rows BY <1>1, <1>2, MutatedType
<1>6. TypeOK' BY <1>1, <1>2, <1>3, <1>5 DEF TypeOK
<1>. QED BY <1>3, <1>4, <1>6

LEMMA CommitEffect ==
  ASSUME IInv, Commit
  PROVE  /\ TypeOK'
         /\ UNCHANGED <<requests, moves, timeouts, losses>>
         /\ tx.open /\ row' = tx.row /\ tx' = NoTransaction(tx.row)
         /\ records' = IF tx.request.page = Engine THEN records
              ELSE records \cup {[op |-> tx.request.op, key |-> tx.request.key,
                                  signature |-> tx.request.signature]}
         /\ Answer(tx.request, "ok")
<1>. DEFINE r == tx.request
            record == [op |-> r.op, key |-> r.key, signature |-> r.signature]
<1>1. TypeOK /\ QueueInOrder /\ r \in Requests /\ tx.row \in Rows BY DEF IInv, TypeOK
<1>2. /\ UNCHANGED <<requests, moves, timeouts, losses>>
      /\ tx.open /\ row' = tx.row /\ tx' = NoTransaction(tx.row)
      /\ records' = IF r.page = Engine THEN records ELSE records \cup {record}
      /\ Answer(r, "ok")
  BY DEF Commit
<1>3. record \in [op : Operations, key : Names, signature : Signatures]
  BY <1>1 DEF Requests
<1>4. records' \subseteq [op : Operations, key : Names, signature : Signatures]
  BY <1>1, <1>2, <1>3 DEF TypeOK
<1>5. /\ page' \in [Consoles -> Pages]
      /\ \A c \in Consoles : page'[c].answer # "none" => page'[c].busy # "idle"
  BY <1>1, <1>2, LiveFits, AnswerType
<1>6. TypeOK' BY <1>1, <1>2, <1>4, <1>5, ClosedType DEF TypeOK
<1>. QED BY <1>2, <1>6

LEMMA RollBackEffect ==
  ASSUME IInv, RollBack
  PROVE  /\ TypeOK'
         /\ UNCHANGED <<row, records, requests, moves, timeouts>>
         /\ tx' = NoTransaction(row)
         /\ Answer(tx.request, "error")
<1>1. TypeOK /\ QueueInOrder /\ row \in Rows BY DEF IInv, TypeOK
<1>2. /\ UNCHANGED <<row, records, requests, moves, timeouts>>
      /\ tx' = NoTransaction(row)
      /\ Answer(tx.request, "error")
      /\ losses < MaxLosses /\ losses' = losses + 1
  BY DEF RollBack, Lose
<1>3. /\ page' \in [Consoles -> Pages]
      /\ \A c \in Consoles : page'[c].answer # "none" => page'[c].busy # "idle"
  BY <1>1, <1>2, LiveFits, AnswerType
<1>4. losses' \in 0..MaxLosses BY <1>1, <1>2, MutationAssumption DEF TypeOK
<1>. QED BY <1>1, <1>2, <1>3, <1>4, ClosedType DEF TypeOK

LEMMA CrashEffect ==
  ASSUME IInv, Crash
  PROVE  /\ TypeOK'
         /\ UNCHANGED <<row, records, moves, timeouts>>
         /\ tx' = NoTransaction(row) /\ requests' = <<>>
         /\ \A c \in Consoles :
              /\ page'[c].busy = page[c].busy /\ page'[c].keys = page[c].keys
              /\ page'[c].issued = page[c].issued /\ page'[c].draft = page[c].draft
              /\ page'[c].view = page[c].view
              /\ page'[c].answer \in {page[c].answer, "error"}
<1>1. TypeOK /\ row \in Rows /\ page \in [Consoles -> Pages] BY DEF IInv, TypeOK
<1>2. /\ UNCHANGED <<row, records, moves, timeouts>>
      /\ tx' = NoTransaction(row) /\ requests' = <<>>
      /\ losses < MaxLosses /\ losses' = losses + 1
  BY DEF Crash, Lose
<1>. DEFINE q(c) == IF page[c].busy # "idle" /\ page[c].answer = "none"
                    THEN [page[c] EXCEPT !.answer = "error"]
                    ELSE page[c]
<1>3. page' = [c \in Consoles |-> q(c)] BY Zenon DEF Crash
<1>4. ASSUME NEW c \in Consoles
      PROVE  /\ q(c) \in Pages
             /\ q(c).busy = page[c].busy /\ q(c).keys = page[c].keys
             /\ q(c).issued = page[c].issued /\ q(c).draft = page[c].draft
             /\ q(c).view = page[c].view
             /\ q(c).answer \in {page[c].answer, "error"}
             /\ q(c).answer # "none" => q(c).busy # "idle"
  <2>1. page[c] \in Pages /\ (page[c].answer # "none" => page[c].busy # "idle")
    BY <1>1 DEF TypeOK
  <2>2. CASE page[c].busy # "idle" /\ page[c].answer = "none"
    <3>. DEFINE p == [page[c] EXCEPT !.answer = "error"]
    <3>1. q(c) = p BY <2>2
    <3>2. p \in Pages /\ p.busy = page[c].busy /\ p.answer = "error" /\ p.keys = page[c].keys
          /\ p.issued = page[c].issued /\ p.draft = page[c].draft /\ p.view = page[c].view
      BY <2>1, SetAnswer
    <3>. HIDE DEF p, q
    <3>. QED BY <2>2, <3>1, <3>2
  <2>3. CASE ~(page[c].busy # "idle" /\ page[c].answer = "none") BY <2>1, <2>3
  <2>. QED BY <2>2, <2>3
<1>. HIDE DEF q
<1>5. page' \in [Consoles -> Pages] /\ \A c \in Consoles : page'[c] = q(c) BY <1>3, <1>4
<1>6. losses' \in 0..MaxLosses BY <1>1, <1>2, MutationAssumption DEF TypeOK
<1>7. requests' \in Seq(Requests) BY <1>2
<1>8. TypeOK' BY <1>1, <1>2, <1>4, <1>5, <1>6, <1>7, ClosedType DEF TypeOK
<1>. QED BY <1>2, <1>4, <1>5, <1>8

LEMMA ExpireEffect ==
  ASSUME IInv, NEW record \in records, Expire(record)
  PROVE  /\ TypeOK'
         /\ UNCHANGED <<row, tx, requests, page, moves, timeouts, losses>>
         /\ records' \subseteq records
BY DEF IInv, TypeOK, Expire

\* The page sends a request for the version it shows, with the key it keeps: the one
\* it had if it still asks for the same, or a new one.
Sent(c, op, k, s, r) ==
  /\ page'[c].keys[op] = [key |-> k, signature |-> s]
  /\ s.version # 0
  /\ \/ page[c].keys[op] = page'[c].keys[op]
     \/ page'[c].issued = page[c].issued + 1 /\ k = <<c, page[c].issued + 1>>
  /\ r.page = c /\ r.op = op /\ r.key = k /\ r.signature = s
  /\ s.version = page[c].view.version /\ r.seen = page[c].view.seen
  /\ requests' = Append(requests, r)

Sends(c, op) == \E k \in Names, s \in Signatures, r \in Requests : Sent(c, op, k, s, r)

LEMMA SubmitEffect ==
  ASSUME IInv, NEW c \in Consoles, NEW op \in Operations, Submit(c, op)
  PROVE  /\ TypeOK'
         /\ UNCHANGED <<row, records, tx, moves, timeouts, losses>>
         /\ page'[c].busy = op /\ page'[c].answer = "none"
         /\ page[c].busy = "idle" /\ page[c].answer = "none"
         /\ \A d \in Consoles : d # c => page'[d] = page[d]
         /\ page'[c].draft = page[c].draft /\ page'[c].view = page[c].view
         /\ op = "note" => page[c].draft <= MaxNotes
         /\ page'[c].issued >= page[c].issued
         /\ \A o \in Operations : o # op => page'[c].keys[o] = page[c].keys[o]
         /\ Sends(c, op)
<1>. DEFINE signature == Signature(c, op)
            kept == SameRequest(page[c].keys[op], signature)
            key == IF kept THEN page[c].keys[op].key ELSE <<c, page[c].issued + 1>>
            r == [page |-> c, op |-> op, key |-> key, signature |-> signature,
                  seen |-> page[c].view.seen, live |-> TRUE]
<1>1. TypeOK /\ VersionsCount /\ page[c] \in Pages BY DEF IInv, TypeOK
<1>2. /\ page' \in [Consoles -> Pages]
      /\ \A d \in Consoles : d # c => page'[d] = page[d]
      /\ page[c].busy = "idle" /\ page[c].answer = "none"
      /\ page'[c].busy = op /\ page'[c].answer = "none"
      /\ page'[c].issued = IF kept THEN page[c].issued ELSE page[c].issued + 1
      /\ page'[c].keys[op] = [key |-> key, signature |-> signature]
      /\ \A o \in Operations : o # op => page'[c].keys[o] = page[c].keys[o]
      /\ page'[c].draft = page[c].draft /\ page'[c].view = page[c].view
      /\ signature \in Signatures /\ key \in Names
  BY <1>1, SubmitPage
<1>3. /\ UNCHANGED <<row, records, tx, moves, timeouts, losses>>
      /\ requests' = Append(requests, r)
      /\ Offered(c, op)
  BY Zenon DEF Submit
<1>4. op = "note" => page[c].draft <= MaxNotes BY <1>3 DEF Offered
<1>5. signature.version # 0 /\ signature.version = page[c].view.version
  BY <1>1 DEF VersionsCount, Signature
<1>6. kept => page[c].keys[op] = [key |-> key, signature |-> signature]
  <2>1. page[c].keys[op] \in Entries BY <1>1 DEF Pages, Entries
  <2>. QED BY <2>1 DEF SameRequest, Entries
<1>7. page[c].view.seen \in Names /\ page[c].issued \in Nat BY <1>1 DEF Pages
<1>. HIDE DEF signature, kept
<1>8. ~kept => key = <<c, page[c].issued + 1>> OBVIOUS
<1>. HIDE DEF key
<1>9. r \in Requests BY <1>2, <1>7 DEF Requests
<1>10. /\ r.page = c /\ r.op = op /\ r.key = key /\ r.signature = signature
       /\ r.seen = page[c].view.seen
  OBVIOUS
<1>. HIDE DEF r
<1>11. requests' \in Seq(Requests) BY <1>1, <1>3, <1>9 DEF TypeOK
<1>12. TypeOK'
  <2>1. \A d \in Consoles : page'[d].answer # "none" => page'[d].busy # "idle"
    BY <1>1, <1>2 DEF TypeOK
  <2>. QED BY <1>1, <1>2, <1>3, <1>11, <2>1 DEF TypeOK
<1>13. \/ page[c].keys[op] = page'[c].keys[op]
       \/ page'[c].issued = page[c].issued + 1 /\ key = <<c, page[c].issued + 1>>
  BY <1>2, <1>6, <1>8
<1>14. page'[c].issued >= page[c].issued BY <1>2, <1>7
<1>15. Sends(c, op)
  <2>1. key \in Names /\ signature \in Signatures /\ r \in Requests BY <1>2, <1>9
  <2>2. Sent(c, op, key, signature, r)
    BY <1>2, <1>3, <1>5, <1>9, <1>10, <1>13 DEF Sent
  <2>. QED BY <2>1, <2>2 DEF Sends
<1>. QED BY <1>2, <1>3, <1>4, <1>12, <1>14, <1>15

LEMMA GiveUpEffect ==
  ASSUME IInv, NEW c \in Consoles, GiveUp(c)
  PROVE  /\ TypeOK'
         /\ UNCHANGED <<row, records, moves, losses>>
         /\ Released(c)
         /\ DOMAIN requests' = DOMAIN requests
         /\ \A i \in DOMAIN requests : requests'[i] = Forget(requests[i], c)
         /\ tx'.open = tx.open /\ tx'.row = tx.row /\ tx'.request = Forget(tx.request, c)
<1>1. TypeOK /\ VersionsCount /\ DraftFits BY DEF IInv
<1>2. Released(c) BY <1>1, ReleasedPage
<1>3. requests' \in Seq(Requests) /\ DOMAIN requests' = DOMAIN requests
      /\ \A i \in DOMAIN requests : requests'[i] = Forget(requests[i], c)
  BY <1>1, Forgotten DEF GiveUp
<1>4. Forget(tx.request, c) \in Requests BY <1>1, ForgetFields DEF TypeOK
<1>5. tx' = [tx EXCEPT !.request = Forget(tx.request, c)] BY DEF GiveUp
<1>6. tx' \in [open : BOOLEAN, row : Rows, request : Requests]
      /\ tx'.open = tx.open /\ tx'.row = tx.row /\ tx'.request = Forget(tx.request, c)
  <2>. DEFINE f == Forget(tx.request, c)
  <2>. HIDE DEF f
  <2>1. f \in Requests /\ tx' = [tx EXCEPT !.request = f] BY <1>4, <1>5 DEF f
  <2>2. tx' \in [open : BOOLEAN, row : Rows, request : Requests]
        /\ tx'.open = tx.open /\ tx'.row = tx.row /\ tx'.request = f
    BY <1>1, <2>1 DEF TypeOK
  <2>. QED BY <2>2 DEF f
<1>7. /\ UNCHANGED <<row, records, moves, losses>>
      /\ timeouts < MaxTimeouts /\ timeouts' = timeouts + 1
  BY DEF GiveUp, TimeOut
<1>8. timeouts' \in 0..MaxTimeouts BY <1>1, <1>7, MutationAssumption DEF TypeOK
<1>9. TypeOK' BY <1>1, <1>2, <1>3, <1>6, <1>7, <1>8 DEF TypeOK, Released
<1>. QED BY <1>2, <1>3, <1>6, <1>7, <1>9

LEMMA ReceiveEffect ==
  ASSUME IInv, NEW c \in Consoles, Receive(c)
  PROVE  /\ TypeOK'
         /\ UNCHANGED <<row, records, tx, requests, moves, losses>>
         /\ Released(c)
         /\ page[c].answer # "none"
<1>1. TypeOK /\ VersionsCount /\ DraftFits BY DEF IInv
<1>2. Released(c) BY <1>1, ReleasedPage
<1>3. UNCHANGED <<row, records, tx, requests, moves, losses>> /\ page[c].answer # "none"
  BY DEF Receive, Succeed, Conflict, Fail
<1>4. timeouts' = timeouts \/ (timeouts < MaxTimeouts /\ timeouts' = timeouts + 1)
  BY DEF Receive, Succeed, Conflict, Fail, TimeOut
<1>5. timeouts' \in 0..MaxTimeouts BY <1>1, <1>4, MutationAssumption DEF TypeOK
<1>6. TypeOK' BY <1>1, <1>2, <1>3, <1>5 DEF TypeOK, Released
<1>. QED BY <1>2, <1>3, <1>6

LEMMA RefuseEffect ==
  ASSUME IInv, NEW c \in Consoles, Refuse(c)
  PROVE  /\ TypeOK'
         /\ UNCHANGED <<row, records, tx, moves, losses>>
         /\ \E i \in DOMAIN requests :
              requests[i].page = c /\ requests[i].live /\ requests' = RemoveAt(requests, i)
         /\ \A d \in Consoles :
              /\ page'[d].busy = page[d].busy /\ page'[d].keys = page[d].keys
              /\ page'[d].issued = page[d].issued /\ page'[d].draft = page[d].draft
              /\ page'[d].view = page[d].view
              /\ page'[d].answer = IF d = c THEN "error" ELSE page[d].answer
<1>. DEFINE p == [page[c] EXCEPT !.answer = "error"]
<1>1. TypeOK /\ QueueInOrder /\ page[c] \in Pages BY DEF IInv, TypeOK
<1>2. PICK i \in DOMAIN requests :
        requests[i].page = c /\ requests[i].live /\ requests' = RemoveAt(requests, i)
  BY DEF Refuse
<1>3. requests' \in Seq(Requests) BY <1>1, <1>2, Removed
<1>4. p \in Pages /\ p.busy = page[c].busy /\ p.keys = page[c].keys
      /\ p.issued = page[c].issued /\ p.draft = page[c].draft /\ p.view = page[c].view
      /\ p.answer = "error"
  BY <1>1, SetAnswer
<1>5. p.busy # "idle" BY <1>1, <1>2, <1>4, LiveFits
<1>6. page' = [page EXCEPT ![c] = p] BY DEF Refuse
<1>7. /\ UNCHANGED <<row, records, tx, moves, losses>>
      /\ timeouts < MaxTimeouts /\ timeouts' = timeouts + 1
  BY DEF Refuse, TimeOut
<1>8. timeouts' \in 0..MaxTimeouts BY <1>1, <1>7, MutationAssumption DEF TypeOK
<1>. HIDE DEF p
<1>9. /\ page' \in [Consoles -> Pages]
      /\ \A d \in Consoles : page'[d].answer # "none" => page'[d].busy # "idle"
      /\ page'[c] = p
      /\ \A d \in Consoles : d # c => page'[d] = page[d]
  BY <1>1, <1>4, <1>5, <1>6, PageType
<1>10. TypeOK' BY <1>1, <1>3, <1>7, <1>8, <1>9 DEF TypeOK
<1>. QED BY <1>2, <1>4, <1>7, <1>9, <1>10

\* A refetch or an edit.
LEMMA LookEffect ==
  ASSUME IInv, NEW c \in Consoles, Refetch(c) \/ Edit(c)
  PROVE  /\ TypeOK'
         /\ UNCHANGED <<row, records, tx, requests, moves, timeouts, losses>>
         /\ \A d \in Consoles :
              /\ page'[d].busy = page[d].busy /\ page'[d].keys = page[d].keys
              /\ page'[d].issued = page[d].issued /\ page'[d].answer = page[d].answer
              /\ page'[d].view.version # 0
              /\ page'[d].draft # page[d].draft => page'[d].draft <= MaxNotes
              /\ page'[d].view \in {page[d].view, Shown(Visible)}
<1>1. TypeOK /\ VersionsCount /\ page[c] \in Pages BY DEF IInv, TypeOK
<1>2. UNCHANGED <<row, records, tx, requests, moves, timeouts, losses>> BY DEF Refetch, Edit
<1>3. \E p \in Pages :
        /\ page' = [page EXCEPT ![c] = p]
        /\ p.busy = page[c].busy /\ p.keys = page[c].keys /\ p.issued = page[c].issued
        /\ p.answer = page[c].answer /\ p.view.version # 0
        /\ p.draft # page[c].draft => p.draft <= MaxNotes
        /\ p.view \in {page[c].view, Shown(Visible)}
  <2>1. CASE Refetch(c)
    <3>. DEFINE p == [page[c] EXCEPT !.view = Shown(Visible)]
    <3>1. /\ p \in Pages /\ p.busy = page[c].busy /\ p.keys = page[c].keys
          /\ p.issued = page[c].issued /\ p.answer = page[c].answer
          /\ p.draft = page[c].draft /\ p.view.version # 0 /\ p.view = Shown(Visible)
      BY <1>1, VisibleVersion, SetView
    <3>2. page' = [page EXCEPT ![c] = p] BY <2>1 DEF Refetch
    <3>. HIDE DEF p
    <3>. QED BY <3>1, <3>2
  <2>2. CASE Edit(c)
    <3>. DEFINE n == page[c].draft + 1
                p == [page[c] EXCEPT !.draft = n]
    <3>1. n \in 1..(MaxNotes + 1) /\ n <= MaxNotes
      BY <1>1, <2>2, MutationAssumption DEF Edit, Pages
    <3>2. page' = [page EXCEPT ![c] = p] BY <2>2 DEF Edit
    <3>. HIDE DEF n
    <3>3. /\ p \in Pages /\ p.busy = page[c].busy /\ p.keys = page[c].keys
          /\ p.issued = page[c].issued /\ p.answer = page[c].answer
          /\ p.draft = n /\ p.view = page[c].view
      BY <1>1, <3>1, SetDraft
    <3>4. page[c].view.version # 0 BY <1>1 DEF VersionsCount
    <3>. HIDE DEF p
    <3>. QED BY <3>1, <3>2, <3>3, <3>4
  <2>. QED BY <2>1, <2>2
<1>4. PICK p \in Pages :
        /\ page' = [page EXCEPT ![c] = p]
        /\ p.busy = page[c].busy /\ p.keys = page[c].keys /\ p.issued = page[c].issued
        /\ p.answer = page[c].answer /\ p.view.version # 0
        /\ p.draft # page[c].draft => p.draft <= MaxNotes
        /\ p.view \in {page[c].view, Shown(Visible)}
  BY <1>3
<1>5. p.answer # "none" => p.busy # "idle" BY <1>1, <1>4 DEF TypeOK
<1>6. /\ page' \in [Consoles -> Pages]
      /\ \A d \in Consoles : page'[d].answer # "none" => page'[d].busy # "idle"
      /\ page'[c] = p
      /\ \A d \in Consoles : d # c => page'[d] = page[d]
  BY <1>1, <1>4, <1>5, PageType
<1>7. TypeOK' BY <1>1, <1>2, <1>6 DEF TypeOK
<1>. QED BY <1>1, <1>2, <1>4, <1>6, <1>7 DEF VersionsCount
-----------------------------------------------------------------------------
(* Each action keeps the inductive invariant.                              *)

\* An action that gives no key a new place.
LEMMA NoNewKeys ==
  ASSUME IInv, TypeOK',
         \A o \in Operations, k \in Names, s \in Signatures :
           Carried(o, k, s)' => Carried(o, k, s),
         \A c \in Consoles : page'[c].issued >= page[c].issued
  PROVE  OneRequestPerKey' /\ KeysIssued'
<1>1. OneRequestPerKey' BY DEF IInv, OneRequestPerKey
<1>2. ASSUME NEW o \in Operations, NEW k \in Names, NEW s \in Signatures, Carried(o, k, s)'
      PROVE  k[1] \in Consoles /\ k[2] <= page'[k[1]].issued
  <2>1. k[1] \in Consoles /\ k[2] <= page[k[1]].issued BY <1>2 DEF IInv, KeysIssued
  <2>2. k[2] \in Nat BY DEF Names
  <2>3. page[k[1]] \in Pages /\ page'[k[1]] \in Pages BY <2>1 DEF IInv, TypeOK
  <2>4. page[k[1]].issued \in Nat /\ page'[k[1]].issued \in Nat BY <2>3 DEF Pages
  <2>. QED BY <2>1, <2>2, <2>4
<1>3. KeysIssued' BY <1>2 DEF KeysIssued
<1>. QED BY <1>1, <1>3

\* An action that leaves the pages and the queue alone.
LEMMA PagesStay ==
  ASSUME IInv, UNCHANGED page
  PROVE  DraftFits' /\ KeysFitRequests'
BY DEF IInv, DraftFits, KeysFitRequests

LEMMA LogFacts ==
  ASSUME TypeOK, TransactionExtends
  PROVE  /\ row \in Rows /\ tx.row \in Rows
         /\ DOMAIN row.log = 1..Len(row.log) /\ Len(row.log) \in Nat
         /\ DOMAIN tx.row.log = 1..Len(tx.row.log) /\ Len(tx.row.log) \in Nat
         /\ \A i \in DOMAIN row.log : row.log[i] \in Changes
         /\ \A i \in DOMAIN tx.row.log : tx.row.log[i] \in Changes
         /\ ~tx.open => tx.row = row /\ tx.request = NoRequest
<1>1. row \in Rows /\ tx.row \in Rows BY DEF TypeOK
<1>2. row.log \in Seq(Changes) /\ tx.row.log \in Seq(Changes) BY <1>1 DEF Rows
<1>3. ~tx.open => tx.row = row /\ tx.request = NoRequest
  BY <1>1, ClosedType DEF TransactionExtends
<1>. QED BY <1>1, <1>2, <1>3

\* A transaction adds a change with a fresh name.
LEMMA LogGrows ==
  ASSUME IInv, ~tx.open, NEW change \in Changes,
         tx'.row.log = Changed(row, change).log,
         \A i \in DOMAIN row.log : row.log[i].name # change.name,
         moves' \in Nat, moves' >= moves,
         change.op = "move" => change.name[1] = Engine /\ change.name[2] <= moves'
  PROVE  NamesOnce'
<1>1. moves \in Nat /\ TypeOK BY DEF IInv, TypeOK
<1>2. /\ row \in Rows /\ Len(row.log) \in Nat /\ DOMAIN row.log = 1..Len(row.log)
      /\ \A i \in DOMAIN row.log : row.log[i] \in Changes
      /\ tx.row = row
  BY <1>1, LogFacts DEF IInv
<1>3. /\ \A i \in DOMAIN row.log : i \in DOMAIN tx'.row.log /\ tx'.row.log[i] = row.log[i]
      /\ tx'.row.log[Len(row.log) + 1] = change
      /\ \A i \in DOMAIN tx'.row.log : i \in DOMAIN row.log \/ i = Len(row.log) + 1
  BY <1>2, ChangedType
<1>4. \A i, j \in DOMAIN tx'.row.log : tx'.row.log[i].name = tx'.row.log[j].name => i = j
  <2>. SUFFICES ASSUME NEW i \in DOMAIN tx'.row.log, NEW j \in DOMAIN tx'.row.log,
                       tx'.row.log[i].name = tx'.row.log[j].name
                PROVE  i = j
    OBVIOUS
  <2>1. CASE i \in DOMAIN row.log /\ j \in DOMAIN row.log
    <3>1. row.log[i].name = row.log[j].name BY <1>3, <2>1
    <3>. QED BY <1>2, <2>1, <3>1 DEF IInv, NamesOnce
  <2>2. CASE i = Len(row.log) + 1 /\ j \in DOMAIN row.log
    <3>1. row.log[j].name = change.name BY <1>3, <2>2
    <3>. QED BY <2>2, <3>1
  <2>3. CASE j = Len(row.log) + 1 /\ i \in DOMAIN row.log
    <3>1. row.log[i].name = change.name BY <1>3, <2>3
    <3>. QED BY <2>3, <3>1
  <2>. QED BY <1>3, <2>1, <2>2, <2>3
<1>5. ASSUME NEW i \in DOMAIN tx'.row.log, tx'.row.log[i].op = "move"
      PROVE  tx'.row.log[i].name[1] = Engine /\ tx'.row.log[i].name[2] <= moves'
  <2>1. CASE i \in DOMAIN row.log
    <3>1. row.log[i].op = "move" /\ tx'.row.log[i] = row.log[i] BY <1>3, <1>5, <2>1
    <3>2. row.log[i].name[1] = Engine /\ row.log[i].name[2] <= moves
      BY <1>2, <2>1, <3>1 DEF IInv, NamesOnce
    <3>3. row.log[i].name[2] \in Nat BY <1>2, <2>1 DEF Changes, Names
    <3>. QED BY <1>1, <3>1, <3>2, <3>3
  <2>2. CASE i = Len(row.log) + 1 BY <1>3, <1>5, <2>2
  <2>. QED BY <1>3, <2>1, <2>2
<1>. QED BY <1>4, <1>5 DEF NamesOnce

LEMMA MoveInv ==
  ASSUME IInv, NEW to \in States, Move(to)
  PROVE  IInv'
<1>1. /\ TypeOK' /\ TypeOK
      /\ UNCHANGED <<row, records, requests, page>> /\ moves' = moves + 1 /\ ~tx.open
      /\ tx'.open = TRUE /\ tx'.request = NoRequest
      /\ tx'.row.version = row.version + 1
      /\ tx'.row.acked = row.acked
  BY MoveEffect, Zenon DEF Move, IInv
<1>2. PICK change \in Changes :
        /\ tx'.row.log = Changed(row, change).log
        /\ change.name = <<Engine, moves + 1>> /\ change.op = "move"
  BY MoveEffect, Zenon
<1>3. /\ row \in Rows /\ Len(row.log) \in Nat /\ DOMAIN row.log = 1..Len(row.log)
      /\ \A i \in DOMAIN row.log : row.log[i] \in Changes
      /\ tx.row = row /\ tx.request = NoRequest
  BY <1>1, LogFacts DEF IInv
<1>4. /\ Len(tx'.row.log) = Len(row.log) + 1
      /\ \A i \in DOMAIN row.log : i \in DOMAIN tx'.row.log /\ tx'.row.log[i] = row.log[i]
      /\ tx'.row.log[Len(row.log) + 1] = change
      /\ \A i \in DOMAIN tx'.row.log : i \in DOMAIN row.log \/ i = Len(row.log) + 1
  BY <1>2, <1>3, ChangedType
<1>5. NoRequest.page = Engine /\ NoRequest.live = FALSE /\ NoRequest.key = NoName
      /\ NoRequest.key[1] = Engine
  BY DEF NoRequest, NoName
<1>6. VersionsCount' BY <1>1, <1>3, <1>4 DEF IInv, VersionsCount
<1>7. TransactionExtends'
  BY <1>1, <1>3, <1>4, <1>5 DEF IInv, TransactionExtends
<1>8. NamesOnce'
  <2>1. \A i \in DOMAIN row.log : row.log[i].name # change.name
    <3>. SUFFICES ASSUME NEW i \in DOMAIN row.log, row.log[i].name = change.name PROVE FALSE
      OBVIOUS
    <3>1. change.name[1] = Engine /\ change.name[2] = moves + 1 /\ moves \in Nat
      BY <1>1, <1>2 DEF TypeOK
    <3>2. CASE row.log[i].op = "move"
      <4>1. row.log[i].name[2] <= moves BY <1>3, <3>2 DEF IInv, NamesOnce
      <4>. QED BY <3>1, <4>1
    <3>3. CASE row.log[i].op \in Operations
      <4>. DEFINE s == [version |-> i, body |-> row.log[i].body]
      <4>1. row.log[i] \in Changes /\ row.log[i].name \in Names /\ s \in Signatures
        BY <1>3 DEF Changes, Signatures
      <4>2. Carried(row.log[i].op, row.log[i].name, s) BY <1>3 DEF Carried
      <4>3. row.log[i].name[1] \in Consoles BY <3>3, <4>1, <4>2 DEF IInv, KeysIssued
      <4>. QED BY <3>1, <4>3, MutationAssumption
    <3>. QED BY <1>3, <3>2, <3>3 DEF Changes
  <2>2. moves \in Nat /\ moves' \in Nat /\ moves' >= moves BY <1>1 DEF TypeOK
  <2>. QED BY <1>1, <1>2, <2>1, <2>2, LogGrows
<1>9. OneRequestPerKey' /\ KeysIssued'
  <2>1. ASSUME NEW o \in Operations, NEW k \in Names, NEW s \in Signatures, Carried(o, k, s)'
        PROVE  Carried(o, k, s)
    <3>1. ASSUME NEW i \in DOMAIN tx'.row.log, tx'.row.log[i].op = o, tx'.row.log[i].name = k,
                 s = [version |-> i, body |-> tx'.row.log[i].body]
          PROVE  Carried(o, k, s)
      <4>1. CASE i \in DOMAIN row.log BY <1>3, <1>4, <3>1, <4>1 DEF Carried
      <4>2. CASE i = Len(row.log) + 1 BY <1>2, <1>4, <3>1, <4>2 DEF Operations
      <4>. QED BY <1>4, <3>1, <4>1, <4>2
    <3>2. tx'.request.page = Engine BY <1>1, <1>5
    <3>. QED BY <1>1, <2>1, <3>1, <3>2, Zenon DEF Carried
  <2>2. \A c \in Consoles : page'[c].issued >= page[c].issued
    BY <1>1 DEF TypeOK, Pages
  <2>. QED BY <1>1, <2>1, <2>2, NoNewKeys
<1>10. KeysOwned' BY <1>1, <1>5 DEF IInv, KeysOwned
<1>11. QueueInOrder' BY <1>1, <1>5 DEF IInv, QueueInOrder, Awaited
<1>12. AnsweredLast' BY <1>1, <1>5, MutationAssumption DEF IInv, AnsweredLast
<1>13. RecordsReal' BY <1>1 DEF IInv, RecordsReal, Done
<1>14. SuccessIsDurable' /\ ConflictUnrecorded'
  BY <1>1 DEF IInv, SuccessIsDurable, ConflictUnrecorded, KeyInUse, Applied
<1>. QED BY <1>1, <1>6, <1>7, <1>8, <1>9, <1>10, <1>11, <1>12, <1>13, <1>14, PagesStay DEF IInv

\* Two requests with one key are the same, in their changes and records too.
LEMMA KeyMeansRequest ==
  ASSUME IInv, NEW i \in DOMAIN requests
  PROVE  LET r == requests[i]
         IN  /\ r \in Requests /\ r.page \in Consoles /\ r.key[1] = r.page
             /\ Carried(r.op, r.key, r.signature)
             /\ \A record \in records :
                  record.key = r.key => record.op = r.op /\ record.signature = r.signature
             /\ \A j \in DOMAIN tx.row.log :
                  tx.row.log[j].name = r.key => r.signature.version = j
<1>. DEFINE r == requests[i]
<1>1. TypeOK /\ QueueInOrder /\ KeysOwned /\ OneRequestPerKey /\ TransactionExtends BY DEF IInv
<1>2. r \in Requests /\ r.page \in Consoles /\ r.key[1] = r.page
  BY <1>1, LiveFits DEF KeysOwned
<1>3. r.op \in Operations /\ r.key \in Names /\ r.signature \in Signatures
  BY <1>2 DEF Requests
<1>4. Carried(r.op, r.key, r.signature) BY DEF Carried
<1>5. ASSUME NEW record \in records, record.key = r.key
      PROVE  record.op = r.op /\ record.signature = r.signature
  <2>1. record.op \in Operations /\ record.signature \in Signatures BY <1>1 DEF TypeOK
  <2>2. Carried(record.op, r.key, record.signature) BY <1>5 DEF Carried
  <2>. QED BY <1>1, <1>3, <1>4, <2>1, <2>2 DEF OneRequestPerKey
<1>6. ASSUME NEW j \in DOMAIN tx.row.log, tx.row.log[j].name = r.key
      PROVE  r.signature.version = j
  <2>. DEFINE s == [version |-> j, body |-> tx.row.log[j].body]
  <2>1. tx.row.log[j] \in Changes /\ j \in Nat BY <1>1, LogFacts
  <2>2. s \in Signatures BY <2>1 DEF Changes, Signatures
  <2>3. CASE tx.row.log[j].op = "move"
    <3>1. r.page = Engine BY <1>2, <1>6, <2>3 DEF IInv, NamesOnce
    <3>. QED BY <1>2, <3>1, MutationAssumption
  <2>4. CASE tx.row.log[j].op \in Operations
    <3>1. Carried(tx.row.log[j].op, r.key, s) BY <1>6 DEF Carried
    <3>2. s = r.signature BY <1>1, <1>3, <1>4, <2>2, <2>4, <3>1 DEF OneRequestPerKey
    <3>. QED BY <3>2
  <2>. QED BY <2>1, <2>3, <2>4 DEF Changes
<1>. QED BY <1>2, <1>4, <1>5, <1>6

LEMMA WriteInv ==
  ASSUME IInv, Begin, Verdict(requests[1]) = "commit"
  PROVE  IInv'
<1>. DEFINE r == requests[1]
            change == [name |-> r.key, op |-> r.op, body |-> r.signature.body, seen |-> r.seen]
<1>1. /\ TypeOK' /\ TypeOK
      /\ UNCHANGED <<row, records, page, moves>> /\ ~tx.open
      /\ requests # <<>> /\ requests' = Tail(requests)
      /\ tx' = [open |-> TRUE, row |-> Mutated(r), request |-> r]
      /\ ~Replayed(r) /\ Current(r)
  BY WriteEffect DEF IInv
<1>2. 1 \in DOMAIN requests BY <1>1, HeadType
<1>3. /\ r \in Requests /\ r.page \in Consoles /\ r.key[1] = r.page
      /\ Carried(r.op, r.key, r.signature)
      /\ \A j \in DOMAIN tx.row.log : tx.row.log[j].name = r.key => r.signature.version = j
  BY <1>2, KeyMeansRequest
<1>4. /\ row \in Rows /\ Len(row.log) \in Nat /\ DOMAIN row.log = 1..Len(row.log)
      /\ \A i \in DOMAIN row.log : row.log[i] \in Changes
      /\ tx.row = row /\ tx.request = NoRequest
      /\ row.version = Len(row.log) + 1
  BY <1>1, LogFacts DEF IInv, VersionsCount
<1>5. /\ change \in Changes /\ Mutated(r) \in Rows
      /\ \/ r.op = "acknowledge" /\ row.acked /\ Mutated(r) = row
         \/ /\ Mutated(r).log = Changed(row, change).log
            /\ Mutated(r).version = row.version + 1
      /\ row.acked => Mutated(r).acked
  BY <1>1, <1>3, MutatedType
<1>6. /\ tx'.open = TRUE /\ tx'.row = Mutated(r) /\ tx'.request = r
  BY <1>1
<1>7. change.name = r.key /\ change.op = r.op /\ change.body = r.signature.body OBVIOUS
<1>8. r.signature.version = Len(row.log) + 1 BY <1>1, <1>4 DEF Current
<1>9. /\ \A i \in DOMAIN row.log : i \in DOMAIN Changed(row, change).log
                                   /\ Changed(row, change).log[i] = row.log[i]
      /\ Len(Changed(row, change).log) = Len(row.log) + 1
      /\ Len(row.log) + 1 \in DOMAIN Changed(row, change).log
      /\ Changed(row, change).log[Len(row.log) + 1] = change
      /\ \A i \in DOMAIN Changed(row, change).log : i \in DOMAIN row.log \/ i = Len(row.log) + 1
  BY <1>4, <1>5, ChangedType
<1>. HIDE DEF change
<1>10. /\ \A i \in DOMAIN requests' : i + 1 \in DOMAIN requests /\ i + 1 > 1
                                      /\ requests'[i] = requests[i + 1]
       /\ \A i, j \in DOMAIN requests' : i < j => i + 1 < j + 1
  BY <1>1, Leaves
<1>11. VersionsCount' BY <1>1, <1>4, <1>5, <1>6, <1>9 DEF IInv, VersionsCount
<1>12. TransactionExtends'
  <2>1. Done(tx.request, tx.row)'
    <3>1. CASE r.op = "acknowledge" /\ row.acked /\ Mutated(r) = row
      BY <1>6, <3>1 DEF Done
    <3>2. CASE Mutated(r).log = Changed(row, change).log
      BY <1>6, <1>7, <1>9, <3>2 DEF Done
    <3>. QED BY <1>5, <3>1, <3>2
  <2>2. \A i \in DOMAIN row.log : i \in DOMAIN tx'.row.log /\ tx'.row.log[i] = row.log[i]
    BY <1>5, <1>6, <1>9
  <2>. QED BY <1>1, <1>5, <1>6, <2>1, <2>2 DEF TransactionExtends
<1>13. NamesOnce'
  <2>1. CASE Mutated(r) = row BY <1>1, <1>4, <1>6, <2>1 DEF IInv, NamesOnce
  <2>2. CASE Mutated(r).log = Changed(row, change).log
    <3>1. \A i \in DOMAIN row.log : row.log[i].name # change.name
      BY <1>3, <1>4, <1>7, <1>8
    <3>2. change.op # "move" BY <1>3, <1>7 DEF Requests, Operations
    <3>3. moves \in Nat /\ moves' \in Nat /\ moves' >= moves BY <1>1 DEF TypeOK
    <3>. QED BY <1>1, <1>5, <1>6, <2>2, <3>1, <3>2, <3>3, LogGrows
  <2>. QED BY <1>5, <2>1, <2>2
<1>14. OneRequestPerKey' /\ KeysIssued'
  <2>1. ASSUME NEW o \in Operations, NEW k \in Names, NEW s \in Signatures, Carried(o, k, s)'
        PROVE  Carried(o, k, s)
    <3>1. ASSUME NEW i \in DOMAIN requests', requests'[i].op = o, requests'[i].key = k,
                 requests'[i].signature = s
          PROVE  Carried(o, k, s)
      BY <1>10, <3>1 DEF Carried
    <3>2. ASSUME r.op = o, r.key = k, r.signature = s
          PROVE  Carried(o, k, s)
      BY <1>3, <3>2
    <3>3. ASSUME NEW i \in DOMAIN tx'.row.log, tx'.row.log[i].op = o, tx'.row.log[i].name = k,
                 s = [version |-> i, body |-> tx'.row.log[i].body]
          PROVE  Carried(o, k, s)
      <4>1. CASE i \in DOMAIN row.log /\ tx'.row.log[i] = row.log[i]
        BY <1>4, <3>3, <4>1 DEF Carried
      <4>2. CASE i = Len(row.log) + 1 /\ tx'.row.log[i] = change
        <5>1. s = [version |-> r.signature.version, body |-> r.signature.body]
          BY <1>7, <1>8, <3>3, <4>2
        <5>2. s = r.signature BY <1>3, <5>1 DEF Requests, Signatures
        <5>. QED BY <1>3, <1>7, <3>3, <4>2, <5>2
      <4>. QED BY <1>5, <1>6, <1>9, <3>3, <4>1, <4>2
    <3>. QED BY <1>1, <1>6, <2>1, <3>1, <3>2, <3>3, Zenon DEF Carried
  <2>2. \A c \in Consoles : page'[c].issued >= page[c].issued
    BY <1>1 DEF TypeOK, Pages
  <2>. QED BY <1>1, <2>1, <2>2, NoNewKeys
<1>15. KeysOwned' BY <1>1, <1>3, <1>6, <1>10 DEF IInv, KeysOwned
<1>16. QueueInOrder'
  <2>1. \A i \in DOMAIN requests' : requests'[i].page \in Consoles /\ Awaited(requests[i])'
    BY <1>1, <1>10 DEF IInv, QueueInOrder, Awaited
  <2>2. Awaited(tx.request)' BY <1>1, <1>2, <1>6 DEF IInv, QueueInOrder, Awaited
  <2>3. r.page # Engine BY <1>3, MutationAssumption
  <2>4. \A i, j \in DOMAIN requests' :
          i < j /\ requests'[i].live => requests'[j].page # requests'[i].page
    BY <1>10 DEF IInv, QueueInOrder
  <2>5. \A i \in DOMAIN requests' : r.live => requests'[i].page # r.page
    BY <1>2, <1>10 DEF IInv, QueueInOrder
  <2>. QED BY <1>6, <2>1, <2>2, <2>3, <2>4, <2>5 DEF QueueInOrder
<1>17. AnsweredLast' BY <1>1, <1>2, <1>6, <1>10 DEF IInv, AnsweredLast
<1>18. RecordsReal' BY <1>1 DEF IInv, RecordsReal, Done
<1>19. SuccessIsDurable' /\ ConflictUnrecorded'
  BY <1>1 DEF IInv, SuccessIsDurable, ConflictUnrecorded, KeyInUse, Applied
<1>. QED BY <1>1, <1>11, <1>12, <1>13, <1>14, <1>15, <1>16, <1>17, <1>18, <1>19, PagesStay DEF IInv

\* What an answer of the core leaves alone.
LEMMA AnsweredPages ==
  ASSUME IInv, NEW r \in Requests, NEW kind \in {"ok", "conflict", "key_conflict", "error"},
         Answer(r, kind), r.live => r.page \in Consoles /\ page[r.page].busy # "idle"
  PROVE  /\ DraftFits'
         /\ \A c \in Consoles : page'[c].issued >= page[c].issued
         /\ \A c \in Consoles : \A o \in Operations : page'[c].keys[o] = page[c].keys[o]
         /\ \A c \in Consoles : page'[c].view.version # 0
         /\ \A c \in Consoles :
              page'[c].busy # "idle" => page'[c].keys[page'[c].busy].signature.version # 0
         /\ \A c \in Consoles : KeyInUse(c)' = KeyInUse(c) /\ page'[c].busy = page[c].busy
         /\ \A c \in Consoles : page'[c].answer = IF r.live /\ c = r.page THEN kind
                                                  ELSE page[c].answer
<1>1. TypeOK BY DEF IInv
<1>2. \A c \in Consoles : /\ page'[c].busy = page[c].busy
                          /\ page'[c].keys = page[c].keys
                          /\ page'[c].issued = page[c].issued
                          /\ page'[c].draft = page[c].draft
                          /\ page'[c].view = page[c].view
                          /\ page'[c].answer = IF r.live /\ c = r.page THEN kind
                                               ELSE page[c].answer
  BY <1>1, AnswerType
<1>3. \A c \in Consoles : page[c].issued \in Nat BY <1>1 DEF TypeOK, Pages
<1>4. DraftFits' BY <1>2 DEF IInv, DraftFits
<1>5. \A c \in Consoles : page'[c].issued >= page[c].issued BY <1>2, <1>3
<1>6. \A c \in Consoles : KeyInUse(c)' = KeyInUse(c) BY <1>2 DEF KeyInUse
<1>7. \A c \in Consoles : page'[c].view.version # 0 BY <1>2 DEF IInv, VersionsCount
<1>8. \A c \in Consoles :
        page'[c].busy # "idle" => page'[c].keys[page'[c].busy].signature.version # 0
  BY <1>2 DEF IInv, KeysOwned
<1>. QED BY <1>2, <1>4, <1>5, <1>6, <1>7, <1>8

LEMMA RefusalInv ==
  ASSUME IInv, Begin, Verdict(requests[1]) # "commit"
  PROVE  IInv'
<1>. DEFINE r == requests[1]
            kind == Verdict(r)
<1>1. /\ TypeOK' /\ TypeOK
      /\ UNCHANGED <<row, records, tx, moves>> /\ ~tx.open
      /\ requests # <<>> /\ requests' = Tail(requests)
      /\ kind \in {"ok", "conflict", "key_conflict"}
      /\ Answer(r, kind)
  BY RefusalEffect DEF IInv
<1>2. 1 \in DOMAIN requests BY <1>1, HeadType
<1>3. /\ r \in Requests /\ r.page \in Consoles /\ r.key[1] = r.page
      /\ Carried(r.op, r.key, r.signature)
      /\ \A record \in records :
           record.key = r.key => record.op = r.op /\ record.signature = r.signature
  BY <1>2, KeyMeansRequest
<1>4. r.live => /\ page[r.page].busy = r.op /\ page[r.page].busy # "idle"
                /\ page[r.page].answer = "none" /\ KeyInUse(r.page) = r.key
  <2>1. r.live => page[r.page].busy # "idle" BY <1>1, <1>2, LiveFits DEF IInv
  <2>. QED BY <1>2, <2>1 DEF IInv, QueueInOrder, Awaited, KeyInUse
<1>5. tx.request = NoRequest BY <1>1, LogFacts DEF IInv
<1>6. NoRequest.page = Engine /\ NoRequest.live = FALSE BY DEF NoRequest
<1>7. /\ \A i \in DOMAIN requests' : i + 1 \in DOMAIN requests /\ i + 1 > 1
                                     /\ requests'[i] = requests[i + 1]
      /\ \A i, j \in DOMAIN requests' : i < j => i + 1 < j + 1
  BY <1>1, Leaves
<1>8. /\ DraftFits'
      /\ \A c \in Consoles : page'[c].issued >= page[c].issued
      /\ \A c \in Consoles : \A o \in Operations : page'[c].keys[o] = page[c].keys[o]
      /\ \A c \in Consoles : page'[c].view.version # 0
      /\ \A c \in Consoles :
           page'[c].busy # "idle" => page'[c].keys[page'[c].busy].signature.version # 0
      /\ \A c \in Consoles : KeyInUse(c)' = KeyInUse(c) /\ page'[c].busy = page[c].busy
      /\ \A c \in Consoles : page'[c].answer = IF r.live /\ c = r.page THEN kind
                                               ELSE page[c].answer
  <2>1. kind \in {"ok", "conflict", "key_conflict", "error"} BY <1>1
  <2>. HIDE DEF kind, r
  <2>. QED BY <1>1, <1>3, <1>4, <2>1, AnsweredPages
<1>9. VersionsCount' BY <1>1, <1>8 DEF IInv, VersionsCount
<1>10. TransactionExtends' /\ NamesOnce' /\ RecordsReal'
  BY <1>1 DEF IInv, TransactionExtends, NamesOnce, RecordsReal, Done, NoTransaction
<1>11. OneRequestPerKey' /\ KeysIssued'
  <2>1. ASSUME NEW o \in Operations, NEW k \in Names, NEW s \in Signatures, Carried(o, k, s)'
        PROVE  Carried(o, k, s)
    <3>1. ASSUME NEW i \in DOMAIN requests', requests'[i].op = o, requests'[i].key = k,
                 requests'[i].signature = s
          PROVE  Carried(o, k, s)
      BY <1>7, <3>1 DEF Carried
    <3>2. ASSUME NEW c \in Consoles, page'[c].keys[o] = [key |-> k, signature |-> s],
                 s.version # 0
          PROVE  Carried(o, k, s)
      BY <1>8, <3>2, Zenon DEF Carried
    <3>. QED BY <1>1, <2>1, <3>1, <3>2, Zenon DEF Carried
  <2>. QED BY <1>1, <1>8, <2>1, NoNewKeys
<1>12. KeysOwned' BY <1>1, <1>7, <1>8 DEF IInv, KeysOwned
<1>13. QueueInOrder'
  <2>1. ASSUME NEW i \in DOMAIN requests'
        PROVE  requests'[i].page \in Consoles /\ Awaited(requests[i])'
    <3>1. /\ requests'[i] = requests[i + 1] /\ i + 1 \in DOMAIN requests
          /\ requests[i + 1].page \in Consoles
          /\ Awaited(requests[i + 1]) /\ requests[i + 1].op \in Operations
      BY <1>1, <1>7, LiveFits DEF IInv, QueueInOrder, Requests
    <3>2. r.live => requests[i + 1].page # r.page
      BY <1>2, <1>7 DEF IInv, QueueInOrder
    <3>. QED BY <1>8, <3>1, <3>2 DEF Awaited
  <2>2. Awaited(tx.request)' BY <1>1, <1>5, <1>6 DEF Awaited
  <2>3. \A i, j \in DOMAIN requests' :
          i < j /\ requests'[i].live => requests'[j].page # requests'[i].page
    BY <1>7 DEF IInv, QueueInOrder
  <2>. QED BY <1>1, <1>5, <1>6, <2>1, <2>2, <2>3 DEF QueueInOrder
<1>14. AnsweredLast'
  <2>1. ASSUME NEW c \in Consoles, page'[c].answer \in {"ok", "conflict", "key_conflict"},
               NEW i \in DOMAIN requests'
        PROVE  requests'[i].page # c
    <3>1. CASE r.live /\ c = r.page BY <1>2, <1>7, <3>1 DEF IInv, QueueInOrder
    <3>2. CASE ~(r.live /\ c = r.page) BY <1>7, <1>8, <2>1, <3>2 DEF IInv, AnsweredLast
    <3>. QED BY <3>1, <3>2
  <2>2. \A c \in Consoles : tx'.request.page # c BY <1>1, <1>5, <1>6, MutationAssumption
  <2>. QED BY <2>1, <2>2 DEF AnsweredLast
<1>15. SuccessIsDurable'
  <2>. SUFFICES ASSUME NEW c \in Consoles, page'[c].answer = "ok"
                PROVE  Applied(KeyInUse(c))' \/ (page'[c].busy = "acknowledge" /\ row'.acked)
    BY DEF SuccessIsDurable
  <2>1. CASE page[c].answer = "ok"
    BY <1>1, <1>8, <2>1 DEF IInv, SuccessIsDurable, Applied
  <2>2. CASE r.live /\ c = r.page /\ kind = "ok"
    <3>1. PICK record \in records : record.key = r.key /\ record.op = r.op
      BY <2>2 DEF Verdict, Replayed, Recorded
    <3>2. Done(record, row) BY DEF IInv, RecordsReal
    <3>3. KeyInUse(c) = record.key /\ page[c].busy = record.op BY <1>4, <2>2, <3>1
    <3>4. Applied(KeyInUse(c)) \/ (page[c].busy = "acknowledge" /\ row.acked)
      BY <3>2, <3>3 DEF Done, Applied
    <3>. QED BY <1>1, <1>8, <3>4 DEF Applied
  <2>. QED BY <1>8, <2>1, <2>2
<1>16. ConflictUnrecorded'
  <2>. SUFFICES ASSUME NEW c \in Consoles, page'[c].answer = "conflict",
                       NEW record \in records
                PROVE  record.key # KeyInUse(c)
    BY <1>1, <1>8 DEF ConflictUnrecorded
  <2>1. CASE page[c].answer = "conflict" BY <2>1 DEF IInv, ConflictUnrecorded
  <2>2. CASE r.live /\ c = r.page /\ kind = "conflict"
    <3>1. ~Replayed(r) BY <2>2 DEF Verdict
    <3>. QED BY <1>3, <1>4, <2>2, <3>1 DEF Replayed, Recorded
  <2>. QED BY <1>8, <2>1, <2>2
<1>17. KeysFitRequests'
  <2>1. kind # "key_conflict" BY <1>3 DEF Verdict, Recorded
  <2>. QED BY <1>8, <2>1 DEF IInv, KeysFitRequests
<1>. QED BY <1>1, <1>8, <1>9, <1>10, <1>11, <1>12, <1>13, <1>14, <1>15, <1>16, <1>17 DEF IInv

\* The transaction ends and its page is answered.
LEMMA EndedFacts ==
  ASSUME IInv, NEW kind \in {"ok", "error"}, Answer(tx.request, kind)
  PROVE  LET r == tx.request
         IN  /\ r \in Requests
             /\ r.live => /\ r.page \in Consoles /\ page[r.page].busy = r.op
                          /\ page[r.page].answer = "none" /\ KeyInUse(r.page) = r.key
             /\ DraftFits'
             /\ \A c \in Consoles : page'[c].issued >= page[c].issued
             /\ \A c \in Consoles : \A o \in Operations : page'[c].keys[o] = page[c].keys[o]
             /\ \A c \in Consoles : page'[c].view.version # 0
             /\ \A c \in Consoles :
                  page'[c].busy # "idle" => page'[c].keys[page'[c].busy].signature.version # 0
             /\ \A c \in Consoles : KeyInUse(c)' = KeyInUse(c) /\ page'[c].busy = page[c].busy
             /\ \A c \in Consoles : page'[c].answer = IF r.live /\ c = r.page THEN kind
                                                      ELSE page[c].answer
<1>. DEFINE r == tx.request
<1>1. TypeOK /\ QueueInOrder BY DEF IInv
<1>2. r \in Requests /\ (r.live => r.page \in Consoles /\ page[r.page].busy # "idle")
  BY <1>1, LiveFits
<1>3. r.live => page[r.page].busy = r.op /\ page[r.page].answer = "none"
                /\ KeyInUse(r.page) = r.key
  BY <1>1 DEF QueueInOrder, Awaited, KeyInUse
<1>4. kind \in {"ok", "conflict", "key_conflict", "error"} OBVIOUS
<1>. HIDE DEF r
<1>5. Answer(r, kind) BY DEF r
<1>6. /\ DraftFits'
      /\ \A c \in Consoles : page'[c].issued >= page[c].issued
      /\ \A c \in Consoles : \A o \in Operations : page'[c].keys[o] = page[c].keys[o]
      /\ \A c \in Consoles : page'[c].view.version # 0
      /\ \A c \in Consoles :
           page'[c].busy # "idle" => page'[c].keys[page'[c].busy].signature.version # 0
      /\ \A c \in Consoles : KeyInUse(c)' = KeyInUse(c) /\ page'[c].busy = page[c].busy
      /\ \A c \in Consoles : page'[c].answer = IF r.live /\ c = r.page THEN kind
                                               ELSE page[c].answer
  BY <1>2, <1>4, <1>5, AnsweredPages
<1>. QED BY <1>2, <1>3, <1>6, Zenon DEF r

\* What follows from the end of the transaction whatever its outcome.
LEMMA EndedInv ==
  ASSUME IInv, TypeOK', NEW kind \in {"ok", "error"}, Answer(tx.request, kind),
         UNCHANGED <<requests, moves>>, tx'.request = NoRequest
  PROVE  /\ \A c \in Consoles : page'[c].issued >= page[c].issued
         /\ KeysOwned' /\ QueueInOrder' /\ AnsweredLast' /\ KeysFitRequests'
<1>. DEFINE r == tx.request
<1>1. /\ r.live => /\ r.page \in Consoles /\ page[r.page].busy = r.op
                   /\ page[r.page].answer = "none" /\ KeyInUse(r.page) = r.key
      /\ \A c \in Consoles : page'[c].issued >= page[c].issued
      /\ \A c \in Consoles : \A o \in Operations : page'[c].keys[o] = page[c].keys[o]
      /\ \A c \in Consoles :
           page'[c].busy # "idle" => page'[c].keys[page'[c].busy].signature.version # 0
      /\ \A c \in Consoles : page'[c].busy = page[c].busy
      /\ \A c \in Consoles : page'[c].answer = IF r.live /\ c = r.page THEN kind
                                               ELSE page[c].answer
  BY EndedFacts
<1>2. NoRequest.page = Engine /\ NoRequest.live = FALSE /\ NoRequest.key[1] = Engine
  BY DEF NoRequest, NoName
<1>3. TypeOK /\ QueueInOrder BY DEF IInv
<1>4. KeysOwned' BY <1>1, <1>2 DEF IInv, KeysOwned
<1>5. QueueInOrder'
  <2>1. ASSUME NEW i \in DOMAIN requests
        PROVE  requests[i].page \in Consoles /\ Awaited(requests[i])'
    <3>1. /\ requests[i].page \in Consoles /\ Awaited(requests[i])
          /\ requests[i].op \in Operations
      BY <1>3, LiveFits DEF QueueInOrder, Requests
    <3>2. r.live => requests[i].page # r.page BY <1>3 DEF QueueInOrder
    <3>. QED BY <1>1, <3>1, <3>2 DEF Awaited
  <2>2. Awaited(tx.request)' BY <1>2 DEF Awaited
  <2>. QED BY <1>2, <1>3, <2>1, <2>2 DEF QueueInOrder
<1>6. AnsweredLast'
  <2>1. ASSUME NEW c \in Consoles, page'[c].answer \in {"ok", "conflict", "key_conflict"},
               NEW i \in DOMAIN requests
        PROVE  requests[i].page # c
    <3>1. CASE r.live /\ c = r.page BY <1>3, <3>1 DEF QueueInOrder
    <3>2. CASE ~(r.live /\ c = r.page) BY <1>1, <2>1, <3>2 DEF IInv, AnsweredLast
    <3>. QED BY <3>1, <3>2
  <2>2. \A c \in Consoles : tx'.request.page # c BY <1>2, MutationAssumption
  <2>. QED BY <2>1, <2>2 DEF AnsweredLast
<1>7. KeysFitRequests' BY <1>1 DEF IInv, KeysFitRequests
<1>. QED BY <1>1, <1>4, <1>5, <1>6, <1>7

LEMMA RollBackInv ==
  ASSUME IInv, RollBack
  PROVE  IInv'
<1>1. /\ TypeOK' /\ TypeOK /\ TransactionExtends
      /\ UNCHANGED <<row, records, requests, moves>>
      /\ tx' = NoTransaction(row) /\ Answer(tx.request, "error")
  BY RollBackEffect DEF IInv
<1>. DEFINE r == tx.request
<1>2. /\ DraftFits'
      /\ \A c \in Consoles : \A o \in Operations : page'[c].keys[o] = page[c].keys[o]
      /\ \A c \in Consoles : page'[c].view.version # 0
      /\ \A c \in Consoles : KeyInUse(c)' = KeyInUse(c) /\ page'[c].busy = page[c].busy
      /\ \A c \in Consoles : page'[c].answer = IF r.live /\ c = r.page THEN "error"
                                               ELSE page[c].answer
  BY <1>1, EndedFacts
<1>3. /\ tx'.open = FALSE /\ tx'.row = row /\ tx'.request = NoRequest
      /\ tx' = NoTransaction(row)' /\ DOMAIN row.log \subseteq DOMAIN tx.row.log
      /\ \A i \in DOMAIN row.log : tx.row.log[i] = row.log[i]
  <2>1. row \in Rows BY <1>1 DEF TypeOK
  <2>2. NoTransaction(row)' = NoTransaction(row) BY <1>1 DEF NoTransaction, NoRequest, NoName
  <2>. QED BY <1>1, <2>1, <2>2, ClosedType DEF TransactionExtends
<1>4. /\ \A c \in Consoles : page'[c].issued >= page[c].issued
      /\ KeysOwned' /\ QueueInOrder' /\ AnsweredLast' /\ KeysFitRequests'
  BY <1>1, <1>3, EndedInv
<1>5. NoRequest.page = Engine BY DEF NoRequest
<1>6. VersionsCount' BY <1>1, <1>2, <1>3 DEF IInv, VersionsCount
<1>7. TransactionExtends' BY <1>1, <1>3, <1>5 DEF TransactionExtends
<1>8. NamesOnce' BY <1>1, <1>3 DEF IInv, NamesOnce
<1>9. OneRequestPerKey' /\ KeysIssued'
  <2>1. ASSUME NEW o \in Operations, NEW k \in Names, NEW s \in Signatures, Carried(o, k, s)'
        PROVE  Carried(o, k, s)
    <3>1. ASSUME NEW i \in DOMAIN tx'.row.log, tx'.row.log[i].op = o, tx'.row.log[i].name = k,
                 s = [version |-> i, body |-> tx'.row.log[i].body]
          PROVE  Carried(o, k, s)
      BY <1>3, <3>1 DEF Carried
    <3>2. ASSUME NEW c \in Consoles, page'[c].keys[o] = [key |-> k, signature |-> s],
                 s.version # 0
          PROVE  Carried(o, k, s)
      BY <1>2, <3>2, Zenon DEF Carried
    <3>3. tx'.request.page = Engine BY <1>3, <1>5
    <3>. QED BY <1>1, <2>1, <3>1, <3>2, <3>3, Zenon DEF Carried
  <2>. QED BY <1>1, <1>4, <2>1, NoNewKeys
<1>10. RecordsReal' BY <1>1 DEF IInv, RecordsReal, Done
<1>11. SuccessIsDurable'
  BY <1>1, <1>2 DEF IInv, SuccessIsDurable, Applied
<1>12. ConflictUnrecorded'
  BY <1>1, <1>2 DEF IInv, ConflictUnrecorded
<1>. QED BY <1>1, <1>2, <1>4, <1>6, <1>7, <1>8, <1>9, <1>10, <1>11, <1>12 DEF IInv

LEMMA CommitInv ==
  ASSUME IInv, Commit
  PROVE  IInv'
<1>. DEFINE r == tx.request
            new == [op |-> r.op, key |-> r.key, signature |-> r.signature]
<1>1. /\ TypeOK' /\ TypeOK /\ TransactionExtends
      /\ UNCHANGED <<requests, moves>>
      /\ row' = tx.row /\ tx' = NoTransaction(tx.row)
      /\ records' = IF r.page = Engine THEN records ELSE records \cup {new}
      /\ Answer(r, "ok")
  BY CommitEffect DEF IInv
<1>2. /\ r \in Requests
      /\ r.live => /\ r.page \in Consoles /\ page[r.page].busy = r.op
                   /\ page[r.page].answer = "none" /\ KeyInUse(r.page) = r.key
      /\ DraftFits'
      /\ \A c \in Consoles : \A o \in Operations : page'[c].keys[o] = page[c].keys[o]
      /\ \A c \in Consoles : page'[c].view.version # 0
      /\ \A c \in Consoles : KeyInUse(c)' = KeyInUse(c) /\ page'[c].busy = page[c].busy
      /\ \A c \in Consoles : page'[c].answer = IF r.live /\ c = r.page THEN "ok"
                                               ELSE page[c].answer
  BY <1>1, EndedFacts
<1>3. /\ tx'.open = FALSE /\ tx'.row = tx.row /\ tx'.request = NoRequest
      /\ tx' = NoTransaction(row)'
  <2>1. tx.row \in Rows BY <1>1 DEF TypeOK
  <2>2. NoTransaction(row)' = NoTransaction(tx.row)
    BY <1>1 DEF NoTransaction, NoRequest, NoName
  <2>. QED BY <1>1, <2>1, <2>2, ClosedType
<1>4. /\ \A c \in Consoles : page'[c].issued >= page[c].issued
      /\ KeysOwned' /\ QueueInOrder' /\ AnsweredLast' /\ KeysFitRequests'
  BY <1>1, <1>3, EndedInv
<1>5. NoRequest.page = Engine BY DEF NoRequest
<1>6. \A x : Done(x, row) => Done(x, tx.row)
  <2>. SUFFICES ASSUME NEW x, Done(x, row) PROVE Done(x, tx.row)
    OBVIOUS
  <2>. QED BY <1>1 DEF TransactionExtends, Done
<1>7. VersionsCount' BY <1>1, <1>2, <1>3 DEF IInv, VersionsCount
<1>8. TransactionExtends' BY <1>1, <1>3, <1>5 DEF TransactionExtends
<1>9. NamesOnce' BY <1>1, <1>3 DEF IInv, NamesOnce
<1>10. OneRequestPerKey' /\ KeysIssued'
  <2>1. ASSUME NEW o \in Operations, NEW k \in Names, NEW s \in Signatures, Carried(o, k, s)'
        PROVE  Carried(o, k, s)
    <3>1. ASSUME NEW record \in records', record.op = o, record.key = k, record.signature = s
          PROVE  Carried(o, k, s)
      <4>1. CASE record \in records BY <3>1, <4>1, Zenon DEF Carried
      <4>2. CASE r.page # Engine /\ record = new BY <3>1, <4>2 DEF Carried
      <4>. QED BY <1>1, <4>1, <4>2
    <3>2. ASSUME NEW c \in Consoles, page'[c].keys[o] = [key |-> k, signature |-> s],
                 s.version # 0
          PROVE  Carried(o, k, s)
      BY <1>2, <3>2, Zenon DEF Carried
    <3>3. tx'.request.page = Engine BY <1>3, <1>5
    <3>4. ASSUME NEW i \in DOMAIN tx'.row.log, tx'.row.log[i].op = o, tx'.row.log[i].name = k,
                 s = [version |-> i, body |-> tx'.row.log[i].body]
          PROVE  Carried(o, k, s)
      BY <1>3, <3>4 DEF Carried
    <3>. QED BY <1>1, <2>1, <3>1, <3>2, <3>3, <3>4, Zenon DEF Carried
  <2>. QED BY <1>1, <1>4, <2>1, NoNewKeys
<1>11. RecordsReal'
  <2>1. ASSUME NEW record \in records' PROVE Done(record, tx.row)
    <3>1. CASE record \in records BY <1>6, <3>1 DEF IInv, RecordsReal
    <3>2. CASE r.page # Engine /\ record = new
      <4>1. Done(r, tx.row) BY <1>1, <3>2 DEF TransactionExtends
      <4>2. new.key = r.key /\ new.op = r.op OBVIOUS
      <4>. QED BY <3>2, <4>1, <4>2 DEF Done
    <3>. QED BY <1>1, <3>1, <3>2
  <2>. QED BY <1>1, <2>1 DEF RecordsReal, Done
<1>12. SuccessIsDurable'
  <2>. SUFFICES ASSUME NEW c \in Consoles, page'[c].answer = "ok"
                PROVE  Applied(KeyInUse(c))' \/ (page'[c].busy = "acknowledge" /\ row'.acked)
    BY DEF SuccessIsDurable
  <2>1. CASE page[c].answer = "ok"
    <3>1. Applied(KeyInUse(c)) \/ (page[c].busy = "acknowledge" /\ row.acked)
      BY <2>1 DEF IInv, SuccessIsDurable
    <3>2. Applied(KeyInUse(c)) => Applied(KeyInUse(c))'
      BY <1>1, <1>2 DEF TransactionExtends, Applied
    <3>. QED BY <1>1, <1>2, <3>1, <3>2 DEF TransactionExtends
  <2>2. CASE r.live /\ c = r.page
    <3>1. Done(r, tx.row) BY <1>1, <1>2, <2>2, MutationAssumption DEF TransactionExtends
    <3>2. KeyInUse(c)' = r.key /\ page'[c].busy = r.op BY <1>2, <2>2
    <3>. QED BY <1>1, <3>1, <3>2 DEF Done, Applied
  <2>. QED BY <1>2, <2>1, <2>2
<1>13. ConflictUnrecorded'
  <2>. SUFFICES ASSUME NEW c \in Consoles, page'[c].answer = "conflict",
                       NEW record \in records'
                PROVE  record.key # KeyInUse(c)
    BY <1>2 DEF ConflictUnrecorded
  <2>1. page[c].answer = "conflict" BY <1>2
  <2>2. CASE record \in records BY <2>1, <2>2 DEF IInv, ConflictUnrecorded
  <2>3. CASE r.page # Engine /\ record = new
    <3>1. r.key[1] = r.page /\ r.page # c
      BY <2>1 DEF IInv, KeysOwned, AnsweredLast
    <3>2. KeyInUse(c)[1] = c
      <4>1. page[c].busy \in Operations
        BY <1>1, <2>1 DEF TypeOK, Pages
      <4>2. page[c].keys[page[c].busy].signature.version # 0
        BY <4>1 DEF IInv, KeysOwned, Operations
      <4>. QED BY <4>1, <4>2 DEF IInv, KeysOwned, KeyInUse
    <3>. QED BY <2>3, <3>1, <3>2
  <2>. QED BY <1>1, <2>2, <2>3
<1>. QED BY <1>1, <1>2, <1>4, <1>7, <1>8, <1>9, <1>10, <1>11, <1>12, <1>13 DEF IInv

LEMMA CrashInv ==
  ASSUME IInv, Crash
  PROVE  IInv'
<1>1. /\ TypeOK' /\ TypeOK /\ TransactionExtends
      /\ UNCHANGED <<row, records, moves>>
      /\ tx' = NoTransaction(row) /\ requests' = <<>>
      /\ \A c \in Consoles :
           /\ page'[c].busy = page[c].busy /\ page'[c].keys = page[c].keys
           /\ page'[c].issued = page[c].issued /\ page'[c].draft = page[c].draft
           /\ page'[c].view = page[c].view
           /\ page'[c].answer \in {page[c].answer, "error"}
  BY CrashEffect DEF IInv
<1>2. /\ tx'.open = FALSE /\ tx'.row = row /\ tx'.request = NoRequest
      /\ tx' = NoTransaction(row)' /\ DOMAIN row.log \subseteq DOMAIN tx.row.log
      /\ \A i \in DOMAIN row.log : tx.row.log[i] = row.log[i]
  <2>1. row \in Rows BY <1>1 DEF TypeOK
  <2>2. NoTransaction(row)' = NoTransaction(row) BY <1>1 DEF NoTransaction, NoRequest, NoName
  <2>. QED BY <1>1, <2>1, <2>2, ClosedType DEF TransactionExtends
<1>3. NoRequest.page = Engine /\ NoRequest.live = FALSE /\ NoRequest.key[1] = Engine
  BY DEF NoRequest, NoName
<1>4. DOMAIN requests' = {} BY <1>1
<1>5. \A c \in Consoles : KeyInUse(c)' = KeyInUse(c) BY <1>1 DEF KeyInUse
<1>6. DraftFits' /\ VersionsCount'
  BY <1>1, <1>2 DEF IInv, DraftFits, VersionsCount
<1>7. TransactionExtends' BY <1>1, <1>2, <1>3 DEF TransactionExtends
<1>8. NamesOnce' BY <1>1, <1>2 DEF IInv, NamesOnce
<1>9. OneRequestPerKey' /\ KeysIssued'
  <2>1. ASSUME NEW o \in Operations, NEW k \in Names, NEW s \in Signatures, Carried(o, k, s)'
        PROVE  Carried(o, k, s)
    <3>1. ASSUME NEW i \in DOMAIN tx'.row.log, tx'.row.log[i].op = o, tx'.row.log[i].name = k,
                 s = [version |-> i, body |-> tx'.row.log[i].body]
          PROVE  Carried(o, k, s)
      BY <1>2, <3>1 DEF Carried
    <3>2. ASSUME NEW c \in Consoles, page'[c].keys[o] = [key |-> k, signature |-> s],
                 s.version # 0
          PROVE  Carried(o, k, s)
      BY <1>1, <3>2, Zenon DEF Carried
    <3>3. tx'.request.page = Engine BY <1>2, <1>3
    <3>4. ~\E i \in DOMAIN requests' : TRUE BY <1>4
    <3>. QED BY <1>1, <2>1, <3>1, <3>2, <3>3, <3>4, Zenon DEF Carried
  <2>2. \A c \in Consoles : page'[c].issued >= page[c].issued
    BY <1>1 DEF TypeOK, Pages
  <2>. QED BY <1>1, <2>1, <2>2, NoNewKeys
<1>10. KeysOwned' BY <1>1, <1>2, <1>3, <1>4 DEF IInv, KeysOwned
<1>11. QueueInOrder' BY <1>2, <1>3, <1>4 DEF QueueInOrder, Awaited
<1>12. AnsweredLast' BY <1>2, <1>3, <1>4, MutationAssumption DEF AnsweredLast
<1>13. RecordsReal' BY <1>1 DEF IInv, RecordsReal, Done
<1>14. SuccessIsDurable' BY <1>1, <1>5 DEF IInv, SuccessIsDurable, Applied
<1>15. ConflictUnrecorded' /\ KeysFitRequests'
  BY <1>1, <1>5 DEF IInv, ConflictUnrecorded, KeysFitRequests
<1>. QED BY <1>1, <1>6, <1>7, <1>8, <1>9, <1>10, <1>11, <1>12, <1>13, <1>14, <1>15 DEF IInv

LEMMA ExpireInv ==
  ASSUME IInv, NEW record \in records, Expire(record)
  PROVE  IInv'
<1>1. /\ TypeOK' /\ TypeOK
      /\ row' = row /\ tx' = tx /\ requests' = requests /\ page' = page /\ moves' = moves
      /\ records' \subseteq records
  BY ExpireEffect DEF IInv
<1>2. OneRequestPerKey' /\ KeysIssued'
  <2>1. ASSUME NEW o \in Operations, NEW k \in Names, NEW s \in Signatures, Carried(o, k, s)'
        PROVE  Carried(o, k, s)
    <3>1. \A x \in records' : x \in records BY <1>1
    <3>. QED BY <1>1, <2>1, <3>1, Zenon DEF Carried
  <2>2. \A c \in Consoles : page'[c].issued >= page[c].issued
    BY <1>1 DEF TypeOK, Pages
  <2>. QED BY <1>1, <2>1, <2>2, NoNewKeys
<1>3. VersionsCount' /\ NamesOnce' /\ KeysOwned' /\ AnsweredLast'
  BY <1>1 DEF IInv, VersionsCount, NamesOnce, KeysOwned, AnsweredLast
<1>4. TransactionExtends'
  BY <1>1 DEF IInv, TransactionExtends, Done, NoTransaction, NoRequest, NoName
<1>5. QueueInOrder' BY <1>1 DEF IInv, QueueInOrder, Awaited
<1>6. RecordsReal' BY <1>1 DEF IInv, RecordsReal, Done
<1>7. SuccessIsDurable' BY <1>1 DEF IInv, SuccessIsDurable, Applied, KeyInUse
<1>8. ConflictUnrecorded' BY <1>1 DEF IInv, ConflictUnrecorded, KeyInUse
<1>. QED BY <1>1, <1>2, <1>3, <1>4, <1>5, <1>6, <1>7, <1>8, PagesStay DEF IInv

LEMMA SubmitInv ==
  ASSUME IInv, NEW c \in Consoles, NEW op \in Operations, Submit(c, op)
  PROVE  IInv'
<1>1. /\ TypeOK' /\ TypeOK
      /\ row' = row /\ records' = records /\ tx' = tx /\ moves' = moves
      /\ page'[c].busy = op /\ page'[c].answer = "none"
      /\ page[c].busy = "idle" /\ page[c].answer = "none"
      /\ \A d \in Consoles : d # c => page'[d] = page[d]
      /\ page'[c].draft = page[c].draft /\ page'[c].view = page[c].view
      /\ op = "note" => page[c].draft <= MaxNotes
      /\ page'[c].issued >= page[c].issued
      /\ \A o \in Operations : o # op => page'[c].keys[o] = page[c].keys[o]
  BY SubmitEffect DEF IInv
<1>2. PICK k \in Names, s \in Signatures, r \in Requests : Sent(c, op, k, s, r)
  BY SubmitEffect DEF Sends
<1>3. /\ page'[c].keys[op] = [key |-> k, signature |-> s]
      /\ s.version # 0
      /\ \/ page[c].keys[op] = page'[c].keys[op]
         \/ page'[c].issued = page[c].issued + 1 /\ k = <<c, page[c].issued + 1>>
      /\ r.page = c /\ r.op = op /\ r.key = k /\ r.signature = s
      /\ requests' = Append(requests, r)
  BY <1>2 DEF Sent
<1>4. /\ \A i \in DOMAIN requests' :
           \/ i \in DOMAIN requests /\ requests'[i] = requests[i]
           \/ i \notin DOMAIN requests /\ requests'[i] = r
      /\ \A i, j \in DOMAIN requests' :
           i < j => i \in DOMAIN requests /\ requests'[i] = requests[i]
  BY <1>1, <1>3, Arrives
<1>5. op # "idle" /\ "idle" \notin Operations BY DEF Operations
<1>6. \A d \in Consoles : page[d].issued \in Nat /\ page'[d].issued \in Nat
      /\ page'[d].issued >= page[d].issued
  <2>. SUFFICES ASSUME NEW d \in Consoles
                PROVE  /\ page[d].issued \in Nat /\ page'[d].issued \in Nat
                       /\ page'[d].issued >= page[d].issued
    OBVIOUS
  <2>1. page \in [Consoles -> Pages] /\ page' \in [Consoles -> Pages] BY <1>1 DEF TypeOK
  <2>2. page[d].issued \in Nat /\ page'[d].issued \in Nat BY <2>1 DEF Pages
  <2>3. CASE d = c BY <1>1, <2>2, <2>3
  <2>4. CASE d # c
    <3>1. page'[d] = page[d] BY <1>1, <2>4
    <3>. QED BY <2>2, <3>1
  <2>. QED BY <2>3, <2>4
<1>7. k[1] = c /\ k[2] \in Nat
  <2>1. CASE page[c].keys[op] = page'[c].keys[op]
    BY <1>3, <2>1 DEF IInv, KeysOwned, Names
  <2>2. CASE k = <<c, page[c].issued + 1>> BY <1>6, <2>2
  <2>. QED BY <1>3, <2>1, <2>2
<1>8. ASSUME NEW o \in Operations, NEW k1 \in Names, NEW s1 \in Signatures,
             Carried(o, k1, s1)'
      PROVE  Carried(o, k1, s1) \/ (o = op /\ k1 = k /\ s1 = s)
  <2>1. ASSUME NEW i \in DOMAIN requests', requests'[i].op = o, requests'[i].key = k1,
               requests'[i].signature = s1
        PROVE  Carried(o, k1, s1) \/ (o = op /\ k1 = k /\ s1 = s)
    BY <1>3, <1>4, <2>1 DEF Carried
  <2>2. ASSUME NEW d \in Consoles, page'[d].keys[o] = [key |-> k1, signature |-> s1],
               s1.version # 0
        PROVE  Carried(o, k1, s1) \/ (o = op /\ k1 = k /\ s1 = s)
    <3>1. CASE d = c /\ o = op BY <1>3, <2>2, <3>1
    <3>2. CASE page'[d].keys[o] = page[d].keys[o] BY <2>2, <3>2, Zenon DEF Carried
    <3>. QED BY <1>1, <3>1, <3>2
  <2>3. tx' = tx /\ records' = records BY <1>1
  <2>4. \/ \E i \in DOMAIN requests' :
             requests'[i].op = o /\ requests'[i].key = k1 /\ requests'[i].signature = s1
        \/ \E d \in Consoles :
             page'[d].keys[o] = [key |-> k1, signature |-> s1] /\ s1.version # 0
        \/ Carried(o, k1, s1)
    BY <1>8, <2>3, Zenon DEF Carried
  <2>. QED BY <2>1, <2>2, <2>4
<1>9. Carried(op, k, s) \/ \A o \in Operations, s1 \in Signatures : ~Carried(o, k, s1)
  <2>1. CASE page[c].keys[op] = page'[c].keys[op]
    BY <1>3, <2>1, Zenon DEF Carried
  <2>2. CASE k = <<c, page[c].issued + 1>>
    <3>1. ~(k[2] <= page[k[1]].issued) BY <1>6, <2>2
    <3>. QED BY <3>1 DEF IInv, KeysIssued
  <2>. QED BY <1>3, <2>1, <2>2
<1>10. OneRequestPerKey'
  <2>. SUFFICES ASSUME NEW o1 \in Operations, NEW o2 \in Operations, NEW k1 \in Names,
                       NEW s1 \in Signatures, NEW s2 \in Signatures,
                       Carried(o1, k1, s1)', Carried(o2, k1, s2)'
                PROVE  o1 = o2 /\ s1 = s2
    BY DEF OneRequestPerKey
  <2>1. Carried(o1, k1, s1) \/ (o1 = op /\ k1 = k /\ s1 = s) BY <1>8
  <2>2. Carried(o2, k1, s2) \/ (o2 = op /\ k1 = k /\ s2 = s) BY <1>8
  <2>3. CASE Carried(op, k, s) BY <2>1, <2>2, <2>3 DEF IInv, OneRequestPerKey
  <2>4. CASE \A o \in Operations, s3 \in Signatures : ~Carried(o, k, s3)
    BY <2>1, <2>2, <2>4 DEF IInv, OneRequestPerKey
  <2>. QED BY <1>9, <2>3, <2>4
<1>11. KeysIssued'
  <2>. SUFFICES ASSUME NEW o \in Operations, NEW k1 \in Names, NEW s1 \in Signatures,
                       Carried(o, k1, s1)'
                PROVE  k1[1] \in Consoles /\ k1[2] <= page'[k1[1]].issued
    BY DEF KeysIssued
  <2>1. CASE Carried(o, k1, s1)
    <3>1. k1[1] \in Consoles /\ k1[2] <= page[k1[1]].issued BY <2>1 DEF IInv, KeysIssued
    <3>2. k1[2] \in Nat BY DEF Names
    <3>. QED BY <1>6, <3>1, <3>2
  <2>2. CASE k1 = k
    <3>1. CASE Carried(op, k, s)
      <4>1. k[2] <= page[k[1]].issued BY <3>1 DEF IInv, KeysIssued
      <4>. QED BY <1>6, <1>7, <2>2, <4>1
    <3>2. CASE page'[c].issued = page[c].issued + 1 /\ k = <<c, page[c].issued + 1>>
      BY <1>6, <2>2, <3>2
    <3>3. page[c].keys[op] = page'[c].keys[op] => Carried(op, k, s)
      BY <1>3, Zenon DEF Carried
    <3>. QED BY <1>3, <3>1, <3>2, <3>3
  <2>. QED BY <1>8, <2>1, <2>2
<1>12. KeysOwned'
  <2>1. \A i \in DOMAIN requests' : requests'[i].key[1] = requests'[i].page
    BY <1>3, <1>4, <1>7 DEF IInv, KeysOwned
  <2>2. ASSUME NEW d \in Consoles, NEW o \in Operations, page'[d].keys[o].signature.version # 0
        PROVE  page'[d].keys[o].key[1] = d
    <3>1. CASE d = c /\ o = op BY <1>3, <1>7, <3>1
    <3>2. CASE page'[d].keys[o] = page[d].keys[o] BY <2>2, <3>2 DEF IInv, KeysOwned
    <3>. QED BY <1>1, <3>1, <3>2
  <2>3. ASSUME NEW d \in Consoles, page'[d].busy # "idle"
        PROVE  page'[d].keys[page'[d].busy].signature.version # 0
    <3>1. CASE d = c BY <1>1, <1>3, <3>1
    <3>2. CASE d # c BY <1>1, <2>3, <3>2 DEF IInv, KeysOwned
    <3>. QED BY <3>1, <3>2
  <2>. QED BY <1>1, <2>1, <2>2, <2>3 DEF IInv, KeysOwned
<1>13. /\ \A i \in DOMAIN requests : requests[i].live => requests[i].page # c
       /\ tx.request.live => tx.request.page # c
  BY <1>1, LiveFits DEF IInv
<1>14. QueueInOrder'
  <2>1. Awaited(r)' BY <1>1, <1>3 DEF Awaited
  <2>2. ASSUME NEW i \in DOMAIN requests
        PROVE  /\ requests[i].page \in Consoles
               /\ requests[i].live =>
                    /\ page'[requests[i].page].busy = requests[i].op
                    /\ page'[requests[i].page].answer = "none"
                    /\ page'[requests[i].page].keys[requests[i].op].key = requests[i].key
    <3>1. requests[i].page \in Consoles /\ Awaited(requests[i]) BY DEF IInv, QueueInOrder
    <3>. QED BY <1>1, <1>13, <3>1 DEF Awaited
  <2>3. Awaited(tx.request)'
    <3>1. Awaited(tx.request) /\ (tx.request.live => tx.request.page \in Consoles)
      BY <1>1, LiveFits DEF IInv, QueueInOrder
    <3>. QED BY <1>1, <1>13, <3>1 DEF Awaited
  <2>4. \A i \in DOMAIN requests' : requests'[i].page \in Consoles /\ Awaited(requests[i])'
    BY <1>3, <1>4, <2>1, <2>2 DEF Awaited
  <2>5. \A i, j \in DOMAIN requests' :
          i < j /\ requests'[i].live => requests'[j].page # requests'[i].page
    <3>. SUFFICES ASSUME NEW i \in DOMAIN requests', NEW j \in DOMAIN requests',
                         i < j, requests'[i].live
                  PROVE  requests'[j].page # requests'[i].page
      OBVIOUS
    <3>1. i \in DOMAIN requests /\ requests'[i] = requests[i] BY <1>4
    <3>2. CASE j \in DOMAIN requests /\ requests'[j] = requests[j]
      BY <3>1, <3>2 DEF IInv, QueueInOrder
    <3>3. CASE requests'[j] = r BY <1>3, <1>13, <3>1, <3>3
    <3>. QED BY <1>4, <3>2, <3>3
  <2>6. \A i \in DOMAIN requests' : tx.request.live => requests'[i].page # tx.request.page
    BY <1>3, <1>4, <1>13 DEF IInv, QueueInOrder
  <2>7. tx.request.page = Engine => ~tx.request.live BY DEF IInv, QueueInOrder
  <2>. QED BY <1>1, <2>3, <2>4, <2>5, <2>6, <2>7 DEF QueueInOrder
<1>15. AnsweredLast'
  <2>. SUFFICES ASSUME NEW d \in Consoles,
                       page'[d].answer \in {"ok", "conflict", "key_conflict"}
                PROVE  /\ tx.request.page # d
                       /\ \A i \in DOMAIN requests' : requests'[i].page # d
    BY <1>1 DEF AnsweredLast
  <2>1. d # c /\ page'[d] = page[d] BY <1>1
  <2>. QED BY <1>3, <1>4, <2>1 DEF IInv, AnsweredLast
<1>16. RecordsReal' /\ VersionsCount' /\ NamesOnce'
  BY <1>1 DEF IInv, RecordsReal, Done, VersionsCount, NamesOnce
<1>17. TransactionExtends'
  BY <1>1 DEF IInv, TransactionExtends, Done, NoTransaction, NoRequest, NoName
<1>18. DraftFits' BY <1>1 DEF IInv, DraftFits
<1>19. SuccessIsDurable' BY <1>1 DEF IInv, SuccessIsDurable, Applied, KeyInUse
<1>20. ConflictUnrecorded' /\ KeysFitRequests'
  BY <1>1 DEF IInv, ConflictUnrecorded, KeyInUse, KeysFitRequests
<1>. QED BY <1>1, <1>10, <1>11, <1>12, <1>14, <1>15, <1>16, <1>17, <1>18, <1>19, <1>20 DEF IInv

\* A page goes idle and no request of its own is live any more.
LEMMA ReleasedInv ==
  ASSUME IInv, TypeOK', NEW c \in Consoles, Released(c),
         row' = row, records' = records, moves' = moves,
         tx'.row = tx.row,
         DOMAIN requests' = DOMAIN requests,
         \A i \in DOMAIN requests :
           /\ requests'[i].page = requests[i].page /\ requests'[i].op = requests[i].op
           /\ requests'[i].key = requests[i].key
           /\ requests'[i].signature = requests[i].signature
           /\ requests'[i].live => requests[i].live /\ requests[i].page # c,
         tx'.request.page = tx.request.page, tx'.request.op = tx.request.op,
         tx'.request.key = tx.request.key, tx'.request.signature = tx.request.signature,
         tx'.request.live => tx.request.live /\ tx.request.page # c,
         ~tx'.open => tx' = NoTransaction(row)
  PROVE  IInv'
<1>1. TypeOK /\ TransactionExtends /\ KeysOwned /\ QueueInOrder BY DEF IInv
<1>2. /\ \A d \in Consoles : d # c => page'[d] = page[d]
      /\ page'[c].busy = "idle" /\ page'[c].answer = "none"
      /\ page'[c].issued = page[c].issued
      /\ \A o \in Operations : page'[c].keys[o] \in {page[c].keys[o], NoEntry}
      /\ page'[c].view.version # 0
  BY DEF Released
<1>3. NoEntry.signature.version = 0 BY DEF NoEntry
<1>4. "idle" \notin Operations /\ "idle" # "note" BY DEF Operations
<1>5. DraftFits' BY <1>2, <1>4 DEF IInv, DraftFits
<1>6. VersionsCount' BY <1>2 DEF IInv, VersionsCount
<1>7. NamesOnce' BY DEF IInv, NamesOnce
<1>8. OneRequestPerKey' /\ KeysIssued'
  <2>1. ASSUME NEW o \in Operations, NEW k \in Names, NEW s \in Signatures, Carried(o, k, s)'
        PROVE  Carried(o, k, s)
    <3>1. ASSUME NEW i \in DOMAIN requests', requests'[i].op = o, requests'[i].key = k,
                 requests'[i].signature = s
          PROVE  Carried(o, k, s)
      BY <3>1 DEF Carried
    <3>2. ASSUME NEW d \in Consoles, page'[d].keys[o] = [key |-> k, signature |-> s],
                 s.version # 0
          PROVE  Carried(o, k, s)
      <4>1. page'[d].keys[o] # NoEntry BY <1>3, <3>2
      <4>2. page'[d].keys[o] = page[d].keys[o] BY <1>2, <4>1
      <4>. QED BY <3>2, <4>2, Zenon DEF Carried
    <3>3. ASSUME tx'.request.page # Engine, tx'.request.op = o, tx'.request.key = k,
                 tx'.request.signature = s
          PROVE  Carried(o, k, s)
      BY <3>3 DEF Carried
    <3>. QED BY <2>1, <3>1, <3>2, <3>3, Zenon DEF Carried
  <2>2. \A d \in Consoles : page'[d].issued >= page[d].issued
    <3>. SUFFICES ASSUME NEW d \in Consoles PROVE page'[d].issued >= page[d].issued
      OBVIOUS
    <3>1. page[d].issued \in Nat BY <1>1 DEF TypeOK, Pages
    <3>2. page'[d].issued = page[d].issued BY <1>2
    <3>. QED BY <3>1, <3>2
  <2>. QED BY <2>1, <2>2, NoNewKeys
<1>9. KeysOwned'
  <2>1. \A i \in DOMAIN requests' : requests'[i].key[1] = requests'[i].page
    BY <1>1 DEF KeysOwned
  <2>2. tx'.request.key[1] = tx'.request.page BY <1>1 DEF KeysOwned
  <2>3. ASSUME NEW d \in Consoles, NEW o \in Operations, page'[d].keys[o].signature.version # 0
        PROVE  page'[d].keys[o].key[1] = d
    <3>1. page'[d].keys[o] # NoEntry BY <1>3, <2>3
    <3>2. page'[d].keys[o] = page[d].keys[o] BY <1>2, <3>1
    <3>. QED BY <1>1, <2>3, <3>2 DEF KeysOwned
  <2>4. ASSUME NEW d \in Consoles, page'[d].busy # "idle"
        PROVE  page'[d].keys[page'[d].busy].signature.version # 0
    BY <1>1, <1>2, <2>4 DEF KeysOwned
  <2>. QED BY <2>1, <2>2, <2>3, <2>4 DEF KeysOwned
<1>10. QueueInOrder'
  <2>1. ASSUME NEW i \in DOMAIN requests'
        PROVE  requests'[i].page \in Consoles /\ Awaited(requests[i])'
    <3>1. requests[i].page \in Consoles /\ Awaited(requests[i]) BY <1>1, <2>1 DEF QueueInOrder
    <3>. QED BY <1>2, <2>1, <3>1 DEF Awaited
  <2>2. Awaited(tx.request)'
    <3>1. Awaited(tx.request) /\ (tx.request.live => tx.request.page \in Consoles)
      BY <1>1, LiveFits DEF QueueInOrder
    <3>. QED BY <1>2, <3>1 DEF Awaited
  <2>3. \A i, j \in DOMAIN requests' :
          i < j /\ requests'[i].live => requests'[j].page # requests'[i].page
    BY <1>1 DEF QueueInOrder
  <2>. QED BY <1>1, <2>1, <2>2, <2>3 DEF QueueInOrder
<1>11. AnsweredLast'
  <2>. SUFFICES ASSUME NEW d \in Consoles,
                       page'[d].answer \in {"ok", "conflict", "key_conflict"}
                PROVE  /\ tx'.request.page # d
                       /\ \A i \in DOMAIN requests' : requests'[i].page # d
    BY DEF AnsweredLast
  <2>1. page'[d] = page[d] BY <1>2
  <2>. QED BY <2>1 DEF IInv, AnsweredLast
<1>12. TransactionExtends'
  <2>1. NoTransaction(row)' = NoTransaction(row) BY DEF NoTransaction, NoRequest, NoName
  <2>. QED BY <1>1, <2>1 DEF TransactionExtends, Done
<1>13. RecordsReal' BY DEF IInv, RecordsReal, Done
<1>14. SuccessIsDurable' /\ ConflictUnrecorded' /\ KeysFitRequests'
  <2>1. ASSUME NEW d \in Consoles, page'[d].answer # "none"
        PROVE  page'[d] = page[d] /\ KeyInUse(d)' = KeyInUse(d)
    BY <1>2, <2>1 DEF KeyInUse
  <2>2. SuccessIsDurable' BY <2>1 DEF IInv, SuccessIsDurable, Applied
  <2>3. ConflictUnrecorded' BY <2>1 DEF IInv, ConflictUnrecorded
  <2>4. KeysFitRequests' BY <2>1 DEF IInv, KeysFitRequests
  <2>. QED BY <2>2, <2>3, <2>4
<1>. QED BY <1>5, <1>6, <1>7, <1>8, <1>9, <1>10, <1>11, <1>12, <1>13, <1>14 DEF IInv

LEMMA GiveUpInv ==
  ASSUME IInv, NEW c \in Consoles, GiveUp(c)
  PROVE  IInv'
<1>1. /\ TypeOK' /\ TypeOK /\ TransactionExtends /\ Released(c)
      /\ row' = row /\ records' = records /\ moves' = moves
      /\ DOMAIN requests' = DOMAIN requests
      /\ \A i \in DOMAIN requests : requests'[i] = Forget(requests[i], c)
      /\ tx'.open = tx.open /\ tx'.row = tx.row /\ tx'.request = Forget(tx.request, c)
  BY GiveUpEffect DEF IInv
<1>2. tx.request \in Requests /\ \A i \in DOMAIN requests : requests[i] \in Requests
  BY <1>1, LiveFits DEF IInv
<1>3. \A i \in DOMAIN requests :
        /\ requests'[i].page = requests[i].page /\ requests'[i].op = requests[i].op
        /\ requests'[i].key = requests[i].key
        /\ requests'[i].signature = requests[i].signature
        /\ requests'[i].live => requests[i].live /\ requests[i].page # c
  BY <1>1, <1>2, ForgetFields
<1>4. /\ tx'.request.page = tx.request.page /\ tx'.request.op = tx.request.op
      /\ tx'.request.key = tx.request.key /\ tx'.request.signature = tx.request.signature
      /\ tx'.request.live => tx.request.live /\ tx.request.page # c
  BY <1>1, <1>2, ForgetFields
<1>5. ASSUME ~tx'.open PROVE tx' = NoTransaction(row)
  <2>1. tx = NoTransaction(row) BY <1>1, <1>5 DEF TransactionExtends
  <2>2. Forget(NoRequest, c) = NoRequest BY MutationAssumption DEF Forget, NoRequest
  <2>3. tx' = [open |-> tx'.open, row |-> tx'.row, request |-> tx'.request]
        /\ tx = [open |-> tx.open, row |-> tx.row, request |-> tx.request]
    BY <1>1 DEF TypeOK
  <2>4. tx.request = NoRequest BY <2>1 DEF NoTransaction
  <2>5. tx' = tx BY <1>1, <2>2, <2>3, <2>4
  <2>. QED BY <2>1, <2>5
<1>. QED BY <1>1, <1>3, <1>4, <1>5, ReleasedInv

LEMMA ReceiveInv ==
  ASSUME IInv, NEW c \in Consoles, Receive(c)
  PROVE  IInv'
<1>1. /\ TypeOK' /\ TypeOK /\ TransactionExtends /\ QueueInOrder /\ Released(c)
      /\ row' = row /\ records' = records /\ moves' = moves
      /\ requests' = requests /\ tx' = tx /\ page[c].answer # "none"
  BY ReceiveEffect DEF IInv
<1>2. \A i \in DOMAIN requests : requests[i].live => requests[i].page # c
  BY <1>1 DEF QueueInOrder, Awaited
<1>3. tx.request.live => tx.request.page # c BY <1>1 DEF QueueInOrder, Awaited
<1>4. ~tx'.open => tx' = NoTransaction(row) BY <1>1 DEF TransactionExtends
<1>. QED BY <1>1, <1>2, <1>3, <1>4, ReleasedInv

LEMMA RefuseInv ==
  ASSUME IInv, NEW c \in Consoles, Refuse(c)
  PROVE  IInv'
<1>1. /\ TypeOK' /\ TypeOK /\ QueueInOrder /\ KeysOwned
      /\ row' = row /\ records' = records /\ tx' = tx /\ moves' = moves
      /\ \A d \in Consoles :
           /\ page'[d].busy = page[d].busy /\ page'[d].keys = page[d].keys
           /\ page'[d].issued = page[d].issued /\ page'[d].draft = page[d].draft
           /\ page'[d].view = page[d].view
           /\ page'[d].answer = IF d = c THEN "error" ELSE page[d].answer
  BY RefuseEffect DEF IInv
<1>2. PICK i \in DOMAIN requests :
        requests[i].page = c /\ requests[i].live /\ requests' = RemoveAt(requests, i)
  BY RefuseEffect
<1>. DEFINE at(j) == IF j < i THEN j ELSE j + 1
<1>3. /\ \A j \in DOMAIN requests' :
           at(j) \in DOMAIN requests /\ at(j) # i /\ requests'[j] = requests[at(j)]
      /\ \A j1, j2 \in DOMAIN requests' : j1 < j2 => at(j1) < at(j2)
  BY <1>1, <1>2, Removed
<1>4. /\ \A j \in DOMAIN requests : j # i /\ requests[j].live => requests[j].page # c
      /\ tx.request.live => tx.request.page # c
  <2>1. DOMAIN requests \subseteq Nat BY <1>1 DEF TypeOK
  <2>2. ASSUME NEW j \in DOMAIN requests, j # i, requests[j].live PROVE requests[j].page # c
    <3>1. j < i \/ i < j BY <2>1, <2>2
    <3>. QED BY <1>1, <1>2, <2>2, <3>1 DEF QueueInOrder
  <2>. QED BY <1>1, <1>2, <2>2 DEF QueueInOrder
<1>. HIDE DEF at
<1>5. \A d \in Consoles : KeyInUse(d)' = KeyInUse(d) BY <1>1 DEF KeyInUse
<1>6. OneRequestPerKey' /\ KeysIssued'
  <2>1. ASSUME NEW o \in Operations, NEW k \in Names, NEW s \in Signatures, Carried(o, k, s)'
        PROVE  Carried(o, k, s)
    <3>1. ASSUME NEW j \in DOMAIN requests', requests'[j].op = o, requests'[j].key = k,
                 requests'[j].signature = s
          PROVE  Carried(o, k, s)
      BY <1>3, <3>1 DEF Carried
    <3>2. ASSUME NEW d \in Consoles, page'[d].keys[o] = [key |-> k, signature |-> s],
                 s.version # 0
          PROVE  Carried(o, k, s)
      BY <1>1, <3>2, Zenon DEF Carried
    <3>3. tx' = tx /\ records' = records BY <1>1
    <3>. QED BY <2>1, <3>1, <3>2, <3>3, Zenon DEF Carried
  <2>2. \A d \in Consoles : page'[d].issued >= page[d].issued
    BY <1>1 DEF TypeOK, Pages
  <2>. QED BY <1>1, <2>1, <2>2, NoNewKeys
<1>7. DraftFits' /\ VersionsCount' /\ NamesOnce'
  BY <1>1 DEF IInv, DraftFits, VersionsCount, NamesOnce
<1>8. KeysOwned' BY <1>1, <1>3 DEF KeysOwned
<1>9. QueueInOrder'
  <2>1. ASSUME NEW j \in DOMAIN requests'
        PROVE  requests'[j].page \in Consoles /\ Awaited(requests[j])'
    <3>1. /\ at(j) \in DOMAIN requests /\ at(j) # i /\ requests'[j] = requests[at(j)]
          /\ requests[at(j)].page \in Consoles /\ Awaited(requests[at(j)])
      BY <1>1, <1>3, <2>1 DEF QueueInOrder
    <3>. QED BY <1>1, <1>4, <3>1 DEF Awaited
  <2>2. Awaited(tx.request)'
    <3>1. Awaited(tx.request) /\ (tx.request.live => tx.request.page \in Consoles)
      BY <1>1, LiveFits DEF QueueInOrder
    <3>. QED BY <1>1, <1>4, <3>1 DEF Awaited
  <2>3. ASSUME NEW j1 \in DOMAIN requests', NEW j2 \in DOMAIN requests', j1 < j2,
               requests'[j1].live
        PROVE  requests'[j2].page # requests'[j1].page
    BY <1>1, <1>3, <2>3 DEF QueueInOrder
  <2>4. \A j \in DOMAIN requests' : tx.request.live => requests'[j].page # tx.request.page
    BY <1>1, <1>3 DEF QueueInOrder
  <2>5. tx.request.page = Engine => ~tx.request.live BY <1>1 DEF QueueInOrder
  <2>. QED BY <1>1, <2>1, <2>2, <2>3, <2>4, <2>5 DEF QueueInOrder
<1>10. AnsweredLast'
  <2>. SUFFICES ASSUME NEW d \in Consoles,
                       page'[d].answer \in {"ok", "conflict", "key_conflict"}
                PROVE  /\ tx'.request.page # d
                       /\ \A j \in DOMAIN requests' : requests'[j].page # d
    BY DEF AnsweredLast
  <2>1. page'[d].answer = page[d].answer BY <1>1
  <2>. QED BY <1>1, <1>3, <2>1 DEF IInv, AnsweredLast
<1>11. TransactionExtends'
  BY <1>1 DEF IInv, TransactionExtends, Done, NoTransaction, NoRequest, NoName
<1>12. RecordsReal' BY <1>1 DEF IInv, RecordsReal, Done
<1>13. SuccessIsDurable' BY <1>1, <1>5 DEF IInv, SuccessIsDurable, Applied
<1>14. ConflictUnrecorded' /\ KeysFitRequests'
  BY <1>1, <1>5 DEF IInv, ConflictUnrecorded, KeysFitRequests
<1>. QED BY <1>1, <1>6, <1>7, <1>8, <1>9, <1>10, <1>11, <1>12, <1>13, <1>14 DEF IInv

LEMMA LookInv ==
  ASSUME IInv, NEW c \in Consoles, Refetch(c) \/ Edit(c)
  PROVE  IInv'
<1>1. /\ TypeOK' /\ TypeOK
      /\ row' = row /\ records' = records /\ tx' = tx /\ requests' = requests /\ moves' = moves
      /\ \A d \in Consoles :
           /\ page'[d].busy = page[d].busy /\ page'[d].keys = page[d].keys
           /\ page'[d].issued = page[d].issued /\ page'[d].answer = page[d].answer
           /\ page'[d].view.version # 0
           /\ page'[d].draft # page[d].draft => page'[d].draft <= MaxNotes
  BY LookEffect DEF IInv
<1>2. \A d \in Consoles : KeyInUse(d)' = KeyInUse(d) BY <1>1 DEF KeyInUse
<1>3. OneRequestPerKey' /\ KeysIssued'
  <2>1. ASSUME NEW o \in Operations, NEW k \in Names, NEW s \in Signatures, Carried(o, k, s)'
        PROVE  Carried(o, k, s)
    <3>1. ASSUME NEW d \in Consoles, page'[d].keys[o] = [key |-> k, signature |-> s],
                 s.version # 0
          PROVE  Carried(o, k, s)
      BY <1>1, <3>1, Zenon DEF Carried
    <3>2. tx' = tx /\ records' = records /\ requests' = requests BY <1>1
    <3>. QED BY <2>1, <3>1, <3>2, Zenon DEF Carried
  <2>2. \A d \in Consoles : page'[d].issued >= page[d].issued
    BY <1>1 DEF TypeOK, Pages
  <2>. QED BY <1>1, <2>1, <2>2, NoNewKeys
<1>4. DraftFits'
  <2>. SUFFICES ASSUME NEW d \in Consoles, page'[d].busy = "note"
                PROVE  page'[d].draft <= MaxNotes
    BY DEF DraftFits
  <2>1. page[d].draft <= MaxNotes BY <1>1 DEF IInv, DraftFits
  <2>. QED BY <1>1, <2>1
<1>5. VersionsCount' /\ NamesOnce' BY <1>1 DEF IInv, VersionsCount, NamesOnce
<1>6. KeysOwned' BY <1>1 DEF IInv, KeysOwned
<1>7. QueueInOrder'
  <2>1. QueueInOrder BY DEF IInv
  <2>2. ASSUME NEW i \in DOMAIN requests
        PROVE  requests[i].page \in Consoles /\ Awaited(requests[i])'
    BY <1>1, <2>1 DEF QueueInOrder, Awaited
  <2>3. Awaited(tx.request)'
    <3>1. tx.request.live => tx.request.page \in Consoles BY <1>1, <2>1, LiveFits
    <3>. QED BY <1>1, <2>1, <3>1 DEF QueueInOrder, Awaited
  <2>. QED BY <1>1, <2>1, <2>2, <2>3 DEF QueueInOrder
<1>8. AnsweredLast' BY <1>1 DEF IInv, AnsweredLast
<1>9. TransactionExtends'
  BY <1>1 DEF IInv, TransactionExtends, Done, NoTransaction, NoRequest, NoName
<1>10. RecordsReal' BY <1>1 DEF IInv, RecordsReal, Done
<1>11. SuccessIsDurable' BY <1>1, <1>2 DEF IInv, SuccessIsDurable, Applied
<1>12. ConflictUnrecorded' /\ KeysFitRequests'
  BY <1>1, <1>2 DEF IInv, ConflictUnrecorded, KeysFitRequests
<1>. QED BY <1>1, <1>3, <1>4, <1>5, <1>6, <1>7, <1>8, <1>9, <1>10, <1>11, <1>12 DEF IInv

LEMMA StutterInv ==
  ASSUME IInv, UNCHANGED vars
  PROVE  IInv'
<1>1. /\ row' = row /\ records' = records /\ tx' = tx /\ requests' = requests
      /\ page' = page /\ moves' = moves /\ timeouts' = timeouts /\ losses' = losses
  BY DEF vars
<1>2. TypeOK' BY <1>1 DEF IInv, TypeOK
<1>3. OneRequestPerKey' /\ KeysIssued'
  <2>1. ASSUME NEW o \in Operations, NEW k \in Names, NEW s \in Signatures, Carried(o, k, s)'
        PROVE  Carried(o, k, s)
    BY <1>1, <2>1, Zenon DEF Carried
  <2>2. \A c \in Consoles : page'[c].issued >= page[c].issued
    BY <1>1 DEF IInv, TypeOK, Pages
  <2>. QED BY <1>2, <2>1, <2>2, NoNewKeys
<1>4. DraftFits' /\ VersionsCount' /\ NamesOnce' /\ KeysOwned' /\ AnsweredLast'
  BY <1>1 DEF IInv, DraftFits, VersionsCount, NamesOnce, KeysOwned, AnsweredLast
<1>5. TransactionExtends'
  BY <1>1 DEF IInv, TransactionExtends, Done, NoTransaction, NoRequest, NoName
<1>6. QueueInOrder' BY <1>1 DEF IInv, QueueInOrder, Awaited
<1>7. RecordsReal' /\ SuccessIsDurable' /\ ConflictUnrecorded' /\ KeysFitRequests'
  BY <1>1 DEF IInv, RecordsReal, Done, SuccessIsDurable, Applied, KeyInUse,
              ConflictUnrecorded, KeysFitRequests
<1>. QED BY <1>2, <1>3, <1>4, <1>5, <1>6, <1>7 DEF IInv

LEMMA InitInv ==
  ASSUME Init
  PROVE  IInv
<1>1. /\ row = Opened /\ records = {} /\ tx = NoTransaction(Opened) /\ requests = <<>>
      /\ moves = 0 /\ timeouts = 0 /\ losses = 0
  BY DEF Init
<1>2. /\ Opened.log = <<>> /\ Opened.version = 1 /\ Opened.acked = FALSE
      /\ Opened.state = "open" /\ Opened \in Rows
  BY DEF Opened, Rows, States, Active
<1>3. /\ tx \in [open : BOOLEAN, row : Rows, request : Requests]
      /\ tx.open = FALSE /\ tx.row = Opened /\ tx.request = NoRequest
  BY <1>1, <1>2, ClosedType
<1>4. NoRequest.page = Engine /\ NoRequest.live = FALSE /\ NoRequest.key[1] = Engine
  BY DEF NoRequest, NoName
<1>. DEFINE shown == [view |-> Shown(Opened), keys |-> [op \in Operations |-> NoEntry],
                      issued |-> 0, draft |-> 1, busy |-> "idle", answer |-> "none"]
<1>5. shown \in Pages
  <2>1. Shown(Opened) \in Views BY <1>2, ShownType
  <2>2. [op \in Operations |-> NoEntry] \in [Operations -> Entries] BY NoneTypes
  <2>3. 1 \in 1..(MaxNotes + 1) BY MutationAssumption
  <2>. QED BY <2>1, <2>2, <2>3 DEF Pages, Views, Entries
<1>6. \A c \in Consoles :
        /\ page[c] \in Pages /\ page[c].busy = "idle" /\ page[c].answer = "none"
        /\ page[c].view.version = 1 /\ \A o \in Operations : page[c].keys[o] = NoEntry
  <2>1. Shown(Opened).version = 1 BY <1>2, ShownType
  <2>. SUFFICES ASSUME NEW c \in Consoles
                PROVE  /\ page[c] \in Pages /\ page[c].busy = "idle" /\ page[c].answer = "none"
                       /\ page[c].view.version = 1
                       /\ \A o \in Operations : page[c].keys[o] = NoEntry
    OBVIOUS
  <2>2. page[c] = shown BY DEF Init
  <2>. QED BY <1>5, <2>1, <2>2
<1>7. page \in [Consoles -> Pages]
  <2>1. page = [c \in Consoles |-> shown] BY DEF Init
  <2>. HIDE DEF shown
  <2>. QED BY <1>5, <2>1
<1>. HIDE DEF shown
<1>8. DOMAIN requests = {} /\ DOMAIN row.log = {} /\ DOMAIN tx.row.log = {}
      /\ Len(row.log) = 0 /\ Len(tx.row.log) = 0
  BY <1>1, <1>2, <1>3
<1>9. TypeOK
  BY <1>1, <1>2, <1>3, <1>6, <1>7, MutationAssumption DEF TypeOK
<1>10. \A o \in Operations, k \in Names, s \in Signatures : ~Carried(o, k, s)
  <2>. SUFFICES ASSUME NEW o \in Operations, NEW k \in Names, NEW s \in Signatures,
                       Carried(o, k, s)
                PROVE  FALSE
    OBVIOUS
  <2>1. ASSUME NEW c \in Consoles, page[c].keys[o] = [key |-> k, signature |-> s],
               s.version # 0
        PROVE  FALSE
    BY <1>6, <2>1 DEF NoEntry
  <2>2. ~\E i \in DOMAIN requests : TRUE BY <1>8
  <2>3. ~\E i \in DOMAIN tx.row.log : TRUE BY <1>8
  <2>4. ~\E record \in records : TRUE BY <1>1
  <2>5. tx.request.page = Engine BY <1>3, <1>4
  <2>. QED BY <2>1, <2>2, <2>3, <2>4, <2>5, Zenon DEF Carried
<1>11. OneRequestPerKey /\ KeysIssued BY <1>10, Zenon DEF OneRequestPerKey, KeysIssued
<1>12. DraftFits /\ VersionsCount /\ NamesOnce
  BY <1>1, <1>2, <1>3, <1>6, <1>8 DEF DraftFits, VersionsCount, NamesOnce
<1>13. TransactionExtends
  BY <1>1, <1>2, <1>3, <1>4, <1>8 DEF TransactionExtends
<1>14. KeysOwned
  <2>1. NoEntry.signature.version = 0 BY DEF NoEntry
  <2>. QED BY <1>3, <1>4, <1>6, <1>8, <2>1 DEF KeysOwned
<1>15. QueueInOrder BY <1>3, <1>4, <1>8 DEF QueueInOrder, Awaited
<1>16. AnsweredLast /\ SuccessIsDurable /\ ConflictUnrecorded /\ KeysFitRequests
  BY <1>6 DEF AnsweredLast, SuccessIsDurable, ConflictUnrecorded, KeysFitRequests
<1>17. RecordsReal BY <1>1 DEF RecordsReal
<1>. QED BY <1>9, <1>11, <1>12, <1>13, <1>14, <1>15, <1>16, <1>17 DEF IInv

LEMMA StepInv ==
  ASSUME IInv, [Next]_vars
  PROVE  IInv'
<1>1. ASSUME NEW to \in {"open", "recovering", "resolved", "closed"}, Move(to) PROVE IInv'
  <2>1. to \in States BY DEF States, Active
  <2>. QED BY <1>1, <2>1, MoveInv
<1>2. CASE Begin
  <2>1. CASE Verdict(requests[1]) = "commit" BY <1>2, <2>1, WriteInv
  <2>2. CASE Verdict(requests[1]) # "commit" BY <1>2, <2>2, RefusalInv
  <2>. QED BY <2>1, <2>2
<1>3. CASE Commit BY <1>3, CommitInv
<1>4. CASE RollBack BY <1>4, RollBackInv
<1>5. CASE Crash BY <1>5, CrashInv
<1>6. ASSUME NEW record \in records, Expire(record) PROVE IInv' BY <1>6, ExpireInv
<1>7. ASSUME NEW c \in Consoles, NEW op \in Used, Submit(c, op) PROVE IInv'
  <2>1. op \in Operations BY MutationAssumption
  <2>. QED BY <1>7, <2>1, SubmitInv
<1>8. ASSUME NEW c \in Consoles, GiveUp(c) PROVE IInv' BY <1>8, GiveUpInv
<1>9. ASSUME NEW c \in Consoles, Refuse(c) PROVE IInv' BY <1>9, RefuseInv
<1>10. ASSUME NEW c \in Consoles, Receive(c) PROVE IInv' BY <1>10, ReceiveInv
<1>11. ASSUME NEW c \in Consoles, Refetch(c) \/ Edit(c) PROVE IInv' BY <1>11, LookInv
<1>12. CASE UNCHANGED vars BY <1>12, StutterInv
<1>. QED
  BY <1>1, <1>2, <1>3, <1>4, <1>5, <1>6, <1>7, <1>8, <1>9, <1>10, <1>11, <1>12
  DEF Next, Core, Console

\* The inductive invariant holds of every behaviour.
THEOREM Invariant == Spec => []IInv
<1>1. Init => IInv BY InitInv
<1>2. IInv /\ [Next]_vars => IInv' BY StepInv
<1>. QED BY <1>1, <1>2, PTL DEF Spec

\* The type invariant, for every value of the constants.
THEOREM TypeCorrect == Spec => []TypeOK
<1>1. IInv => TypeOK BY DEF IInv
<1>. QED BY <1>1, Invariant, PTL

\* A key changes the incident at most once, although records expire, pages time
\* out and submit again, transactions fail and the core crashes.
THEOREM KeysApplyOnce == Spec => []AppliedOnce
<1>1. IInv => AppliedOnce BY DEF IInv, AppliedOnce, NamesOnce, TransactionExtends
<1>. QED BY <1>1, Invariant, PTL

\* What a page reports as done is committed and stays in the incident.
THEOREM SuccessIsKept == Spec => []SuccessIsDurable
<1>1. IInv => SuccessIsDurable BY DEF IInv
<1>. QED BY <1>1, Invariant, PTL

\* A page that reports a conflict has not had its mutation applied, unless the
\* record of it has expired.
THEOREM ConflictsAreReal == Spec => []ConflictIsReal
<1>1. IInv => ConflictIsReal BY DEF IInv, ConflictUnrecorded, ConflictIsReal
<1>. QED BY <1>1, Invariant, PTL

\* The console never sends one key with two different requests.
THEOREM KeysFit == Spec => []KeysFitRequests
<1>1. IInv => KeysFitRequests BY DEF IInv
<1>. QED BY <1>1, Invariant, PTL

-----------------------------------------------------------------------------
(* What operators have seen.  A version is the place of the next change;    *)
(* while no transaction is undone, a version that a page or a request holds *)
(* goes with the change before that place.                                  *)

Fits(log, version, seen) ==
  /\ version \in 1..(Len(log) + 1)
  /\ seen = IF version = 1 THEN NoName ELSE log[version - 1].name

\* Every mutation follows the change that its operator had seen last.
Told(log) ==
  \A i \in DOMAIN log : log[i].op # "move" =>
    log[i].seen = IF i = 1 THEN NoName ELSE log[i - 1].name

Extends(log, next) == \A i \in DOMAIN log : i \in DOMAIN next /\ next[i] = log[i]

\* What a request carries is what another one, or a page, has held before.
Held(r) ==
  \/ \E i \in DOMAIN requests :
       r.signature.version = requests[i].signature.version /\ r.seen = requests[i].seen
  \/ \E c \in Consoles : r.signature.version = page[c].view.version /\ r.seen = page[c].view.seen

SeenFits ==
  losses = 0 =>
    /\ Told(tx.row.log)
    /\ \A c \in Consoles : Fits(tx.row.log, page[c].view.version, page[c].view.seen)
    /\ \A i \in DOMAIN requests :
         Fits(tx.row.log, requests[i].signature.version, requests[i].seen)

LEMMA FitsStays ==
  ASSUME NEW log \in Seq(Changes), NEW next \in Seq(Changes), Extends(log, next),
         NEW version, NEW seen, Fits(log, version, seen)
  PROVE  Fits(next, version, seen)
<1>1. Len(log) \in Nat /\ DOMAIN log = 1..Len(log) /\ Len(next) \in Nat
      /\ DOMAIN next = 1..Len(next)
  OBVIOUS
<1>2. Len(log) <= Len(next)
  <2>1. Len(log) = 0 \/ Len(log) \in DOMAIN log BY <1>1
  <2>. QED BY <1>1, <2>1 DEF Extends
<1>3. version \in 1..(Len(log) + 1) BY DEF Fits
<1>4. version = 1 \/ version - 1 \in DOMAIN log BY <1>1, <1>3
<1>5. version \in 1..(Len(next) + 1) BY <1>1, <1>2, <1>3
<1>. QED BY <1>4, <1>5 DEF Fits, Extends

\* The version of a row goes with its last change.
LEMMA ShownFits ==
  ASSUME NEW r \in Rows, r.version = Len(r.log) + 1
  PROVE  Fits(r.log, Shown(r).version, Shown(r).seen)
<1>1. r.log \in Seq(Changes) /\ Len(r.log) \in Nat BY DEF Rows
<1>2. Shown(r).version = r.version
      /\ Shown(r).seen = IF r.log = <<>> THEN NoName ELSE Last(r.log).name
  BY DEF Shown
<1>3. r.log = <<>> <=> r.version = 1 BY <1>1
<1>4. r.version - 1 = Len(r.log) /\ r.version \in 1..(Len(r.log) + 1) BY <1>1
<1>. QED BY <1>2, <1>3, <1>4 DEF Fits, Last

LEMMA ToldGrows ==
  ASSUME NEW r \in Rows, Told(r.log), NEW change \in Changes,
         change.op = "move" \/ Fits(r.log, Len(r.log) + 1, change.seen)
  PROVE  Told(Changed(r, change).log) /\ Extends(r.log, Changed(r, change).log)
<1>. DEFINE log == r.log
            next == Changed(r, change).log
            n == Len(log) + 1
<1>1. /\ \A i \in DOMAIN log : i \in DOMAIN next /\ next[i] = log[i]
      /\ next[n] = change
      /\ \A i \in DOMAIN next : i \in DOMAIN log \/ i = n
  BY ChangedType
<1>2. log \in Seq(Changes) /\ Len(log) \in Nat /\ DOMAIN log = 1..Len(log) BY DEF Rows
<1>. HIDE DEF log, next
<1>3. ASSUME NEW i \in DOMAIN next, next[i].op # "move"
      PROVE  next[i].seen = IF i = 1 THEN NoName ELSE next[i - 1].name
  <2>1. i = 1 \/ (i - 1 \in DOMAIN log /\ next[i - 1] = log[i - 1]) BY <1>1, <1>2
  <2>2. CASE i \in DOMAIN log BY <1>1, <1>3, <2>1, <2>2 DEF Told, log
  <2>3. CASE i = n
    <3>1. Fits(log, n, change.seen) BY <1>1, <1>3, <2>3 DEF log
    <3>. QED BY <1>1, <2>1, <2>3, <3>1 DEF Fits
  <2>. QED BY <1>1, <2>2, <2>3
<1>. QED BY <1>1, <1>3 DEF Told, Extends, log, next

LEMMA SeenStep ==
  ASSUME IInv, TypeOK', SeenFits, losses' = losses, Extends(tx.row.log, tx'.row.log),
         losses = 0 => Told(tx'.row.log),
         \A c \in Consoles : page'[c].view \in {page[c].view, Shown(Visible)},
         \A i \in DOMAIN requests' : Held(requests'[i])
  PROVE  SeenFits'
<1>. SUFFICES ASSUME losses = 0
              PROVE  /\ \A c \in Consoles :
                          Fits(tx'.row.log, page'[c].view.version, page'[c].view.seen)
                     /\ \A i \in DOMAIN requests' :
                          Fits(tx'.row.log, requests'[i].signature.version, requests'[i].seen)
  BY DEF SeenFits
<1>1. tx.row.log \in Seq(Changes) /\ tx'.row.log \in Seq(Changes) /\ tx.row \in Rows
  BY DEF IInv, TypeOK, Rows
<1>2. Visible = tx.row
  <2>1. ~tx.open => tx.row = row BY LogFacts DEF IInv
  <2>. QED BY <2>1 DEF Visible
<1>3. Fits(tx.row.log, Shown(Visible).version, Shown(Visible).seen)
  BY <1>1, <1>2, ShownFits DEF IInv, VersionsCount
<1>4. \A c \in Consoles : Fits(tx.row.log, page[c].view.version, page[c].view.seen)
  BY DEF SeenFits
<1>5. ASSUME NEW c \in Consoles
      PROVE  Fits(tx'.row.log, page'[c].view.version, page'[c].view.seen)
  <2>1. Fits(tx.row.log, page'[c].view.version, page'[c].view.seen) BY <1>3, <1>4
  <2>. QED BY <1>1, <2>1, FitsStays
<1>6. ASSUME NEW i \in DOMAIN requests'
      PROVE  Fits(tx'.row.log, requests'[i].signature.version, requests'[i].seen)
  <2>1. Fits(tx.row.log, requests'[i].signature.version, requests'[i].seen)
    BY <1>4 DEF SeenFits, Held
  <2>. QED BY <1>1, <2>1, FitsStays
<1>. QED BY <1>5, <1>6

\* An action that leaves the log and the queue alone, or takes requests out of it.
LEMMA SeenKept ==
  ASSUME IInv, TypeOK', SeenFits, losses' = losses, tx'.row = tx.row,
         \A c \in Consoles : page'[c].view \in {page[c].view, Shown(Visible)},
         \A i \in DOMAIN requests' : Held(requests'[i])
  PROVE  SeenFits'
<1>1. Extends(tx.row.log, tx'.row.log) BY DEF Extends
<1>2. losses = 0 => Told(tx'.row.log) BY DEF SeenFits
<1>. QED BY <1>1, <1>2, SeenStep

LEMMA SeenAfterCore ==
  ASSUME IInv, SeenFits, Core
  PROVE  SeenFits'
<1>1. /\ TypeOK /\ TransactionExtends /\ QueueInOrder /\ losses \in Nat
      /\ ~tx.open => tx.row = row
      /\ row \in Rows /\ row.version = Len(row.log) + 1
  BY LogFacts DEF IInv, TypeOK, VersionsCount
<1>2. ASSUME UNCHANGED requests PROVE \A i \in DOMAIN requests' : Held(requests'[i])
  BY <1>2 DEF Held
<1>3. ASSUME NEW to \in {"open", "recovering", "resolved", "closed"}, Move(to)
      PROVE  SeenFits'
  <2>1. to \in States BY DEF States, Active
  <2>2. /\ TypeOK' /\ UNCHANGED <<page, requests, losses>> /\ ~tx.open
    BY <1>3, <2>1, MoveEffect DEF Move
  <2>3. PICK change \in Changes :
          tx'.row.log = Changed(row, change).log /\ change.op = "move"
    BY <1>3, <2>1, MoveEffect
  <2>4. Told(row.log) => Told(tx'.row.log) /\ Extends(row.log, tx'.row.log)
    BY <1>1, <2>3, ToldGrows
  <2>5. Extends(row.log, tx'.row.log) BY <1>1, <2>3, ChangedType DEF Extends
  <2>6. losses = 0 => Told(tx'.row.log) BY <1>1, <2>2, <2>4 DEF SeenFits
  <2>. QED BY <1>1, <1>2, <2>2, <2>5, <2>6, SeenStep
<1>4. CASE Begin /\ Verdict(requests[1]) # "commit"
  <2>1. /\ TypeOK' /\ UNCHANGED <<tx, losses>>
        /\ requests # <<>> /\ requests' = Tail(requests)
        /\ Verdict(requests[1]) \in {"ok", "conflict", "key_conflict"}
        /\ Answer(requests[1], Verdict(requests[1]))
    BY <1>4, RefusalEffect
  <2>2. requests[1] \in Requests /\ 1 \in DOMAIN requests BY <1>1, <2>1, HeadType
  <2>3. requests[1].live => requests[1].page \in Consoles /\ page[requests[1].page].busy # "idle"
    BY <1>1, <2>2, LiveFits
  <2>4. \A c \in Consoles : page'[c].view = page[c].view
    BY <1>1, <2>1, <2>2, <2>3, AnswerType
  <2>5. \A i \in DOMAIN requests' : Held(requests'[i]) BY <1>1, <2>1, Leaves DEF Held
  <2>. QED BY <2>1, <2>4, <2>5, SeenKept
<1>5. CASE Begin /\ Verdict(requests[1]) = "commit"
  <2>. DEFINE r == requests[1]
              change == [name |-> r.key, op |-> r.op, body |-> r.signature.body, seen |-> r.seen]
  <2>1. /\ TypeOK' /\ UNCHANGED <<page, losses>> /\ ~tx.open
        /\ requests # <<>> /\ requests' = Tail(requests)
        /\ tx'.row = Mutated(r) /\ Current(r)
    BY <1>5, WriteEffect
  <2>2. r \in Requests /\ 1 \in DOMAIN requests BY <1>1, <2>1, HeadType
  <2>3. /\ change \in Changes
        /\ \/ Mutated(r) = row
           \/ Mutated(r).log = Changed(row, change).log
    BY <1>1, <2>2, MutatedType
  <2>4. losses = 0 => Fits(row.log, Len(row.log) + 1, change.seen)
    BY <1>1, <2>1, <2>2 DEF SeenFits, Current
  <2>. HIDE DEF r, change
  <2>5. Extends(row.log, tx'.row.log) BY <1>1, <2>1, <2>3, ChangedType DEF Extends
  <2>6. losses = 0 => Told(tx'.row.log)
    BY <1>1, <2>1, <2>3, <2>4, ToldGrows DEF SeenFits
  <2>7. \A i \in DOMAIN requests' : Held(requests'[i]) BY <1>1, <2>1, Leaves DEF Held
  <2>. QED BY <1>1, <2>1, <2>5, <2>6, <2>7, SeenStep
<1>6. CASE Commit
  <2>1. /\ TypeOK' /\ UNCHANGED <<requests, losses>>
        /\ tx' = NoTransaction(tx.row) /\ Answer(tx.request, "ok")
    BY <1>6, CommitEffect
  <2>2. tx.request \in Requests BY <1>1 DEF TypeOK
  <2>3. tx.request.live => tx.request.page \in Consoles /\ page[tx.request.page].busy # "idle"
    BY <1>1, <2>2, LiveFits
  <2>4. \A c \in Consoles : page'[c].view = page[c].view
    BY <1>1, <2>1, <2>2, <2>3, AnswerType
  <2>5. tx'.row = tx.row BY <2>1 DEF NoTransaction
  <2>. QED BY <1>2, <2>1, <2>4, <2>5, SeenKept
<1>7. CASE RollBack \/ Crash
  <2>1. losses' = losses + 1 BY <1>7 DEF RollBack, Crash, Lose
  <2>. QED BY <1>1, <2>1 DEF SeenFits
<1>8. ASSUME NEW record \in records, Expire(record) PROVE SeenFits'
  <2>1. TypeOK' /\ UNCHANGED <<tx, requests, page, losses>> BY <1>8, ExpireEffect
  <2>. QED BY <1>2, <2>1, SeenKept
<1>. QED BY <1>3, <1>4, <1>5, <1>6, <1>7, <1>8 DEF Core

LEMMA SeenAfterConsole ==
  ASSUME IInv, SeenFits, NEW c \in Consoles, Console(c)
  PROVE  SeenFits'
<1>1. TypeOK /\ VersionsCount BY DEF IInv
<1>2. ASSUME UNCHANGED requests PROVE \A i \in DOMAIN requests' : Held(requests'[i])
  BY <1>2 DEF Held
<1>3. ASSUME NEW op \in Used, Submit(c, op) PROVE SeenFits'
  <2>1. op \in Operations BY MutationAssumption
  <2>2. /\ TypeOK' /\ UNCHANGED <<tx, losses>> /\ page'[c].view = page[c].view
        /\ \A d \in Consoles : d # c => page'[d] = page[d]
    BY <1>3, <2>1, SubmitEffect
  <2>3. PICK k \in Names, s \in Signatures, r \in Requests : Sent(c, op, k, s, r)
    BY <1>3, <2>1, SubmitEffect DEF Sends
  <2>4. /\ r.signature = s /\ s.version = page[c].view.version /\ r.seen = page[c].view.seen
        /\ requests' = Append(requests, r)
    BY <2>3 DEF Sent
  <2>5. \A i \in DOMAIN requests' :
          (i \in DOMAIN requests /\ requests'[i] = requests[i]) \/ requests'[i] = r
    BY <1>1, <2>4, Arrives
  <2>6. \A i \in DOMAIN requests' : Held(requests'[i]) BY <2>4, <2>5 DEF Held
  <2>. QED BY <2>2, <2>6, SeenKept
<1>4. CASE GiveUp(c)
  <2>1. /\ TypeOK' /\ UNCHANGED losses /\ Released(c)
        /\ DOMAIN requests' = DOMAIN requests
        /\ \A i \in DOMAIN requests : requests'[i] = Forget(requests[i], c)
        /\ tx'.row = tx.row
    BY <1>4, GiveUpEffect
  <2>2. \A i \in DOMAIN requests : requests[i] \in Requests BY <1>1 DEF TypeOK
  <2>3. \A i \in DOMAIN requests' : Held(requests'[i])
    BY <2>1, <2>2, ForgetFields DEF Held
  <2>4. \A d \in Consoles : page'[d].view \in {page[d].view, Shown(Visible)}
    BY <2>1 DEF Released
  <2>. QED BY <2>1, <2>3, <2>4, SeenKept
<1>5. CASE Refuse(c)
  <2>1. /\ TypeOK' /\ UNCHANGED <<tx, losses>>
        /\ \A d \in Consoles : page'[d].view = page[d].view
    BY <1>5, RefuseEffect
  <2>2. PICK i \in DOMAIN requests : requests' = RemoveAt(requests, i)
    BY <1>5, RefuseEffect
  <2>3. \A j \in DOMAIN requests' : \E k \in DOMAIN requests : requests'[j] = requests[k]
    BY <1>1, <2>2, Removed
  <2>4. \A j \in DOMAIN requests' : Held(requests'[j]) BY <2>3 DEF Held
  <2>. QED BY <2>1, <2>4, SeenKept
<1>6. CASE Receive(c)
  <2>1. TypeOK' /\ UNCHANGED <<tx, requests, losses>> /\ Released(c)
    BY <1>6, ReceiveEffect
  <2>2. \A d \in Consoles : page'[d].view \in {page[d].view, Shown(Visible)}
    BY <2>1 DEF Released
  <2>. QED BY <1>2, <2>1, <2>2, SeenKept
<1>7. CASE Refetch(c) \/ Edit(c)
  <2>1. /\ TypeOK' /\ UNCHANGED <<tx, requests, losses>>
        /\ \A d \in Consoles : page'[d].view \in {page[d].view, Shown(Visible)}
    BY <1>7, LookEffect
  <2>. QED BY <1>2, <2>1, SeenKept
<1>. QED BY <1>3, <1>4, <1>5, <1>6, <1>7 DEF Console

LEMMA SeenHolds == Spec => [](IInv /\ SeenFits)
<1>1. Init => SeenFits
  <2>. SUFFICES ASSUME Init PROVE SeenFits OBVIOUS
  <2>. DEFINE nothing == <<>>
  <2>1. /\ tx.row.log = nothing /\ requests = nothing
        /\ \A c \in Consoles : page[c].view = Shown(Opened)
    BY DEF Init, NoTransaction, Opened
  <2>2. nothing \in Seq(Changes) /\ DOMAIN nothing = {} /\ Len(nothing) = 0 OBVIOUS
  <2>3. Opened \in Rows /\ Opened.log = nothing /\ Opened.version = 1
    BY <2>2 DEF Opened, Rows, States, Active
  <2>. HIDE DEF nothing
  <2>4. Fits(nothing, Shown(Opened).version, Shown(Opened).seen)
    BY <2>2, <2>3, ShownFits
  <2>. QED BY <2>1, <2>2, <2>4 DEF SeenFits, Told
<1>2. IInv /\ SeenFits /\ [Next]_vars => SeenFits'
  <2>1. ASSUME IInv, SeenFits, UNCHANGED vars PROVE SeenFits'
    BY <2>1 DEF SeenFits, vars
  <2>. QED BY <2>1, SeenAfterCore, SeenAfterConsole DEF Next
<1>. QED BY <1>1, <1>2, Invariant, PTL DEF Spec

\* A mutation directly follows the last change that its operator had seen, unless a
\* transaction was undone: the version of the If-Match header and the queue of
\* write transactions see to it (acknowledge, add_note, close_incident).
THEOREM MutationsAreInformed == Spec => []ActsOnWhatWasSeen
<1>1. IInv /\ SeenFits => ActsOnWhatWasSeen
  <2>. SUFFICES ASSUME IInv, SeenFits, losses = 0, NEW i \in DOMAIN row.log,
                       row.log[i].op # "move"
                PROVE  row.log[i].seen = IF i = 1 THEN NoName ELSE row.log[i - 1].name
    BY DEF ActsOnWhatWasSeen
  <2>1. /\ DOMAIN row.log = 1..Len(row.log) /\ Len(row.log) \in Nat
        /\ \A j \in DOMAIN row.log : j \in DOMAIN tx.row.log /\ tx.row.log[j] = row.log[j]
    BY LogFacts DEF IInv, TransactionExtends
  <2>2. i = 1 \/ i - 1 \in DOMAIN row.log BY <2>1
  <2>3. tx.row.log[i].seen = IF i = 1 THEN NoName ELSE tx.row.log[i - 1].name
    BY <2>1 DEF SeenFits, Told
  <2>. QED BY <2>1, <2>2, <2>3
<1>. QED BY <1>1, SeenHolds, PTL
=============================================================================
