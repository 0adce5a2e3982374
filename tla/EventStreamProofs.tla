-------------------------- MODULE EventStreamProofs --------------------------
(***************************************************************************)
(* Proofs of the type invariant and the two action properties of           *)
(* EventStream, for any pages, limits, topics, breaks and roll backs.      *)
(*                                                                         *)
(* The argument is about what a streaming page has of the rows up to Past, *)
(* the row after which the broadcaster goes on: each one that it has not   *)
(* been sent is in its replay, in its queue, or has an excuse (Complete).  *)
(* Replay establishes this, since the queue is there before the history    *)
(* and the core are asked, and a broadcast extends it, since an answer     *)
(* begins right after Past.  As replay and queue are in order, what a page *)
(* passes over when it is sent an event has an excuse.                     *)
(***************************************************************************)
EXTENDS EventStream, FiniteSetTheorems, SequenceTheorems, WellFoundedInduction, TLAPS

-----------------------------------------------------------------------------
(* Numbers and sequences.                                                  *)

LEMMA LimitsAreNumbers ==
  /\ IsFiniteSet(Pages)
  /\ QueueSize \in Nat \ {0} /\ HistorySize \in Nat \ {0} /\ ReadLimit \in Nat \ {0}
  /\ ConnectionLimit \in Nat \ {0}
  /\ MaxEvents \in Nat /\ MaxBreaks \in Nat /\ MaxRollBacks \in Nat
BY StreamAssumption

LEMMA Smallest ==
  ASSUME NEW T \in SUBSET Nat, T # {}
  PROVE  Min(T) \in T /\ \A y \in T : Min(T) <= y
<1> DEFINE R == OpToRel(<, Nat)
<1>1. IsWellFoundedOn(R, Nat)
  BY NatLessThanWellFounded
<1> HIDE DEF R
<1>2. \E x \in T : \A y \in T : <<y, x>> \notin R
  BY <1>1, WFMin
<1>3. \A x, y \in Nat : <<y, x>> \notin R => x <= y
  BY DEF R, OpToRel
<1>4. \E x \in T : \A y \in T : x <= y
  BY <1>2, <1>3
<1> QED
  BY <1>4 DEF Min

LEMMA Greatest ==
  ASSUME NEW bound \in Nat, NEW T \in SUBSET (0..bound), T # {}
  PROVE  Max(T) \in T /\ \A x \in T : x <= Max(T)
<1> DEFINE gaps == {gap \in Nat : \E x \in T : gap = bound - x}
<1>1. PICK x \in T : TRUE
  OBVIOUS
<1>2. bound - x \in gaps
  BY <1>1
<1>3. PICK least \in gaps : \A gap \in gaps : least <= gap
  <2> HIDE DEF gaps
  <2> QED
    BY <1>2, Smallest, gaps \in SUBSET Nat DEF gaps
<1>4. PICK top \in T : least = bound - top
  BY <1>3
<1>5. \A y \in T : top >= y
  <2> SUFFICES ASSUME NEW y \in T PROVE top >= y
    OBVIOUS
  <2>1. bound - y \in gaps
    OBVIOUS
  <2> QED
    BY <1>3, <1>4, <2>1
<1> QED
  BY <1>5 DEF Max

LEMMA OfTwo ==
  ASSUME NEW a \in Int, NEW b \in Int
  PROVE  /\ Min({a, b}) = IF a <= b THEN a ELSE b
         /\ Max({a, b}) = IF a >= b THEN a ELSE b
<1>1. \A x, y \in {a, b} : (\A z \in {a, b} : x <= z /\ y <= z) => x = y
  OBVIOUS
<1>2. \A x, y \in {a, b} : (\A z \in {a, b} : x >= z /\ y >= z) => x = y
  OBVIOUS
<1>3. \E x \in {a, b} : \A z \in {a, b} : x <= z
  OBVIOUS
<1>4. \E x \in {a, b} : \A z \in {a, b} : x >= z
  OBVIOUS
<1>5. Min({a, b}) \in {a, b} /\ \A z \in {a, b} : Min({a, b}) <= z
  BY <1>3 DEF Min
<1>6. Max({a, b}) \in {a, b} /\ \A z \in {a, b} : Max({a, b}) >= z
  BY <1>4 DEF Max
<1> QED
  BY <1>5, <1>6

LEMMA TailOf ==
  ASSUME NEW s \in Seq(Nat), s # <<>>
  PROVE  /\ Tail(s) \in Seq(Nat) /\ Len(Tail(s)) = Len(s) - 1 /\ Len(s) \in Nat \ {0}
         /\ DOMAIN s = 1..Len(s) /\ DOMAIN Tail(s) = 1..(Len(s) - 1)
         /\ Head(s) = s[1] /\ s[1] \in Nat
         /\ \A i \in 1..(Len(s) - 1) : Tail(s)[i] = s[i + 1]
OBVIOUS

\* The last elements of a sequence.
LEMMA EndOf ==
  ASSUME NEW s \in Seq(Nat), NEW first \in 1..(Len(s) + 1)
  PROVE  /\ SubSeq(s, first, Len(s)) \in Seq(Nat)
         /\ Len(SubSeq(s, first, Len(s))) = Len(s) - first + 1
         /\ \A i \in 1..(Len(s) - first + 1) :
              SubSeq(s, first, Len(s))[i] = s[first + i - 1]
<1>1. \A i \in first..Len(s) : s[i] \in Nat
  OBVIOUS
<1> QED
  BY <1>1, SubSeqProperties

LEMMA BeginningOf ==
  ASSUME NEW s \in Seq(Nat), NEW n \in 0..Len(s)
  PROVE  /\ SubSeq(s, 1, n) \in Seq(Nat) /\ Len(SubSeq(s, 1, n)) = n
         /\ \A i \in 1..n : SubSeq(s, 1, n)[i] = s[i]
<1>1. \A i \in 1..n : s[i] \in Nat
  OBVIOUS
<1>2. /\ SubSeq(s, 1, n) \in Seq(Nat)
      /\ Len(SubSeq(s, 1, n)) = IF 1 <= n THEN n - 1 + 1 ELSE 0
      /\ \A i \in 1..(n - 1 + 1) : SubSeq(s, 1, n)[i] = s[1 + i - 1]
  BY <1>1, SubSeqProperties
<1> QED
  BY <1>2

-----------------------------------------------------------------------------
(* The inductive invariant.                                                *)

\* The row after which the broadcaster goes on.
Past == IF web.cursor < oldest THEN oldest - 1 ELSE web.cursor

\* A number that the core has used.
Used(id) == id <= committed \/ (id = committed + 1 /\ (open \/ id \in reused))

Holds(events, id) == \E i \in DOMAIN events : events[i] = id

\* Events in order, none after the last.
InOrder(events, last) ==
  /\ \A i, j \in DOMAIN events : i < j => events[i] < events[j]
  /\ \A i \in DOMAIN events : events[i] <= last

\* Events without gaps, right after the last.
Follows(events, last) == \A i \in DOMAIN events : events[i] = last + i

WebFine ==
  /\ open => committed < MaxEvents
  /\ web.cursor = 0 \/ oldest <= web.cursor + 1
  /\ web.history # <<>> => web.cursor > 0
  /\ Follows(web.history, web.cursor - Len(web.history))
  /\ Follows(web.reply, Past)
  /\ \A i \in DOMAIN web.reply : Used(web.reply[i])
  /\ Used(web.cursor)

\* A queue is in order and has nothing that was not broadcast.
QueueFine(p, cursor) ==
  /\ p.state \notin {"opening", "streaming"} => p.queue = <<>>
  /\ InOrder(p.queue, cursor)

\* A replay has no gaps but in front, and those have an excuse.
ReplayFine(p, excused) ==
  /\ p.state # "streaming" => p.replay = <<>>
  /\ Follows(p.replay, p.replay[1] - 1)
  /\ p.replay # <<>> =>
       /\ p.last < p.replay[1]
       /\ \A id \in (p.last + 1)..(p.replay[1] - 1) : id \in excused

\* What a streaming page has not been sent, it is going to be, or there is an excuse.
Complete(p, excused, past) ==
  p.state = "streaming" =>
    \A id \in (p.last + 1)..past : Holds(p.replay, id) \/ Holds(p.queue, id) \/ id \in excused

PageFine(p, excused, cursor, past) ==
  QueueFine(p, cursor) /\ ReplayFine(p, excused) /\ Complete(p, excused, past)

Excused(c) == skipped[c] \cup reused

IInv ==
  /\ TypeOK /\ WebFine
  /\ \A c \in Pages : PageFine(page[c], Excused(c), web.cursor, Past)

-----------------------------------------------------------------------------
(* The rows and the state of the broadcaster.                              *)

LEMMA StreamTyped ==
  ASSUME TypeOK
  PROVE  /\ committed \in Nat /\ Visible \in Nat /\ oldest \in Nat \ {0} /\ oldest <= committed + 1
         /\ web.cursor \in Nat /\ web.history \in Seq(Nat) /\ web.reply \in Seq(Nat)
         /\ Past \in Nat /\ web.cursor <= Past /\ oldest - 1 <= Past
         /\ web \in [cursor : Nat, history : Seq(Nat), reply : Seq(Nat)]
BY LimitsAreNumbers DEF TypeOK, Visible, Past

LEMMA PagesTyped ==
  ASSUME TypeOK, NEW c \in Pages
  PROVE  /\ page[c] \in Page /\ page[c].last \in Nat
         /\ page[c].replay \in Seq(Nat) /\ page[c].queue \in Seq(Nat)
         /\ Len(page[c].queue) \in Nat /\ Len(page[c].queue) <= QueueSize
         /\ DOMAIN page[c].queue = 1..Len(page[c].queue)
         /\ DOMAIN page[c].replay = 1..Len(page[c].replay) /\ Len(page[c].replay) \in Nat
         /\ skipped[c] \in SUBSET Nat /\ Excused(c) \in SUBSET Nat
<1>1. page[c] \in Page /\ Len(page[c].queue) <= QueueSize
  BY DEF TypeOK
<1>2. /\ page[c].last \in Nat
      /\ page[c].replay \in Seq(Nat) /\ page[c].queue \in Seq(Nat)
  BY <1>1 DEF Page
<1>3. skipped[c] \in SUBSET Nat /\ Excused(c) \in SUBSET Nat
  BY DEF TypeOK, Excused
<1> QED
  BY <1>1, <1>2, <1>3

LEMMA RowsAre ==
  ASSUME TypeOK, NEW first \in Nat \ {0}
  PROVE  /\ Rows(first) \in Seq(Nat) /\ Len(Rows(first)) <= ReadLimit
         /\ \A i \in DOMAIN Rows(first) : Rows(first)[i] = first + i - 1
                                         /\ first + i - 1 <= Visible
         /\ Rows(first) = <<>> => Visible < first
<1> DEFINE left == Max({0, Visible + 1 - first})
<1> DEFINE n == Min({ReadLimit, left})
<1>1. Visible \in Nat /\ ReadLimit \in Nat \ {0}
  BY StreamTyped, LimitsAreNumbers
<1>2. left = IF 0 >= Visible + 1 - first THEN 0 ELSE Visible + 1 - first
  <2>1. 0 \in Int /\ Visible + 1 - first \in Int
    BY <1>1
  <2> QED
    BY <2>1, OfTwo
<1>3. left \in Nat /\ (left > 0 => first + left - 1 = Visible)
      /\ (left = 0 => Visible < first)
  <2> HIDE DEF left
  <2> QED
    BY <1>1, <1>2
<1> HIDE DEF left
<1>4. n = IF ReadLimit <= left THEN ReadLimit ELSE left
  BY <1>1, <1>3, OfTwo
<1>5. n \in Nat /\ n <= ReadLimit /\ n <= left /\ (n = 0 => left = 0)
  <2> HIDE DEF n
  <2> QED
    BY <1>1, <1>3, <1>4
<1>6. Rows(first) = [i \in 1..n |-> first + i - 1]
  BY DEF Rows, n, left
<1> HIDE DEF n
<1>7. \A i \in 1..n : first + i - 1 \in Nat
  BY <1>5
<1>8. Rows(first) \in Seq(Nat) /\ Len(Rows(first)) = n /\ DOMAIN Rows(first) = 1..n
  BY <1>5, <1>6, <1>7
<1>9. \A i \in 1..n : Rows(first)[i] = first + i - 1 /\ first + i - 1 <= Visible
  <2> SUFFICES ASSUME NEW i \in 1..n
               PROVE  Rows(first)[i] = first + i - 1 /\ first + i - 1 <= Visible
    OBVIOUS
  <2>1. Rows(first)[i] = first + i - 1
    BY <1>6
  <2>2. first + i - 1 <= Visible
    BY <1>1, <1>3, <1>5
  <2> QED
    BY <2>1, <2>2
<1> QED
  BY <1>3, <1>5, <1>8, <1>9

\* The rows after one begin with the next, or with the first that cleanup has kept.
LEMMA RowsAfterAre ==
  ASSUME TypeOK, NEW after \in Nat
  PROVE  \E first \in Nat \ {0} :
           /\ first = IF after < oldest THEN oldest ELSE after + 1
           /\ RowsAfter(after) = Rows(first)
<1>1. oldest \in Nat \ {0}
  BY StreamTyped
<1>2. Max({after + 1, oldest}) = IF after + 1 >= oldest THEN after + 1 ELSE oldest
  BY <1>1, OfTwo
<1>3. Max({after + 1, oldest}) = IF after < oldest THEN oldest ELSE after + 1
  BY <1>1, <1>2
<1>4. Max({after + 1, oldest}) \in Nat \ {0}
  BY <1>1, <1>3
<1> QED
  BY <1>3, <1>4 DEF RowsAfter

-----------------------------------------------------------------------------
(* The core and the broadcaster.                                           *)

\* More excuses do no harm.
LEMMA MoreExcuses ==
  ASSUME NEW p, NEW excused, NEW more, excused \subseteq more, NEW cursor, NEW past,
         PageFine(p, excused, cursor, past)
  PROVE  PageFine(p, more, cursor, past)
BY DEF PageFine, ReplayFine, Complete

\* The limit on connections is kept by a step that opens none and gives no slot back.
LEMMA ConnectionsStay ==
  ASSUME UNCHANGED lingering, \A c \in Pages : Subscribed(c)' = Subscribed(c)
  PROVE  Connections' = Connections
<1>1. {c \in Pages : Subscribed(c)}' = {c \in Pages : Subscribed(c)}
  OBVIOUS
<1> QED
  BY <1>1 DEF Connections

LEMMA CoreKeeps ==
  ASSUME IInv, Core
  PROVE  IInv'
<1>1. UNCHANGED <<webVars, page, view, skipped>>
  BY DEF Core, AppendRow, Commit, RollBack, Expire
<1>2. /\ committed' \in 0..MaxEvents /\ open' \in BOOLEAN /\ (open => committed < MaxEvents)'
      /\ reused \subseteq reused' /\ reused' \subseteq Nat
      /\ \A id \in Nat : Used(id) => Used(id)'
  <2>1. /\ committed \in 0..MaxEvents /\ reused \subseteq Nat /\ MaxEvents \in Nat
        /\ open \in BOOLEAN /\ (open => committed < MaxEvents)
    BY LimitsAreNumbers DEF IInv, TypeOK, WebFine
  <2>2. CASE AppendRow
    BY <2>1, <2>2 DEF AppendRow, Used
  <2>3. CASE Commit
    <3>1. /\ committed < MaxEvents /\ committed' = committed + 1 /\ ~open'
          /\ open' \in BOOLEAN /\ reused' = reused
      BY <2>3, <2>1 DEF Commit, Visible
    <3>2. ASSUME NEW id \in Nat, Used(id) PROVE Used(id)'
      <4>1. id <= committed + 1
        BY <2>1, <3>2 DEF Used
      <4> QED
        BY <3>1, <4>1 DEF Used
    <3> QED
      BY <2>1, <3>1, <3>2
  <2>4. CASE RollBack
    <3>1. /\ ~open' /\ open' \in BOOLEAN /\ reused' = reused \cup {committed + 1}
          /\ committed' = committed
      BY <2>4, <2>1 DEF RollBack, Visible
    <3>2. ASSUME NEW id \in Nat, Used(id) PROVE Used(id)'
      <4>1. id <= committed \/ id = committed + 1
        BY <3>2 DEF Used
      <4> QED
        BY <3>1, <4>1 DEF Used
    <3> QED
      BY <2>1, <3>1, <3>2
  <2>5. CASE Expire
    <3>1. open' = open /\ committed' = committed /\ reused' = reused
      BY <2>5 DEF Expire
    <3> QED
      BY <2>1, <3>1 DEF Used
  <2> QED
    BY <2>2, <2>3, <2>4, <2>5 DEF Core
<1>3. /\ oldest' \in 1..(committed' + 1) /\ Past' = Past
      /\ web.cursor = 0 \/ oldest' <= web.cursor + 1
  <2>1. /\ committed \in Nat /\ oldest \in 1..(committed + 1) /\ web.cursor \in Nat
        /\ web.cursor = 0 \/ oldest <= web.cursor + 1
    BY StreamTyped DEF IInv, WebFine, TypeOK
  <2>2. CASE UNCHANGED oldest
    <3>1. committed' = committed \/ committed' = committed + 1
      BY <2>2, <2>1 DEF Core, AppendRow, Commit, RollBack, Expire, Visible
    <3> QED
      BY <1>1, <2>1, <2>2, <3>1 DEF Past, webVars
  <2>3. CASE Expire
    <3>1. /\ oldest <= Min({committed, web.cursor}) /\ oldest' = oldest + 1
          /\ UNCHANGED <<committed, web>>
      BY <2>3 DEF Expire, webVars
    <3>2. oldest <= committed /\ oldest <= web.cursor
      <4>1. Min({committed, web.cursor}) = IF committed <= web.cursor THEN committed
                                                                    ELSE web.cursor
        BY <2>1, OfTwo
      <4> QED
        BY <2>1, <3>1, <4>1
    <3> QED
      BY <2>1, <3>1, <3>2 DEF Past
  <2> QED
    BY <2>2, <2>3 DEF Core, AppendRow, Commit, RollBack
<1>4. TypeOK'
  <2>1. Connections' = Connections
    BY <1>1, ConnectionsStay DEF webVars, Subscribed
  <2> QED
    BY <1>1, <1>2, <1>3, <2>1 DEF IInv, TypeOK, webVars
<1>5. WebFine'
  <2>1. \A i \in DOMAIN web.reply : web.reply[i] \in Nat
    BY StreamTyped DEF IInv
  <2>2. web.cursor \in Nat
    BY StreamTyped DEF IInv
  <2>3. (\A i \in DOMAIN web.reply : Used(web.reply[i])') /\ Used(web.cursor)'
    BY <1>2, <2>1, <2>2, <1>1 DEF IInv, WebFine, webVars, Used
  <2> QED
    BY <1>1, <1>2, <1>3, <2>3 DEF IInv, WebFine, webVars, Follows
<1>6. \A c \in Pages : PageFine(page[c], Excused(c), web.cursor, Past)'
  <2> SUFFICES ASSUME NEW c \in Pages
               PROVE  PageFine(page[c], Excused(c)', web.cursor, Past)
    BY <1>1, <1>3 DEF webVars
  <2>1. Excused(c) \subseteq Excused(c)'
    BY <1>1, <1>2 DEF Excused
  <2> QED
    BY <2>1, MoreExcuses DEF IInv
<1> QED
  BY <1>4, <1>5, <1>6 DEF IInv

\* The answer begins right after Past.
LEMMA PollKeeps ==
  ASSUME IInv, Poll
  PROVE  IInv'
<1> DEFINE reply == RowsAfter(web.cursor)
<1>1. /\ web' = [web EXCEPT !.reply = reply] /\ reply # <<>>
      /\ UNCHANGED <<coreVars, lingering, breaks, page, view, skipped>>
  BY DEF Poll
<1>2. TypeOK
  BY DEF IInv
<1>3. PICK first \in Nat \ {0} : /\ first = IF web.cursor < oldest THEN oldest
                                                                  ELSE web.cursor + 1
                                 /\ reply = Rows(first)
  BY <1>2, StreamTyped, RowsAfterAre
<1>4. first = Past + 1
  BY <1>2, <1>3, StreamTyped DEF Past
<1>5. /\ reply \in Seq(Nat) /\ Len(reply) <= ReadLimit
      /\ \A i \in DOMAIN reply : reply[i] = first + i - 1 /\ first + i - 1 <= Visible
  BY <1>2, <1>3, RowsAre
<1> HIDE DEF reply
<1>6. /\ web' \in [cursor : Nat, history : Seq(Nat), reply : Seq(Nat)]
      /\ web'.cursor = web.cursor /\ web'.history = web.history /\ web'.reply = reply
  BY <1>1, <1>2, <1>5, StreamTyped
<1>7. TypeOK'
  <2>1. Connections' = Connections
    BY <1>1, ConnectionsStay DEF Subscribed
  <2> QED
    BY <1>1, <1>2, <1>5, <1>6, <2>1 DEF TypeOK, coreVars
<1>8. Past' = Past
  BY <1>1, <1>6 DEF Past, coreVars
<1>9. \A i \in DOMAIN reply : reply[i] = Past + i /\ Used(reply[i])
  <2> SUFFICES ASSUME NEW i \in DOMAIN reply
               PROVE  reply[i] = Past + i /\ Used(reply[i])
    OBVIOUS
  <2>1. i \in Nat /\ reply[i] \in Nat
    BY <1>5
  <2>2. reply[i] = Past + i
    BY <1>2, <1>4, <1>5, <2>1, StreamTyped
  <2>3. reply[i] <= Visible
    BY <1>5
  <2> QED
    BY <1>2, <2>1, <2>2, <2>3, StreamTyped DEF Used, Visible
<1>10. WebFine'
  BY <1>1, <1>6, <1>8, <1>9 DEF IInv, WebFine, Used, coreVars, Follows
<1>11. \A c \in Pages : PageFine(page[c], Excused(c), web.cursor, Past)'
  BY <1>1, <1>6, <1>8 DEF IInv, Excused, coreVars
<1> QED
  BY <1>7, <1>10, <1>11 DEF IInv

\* The history is in order, so what remains of it is.
LEMMA RememberedIs ==
  ASSUME NEW events \in Seq(Nat), NEW cursor \in Nat,
         Follows(events, cursor - Len(events))
  PROVE  /\ Remembered(events) \in Seq(Nat) /\ Len(Remembered(events)) <= HistorySize
         /\ Follows(Remembered(events), cursor - Len(Remembered(events)))
         /\ Remembered(events) # <<>> => events # <<>>
<1> DEFINE first == Max({1, Len(events) + 1 - HistorySize})
<1>1. Len(events) \in Nat /\ HistorySize \in Nat \ {0} /\ DOMAIN events = 1..Len(events)
  BY LimitsAreNumbers
<1>2. first = IF 1 >= Len(events) + 1 - HistorySize THEN 1 ELSE Len(events) + 1 - HistorySize
  <2>1. 1 \in Int /\ Len(events) + 1 - HistorySize \in Int
    BY <1>1
  <2> QED
    BY <2>1, OfTwo
<1>3. Remembered(events) = SubSeq(events, first, Len(events))
  BY DEF Remembered
<1> HIDE DEF first
<1>4. first \in 1..(Len(events) + 1) /\ Len(events) - first + 1 <= HistorySize
  BY <1>1, <1>2
<1> DEFINE rest == Remembered(events)
<1>5. /\ rest \in Seq(Nat) /\ Len(rest) = Len(events) - first + 1
      /\ \A i \in 1..(Len(events) - first + 1) : rest[i] = events[first + i - 1]
  BY <1>3, <1>4, EndOf
<1> HIDE DEF rest
<1>6. \A i \in DOMAIN rest : rest[i] = cursor - Len(rest) + i
  <2> SUFFICES ASSUME NEW i \in DOMAIN rest PROVE rest[i] = cursor - Len(rest) + i
    OBVIOUS
  <2>1. i \in 1..(Len(events) - first + 1)
    <3>1. DOMAIN rest = 1..Len(rest)
      BY <1>5
    <3> QED
      BY <1>5, <3>1
  <2>4. first + i - 1 \in DOMAIN events
    BY <1>1, <1>4, <2>1
  <2>2. rest[i] = events[first + i - 1]
    BY <1>5, <2>1
  <2>3. events[first + i - 1] = cursor - Len(events) + (first + i - 1)
    BY <2>4 DEF Follows
  <2> QED
    BY <1>1, <1>4, <1>5, <2>1, <2>2, <2>3
<1>7. rest # <<>> => events # <<>>
  BY <1>1, <1>4, <1>5
<1> QED
  BY <1>4, <1>5, <1>6, <1>7 DEF rest, Follows

LEMMA ConcatIs ==
  ASSUME NEW s \in Seq(Nat), NEW t \in Seq(Nat)
  PROVE  /\ s \o t \in Seq(Nat) /\ Len(s \o t) = Len(s) + Len(t)
         /\ DOMAIN (s \o t) = 1..(Len(s) + Len(t))
         /\ \A i \in 1..Len(s) : (s \o t)[i] = s[i]
         /\ \A i \in 1..Len(t) : (s \o t)[Len(s) + i] = t[i]
<1>1. /\ s \o t \in Seq(Nat) /\ Len(s \o t) = Len(s) + Len(t)
      /\ \A i \in 1..(Len(s) + Len(t)) :
           (s \o t)[i] = IF i <= Len(s) THEN s[i] ELSE t[i - Len(s)]
  BY ConcatProperties
<1> QED
  BY <1>1

\* What a queue is after a broadcast for which it had some room.
Grown(whole, queue, reply, past, room) ==
  /\ whole \in Seq(Nat) /\ Len(whole) = Len(queue) + room
  /\ InOrder(whole, past + Len(reply))
  /\ \A id : Holds(queue, id) => Holds(whole, id)
  /\ \A id \in (past + 1)..(past + room) : Holds(whole, id)
  /\ \A id \in (past + room + 1)..(past + Len(reply)) :
       \E i \in (room + 1)..Len(reply) : reply[i] = id

LEMMA QueueGrows ==
  ASSUME NEW queue \in Seq(Nat), NEW reply \in Seq(Nat), NEW cursor \in Nat, NEW past \in Nat,
         cursor <= past, Follows(reply, past), InOrder(queue, cursor),
         NEW room \in 0..Len(reply),
         NEW whole, whole = queue \o SubSeq(reply, 1, room)
  PROVE  Grown(whole, queue, reply, past, room)
<1> DEFINE kept == SubSeq(reply, 1, room)
<1> DEFINE n == Len(queue)
<1> DEFINE m == Len(reply)
<1>1. n \in Nat /\ m \in Nat /\ DOMAIN queue = 1..n /\ DOMAIN reply = 1..m /\ room \in 0..m
  OBVIOUS
<1>2. \A i \in 1..m : reply[i] = past + i
  BY <1>1 DEF Follows
<1>3. kept \in Seq(Nat) /\ Len(kept) = room /\ \A i \in 1..room : kept[i] = reply[i]
  BY BeginningOf
<1>4. whole = queue \o kept
  OBVIOUS
<1> HIDE DEF kept
<1>5. /\ whole \in Seq(Nat) /\ Len(whole) = n + room /\ DOMAIN whole = 1..(n + room)
      /\ \A i \in 1..n : whole[i] = queue[i]
      /\ \A i \in 1..room : whole[n + i] = kept[i]
  BY <1>3, <1>4, ConcatIs
<1>6. ASSUME NEW i \in 1..n PROVE queue[i] \in Nat /\ queue[i] <= past
  <2>1. i \in DOMAIN queue
    OBVIOUS
  <2>2. queue[i] \in Nat
    BY <2>1
  <2>3. queue[i] <= cursor
    BY <2>1 DEF InOrder
  <2> HIDE DEF n
  <2> QED
    BY <2>2, <2>3
<1>7. \A i, j \in 1..n : i < j => queue[i] < queue[j]
  BY <1>1 DEF InOrder
<1> HIDE DEF n, m
<1>8. ASSUME NEW i \in 1..room PROVE whole[n + i] = past + i
  <2>1. i \in 1..m
    BY <1>1
  <2> QED
    BY <1>2, <1>3, <1>5, <2>1
<1>9. ASSUME NEW i \in 1..(n + room), i > n PROVE whole[i] = past + (i - n)
  <2>1. i - n \in 1..room /\ n + (i - n) = i
    BY <1>1, <1>9
  <2>2. whole[n + (i - n)] = past + (i - n)
    BY <1>8, <2>1
  <2> QED
    BY <2>1, <2>2
<1>10. ASSUME NEW i \in 1..(n + room), NEW j \in 1..(n + room), i < j
       PROVE  whole[i] < whole[j]
  <2>1. CASE j <= n
    <3>1. i \in 1..n /\ j \in 1..n
      BY <1>1, <1>10, <2>1
    <3> QED
      BY <1>5, <1>7, <1>10, <3>1
  <2>2. CASE j > n /\ i <= n
    <3>1. i \in 1..n
      BY <1>1, <2>2
    <3>2. whole[i] <= past /\ whole[i] \in Nat
      BY <1>5, <1>6, <3>1
    <3>3. whole[j] = past + (j - n)
      BY <1>9, <2>2
    <3> QED
      BY <1>1, <2>2, <3>2, <3>3
  <2>3. CASE i > n
    <3>1. j > n
      BY <1>1, <1>10, <2>3
    <3> QED
      BY <1>1, <1>9, <1>10, <2>3, <3>1
  <2> QED
    BY <1>1, <2>1, <2>2, <2>3
<1>11. ASSUME NEW i \in 1..(n + room) PROVE whole[i] <= past + m
  <2>1. CASE i <= n
    <3>1. whole[i] <= past /\ whole[i] \in Nat
      BY <1>1, <1>5, <1>6, <2>1
    <3> QED
      BY <1>1, <3>1
  <2>2. CASE i > n
    BY <1>1, <1>9, <2>2
  <2> QED
    BY <1>1, <2>1, <2>2
<1>12. ASSUME NEW id, Holds(queue, id) PROVE Holds(whole, id)
  <2>1. PICK i \in 1..n : queue[i] = id
    BY <1>1, <1>12 DEF Holds
  <2>2. i \in DOMAIN whole /\ whole[i] = id
    BY <1>1, <1>5, <2>1
  <2> QED
    BY <2>2 DEF Holds
<1>13. ASSUME NEW id \in (past + 1)..(past + room) PROVE Holds(whole, id)
  <2>1. id - past \in 1..room /\ past + (id - past) = id
    BY <1>1
  <2>2. n + (id - past) \in DOMAIN whole
    BY <1>1, <1>5, <2>1
  <2>3. whole[n + (id - past)] = id
    BY <1>8, <2>1
  <2> QED
    BY <2>2, <2>3 DEF Holds
<1>14. ASSUME NEW id \in (past + room + 1)..(past + m)
       PROVE  \E i \in (room + 1)..m : reply[i] = id
  <2>1. id - past \in (room + 1)..m /\ id - past \in 1..m /\ past + (id - past) = id
    BY <1>1
  <2>2. reply[id - past] = id
    BY <1>2, <2>1
  <2> QED
    BY <2>1, <2>2
<1> QED
  BY <1>5, <1>10, <1>11, <1>12, <1>13, <1>14 DEF n, m, InOrder, Grown

LEMMA RoomIs ==
  ASSUME TypeOK, NEW c \in Pages
  PROVE  Room(c) \in 0..Len(web.reply) /\ Len(page[c].queue) + Room(c) <= QueueSize
<1> DEFINE n == Len(web.reply)
<1> DEFINE left == QueueSize - Len(page[c].queue)
<1>1. n \in Nat /\ left \in Nat /\ Len(page[c].queue) \in Nat
  BY StreamTyped, PagesTyped, LimitsAreNumbers
<1>2. Len(page[c].queue) + left = QueueSize
  BY PagesTyped, LimitsAreNumbers
<1>3. Room(c) = Min({n, left})
  BY DEF Room
<1> HIDE DEF n, left
<1>4. Room(c) = IF n <= left THEN n ELSE left
  BY <1>1, <1>3, OfTwo
<1>5. Room(c) \in 0..n /\ Room(c) <= left /\ Room(c) \in Nat
  BY <1>1, <1>4
<1>6. Len(page[c].queue) + Room(c) <= QueueSize
  BY <1>1, <1>2, <1>5
<1> QED
  BY <1>5, <1>6 DEF n

LEMMA AnswerQueued ==
  ASSUME IInv, NEW c \in Pages, Subscribed(c),
         NEW whole, whole = page[c].queue \o SubSeq(web.reply, 1, Room(c))
  PROVE  Grown(whole, page[c].queue, web.reply, Past, Room(c))
<1>1. /\ web.reply \in Seq(Nat) /\ web.cursor \in Nat /\ Past \in Nat /\ web.cursor <= Past
      /\ page[c].queue \in Seq(Nat) /\ Room(c) \in 0..Len(web.reply)
  BY StreamTyped, PagesTyped, RoomIs DEF IInv
<1>2. Follows(web.reply, Past) /\ InOrder(page[c].queue, web.cursor)
  BY DEF IInv, WebFine, PageFine, QueueFine
<1> QED
  BY <1>1, <1>2, QueueGrows

\* A broadcast leaves a page with all of the answer, in its queue or excused.
LEMMA BroadcastToPage ==
  ASSUME IInv, NEW c \in Pages, Subscribed(c), NEW past, past = Past + Len(web.reply),
         NEW p, p = [page[c] EXCEPT !.queue = page[c].queue \o SubSeq(web.reply, 1, Room(c))],
         NEW dropped, dropped = {web.reply[i] : i \in (Room(c) + 1)..Len(web.reply)}
  PROVE  /\ p \in Page /\ Len(p.queue) <= QueueSize /\ p.state = page[c].state
         /\ p.last = page[c].last
         /\ dropped \subseteq Nat
         /\ PageFine(p, Excused(c) \cup dropped, past, past)
<1> DEFINE whole == page[c].queue \o SubSeq(web.reply, 1, Room(c))
<1>1. /\ web.reply \in Seq(Nat) /\ web.cursor \in Nat /\ Past \in Nat /\ web.cursor <= Past
      /\ page[c] \in Page /\ page[c].queue \in Seq(Nat) /\ page[c].last \in Nat
  BY StreamTyped, PagesTyped DEF IInv
<1>2. QueueFine(page[c], web.cursor) /\ ReplayFine(page[c], Excused(c))
      /\ Complete(page[c], Excused(c), Past)
  BY DEF IInv, PageFine
<1>3. Follows(web.reply, Past)
  BY DEF IInv, WebFine
<1>4. Room(c) \in 0..Len(web.reply) /\ Len(page[c].queue) + Room(c) <= QueueSize
  BY RoomIs DEF IInv
<1>5. InOrder(page[c].queue, web.cursor)
  BY <1>2 DEF QueueFine
<1>6. /\ whole \in Seq(Nat) /\ Len(whole) = Len(page[c].queue) + Room(c)
      /\ InOrder(whole, Past + Len(web.reply))
      /\ \A id : Holds(page[c].queue, id) => Holds(whole, id)
      /\ \A id \in (Past + 1)..(Past + Room(c)) : Holds(whole, id)
      /\ \A id \in (Past + Room(c) + 1)..(Past + Len(web.reply)) :
           \E i \in (Room(c) + 1)..Len(web.reply) : web.reply[i] = id
  <2>1. whole = page[c].queue \o SubSeq(web.reply, 1, Room(c))
    OBVIOUS
  <2> HIDE DEF whole
  <2> QED
    BY <2>1, AnswerQueued DEF Grown
<1>7. p = [page[c] EXCEPT !.queue = whole]
  OBVIOUS
<1>8. \A id \in (Past + Room(c) + 1)..(Past + Len(web.reply)) : id \in dropped
  BY <1>6
<1>9. dropped \subseteq Nat
  <2> DEFINE m == Len(web.reply)
  <2>1. m \in Nat /\ \A i \in 1..m : web.reply[i] \in Nat
    BY <1>1
  <2>2. Room(c) \in 0..m
    BY <1>4
  <2> HIDE DEF m
  <2>3. \A i \in (Room(c) + 1)..m : web.reply[i] \in Nat
    BY <2>1, <2>2
  <2> QED
    BY <2>3 DEF m
<1>10. Len(web.reply) \in Nat
  BY <1>1
<1> HIDE DEF whole
<1>11. /\ p \in Page /\ p.queue = whole /\ p.state = page[c].state /\ p.last = page[c].last
       /\ p.replay = page[c].replay
  BY <1>1, <1>6, <1>7 DEF Page
<1>12. QueueFine(p, past)
  BY <1>6, <1>11 DEF QueueFine, Subscribed
<1>13. ReplayFine(p, Excused(c) \cup dropped)
  BY <1>2, <1>11 DEF ReplayFine
<1>14. Complete(p, Excused(c) \cup dropped, past)
  <2> SUFFICES ASSUME p.state = "streaming", NEW id \in (p.last + 1)..past
               PROVE  \/ Holds(p.replay, id) \/ Holds(p.queue, id)
                      \/ id \in Excused(c) \cup dropped
    BY DEF Complete
  <2>1. id \in Nat /\ id <= Past + Len(web.reply) /\ Room(c) \in Nat
    BY <1>1, <1>4, <1>10, <1>11
  <2>2. CASE id <= Past
    <3>1. id \in (page[c].last + 1)..Past
      BY <1>1, <1>11, <2>1, <2>2
    <3>2. Holds(page[c].replay, id) \/ Holds(page[c].queue, id) \/ id \in Excused(c)
      BY <1>2, <1>11, <3>1 DEF Complete
    <3> QED
      BY <1>6, <1>11, <3>2
  <2>3. CASE id > Past /\ id <= Past + Room(c)
    <3>1. id \in (Past + 1)..(Past + Room(c))
      BY <1>1, <2>1, <2>3
    <3> QED
      BY <1>6, <1>11, <3>1
  <2>4. CASE id > Past + Room(c)
    <3>1. id \in (Past + Room(c) + 1)..(Past + Len(web.reply))
      BY <1>1, <1>10, <2>1, <2>4
    <3> QED
      BY <1>8, <3>1
  <2> QED
    BY <1>1, <2>1, <2>2, <2>3, <2>4
<1>15. Len(p.queue) <= QueueSize
  BY <1>4, <1>6, <1>11
<1> QED
  BY <1>9, <1>11, <1>12, <1>13, <1>14, <1>15 DEF PageFine

LEMMA PastIsCursor ==
  ASSUME IInv, web.history # <<>>
  PROVE  Past = web.cursor
<1>1. web.cursor \in Nat /\ oldest \in Nat \ {0} /\ web.cursor > 0 /\ oldest <= web.cursor + 1
  BY StreamTyped DEF IInv, WebFine
<1>2. web.cursor < oldest => oldest - 1 = web.cursor
  BY <1>1
<1> QED
  BY <1>2 DEF Past

\* An answer continues the history.
LEMMA HistoryGoesOn ==
  ASSUME IInv, NEW last, last = Past + Len(web.reply)
  PROVE  Follows(web.history \o web.reply, last - Len(web.history \o web.reply))
<1> DEFINE both == web.history \o web.reply
<1> DEFINE n == Len(web.history)
<1> DEFINE m == Len(web.reply)
<1>1. /\ web.history \in Seq(Nat) /\ web.reply \in Seq(Nat) /\ n \in Nat /\ m \in Nat
      /\ DOMAIN web.history = 1..n /\ DOMAIN web.reply = 1..m
      /\ web.cursor \in Nat /\ oldest \in Nat \ {0} /\ Past \in Nat
  BY StreamTyped DEF IInv
<1>2. /\ Len(both) = n + m /\ DOMAIN both = 1..(n + m)
      /\ \A i \in 1..n : both[i] = web.history[i]
      /\ \A i \in 1..m : both[n + i] = web.reply[i]
  BY <1>1, ConcatIs
<1>3. \A i \in 1..n : web.history[i] = web.cursor - n + i
  BY <1>1 DEF IInv, WebFine, Follows
<1>4. \A i \in 1..m : web.reply[i] = Past + i
  BY <1>1 DEF IInv, WebFine, Follows
<1>5. n > 0 => Past = web.cursor
  <2>1. n > 0 => web.history # <<>>
    BY <1>1
  <2> QED
    BY <2>1, PastIsCursor
<1>8. last = Past + m
  OBVIOUS
<1> HIDE DEF n, m, both
<1>6. ASSUME NEW i \in 1..(n + m) PROVE both[i] = Past - n + i
  <2>1. CASE i <= n
    <3>1. i \in 1..n /\ n > 0
      BY <1>1, <2>1
    <3> QED
      BY <1>1, <1>2, <1>3, <1>5, <3>1
  <2>2. CASE i > n
    <3>1. i - n \in 1..m /\ n + (i - n) = i
      BY <1>1, <2>2
    <3>2. both[n + (i - n)] = Past + (i - n)
      BY <1>2, <1>4, <3>1
    <3> QED
      BY <1>1, <3>1, <3>2
  <2> QED
    BY <1>1, <2>1, <2>2
<1>7. Follows(both, last - Len(both))
  <2> SUFFICES ASSUME NEW i \in DOMAIN both PROVE both[i] = last - Len(both) + i
    BY DEF Follows
  <2>1. i \in 1..(n + m) /\ both[i] = Past - n + i
    BY <1>2, <1>6
  <2> QED
    BY <1>1, <1>2, <1>8, <2>1
<1> QED
  BY <1>7 DEF both

LEMMA BroadcastKeeps ==
  ASSUME IInv, Broadcast
  PROVE  IInv'
<1> DEFINE past == Past + Len(web.reply)
<1> DEFINE history == Remembered(web.history \o web.reply)
<1> DEFINE grown(c) == [page[c] EXCEPT !.queue = page[c].queue \o SubSeq(web.reply, 1, Room(c))]
<1> DEFINE dropped(c) == {web.reply[i] : i \in (Room(c) + 1)..Len(web.reply)}
<1>1. /\ web.reply # <<>>
      /\ web' = [cursor |-> Last(web.reply), history |-> history, reply |-> <<>>]
      /\ page' = [c \in Pages |-> IF Subscribed(c) THEN grown(c) ELSE page[c]]
      /\ skipped' = [c \in Pages |-> IF Subscribed(c) THEN skipped[c] \cup dropped(c)
                                                      ELSE skipped[c]]
      /\ UNCHANGED <<coreVars, lingering, breaks, view>>
  BY DEF Broadcast
<1>2. /\ TypeOK /\ web.history \in Seq(Nat) /\ web.reply \in Seq(Nat) /\ Past \in Nat
      /\ Len(web.reply) \in Nat \ {0} /\ DOMAIN web.reply = 1..Len(web.reply)
      /\ oldest \in Nat \ {0} /\ oldest - 1 <= Past
  BY <1>1, StreamTyped DEF IInv
<1>3. past \in Nat \ {0} /\ Last(web.reply) = past /\ Used(past)
  <2>1. Len(web.reply) \in DOMAIN web.reply
    BY <1>2
  <2>2. web.reply[Len(web.reply)] = Past + Len(web.reply) /\ Used(web.reply[Len(web.reply)])
    BY <2>1 DEF IInv, WebFine, Follows
  <2> QED
    BY <1>2, <2>2 DEF Last
<1>4. /\ history \in Seq(Nat) /\ Len(history) <= HistorySize
      /\ Follows(history, past - Len(history))
  <2>1. web.history \o web.reply \in Seq(Nat)
    BY <1>2
  <2>2. Follows(web.history \o web.reply, past - Len(web.history \o web.reply))
    <3>1. past = Past + Len(web.reply)
      OBVIOUS
    <3> HIDE DEF past
    <3> QED
      BY <3>1, HistoryGoesOn
  <2> HIDE DEF past
  <2> QED
    BY <1>3, <2>1, <2>2, RememberedIs
<1> HIDE DEF history, grown, dropped
<1>5. \A c \in Pages : Subscribed(c) =>
        /\ grown(c) \in Page /\ Len(grown(c).queue) <= QueueSize
        /\ grown(c).state = page[c].state /\ grown(c).last = page[c].last
        /\ dropped(c) \subseteq Nat
        /\ PageFine(grown(c), Excused(c) \cup dropped(c), past, past)
  BY BroadcastToPage DEF grown, dropped
<1> HIDE DEF past
<1>6. web'.cursor = past /\ web'.history = history /\ web'.reply = <<>>
  BY <1>1, <1>3
<1>7. Past' = past
  <2>1. oldest' = oldest /\ oldest <= past
    BY <1>1, <1>2 DEF coreVars, past
  <2> QED
    BY <1>2, <1>3, <1>6, <2>1 DEF Past
<1>8. /\ page' \in [Pages -> Page] /\ \A c \in Pages : Len(page'[c].queue) <= QueueSize
      /\ \A c \in Pages : page'[c].state = page[c].state
  BY <1>1, <1>2, <1>5 DEF TypeOK
<1>9. skipped' \in [Pages -> SUBSET Nat]
  BY <1>1, <1>2, <1>5 DEF TypeOK
<1>10. Connections' = Connections
  BY <1>1, <1>8, ConnectionsStay DEF Subscribed
<1>11. TypeOK'
  <2>1. /\ web' \in [cursor : Nat, history : Seq(Nat), reply : Seq(Nat)]
        /\ Len(web'.history) <= HistorySize /\ Len(web'.reply) <= ReadLimit
    BY <1>1, <1>3, <1>4, <1>6, LimitsAreNumbers
  <2> QED
    BY <1>1, <1>2, <1>8, <1>9, <1>10, <2>1 DEF TypeOK, coreVars
<1>12. WebFine'
  <2>1. Used(web.cursor)'
    BY <1>1, <1>3, <1>6 DEF Used, coreVars
  <2>2. Follows(web.history, web.cursor - Len(web.history))'
    BY <1>4, <1>6
  <2>3. oldest' <= web'.cursor + 1
    BY <1>1, <1>2, <1>3, <1>6 DEF coreVars, past
  <2> QED
    BY <1>1, <1>3, <1>6, <2>1, <2>2, <2>3 DEF IInv, WebFine, Follows, coreVars
<1>13. ASSUME NEW c \in Pages
       PROVE  PageFine(page'[c], Excused(c)', past, past)
  <2>1. CASE Subscribed(c)
    <3>1. page'[c] = grown(c) /\ Excused(c)' = Excused(c) \cup dropped(c)
      BY <1>1, <2>1 DEF Excused, coreVars
    <3> QED
      BY <1>5, <2>1, <3>1
  <2>2. CASE ~Subscribed(c)
    <3>1. page'[c] = page[c] /\ Excused(c)' = Excused(c)
      BY <1>1, <2>2 DEF Excused, coreVars
    <3>2. page[c].queue = <<>> /\ page[c].state # "streaming" /\ ReplayFine(page[c], Excused(c))
      BY <2>2 DEF IInv, PageFine, QueueFine, Subscribed
    <3> QED
      BY <3>1, <3>2 DEF PageFine, QueueFine, Complete, InOrder
  <2> QED
    BY <2>1, <2>2
<1> QED
  BY <1>6, <1>7, <1>11, <1>12, <1>13 DEF IInv

-----------------------------------------------------------------------------
(* A connection.                                                           *)

\* What a step of one page has to show.
LEMMA PageSteps ==
  ASSUME IInv, UNCHANGED <<coreVars, web>>, NEW c \in Pages,
         page' \in [Pages -> Page], skipped' \in [Pages -> SUBSET Nat],
         \A d \in Pages : d # c => page'[d] = page[d] /\ skipped'[d] = skipped[d],
         Len(page'[c].queue) <= QueueSize,
         PageFine(page'[c], skipped'[c] \cup reused, web.cursor, Past),
         lingering' \in Nat, breaks' \in 0..MaxBreaks, Connections' <= ConnectionLimit,
         view' \in [Pages -> View]
  PROVE  IInv'
<1>1. TypeOK'
  BY DEF IInv, TypeOK, coreVars
<1>2. WebFine' /\ Past' = Past
  BY DEF IInv, WebFine, Past, Used, Follows, coreVars
<1>3. ASSUME NEW d \in Pages
      PROVE  PageFine(page'[d], Excused(d)', web.cursor, Past)
  <2>1. CASE d = c
    BY <2>1 DEF Excused, coreVars
  <2>2. CASE d # c
    <3>1. page'[d] = page[d] /\ Excused(d)' = Excused(d)
      BY <2>2 DEF Excused, coreVars
    <3> QED
      BY <3>1 DEF IInv
  <2> QED
    BY <2>1, <2>2
<1> QED
  BY <1>1, <1>2, <1>3 DEF IInv

LEMMA CountersTyped ==
  ASSUME IInv
  PROVE  /\ lingering \in Nat /\ breaks \in 0..MaxBreaks /\ Connections <= ConnectionLimit
         /\ page \in [Pages -> Page] /\ skipped \in [Pages -> SUBSET Nat]
         /\ view \in [Pages -> View]
         /\ Cardinality({c \in Pages : Subscribed(c)}) \in Nat /\ Connections \in Nat
<1>1. IsFiniteSet({c \in Pages : Subscribed(c)})
  BY LimitsAreNumbers, FS_Subset
<1>2. Cardinality({c \in Pages : Subscribed(c)}) \in Nat
  BY <1>1, FS_CardinalityType
<1>3. lingering \in Nat
  BY DEF IInv, TypeOK
<1> QED
  BY <1>2, <1>3 DEF IInv, TypeOK, Connections

\* Opening a connection takes a slot, and a refusal takes none.
LEMMA ConnectKeeps ==
  ASSUME IInv, NEW c \in Pages, Connect(c)
  PROVE  IInv'
<1> DEFINE state == IF Connections >= ConnectionLimit THEN "refused" ELSE "opening"
<1>1. /\ page[c].state = "closed" /\ page' = [page EXCEPT ![c].state = state]
      /\ UNCHANGED <<coreVars, webVars, view, skipped>>
  BY DEF Connect
<1>2. page[c] \in Page /\ page \in [Pages -> Page]
  BY PagesTyped, CountersTyped DEF IInv
<1>3. /\ page' \in [Pages -> Page] /\ page'[c] = [page[c] EXCEPT !.state = state]
      /\ \A d \in Pages : d # c => page'[d] = page[d]
  BY <1>1, <1>2 DEF Page
<1>4. page'[c].queue = <<>> /\ page'[c].replay = <<>> /\ page'[c].state \in {"refused", "opening"}
  BY <1>1, <1>2, <1>3 DEF IInv, PageFine, QueueFine, ReplayFine, Page
<1>5. Connections' <= ConnectionLimit
  <2> DEFINE before == {d \in Pages : Subscribed(d)}
  <2> DEFINE after == {d \in Pages : Subscribed(d)'}
  <2>1. c \notin before
    BY <1>1 DEF Subscribed
  <2>2. after = IF Connections >= ConnectionLimit THEN before ELSE before \cup {c}
    BY <1>1, <1>2, <1>3 DEF Subscribed, Page
  <2>3. IsFiniteSet(before)
    BY LimitsAreNumbers, FS_Subset
  <2>4. Cardinality(before \cup {c}) = Cardinality(before) + 1
    BY <2>1, <2>3, FS_AddElement
  <2>5. Connections' = Cardinality(after) + lingering
    BY <1>1 DEF Connections, webVars
  <2>6. Connections = Cardinality(before) + lingering
    BY DEF Connections
  <2>7. /\ Cardinality(before) \in Nat /\ lingering \in Nat /\ ConnectionLimit \in Nat
        /\ Connections <= ConnectionLimit
    BY CountersTyped, LimitsAreNumbers
  <2> HIDE DEF before, after
  <2> QED
    BY <2>2, <2>4, <2>5, <2>6, <2>7
<1>6. PageFine(page'[c], skipped'[c] \cup reused, web.cursor, Past)
  BY <1>4 DEF PageFine, QueueFine, ReplayFine, Complete, InOrder, Follows
<1>7. Len(page'[c].queue) <= QueueSize
  BY <1>4, LimitsAreNumbers
<1> QED
  BY <1>1, <1>3, <1>5, <1>6, <1>7, CountersTyped, PageSteps DEF webVars

\* A history that goes on after an event has all that was broadcast since.
LEMMA CachedIs ==
  ASSUME IInv, NEW after \in Nat
  PROVE  /\ Cached(after) \in Seq(Nat)
         /\ Cached(after) # <<>> =>
              /\ Follows(Cached(after), after)
              /\ \A id \in (after + 1)..Past : Holds(Cached(after), id)
<1> DEFINE n == Len(web.history)
<1> DEFINE k == Min(Newer(after))
<1>1. web.history \in Seq(Nat) /\ n \in Nat /\ DOMAIN web.history = 1..n /\ web.cursor \in Nat
  BY StreamTyped DEF IInv
<1>2. CASE Cached(after) = <<>>
  BY <1>2
<1>3. CASE Cached(after) # <<>>
  <2>1. Newer(after) # {} /\ web.history[k] <= after + 1 /\ Cached(after) = From(k)
    BY <1>3 DEF Cached
  <2>2. Newer(after) \subseteq 1..n /\ Newer(after) \in SUBSET Nat
    BY <1>1 DEF Newer
  <2>3. k \in Newer(after)
    BY <2>1, <2>2, Smallest
  <2> HIDE DEF k
  <2>4. k \in 1..n /\ web.history[k] > after
    BY <1>1, <2>3 DEF Newer
  <2>5. \A i \in 1..n : web.history[i] = web.cursor - n + i /\ web.history[i] \in Nat
    BY <1>1 DEF IInv, WebFine, Follows
  <2>6. Past = web.cursor
    <3>1. web.history # <<>>
      BY <1>1, <2>4
    <3> QED
      BY <3>1, PastIsCursor
  <2> DEFINE rest == SubSeq(web.history, k, Len(web.history))
  <2>7. /\ rest \in Seq(Nat) /\ Len(rest) = n - k + 1
        /\ \A i \in 1..(n - k + 1) : rest[i] = web.history[k + i - 1]
    BY <1>1, <2>4, EndOf
  <2>8. Cached(after) = rest
    BY <2>1 DEF From
  <2> HIDE DEF n, rest
  <2>9. web.cursor - n + k = after + 1
    <3>1. web.history[k] = web.cursor - n + k /\ web.history[k] \in Nat
      BY <2>4, <2>5
    <3> QED
      BY <1>1, <2>1, <2>4, <3>1
  <2>10. ASSUME NEW i \in 1..(n - k + 1) PROVE rest[i] = after + i
    <3>1. k + i - 1 \in 1..n
      BY <1>1, <2>4
    <3>2. rest[i] = web.cursor - n + (k + i - 1)
      BY <2>5, <2>7, <3>1
    <3>3. k \in Nat /\ i \in Nat /\ n \in Nat /\ web.cursor \in Nat /\ after \in Nat
      BY <1>1, <2>4
    <3>4. web.cursor - n + (k + i - 1) = after + i
      BY <2>9, <3>3
    <3> QED
      BY <3>2, <3>4
  <2>11. DOMAIN rest = 1..(n - k + 1)
    BY <2>7
  <2>12. Follows(rest, after)
    BY <2>10, <2>11 DEF Follows
  <2>13. ASSUME NEW id \in (after + 1)..Past PROVE Holds(rest, id)
    <3>1. id - after \in 1..(n - k + 1) /\ after + (id - after) = id
      BY <1>1, <2>4, <2>6, <2>9
    <3>2. rest[id - after] = id
      BY <2>10, <3>1
    <3> QED
      BY <2>11, <3>1, <3>2 DEF Holds
  <2> QED
    BY <2>7, <2>8, <2>12, <2>13
<1> QED
  BY <1>2, <1>3

\* What a replay from the core leaves out.
LeftOut(after, rows) ==
  {id \in 1..Visible :
     after < id /\ (id < oldest \/ (IF rows = <<>> THEN oldest - 1 ELSE Last(rows)) < id)}

\* The rows after an event have what was broadcast since, except for what is left out.
LEMMA ReplayedRows ==
  ASSUME IInv, NEW after \in Nat, NEW rows, rows = RowsAfter(after)
  PROVE  /\ rows \in Seq(Nat) /\ Follows(rows, rows[1] - 1)
         /\ rows # <<>> => /\ after < rows[1]
                           /\ \A id \in (after + 1)..(rows[1] - 1) : id \in LeftOut(after, rows)
         /\ \A id \in (after + 1)..Past :
              Holds(rows, id) \/ id \in LeftOut(after, rows) \/ id \in reused
<1>1. /\ TypeOK /\ committed \in Nat /\ Visible \in Nat /\ oldest \in Nat \ {0}
      /\ oldest <= committed + 1 /\ web.cursor \in Nat /\ Past \in Nat
  BY StreamTyped DEF IInv
<1>2. PICK first \in Nat \ {0} : /\ first = IF after < oldest THEN oldest ELSE after + 1
                                 /\ rows = Rows(first)
  BY <1>1, RowsAfterAre
<1> DEFINE n == Len(rows)
<1>3. /\ rows \in Seq(Nat) /\ n \in Nat /\ DOMAIN rows = 1..n
      /\ \A i \in 1..n : rows[i] = first + i - 1 /\ first + i - 1 <= Visible
  <2>1. /\ rows \in Seq(Nat)
        /\ \A i \in DOMAIN rows : rows[i] = first + i - 1 /\ first + i - 1 <= Visible
    BY <1>1, <1>2, RowsAre
  <2> QED
    BY <2>1
<1>4. rows # <<>> => n > 0
  BY <1>3
<1> DEFINE reach == IF rows = <<>> THEN oldest - 1 ELSE Last(rows)
<1>5. reach = IF rows = <<>> THEN oldest - 1 ELSE rows[n]
  BY DEF Last
<1> HIDE DEF n
<1>6. n > 0 => rows[1] = first /\ rows[n] = first + n - 1 /\ first <= Visible
  BY <1>3
<1>7. LeftOut(after, rows) = {id \in 1..Visible : after < id /\ (id < oldest \/ reach < id)}
  BY DEF LeftOut
<1> HIDE DEF reach
<1>8. Follows(rows, rows[1] - 1)
  <2> SUFFICES ASSUME NEW i \in DOMAIN rows PROVE rows[i] = rows[1] - 1 + i
    BY DEF Follows
  <2>1. i \in 1..n /\ n > 0
    BY <1>3
  <2> QED
    BY <1>3, <1>6, <2>1
<1>9. ASSUME rows # <<>>
      PROVE  /\ after < rows[1]
             /\ \A id \in (after + 1)..(rows[1] - 1) : id \in LeftOut(after, rows)
  <2>1. rows[1] = first /\ first <= Visible
    BY <1>4, <1>6, <1>9
  <2>2. after < first /\ \A id \in (after + 1)..(first - 1) : id < oldest
    BY <1>1, <1>2
  <2> QED
    BY <1>1, <1>7, <2>1, <2>2
<1>10. ASSUME NEW id \in (after + 1)..Past
       PROVE  Holds(rows, id) \/ id \in LeftOut(after, rows) \/ id \in reused
  <2>1. id \in Nat /\ after < id /\ id >= 1 /\ id <= Past
    BY <1>1
  <2>2. id <= Visible \/ id \in reused
    <3>1. CASE Past = oldest - 1
      <4>1. id <= committed
        BY <1>1, <2>1, <3>1
      <4> QED
        BY <1>1, <2>1, <4>1 DEF Visible
    <3>2. CASE Past = web.cursor
      <4>1. \/ web.cursor <= committed
            \/ web.cursor = committed + 1 /\ (open \/ web.cursor \in reused)
        <5>1. Used(web.cursor)
          BY DEF IInv, WebFine
        <5> QED
          BY <5>1, Zenon DEF Used
      <4>2. CASE web.cursor <= committed \/ id <= committed
        <5>1. id <= committed
          BY <1>1, <2>1, <3>2, <4>2
        <5> QED
          BY <1>1, <2>1, <5>1 DEF Visible
      <4>3. CASE web.cursor = committed + 1 /\ ~(id <= committed)
        <5>1. id = committed + 1
          BY <1>1, <2>1, <3>2, <4>3
        <5> QED
          BY <1>1, <4>1, <4>3, <5>1 DEF Visible
      <4> QED
        BY <4>1, <4>2, <4>3
    <3> QED
      BY <3>1, <3>2 DEF Past
  <2>3. CASE id <= Visible /\ (id < oldest \/ reach < id)
    BY <1>1, <1>7, <2>1, <2>3
  <2>4. CASE id <= Visible /\ id >= oldest /\ ~(reach < id)
    <3>1. rows # <<>>
      BY <1>1, <1>5, <2>1, <2>4
    <3>2. reach = first + n - 1 /\ n > 0
      BY <1>4, <1>5, <1>6, <3>1
    <3>3. id >= first
      BY <1>1, <1>2, <2>1, <2>4
    <3>4. id - first + 1 \in 1..n
      BY <1>2, <1>3, <2>1, <2>4, <3>2, <3>3
    <3>5. rows[id - first + 1] = id
      BY <1>2, <1>3, <2>1, <3>4
    <3> QED
      BY <1>3, <3>4, <3>5 DEF Holds
  <2> QED
    BY <1>1, <2>1, <2>2, <2>3, <2>4
<1> QED
  BY <1>3, <1>8, <1>9, <1>10

\* After a replay a page is complete.
LEMMA ReplayKeeps ==
  ASSUME IInv, NEW c \in Pages, Replay(c)
  PROVE  IInv'
<1> DEFINE last == page[c].last
<1> DEFINE cached == Cached(page[c].last)
<1> DEFINE rows == RowsAfter(page[c].last)
<1> DEFINE replay == IF cached # <<>> THEN cached ELSE rows
<1> DEFINE missed == IF cached # <<>> THEN skipped[c]
                     ELSE skipped[c] \cup LeftOut(page[c].last, rows)
<1>1. /\ page[c].state = "opening"
      /\ page' = [page EXCEPT ![c].state = "streaming", ![c].replay = replay]
      /\ skipped' = [skipped EXCEPT ![c] = missed]
      /\ UNCHANGED <<coreVars, webVars, view>>
  BY DEF Replay, LeftOut
<1>2. /\ page[c] \in Page /\ last \in Nat /\ skipped[c] \in SUBSET Nat
      /\ Len(page[c].queue) <= QueueSize /\ QueueFine(page[c], web.cursor)
  BY PagesTyped DEF IInv, PageFine
<1>3. /\ cached \in Seq(Nat)
      /\ cached # <<>> => /\ Follows(cached, last)
                          /\ \A id \in (last + 1)..Past : Holds(cached, id)
  BY <1>2, CachedIs
<1>4. /\ rows \in Seq(Nat) /\ Follows(rows, rows[1] - 1)
      /\ rows # <<>> => /\ last < rows[1]
                        /\ \A id \in (last + 1)..(rows[1] - 1) : id \in LeftOut(last, rows)
      /\ \A id \in (last + 1)..Past :
           Holds(rows, id) \/ id \in LeftOut(last, rows) \/ id \in reused
  BY <1>2, ReplayedRows
<1>5. LeftOut(last, rows) \subseteq Nat
  BY StreamTyped DEF IInv, LeftOut
<1> HIDE DEF cached, rows, last
<1>6. replay \in Seq(Nat) /\ missed \in SUBSET Nat
  BY <1>2, <1>3, <1>4, <1>5 DEF last
<1>7. /\ Follows(replay, replay[1] - 1)
      /\ replay # <<>> => /\ last < replay[1]
                          /\ \A id \in (last + 1)..(replay[1] - 1) : id \in missed
  <2>1. CASE cached # <<>>
    <3>1. 1 \in DOMAIN cached
      BY <1>3, <2>1
    <3>2. cached[1] = last + 1
      BY <1>3, <2>1, <3>1 DEF Follows
    <3>3. Follows(cached, cached[1] - 1)
      BY <1>2, <1>3, <2>1, <3>2 DEF Follows
    <3> QED
      BY <1>2, <2>1, <3>2, <3>3
  <2>2. CASE cached = <<>>
    BY <1>4, <2>2 DEF last
  <2> QED
    BY <2>1, <2>2
<1>8. \A id \in (last + 1)..Past : Holds(replay, id) \/ id \in missed \cup reused
  BY <1>3, <1>4 DEF last
<1> HIDE DEF replay, missed
<1>9. /\ page' \in [Pages -> Page] /\ skipped' \in [Pages -> SUBSET Nat]
      /\ \A d \in Pages : d # c => page'[d] = page[d] /\ skipped'[d] = skipped[d]
      /\ page'[c] = [page[c] EXCEPT !.state = "streaming", !.replay = replay]
      /\ skipped'[c] = missed
  BY <1>1, <1>2, <1>6, CountersTyped DEF Page
<1>10. /\ page'[c].state = "streaming" /\ page'[c].replay = replay
       /\ page'[c].queue = page[c].queue /\ page'[c].last = last
  BY <1>2, <1>9 DEF Page, last
<1>11. PageFine(page'[c], skipped'[c] \cup reused, web.cursor, Past)
  <2>1. QueueFine(page'[c], web.cursor)
    BY <1>2, <1>10 DEF QueueFine
  <2>2. ReplayFine(page'[c], skipped'[c] \cup reused)
    BY <1>7, <1>9, <1>10 DEF ReplayFine
  <2>3. Complete(page'[c], skipped'[c] \cup reused, Past)
    BY <1>8, <1>9, <1>10 DEF Complete
  <2> QED
    BY <2>1, <2>2, <2>3 DEF PageFine
<1>12. Connections' = Connections
  <2>1. \A d \in Pages : Subscribed(d)' = Subscribed(d)
    BY <1>1, <1>9, <1>10 DEF Subscribed
  <2> QED
    BY <1>1, <2>1, ConnectionsStay DEF webVars
<1> QED
  BY <1>1, <1>2, <1>9, <1>10, <1>11, <1>12, CountersTyped, PageSteps DEF webVars

-----------------------------------------------------------------------------
(* What a page is sent and what it asks for.                               *)

LEMMA LatestType ==
  ASSUME NEW last \in Nat, NEW query
  PROVE  Latest(last, query) \in Nat
<1> DEFINE changes == {0} \cup {id \in 1..last : query \in Concerned(id)}
<1>1. changes \in SUBSET (0..last) /\ changes # {}
  OBVIOUS
<1>2. Latest(last, query) = Max(changes)
  BY DEF Latest
<1> HIDE DEF changes
<1>3. Max(changes) \in changes
  BY <1>1, Greatest
<1>4. Max(changes) \in 0..last
  BY <1>1, <1>3
<1> QED
  BY <1>2, <1>4

\* A query that is asked for, or told of an event, stays one.
LEMMA AskedIs ==
  ASSUME NEW q \in View
  PROVE  Asked(q) \in View /\ Invalidated(q) \in View
<1>1. /\ [q EXCEPT !.request = "asked", !.answer = 0, !.missed = FALSE,
                   !.failed = q.loaded /\ q.failed] \in View
      /\ [q EXCEPT !.missed = TRUE] \in View
  BY DEF View
<1> QED
  BY <1>1 DEF Asked, Invalidated

\* A page without a connection is fine.
LEMMA IdleIsFine ==
  ASSUME NEW p, p.queue = <<>>, p.replay = <<>>, p.state # "streaming",
         NEW excused, NEW cursor, NEW past
  PROVE  PageFine(p, excused, cursor, past)
BY DEF PageFine, QueueFine, ReplayFine, Complete, InOrder, Follows

\* What is left in order when the first event is taken.
LEMMA TailInOrder ==
  ASSUME NEW s \in Seq(Nat), s # <<>>, NEW last, InOrder(s, last)
  PROVE  /\ InOrder(Tail(s), last)
         /\ \A id : Holds(s, id) => id = s[1] \/ (Holds(Tail(s), id) /\ s[1] < id)
<1> DEFINE n == Len(s)
<1>1. /\ n \in Nat \ {0} /\ DOMAIN s = 1..n /\ DOMAIN Tail(s) = 1..(n - 1)
      /\ \A i \in 1..(n - 1) : Tail(s)[i] = s[i + 1]
  BY TailOf
<1>2. /\ \A i, j \in 1..n : i < j => s[i] < s[j]
      /\ \A i \in 1..n : s[i] <= last
  BY <1>1 DEF InOrder
<1> HIDE DEF n
<1>3. \A i \in 1..(n - 1) : i + 1 \in 1..n
  BY <1>1
<1>4. \A i, j \in 1..(n - 1) : i < j => Tail(s)[i] < Tail(s)[j]
  <2> SUFFICES ASSUME NEW i \in 1..(n - 1), NEW j \in 1..(n - 1), i < j
               PROVE  Tail(s)[i] < Tail(s)[j]
    OBVIOUS
  <2>1. i + 1 < j + 1
    OBVIOUS
  <2> QED
    BY <1>1, <1>2, <1>3, <2>1
<1>5. \A i \in 1..(n - 1) : Tail(s)[i] <= last
  BY <1>1, <1>2, <1>3
<1>6. ASSUME NEW id, Holds(s, id), id # s[1]
      PROVE  Holds(Tail(s), id) /\ s[1] < id
  <2>1. PICK i \in 1..n : s[i] = id
    BY <1>1, <1>6 DEF Holds
  <2>2. i # 1 /\ 1 < i /\ 1 \in 1..n
    BY <1>1, <1>6, <2>1
  <2>3. i - 1 \in 1..(n - 1) /\ (i - 1) + 1 = i
    BY <1>1, <2>2
  <2>4. Tail(s)[i - 1] = id
    BY <1>1, <2>1, <2>3
  <2>5. s[1] < id
    BY <1>2, <2>1, <2>2
  <2> QED
    BY <1>1, <2>3, <2>4, <2>5 DEF Holds
<1>7. InOrder(Tail(s), last)
  BY <1>1, <1>4, <1>5 DEF InOrder
<1>8. \A id : Holds(s, id) => id = s[1] \/ (Holds(Tail(s), id) /\ s[1] < id)
  BY <1>6
<1> QED
  BY <1>7, <1>8

\* What is left without gaps.
LEMMA TailFollows ==
  ASSUME NEW s \in Seq(Nat), s # <<>>, Follows(s, s[1] - 1)
  PROVE  /\ Follows(Tail(s), Tail(s)[1] - 1)
         /\ Tail(s) # <<>> => Tail(s)[1] = s[1] + 1
         /\ \A id : Holds(s, id) => id = s[1] \/ Holds(Tail(s), id)
<1> DEFINE n == Len(s)
<1>1. /\ n \in Nat \ {0} /\ DOMAIN s = 1..n /\ DOMAIN Tail(s) = 1..(n - 1) /\ s[1] \in Nat
      /\ \A i \in 1..(n - 1) : Tail(s)[i] = s[i + 1]
  BY TailOf
<1>2. \A i \in 1..n : s[i] = s[1] - 1 + i
  BY <1>1 DEF Follows
<1> HIDE DEF n
<1>3. ASSUME NEW i \in 1..(n - 1) PROVE Tail(s)[i] = s[1] + i
  <2>1. i + 1 \in 1..n
    BY <1>1
  <2>2. s[i + 1] = s[1] - 1 + (i + 1)
    BY <1>2, <2>1
  <2> QED
    BY <1>1, <2>2
<1>4. ASSUME NEW id, Holds(s, id), id # s[1]
      PROVE  Holds(Tail(s), id)
  <2>1. PICK i \in 1..n : s[i] = id
    BY <1>1, <1>4 DEF Holds
  <2>2. i # 1
    BY <1>4, <2>1
  <2>3. i - 1 \in 1..(n - 1) /\ (i - 1) + 1 = i
    BY <1>1, <2>2
  <2>4. Tail(s)[i - 1] = id
    BY <1>1, <2>1, <2>3
  <2> QED
    BY <1>1, <2>3, <2>4 DEF Holds
<1>5. n > 1 => Tail(s)[1] = s[1] + 1
  BY <1>1, <1>3
<1>6. Tail(s) # <<>> => n > 1
  BY <1>1
<1>7. ASSUME NEW i \in 1..(n - 1) PROVE Tail(s)[i] = Tail(s)[1] - 1 + i
  <2>1. n > 1
    BY <1>1
  <2> QED
    BY <1>1, <1>3, <1>5, <2>1
<1> QED
  BY <1>1, <1>4, <1>5, <1>6, <1>7 DEF Follows

\* What both ways of sending have in common: rest is what is left of the page.
LEMMA SendKeeps ==
  ASSUME IInv, NEW c \in Pages, NEW id \in Nat, NEW rest \in Page, Send(c, id, rest),
         UNCHANGED <<coreVars, webVars>>,
         rest.state = page[c].state, Len(rest.queue) <= QueueSize,
         PageFine([rest EXCEPT !.last = id], (skipped[c] \ {id}) \cup reused,
                  web.cursor, Past)
  PROVE  IInv' /\ page'[c].last = id /\ \A d \in Pages : d # c => page'[d] = page[d]
<1> DEFINE sent == [rest EXCEPT !.last = id]
<1>1. /\ page' = [page EXCEPT ![c] = sent]
      /\ skipped' = [skipped EXCEPT ![c] = skipped[c] \ {id}]
  BY DEF Send
<1>2. sent \in Page /\ sent.last = id /\ sent.state = rest.state /\ sent.queue = rest.queue
  BY DEF Page
<1>3. PageFine(sent, (skipped[c] \ {id}) \cup reused, web.cursor, Past)
  OBVIOUS
<1> HIDE DEF sent
<1>4. view' \in [Pages -> View]
  <2>1. view \in [Pages -> View] /\ view[c] \in View
    BY CountersTyped
  <2>2. \/ view' = [view EXCEPT ![c] = Invalidated(view[c])]
        \/ view' = [view EXCEPT ![c] = view[c]]
    BY DEF Send
  <2>3. Invalidated(view[c]) \in View
    BY <2>1, AskedIs
  <2> QED
    BY <2>1, <2>2, <2>3
<1>6. /\ page' \in [Pages -> Page] /\ page'[c] = sent
      /\ \A d \in Pages : d # c => page'[d] = page[d]
  BY <1>1, <1>2, CountersTyped
<1>7. /\ skipped' \in [Pages -> SUBSET Nat] /\ skipped'[c] = skipped[c] \ {id}
      /\ \A d \in Pages : d # c => skipped'[d] = skipped[d]
  BY <1>1, CountersTyped
<1>8. Connections' = Connections
  <2>1. \A d \in Pages : Subscribed(d)' = Subscribed(d)
    BY <1>2, <1>6 DEF Subscribed
  <2> QED
    BY <2>1, ConnectionsStay DEF webVars
<1>9. IInv'
  BY <1>2, <1>3, <1>4, <1>6, <1>7, <1>8, CountersTyped, PageSteps DEF webVars
<1> QED
  BY <1>2, <1>6, <1>9

\* A replay is sent in order; what is missing in front of it has an excuse.
LEMMA SendReplayedKeeps ==
  ASSUME IInv, NEW c \in Pages, SendReplayed(c)
  PROVE  /\ IInv' /\ \A d \in Pages : d # c => page'[d] = page[d]
         /\ page[c].last <= page'[c].last
         /\ \A id \in (page[c].last + 1)..(page'[c].last - 1) : id \in Excused(c)
<1> DEFINE s == page[c].replay
<1> DEFINE rest == [page[c] EXCEPT !.replay = Tail(s)]
<1>1. /\ s # <<>> /\ Send(c, Head(s), rest) /\ UNCHANGED <<coreVars, webVars>>
  BY DEF SendReplayed
<1>2. /\ page[c] \in Page /\ s \in Seq(Nat) /\ page[c].last \in Nat /\ Past \in Nat
      /\ Len(page[c].queue) <= QueueSize
  BY PagesTyped, StreamTyped DEF IInv
<1>3. /\ QueueFine(page[c], web.cursor) /\ Complete(page[c], Excused(c), Past)
      /\ page[c].state = "streaming" /\ Follows(s, s[1] - 1) /\ page[c].last < s[1]
      /\ \A id \in (page[c].last + 1)..(s[1] - 1) : id \in Excused(c)
  BY <1>1 DEF IInv, PageFine, ReplayFine
<1>4. Head(s) = s[1] /\ s[1] \in Nat /\ Tail(s) \in Seq(Nat)
  BY <1>1, <1>2, TailOf
<1>5. /\ Follows(Tail(s), Tail(s)[1] - 1)
      /\ Tail(s) # <<>> => Tail(s)[1] = s[1] + 1
      /\ \A id : Holds(s, id) => id = s[1] \/ Holds(Tail(s), id)
  BY <1>1, <1>2, <1>3, TailFollows
<1> DEFINE new == [rest EXCEPT !.last = s[1]]
<1>6. /\ rest \in Page /\ rest.state = page[c].state /\ rest.queue = page[c].queue
      /\ new.state = page[c].state /\ new.queue = page[c].queue /\ new.last = s[1]
      /\ new.replay = Tail(s)
  BY <1>2, <1>4 DEF Page
<1> DEFINE excused == (skipped[c] \ {s[1]}) \cup reused
<1>7. PageFine(new, excused, web.cursor, Past)
  <2> HIDE DEF new
  <2>1. QueueFine(new, web.cursor)
    BY <1>3, <1>6 DEF QueueFine
  <2>2. ReplayFine(new, excused)
    <3> HIDE DEF s, excused
    <3>1. Tail(s) # <<>> => s[1] < Tail(s)[1] /\ (s[1] + 1)..(Tail(s)[1] - 1) = {}
      BY <1>4, <1>5
    <3> QED
      BY <1>3, <1>5, <1>6, <3>1 DEF ReplayFine
  <2>3. Complete(new, excused, Past)
    <3> SUFFICES ASSUME NEW id \in (s[1] + 1)..Past
                 PROVE  Holds(Tail(s), id) \/ Holds(page[c].queue, id) \/ id \in excused
      BY <1>6 DEF Complete
    <3>1. id \in (page[c].last + 1)..Past /\ id # s[1]
      <4> HIDE DEF s
      <4> QED
        BY <1>2, <1>3, <1>4
    <3>2. Holds(s, id) \/ Holds(page[c].queue, id) \/ id \in Excused(c)
      BY <1>3, <3>1 DEF Complete
    <3> QED
      BY <1>5, <3>1, <3>2 DEF Excused
  <2> QED
    BY <2>1, <2>2, <2>3 DEF PageFine
<1>8. Len(rest.queue) <= QueueSize
  BY <1>2, <1>6
<1>9. IInv' /\ page'[c].last = s[1] /\ \A d \in Pages : d # c => page'[d] = page[d]
  <2>1. Send(c, s[1], rest)
    BY <1>1, <1>4
  <2> HIDE DEF rest
  <2> QED
    BY <1>1, <1>4, <1>6, <1>7, <1>8, <2>1, SendKeeps
<1>10. page[c].last <= s[1]
  <2> HIDE DEF s
  <2> QED
    BY <1>2, <1>3, <1>4
<1> QED
  BY <1>3, <1>9, <1>10

\* An event of the queue that the page knows is passed over.
LEMMA SkipKnownKeeps ==
  ASSUME IInv, NEW c \in Pages, UNCHANGED <<coreVars, webVars, view, skipped>>,
         page[c].state = "streaming", page[c].queue # <<>>,
         Head(page[c].queue) <= page[c].last,
         page' = [page EXCEPT ![c] = [page[c] EXCEPT !.queue = Tail(page[c].queue)]]
  PROVE  IInv' /\ \A d \in Pages : page'[d].last = page[d].last
<1> DEFINE s == page[c].queue
<1> DEFINE new == [page[c] EXCEPT !.queue = Tail(s)]
<1>1. /\ page[c] \in Page /\ s \in Seq(Nat) /\ page[c].last \in Nat /\ Len(s) <= QueueSize
      /\ QueueSize \in Nat
  BY PagesTyped, LimitsAreNumbers DEF IInv
<1>2. /\ InOrder(s, web.cursor) /\ ReplayFine(page[c], Excused(c))
      /\ Complete(page[c], Excused(c), Past)
  BY DEF IInv, PageFine, QueueFine
<1>3. /\ Tail(s) \in Seq(Nat) /\ Len(Tail(s)) <= QueueSize /\ Head(s) = s[1] /\ s[1] \in Nat
  BY <1>1, TailOf
<1>4. /\ InOrder(Tail(s), web.cursor)
      /\ \A id : Holds(s, id) => id = s[1] \/ Holds(Tail(s), id)
  BY <1>1, <1>2, TailInOrder
<1>5. /\ new \in Page /\ new.state = "streaming" /\ new.last = page[c].last
      /\ new.replay = page[c].replay /\ new.queue = Tail(s)
  BY <1>1, <1>3 DEF Page
<1>6. page' = [page EXCEPT ![c] = new]
  OBVIOUS
<1> HIDE DEF new
<1>7. /\ page' \in [Pages -> Page] /\ page'[c] = new
      /\ \A d \in Pages : d # c => page'[d] = page[d]
  BY <1>5, <1>6, CountersTyped
<1>8. PageFine(new, Excused(c), web.cursor, Past)
  <2>1. QueueFine(new, web.cursor)
    BY <1>4, <1>5 DEF QueueFine
  <2>2. ReplayFine(new, Excused(c))
    BY <1>2, <1>5 DEF ReplayFine
  <2>3. Complete(new, Excused(c), Past)
    <3> SUFFICES ASSUME NEW id \in (page[c].last + 1)..Past
                 PROVE  Holds(page[c].replay, id) \/ Holds(Tail(s), id) \/ id \in Excused(c)
      BY <1>5 DEF Complete
    <3>1. Holds(page[c].replay, id) \/ Holds(s, id) \/ id \in Excused(c)
      BY <1>2 DEF Complete
    <3>2. id # s[1]
      <4>1. s[1] <= page[c].last
        BY <1>3
      <4> HIDE DEF s
      <4> QED
        BY <1>1, <1>3, <4>1
    <3> QED
      BY <1>4, <3>1, <3>2
  <2> QED
    BY <2>1, <2>2, <2>3 DEF PageFine
<1>9. Connections' = Connections
  <2>1. \A d \in Pages : Subscribed(d)' = Subscribed(d)
    BY <1>5, <1>7 DEF Subscribed
  <2> QED
    BY <2>1, ConnectionsStay DEF webVars
<1>10. PageFine(page'[c], skipped'[c] \cup reused, web.cursor, Past)
  BY <1>7, <1>8 DEF Excused
<1>11. IInv'
  BY <1>3, <1>5, <1>7, <1>9, <1>10, CountersTyped, PageSteps DEF webVars
<1> QED
  BY <1>5, <1>7, <1>11

\* The next event of the queue is sent once the replay is through: what is missing
\* in front of it has an excuse, since it is not queued.
LEMMA SendQueuedKeeps ==
  ASSUME IInv, NEW c \in Pages, SendQueued(c)
  PROVE  /\ IInv' /\ \A d \in Pages : d # c => page'[d].last = page[d].last
         /\ page[c].last <= page'[c].last
         /\ \A id \in (page[c].last + 1)..(page'[c].last - 1) : id \in Excused(c)
<1> DEFINE s == page[c].queue
<1> DEFINE rest == [page[c] EXCEPT !.queue = Tail(s)]
<1>1. /\ page[c].state = "streaming" /\ page[c].replay = <<>> /\ s # <<>>
      /\ UNCHANGED <<coreVars, webVars>>
      /\ \/ Known(c, Head(s)) /\ page' = [page EXCEPT ![c] = rest] /\ UNCHANGED <<view, skipped>>
         \/ ~Known(c, Head(s)) /\ Send(c, Head(s), rest)
  BY DEF SendQueued
<1>2. /\ page[c] \in Page /\ s \in Seq(Nat) /\ page[c].last \in Nat /\ Len(s) <= QueueSize
      /\ QueueSize \in Nat /\ Past \in Nat /\ web.cursor <= Past /\ web.cursor \in Nat
      /\ skipped[c] \in SUBSET Nat
  BY PagesTyped, StreamTyped, LimitsAreNumbers DEF IInv
<1>3. CASE Known(c, Head(s)) /\ page' = [page EXCEPT ![c] = rest] /\ UNCHANGED <<view, skipped>>
  <2>1. IInv' /\ \A d \in Pages : page'[d].last = page[d].last
    BY <1>1, <1>3, SkipKnownKeeps DEF Known
  <2> QED
    BY <1>2, <2>1
<1>4. CASE ~Known(c, Head(s)) /\ Send(c, Head(s), rest)
  <2>1. /\ InOrder(s, web.cursor) /\ ReplayFine(page[c], Excused(c))
        /\ Complete(page[c], Excused(c), Past)
    BY DEF IInv, PageFine, QueueFine
  <2>2. /\ Tail(s) \in Seq(Nat) /\ Len(Tail(s)) <= QueueSize /\ Head(s) = s[1] /\ s[1] \in Nat
        /\ 1 \in DOMAIN s
    BY <1>1, <1>2, TailOf
  <2>3. /\ InOrder(Tail(s), web.cursor)
        /\ \A id : Holds(s, id) => id = s[1] \/ (Holds(Tail(s), id) /\ s[1] < id)
    BY <1>1, <1>2, <2>1, TailInOrder
  <2>4. page[c].last < s[1] /\ s[1] <= Past
    <3>1. s[1] <= web.cursor
      BY <2>1, <2>2 DEF InOrder
    <3>2. ~(s[1] <= page[c].last)
      BY <1>4, <2>2 DEF Known
    <3> HIDE DEF s
    <3> QED
      BY <1>2, <2>2, <3>1, <3>2
  <2>5. ASSUME NEW id \in (page[c].last + 1)..Past
        PROVE  \/ id = s[1] \/ id \in Excused(c)
               \/ Holds(Tail(s), id) /\ s[1] < id
    <3>1. Holds(page[c].replay, id) \/ Holds(s, id) \/ id \in Excused(c)
      BY <1>1, <2>1 DEF Complete
    <3>2. ~Holds(page[c].replay, id)
      BY <1>1 DEF Holds
    <3> QED
      BY <2>3, <3>1, <3>2
  <2> DEFINE new == [rest EXCEPT !.last = s[1]]
  <2> DEFINE excused == (skipped[c] \ {s[1]}) \cup reused
  <2>6. /\ rest \in Page /\ rest.state = page[c].state /\ rest.queue = Tail(s)
        /\ new.state = "streaming" /\ new.queue = Tail(s) /\ new.last = s[1]
        /\ new.replay = <<>>
    BY <1>1, <1>2, <2>2 DEF Page
  <2>7. PageFine(new, excused, web.cursor, Past)
    <3> HIDE DEF new
    <3>1. QueueFine(new, web.cursor)
      BY <2>3, <2>6 DEF QueueFine
    <3>2. ReplayFine(new, excused)
      BY <2>6 DEF ReplayFine, Follows
    <3>3. Complete(new, excused, Past)
      <4> SUFFICES ASSUME NEW id \in (s[1] + 1)..Past
                   PROVE  Holds(Tail(s), id) \/ id \in excused
        BY <2>6 DEF Complete
      <4>1. id \in (page[c].last + 1)..Past /\ id # s[1]
        <5> HIDE DEF s
        <5> QED
          BY <1>2, <2>2, <2>4
      <4> QED
        BY <2>5, <4>1 DEF Excused
    <3> QED
      BY <3>1, <3>2, <3>3 DEF PageFine
  <2>8. IInv' /\ page'[c].last = s[1] /\ \A d \in Pages : d # c => page'[d] = page[d]
    <3>1. Send(c, s[1], rest)
      BY <1>4, <2>2
    <3>2. Len(rest.queue) <= QueueSize
      BY <2>2, <2>6
    <3> HIDE DEF rest
    <3> QED
      BY <1>1, <2>2, <2>6, <2>7, <3>1, <3>2, SendKeeps
  <2>9. ASSUME NEW id \in (page[c].last + 1)..(s[1] - 1) PROVE id \in Excused(c)
    <3>1. id \in (page[c].last + 1)..Past /\ id # s[1] /\ ~(s[1] < id)
      <4> HIDE DEF s
      <4> QED
        BY <1>2, <2>2, <2>4
    <3> QED
      BY <2>5, <3>1
  <2> QED
    BY <1>2, <2>2, <2>4, <2>8, <2>9
<1> QED
  BY <1>1, <1>3, <1>4

-----------------------------------------------------------------------------
(* Breaks and the page by itself.                                          *)

LEMMA ClosedIs ==
  ASSUME NEW p \in Page, NEW new, new = Closed(p)
  PROVE  /\ new \in Page /\ new.state = "closed" /\ new.last = p.last
         /\ new.replay = <<>> /\ new.queue = <<>>
<1> DEFINE nothing == <<>>
<1>1. nothing \in Seq(Nat)
  OBVIOUS
<1>2. new = [p EXCEPT !.state = "closed", !.replay = nothing, !.queue = nothing]
  BY DEF Closed
<1> HIDE DEF nothing
<1>3. /\ new \in Page /\ new.state = "closed" /\ new.last = p.last
      /\ new.replay = nothing /\ new.queue = nothing
  BY <1>1, <1>2 DEF Page
<1> QED
  BY <1>3 DEF nothing

\* The slot of a broken connection stays taken.
LEMMA LoseKeeps ==
  ASSUME IInv, NEW c \in Pages, Lose(c)
  PROVE  IInv' /\ \A d \in Pages : page'[d].last = page[d].last
<1> DEFINE new == Closed(page[c])
<1>1. /\ Subscribed(c) /\ Break /\ page' = [page EXCEPT ![c] = new]
      /\ lingering' = lingering + 1 /\ UNCHANGED <<coreVars, web, view, skipped>>
  BY DEF Lose
<1>2. page[c] \in Page
  BY PagesTyped DEF IInv
<1>3. /\ new \in Page /\ new.state = "closed" /\ new.last = page[c].last
      /\ new.replay = <<>> /\ new.queue = <<>>
  BY <1>2, ClosedIs
<1> HIDE DEF new
<1>4. /\ page' \in [Pages -> Page] /\ page'[c] = new
      /\ \A d \in Pages : d # c => page'[d] = page[d]
  BY <1>1, <1>3, CountersTyped
<1>5. Connections' <= ConnectionLimit
  <2> DEFINE before == {d \in Pages : Subscribed(d)}
  <2> DEFINE after == {d \in Pages : Subscribed(d)'}
  <2>1. after = before \ {c} /\ c \in before
    BY <1>1, <1>3, <1>4 DEF Subscribed
  <2>2. IsFiniteSet(before)
    BY LimitsAreNumbers, FS_Subset
  <2>3. Cardinality(before \ {c}) = Cardinality(before) - 1
    BY <2>1, <2>2, FS_RemoveElement
  <2>4. Connections' = Cardinality(after) + (lingering + 1)
    BY <1>1 DEF Connections
  <2>5. Connections = Cardinality(before) + lingering
    BY DEF Connections
  <2>6. /\ Cardinality(before) \in Nat /\ lingering \in Nat /\ ConnectionLimit \in Nat
        /\ Connections <= ConnectionLimit
    BY CountersTyped, LimitsAreNumbers
  <2> HIDE DEF before, after
  <2> QED
    BY <2>1, <2>3, <2>4, <2>5, <2>6
<1>6. PageFine(page'[c], skipped'[c] \cup reused, web.cursor, Past)
  BY <1>3, <1>4, IdleIsFine
<1>7. Len(page'[c].queue) <= QueueSize
  BY <1>3, <1>4, LimitsAreNumbers
<1>8. lingering' \in Nat /\ breaks' \in 0..MaxBreaks
  BY <1>1, CountersTyped, LimitsAreNumbers DEF Break
<1>9. IInv'
  BY <1>1, <1>4, <1>5, <1>6, <1>7, <1>8, CountersTyped, PageSteps
<1> QED
  BY <1>3, <1>4, <1>9

LEMMA ReleaseKeeps ==
  ASSUME IInv, Release
  PROVE  IInv'
<1>1. /\ lingering > 0 /\ lingering' = lingering - 1
      /\ UNCHANGED <<coreVars, web, breaks, page, view, skipped>>
  BY DEF Release
<1>2. Connections' <= ConnectionLimit
  <2> DEFINE before == {d \in Pages : Subscribed(d)}
  <2>1. /\ Connections' = Cardinality(before) + (lingering - 1)
        /\ Connections = Cardinality(before) + lingering
    BY <1>1 DEF Connections, Subscribed
  <2>2. /\ Cardinality(before) \in Nat /\ lingering \in Nat /\ ConnectionLimit \in Nat
        /\ Connections <= ConnectionLimit
    BY CountersTyped, LimitsAreNumbers
  <2> HIDE DEF before
  <2> QED
    BY <2>1, <2>2
<1>3. lingering' \in Nat
  BY <1>1, CountersTyped
<1>4. TypeOK'
  BY <1>1, <1>2, <1>3 DEF IInv, TypeOK, coreVars
<1>5. WebFine' /\ Past' = Past
  BY <1>1 DEF IInv, WebFine, Past, Used, Follows, coreVars
<1>6. \A c \in Pages : PageFine(page[c], Excused(c), web.cursor, Past)'
  BY <1>1, <1>5 DEF IInv, Excused, coreVars
<1> QED
  BY <1>4, <1>5, <1>6 DEF IInv

\* After a restart the broadcaster goes on with the last row, and no page has a connection.
LEMMA RestartKeeps ==
  ASSUME IInv, Restart
  PROVE  IInv' /\ \A d \in Pages : page'[d].last = page[d].last
<1> DEFINE cursor == IF oldest > Visible THEN 0 ELSE Visible
<1>1. /\ Break /\ lingering' = 0
      /\ page' = [c \in Pages |-> IF Subscribed(c) THEN Closed(page[c]) ELSE page[c]]
      /\ web' = [cursor |-> cursor, history |-> <<>>, reply |-> <<>>]
      /\ UNCHANGED <<coreVars, view, skipped>>
  BY DEF Restart
<1>2. /\ committed \in Nat /\ Visible \in Nat /\ oldest \in Nat \ {0} /\ TypeOK
  BY StreamTyped DEF IInv
<1>3. /\ cursor \in Nat /\ Used(cursor) /\ (cursor = 0 \/ oldest <= cursor + 1)
  <2>1. Used(0) /\ Used(Visible)
    BY <1>2 DEF Used, Visible
  <2>2. oldest > Visible \/ oldest <= Visible + 1
    BY <1>2
  <2> QED
    BY <1>2, <2>1, <2>2
<1> HIDE DEF cursor
<1>4. web'.cursor = cursor /\ web'.history = <<>> /\ web'.reply = <<>>
      /\ web' \in [cursor : Nat, history : Seq(Nat), reply : Seq(Nat)]
  BY <1>1, <1>3
<1>5. ASSUME NEW c \in Pages
      PROVE  /\ page'[c] \in Page /\ page'[c].last = page[c].last
             /\ page'[c].queue = <<>> /\ page'[c].replay = <<>>
             /\ page'[c].state \notin {"opening", "streaming"}
  <2>1. page[c] \in Page
    BY <1>2, PagesTyped
  <2>2. CASE Subscribed(c)
    BY <1>1, <2>1, <2>2, ClosedIs
  <2>3. CASE ~Subscribed(c)
    BY <1>1, <2>1, <2>3 DEF IInv, PageFine, QueueFine, ReplayFine, Subscribed
  <2> QED
    BY <2>2, <2>3
<1>6. Connections' <= ConnectionLimit
  <2>1. {c \in Pages : Subscribed(c)'} = {}
    BY <1>5 DEF Subscribed
  <2>2. Connections' = Cardinality({}) + 0
    BY <1>1, <2>1 DEF Connections
  <2> QED
    BY <2>2, FS_EmptySet, LimitsAreNumbers
<1>7. TypeOK'
  <2>1. page' \in [Pages -> Page] /\ \A c \in Pages : Len(page'[c].queue) <= QueueSize
    BY <1>1, <1>5, LimitsAreNumbers
  <2>2. breaks' \in 0..MaxBreaks
    BY <1>1, CountersTyped, LimitsAreNumbers DEF Break
  <2>3. Len(web'.history) <= HistorySize /\ Len(web'.reply) <= ReadLimit
    BY <1>4, LimitsAreNumbers
  <2> QED
    BY <1>1, <1>2, <1>4, <1>6, <2>1, <2>2, <2>3 DEF TypeOK, coreVars
<1>8. WebFine'
  BY <1>1, <1>3, <1>4 DEF IInv, WebFine, Used, Follows, coreVars
<1>9. \A c \in Pages : PageFine(page[c], Excused(c), web.cursor, Past)'
  BY <1>5, IdleIsFine
<1> QED
  BY <1>5, <1>7, <1>8, <1>9 DEF IInv

\* What a page asks for and shows has nothing to do with what it is sent.
LEMMA RequestsKeep ==
  ASSUME IInv, NEW c \in Pages, FallBack(c) \/ Return(c) \/ Answer(c) \/ Show(c) \/ Fail(c)
  PROVE  IInv' /\ UNCHANGED page
<1>1. view \in [Pages -> View] /\ view[c] \in View /\ breaks \in 0..MaxBreaks
  BY CountersTyped
<1>2. PICK new : /\ view' = [view EXCEPT ![c] = new]
                 /\ UNCHANGED <<coreVars, web, lingering, page, skipped>>
                 /\ new \in View
  <2>1. CASE FallBack(c) \/ Return(c)
    BY <1>1, <2>1, AskedIs DEF FallBack, Return, SetView
  <2>2. CASE Answer(c)
    <3>1. Latest(Visible, view[c].of) \in Nat
      BY StreamTyped, LatestType DEF IInv
    <3>2. [view[c] EXCEPT !.request = "answered",
                          !.answer = Latest(Visible, view[c].of)] \in View
      BY <1>1, <3>1 DEF View
    <3> QED
      BY <2>2, <3>2 DEF Answer, SetView
  <2>3. CASE Show(c)
    <3>1. [view[c] EXCEPT !.request = "none", !.answer = 0, !.loaded = TRUE,
                          !.shown = view[c].answer, !.failed = FALSE] \in View
      BY <1>1 DEF View
    <3> QED
      BY <2>3, <3>1 DEF Show, SetView
  <2>4. CASE Fail(c)
    <3>1. [view[c] EXCEPT !.request = "none", !.failed = TRUE] \in View
      BY <1>1 DEF View
    <3> QED
      BY <2>4, <3>1 DEF Fail, SetView
  <2> QED
    BY <2>1, <2>2, <2>3, <2>4
<1>3. view' \in [Pages -> View]
  BY <1>1, <1>2
<1>4. breaks' \in 0..MaxBreaks
  <2>1. breaks' = breaks \/ Break
    BY DEF FallBack, Return, Answer, Show, Fail
  <2> QED
    BY <1>1, <2>1, LimitsAreNumbers DEF Break
<1>5. Connections' = Connections
  BY <1>2, ConnectionsStay DEF Subscribed
<1>6. PageFine(page'[c], skipped'[c] \cup reused, web.cursor, Past)
  BY <1>2 DEF IInv, Excused
<1>7. Len(page'[c].queue) <= QueueSize
  BY <1>2, PagesTyped DEF IInv
<1>8. /\ page' = page /\ skipped' = skipped /\ UNCHANGED <<coreVars, web>>
      /\ lingering' \in Nat /\ Connections' <= ConnectionLimit
  BY <1>2, <1>5, CountersTyped
<1> QED
  BY <1>3, <1>4, <1>6, <1>7, <1>8, CountersTyped, PageSteps

-----------------------------------------------------------------------------
(* The invariant holds.                                                    *)

LEMMA InitHolds ==
  ASSUME Init
  PROVE  IInv
<1> DEFINE nothing == <<>>
<1>1. nothing \in Seq(Nat) /\ DOMAIN nothing = {} /\ Len(nothing) = 0
  OBVIOUS
<1>2. \A query \in Queries : NewQuery(query) \in View
  BY DEF NewQuery, View
<1>3. /\ NewPage \in Page /\ NewPage.state = "closed"
      /\ NewPage.replay = nothing /\ NewPage.queue = nothing
  BY <1>1 DEF NewPage, Page
<1>4. /\ committed = 0 /\ open = FALSE /\ oldest = 1 /\ lingering = 0 /\ breaks = 0
      /\ web = [cursor |-> 0, history |-> nothing, reply |-> nothing]
      /\ page = [c \in Pages |-> NewPage] /\ skipped = [c \in Pages |-> {}] /\ reused = {}
      /\ view \in [Pages -> {NewQuery(query) : query \in Queries}]
  BY DEF Init
<1>5. web \in [cursor : Nat, history : Seq(Nat), reply : Seq(Nat)]
  BY <1>1, <1>4
<1> HIDE DEF nothing
<1>6. \A c \in Pages : /\ page[c] \in Page /\ page[c].state = "closed"
                       /\ page[c].replay = nothing /\ page[c].queue = nothing
  BY <1>3, <1>4
<1>7. Connections <= ConnectionLimit
  <2>1. {c \in Pages : Subscribed(c)} = {}
    BY <1>6 DEF Subscribed
  <2>2. Connections = Cardinality({}) + 0
    BY <1>4, <2>1 DEF Connections
  <2> QED
    BY <2>2, FS_EmptySet, LimitsAreNumbers
<1>8. TypeOK
  <2>1. page \in [Pages -> Page]
    BY <1>3, <1>4
  <2>2. \A c \in Pages : Len(page[c].queue) <= QueueSize
    BY <1>1, <1>6, LimitsAreNumbers
  <2>3. Len(web.history) <= HistorySize /\ Len(web.reply) <= ReadLimit
    BY <1>1, <1>4, LimitsAreNumbers
  <2>4. breaks \in 0..MaxBreaks /\ committed \in 0..MaxEvents /\ oldest \in 1..(committed + 1)
    BY <1>4, LimitsAreNumbers
  <2>5. skipped \in [Pages -> SUBSET Nat] /\ reused \subseteq Nat /\ open \in BOOLEAN
    BY <1>4
  <2>6. view \in [Pages -> View]
    BY <1>2, <1>4
  <2> QED
    BY <1>4, <1>5, <1>7, <2>1, <2>2, <2>3, <2>4, <2>5, <2>6 DEF TypeOK
<1>9. WebFine
  <2>1. /\ web.cursor = 0 /\ web.history = <<>> /\ web.reply = <<>>
        /\ DOMAIN web.history = {} /\ DOMAIN web.reply = {}
    BY <1>1, <1>4 DEF nothing
  <2>2. Used(web.cursor)
    BY <1>4, <2>1 DEF Used
  <2> QED
    BY <1>4, <2>1, <2>2 DEF WebFine, Follows
<1>10. \A c \in Pages : PageFine(page[c], Excused(c), web.cursor, Past)
  BY <1>6, IdleIsFine DEF nothing
<1> QED
  BY <1>8, <1>9, <1>10 DEF IInv

LEMMA NextKeeps ==
  ASSUME IInv, [Next]_vars
  PROVE  IInv'
<1>1. CASE Core
  BY <1>1, CoreKeeps
<1>2. CASE Poll
  BY <1>2, PollKeeps
<1>3. CASE Broadcast
  BY <1>3, BroadcastKeeps
<1>4. CASE Release
  BY <1>4, ReleaseKeeps
<1>5. CASE Restart
  BY <1>5, RestartKeeps
<1>6. ASSUME NEW c \in Pages, Connect(c) PROVE IInv'
  BY <1>6, ConnectKeeps
<1>7. ASSUME NEW c \in Pages, Replay(c) PROVE IInv'
  BY <1>7, ReplayKeeps
<1>8. ASSUME NEW c \in Pages, SendReplayed(c) PROVE IInv'
  BY <1>8, SendReplayedKeeps
<1>9. ASSUME NEW c \in Pages, SendQueued(c) PROVE IInv'
  BY <1>9, SendQueuedKeeps
<1>10. ASSUME NEW c \in Pages, Lose(c) PROVE IInv'
  BY <1>10, LoseKeeps
<1>11. ASSUME NEW c \in Pages, FallBack(c) \/ Return(c) \/ Answer(c) \/ Show(c) \/ Fail(c)
       PROVE  IInv'
  BY <1>11, RequestsKeep
<1>12. CASE UNCHANGED vars
  <2>1. TypeOK'
    BY <1>12 DEF IInv, TypeOK, Connections, Subscribed, vars, coreVars, webVars
  <2>2. WebFine'
    BY <1>12 DEF IInv, WebFine, Past, Used, Follows, vars, coreVars, webVars
  <2>3. \A c \in Pages : PageFine(page[c], Excused(c), web.cursor, Past)'
    BY <1>12 DEF IInv, Excused, Past, vars, coreVars, webVars
  <2> QED
    BY <2>1, <2>2, <2>3 DEF IInv
<1>13. Next => Core \/ Web \/ Console
  BY DEF Next
<1>14. CASE Web
  BY <1>14, <1>2, <1>3, <1>4, <1>5, <1>6, <1>7, <1>8, <1>9, <1>10 DEF Web
<1>15. CASE Console
  BY <1>15, <1>11 DEF Console
<1> QED
  BY <1>1, <1>12, <1>13, <1>14, <1>15

LEMMA InvariantHolds == Spec => []IInv
<1>1. Init => IInv
  BY InitHolds
<1>2. IInv /\ [Next]_vars => IInv'
  BY NextKeeps
<1> QED
  BY <1>1, <1>2, PTL DEF Spec

-----------------------------------------------------------------------------
(* What a step sends.                                                      *)

\* A broadcast sends nothing: it only fills the queues.
LEMMA BroadcastSendsNothing ==
  ASSUME IInv, Broadcast, NEW c \in Pages
  PROVE  page'[c].last = page[c].last
<1>1. page[c] \in Page
  BY PagesTyped DEF IInv
<1>2. page'[c] = page[c] \/ \E queue : page'[c] = [page[c] EXCEPT !.queue = queue]
  BY DEF Broadcast
<1> QED
  BY <1>1, <1>2 DEF Page

\* Nor do the start of a connection and of its replay.
LEMMA OpeningSendsNothing ==
  ASSUME IInv, NEW c \in Pages, Connect(c) \/ Replay(c), NEW d \in Pages
  PROVE  page'[d].last = page[d].last
<1>1. page[d] \in Page /\ page \in [Pages -> Page]
  BY PagesTyped, CountersTyped DEF IInv
<1>2. \/ \E state : page' = [page EXCEPT ![c] = [page[c] EXCEPT !.state = state]]
      \/ \E replay : page' = [page EXCEPT ![c] = [page[c] EXCEPT !.state = "streaming",
                                                                 !.replay = replay]]
  BY DEF Connect, Replay
<1>3. ASSUME NEW state, page' = [page EXCEPT ![c] = [page[c] EXCEPT !.state = state]]
      PROVE  page'[d].last = page[d].last
  BY <1>1, <1>3 DEF Page
<1>4. ASSUME NEW replay,
             page' = [page EXCEPT ![c] = [page[c] EXCEPT !.state = "streaming",
                                                         !.replay = replay]]
      PROVE  page'[d].last = page[d].last
  BY <1>1, <1>4 DEF Page
<1> QED
  BY <1>2, <1>3, <1>4

\* A page moves on, and what it passes over has an excuse.
MovesOn(c) ==
  /\ page[c].last <= page'[c].last
  /\ \A id \in (page[c].last + 1)..(page'[c].last - 1) : id \in Excused(c)

LEMMA StayingMovesOn ==
  ASSUME IInv, NEW c \in Pages, page'[c].last = page[c].last
  PROVE  MovesOn(c)
<1>1. page[c].last \in Nat
  BY PagesTyped DEF IInv
<1> QED
  BY <1>1 DEF MovesOn

LEMMA PagesMoveOn ==
  ASSUME IInv, [Next]_vars, NEW d \in Pages
  PROVE  MovesOn(d)
<1>1. CASE Core \/ Poll \/ Release \/ UNCHANGED vars
  <2>1. UNCHANGED page
    BY <1>1 DEF Core, AppendRow, Commit, RollBack, Expire, Poll, Release, vars
  <2> QED
    BY <2>1, StayingMovesOn
<1>2. CASE Broadcast
  BY <1>2, BroadcastSendsNothing, StayingMovesOn
<1>3. CASE Restart
  BY <1>3, RestartKeeps, StayingMovesOn
<1>4. ASSUME NEW c \in Pages, Connect(c) \/ Replay(c) PROVE MovesOn(d)
  BY <1>4, OpeningSendsNothing, StayingMovesOn
<1>5. ASSUME NEW c \in Pages, Lose(c) PROVE MovesOn(d)
  BY <1>5, LoseKeeps, StayingMovesOn
<1>6. ASSUME NEW c \in Pages, FallBack(c) \/ Return(c) \/ Answer(c) \/ Show(c) \/ Fail(c)
      PROVE  MovesOn(d)
  BY <1>6, RequestsKeep, StayingMovesOn
<1>7. ASSUME NEW c \in Pages, SendReplayed(c) PROVE MovesOn(d)
  <2>1. CASE d = c
    BY <1>7, <2>1, SendReplayedKeeps DEF MovesOn
  <2>2. CASE d # c
    BY <1>7, <2>2, SendReplayedKeeps, StayingMovesOn
  <2> QED
    BY <2>1, <2>2
<1>8. ASSUME NEW c \in Pages, SendQueued(c) PROVE MovesOn(d)
  <2>1. CASE d = c
    BY <1>8, <2>1, SendQueuedKeeps DEF MovesOn
  <2>2. CASE d # c
    BY <1>8, <2>2, SendQueuedKeeps, StayingMovesOn
  <2> QED
    BY <2>1, <2>2
<1>9. CASE Web
  BY <1>9, <1>1, <1>2, <1>3, <1>4, <1>5, <1>7, <1>8 DEF Web
<1>10. CASE Console
  BY <1>10, <1>6 DEF Console
<1> QED
  BY <1>1, <1>9, <1>10 DEF Next

-----------------------------------------------------------------------------
(* The theorems.                                                           *)

\* The stream's state keeps its type, and no queue, history, answer or number of
\* connections grows past its limit.
THEOREM TypeCorrect == Spec => []TypeOK
<1>1. IInv => TypeOK
  BY DEF IInv
<1> QED
  BY <1>1, InvariantHolds, PTL

\* A browser is sent the events in order, however often it connects again and
\* whatever its replay and its queue have in common (generate in api.py).
THEOREM EventsInOrder == Spec => SentInOrder
<1>1. IInv /\ [Next]_vars => [\A c \in Pages : page[c].last <= page'[c].last]_page
  BY PagesMoveOn DEF MovesOn
<1> QED
  BY <1>1, InvariantHolds, PTL DEF Spec, SentInOrder

\* An event that a page passes over was dropped by its own full queue or left out
\* of its replay by cleanup or the read limit, unless its number was used twice:
\* neither a reconnection nor a restart of the web process loses anything
\* (EventBroadcaster.subscribe before replay, and _run).
THEOREM GapsAreExplained == Spec => GapsHaveCauses
<1>1. IInv /\ [Next]_vars =>
        [\A c \in Pages : \A id \in (page[c].last + 1)..(page'[c].last - 1) :
           id \in skipped[c] \cup reused]_page
  BY PagesMoveOn DEF MovesOn, Excused
<1> QED
  BY <1>1, InvariantHolds, PTL DEF Spec, GapsHaveCauses
=============================================================================
