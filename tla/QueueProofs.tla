---------------------------- MODULE QueueProofs ----------------------------
(* The invariant of Queue holds for every number of handlers, connections  *)
(* and channels, every capacity and every bound.                           *)
EXTENDS Queue, TLAPS

\* What Append does to the set of buffered ids (queue[c] <- id).
LEMMA RangeAppend ==
  ASSUME NEW S, NEW s \in Seq(S), NEW e \in S
  PROVE  Range(Append(s, e)) = Range(s) \cup {e}
<1>1. \A n \in 1 .. Len(s) : Append(s, e)[n] = s[n]
  OBVIOUS
<1>2. /\ DOMAIN Append(s, e) = 1 .. Len(s) + 1 /\ DOMAIN s = 1 .. Len(s)
      /\ Append(s, e)[Len(s) + 1] = e /\ Len(s) \in Nat
  OBVIOUS
<1>3. 1 .. Len(s) + 1 = (1 .. Len(s)) \cup {Len(s) + 1}
  BY <1>2
<1>4. ASSUME NEW x \in Range(s) PROVE x \in Range(Append(s, e))
  <2>1. PICK n \in 1 .. Len(s) : x = s[n] BY <1>2 DEF Range
  <2>2. Append(s, e)[n] = x /\ n \in DOMAIN Append(s, e) BY <2>1, <1>1, <1>2, <1>3
  <2> QED BY <2>2 DEF Range
<1>5. e \in Range(Append(s, e)) BY <1>2, <1>3 DEF Range
<1>6. ASSUME NEW x \in Range(Append(s, e)) PROVE x \in Range(s) \cup {e}
  <2>1. PICK n \in 1 .. Len(s) + 1 : x = Append(s, e)[n] BY <1>2 DEF Range
  <2>2. CASE n = Len(s) + 1 BY <2>1, <2>2, <1>2
  <2>3. CASE n \in 1 .. Len(s) BY <2>1, <2>3, <1>1, <1>2 DEF Range
  <2> QED BY <2>1, <2>2, <2>3, <1>3
<1> QED BY <1>4, <1>5, <1>6

\* What a receive does to it: the head leaves, the rest stays in its order.
LEMMA RangeTail ==
  ASSUME NEW S, NEW s \in Seq(S), s # <<>>
  PROVE  /\ Head(s) \in S /\ Tail(s) \in Seq(S)
         /\ Range(s) = Range(Tail(s)) \cup {Head(s)}
         /\ Len(Tail(s)) = Len(s) - 1
         /\ \A n \in 1 .. Len(Tail(s)) : n + 1 \in 1 .. Len(s) /\ Tail(s)[n] = s[n + 1]
<1>1. /\ Len(s) \in Nat \ {0} /\ Head(s) = s[1] /\ Head(s) \in S
      /\ Tail(s) \in Seq(S) /\ Len(Tail(s)) = Len(s) - 1
      /\ DOMAIN s = 1 .. Len(s) /\ DOMAIN Tail(s) = 1 .. Len(s) - 1
  OBVIOUS
<1>2. \A n \in 1 .. Len(Tail(s)) : n + 1 \in 1 .. Len(s) /\ Tail(s)[n] = s[n + 1]
  BY <1>1
<1>3. ASSUME NEW x \in Range(s) PROVE x \in Range(Tail(s)) \cup {Head(s)}
  <2>1. PICK n \in 1 .. Len(s) : x = s[n] BY <1>1 DEF Range
  <2>2. CASE n = 1 BY <2>1, <2>2, <1>1
  <2>3. CASE n # 1
    <3>1. n - 1 \in DOMAIN Tail(s) /\ Tail(s)[n - 1] = s[n] BY <2>1, <2>3, <1>1, <1>2
    <3> QED BY <3>1, <2>1 DEF Range
  <2> QED BY <2>2, <2>3
<1>4. ASSUME NEW x \in Range(Tail(s)) PROVE x \in Range(s)
  <2>1. PICK n \in 1 .. Len(s) - 1 : x = Tail(s)[n] BY <1>1 DEF Range
  <2>2. n + 1 \in DOMAIN s /\ x = s[n + 1] BY <2>1, <1>1, <1>2
  <2> QED BY <2>2 DEF Range
<1>5. Head(s) \in Range(s) BY <1>1 DEF Range
<1> QED BY <1>1, <1>2, <1>3, <1>4, <1>5

-----------------------------------------------------------------------------
(* Types, the writer lock, and where handlers and connections are *)

Control == TypeOK /\ Locked /\ Places

USE QueueAssumption

\* A new process has fresh memory, whatever the old one held.
LEMMA DieControl ==
  ASSUME TypeOK, NEW how \in {"down", "panic"}, Die(how)
  PROVE  Control'
<1> USE DEF Die, FreshMemory, disk
<1>1. TypeOK' BY DEF TypeOK, Answered
<1>2. Locked' BY DEF Locked, TxPhases
<1>3. Places' BY DEF Places, InFlight, TxPhases, Holding
<1> QED BY <1>1, <1>2, <1>3 DEF Control

\* What a handler does.
LEMMA HandlerControl ==
  ASSUME Control, NEW p \in Producers, HandlerNext(p)
  PROVE  Control'
<1> USE DEF Control, TypeOK, Locked, Places, InFlight, TxPhases, Answered, Holding,
            proc, disk, broker, http, conns, hist
<1>1. ASSUME NEW c \in Channels, Request(p, c) PROVE Control' BY <1>1 DEF Request
<1>2. CASE Refuse(p) BY <1>2 DEF Refuse
<1>3. CASE Acquire(p) BY <1>3 DEF Acquire
<1>4. CASE Dump(p)
  <2>1. CASE Rollback(p) BY <1>4, <2>1 DEF Dump, Rollback
  <2>2. CASE /\ ppc' = [ppc EXCEPT ![p] = IF pch[p] \in chans THEN "send" ELSE "make"]
             /\ UNCHANGED <<rw, pch>>
    BY <1>4, <2>2 DEF Dump
  <2> QED BY <1>4, <2>1, <2>2 DEF Dump
<1>5. CASE Make(p) BY <1>5 DEF Make
<1>6. CASE Send(p) BY <1>6 DEF Send, NextId, Full
<1>7. CASE Commit(p) BY <1>7 DEF Commit, NextId, Unpin
<1>8. CASE CommitFails(p) BY <1>8 DEF CommitFails, Rollback, NextId, Unpin
<1> QED BY <1>1, <1>2, <1>3, <1>4, <1>5, <1>6, <1>7, <1>8 DEF HandlerNext

\* What the connection of a worker does.
LEMMA WorkerControl ==
  ASSUME Control, NEW w \in Workers, WorkerNext(w)
  PROVE  Control'
<1> USE DEF Control, TypeOK, Locked, Places, InFlight, TxPhases, Answered, Holding,
            proc, disk, broker, http, conns, hist
<1>1. CASE Connect(w) BY <1>1 DEF Connect, Turn
<1>2. ASSUME NEW c \in Channels, Chan(w, c) PROVE Control' BY <1>2 DEF Chan, Turn
<1>3. CASE BareChan(w) BY <1>3, DieControl DEF BareChan
<1>4. CASE Drop(w) BY <1>4 DEF Drop, Hangup, Turn
<1>5. CASE Ready(w)
  <2>1. PICK to \in {"wait", "nilwait"} : wpc' = [wpc EXCEPT ![w] = to]
    BY <1>5 DEF Ready, Turn
  <2>2. /\ wpc[w] = "idle" /\ wpc'[w] = to
        /\ \A v \in Workers \ {w} : wpc'[v] = wpc[v]
        /\ UNCHANGED <<phase, starts, faults, seq, jobs, rw, chans, pend, ppc, pch,
                      wch, cur, body, dl, done, failed>>
    BY <1>5, <2>1 DEF Ready
  <2>3. TypeOK' BY <2>1, <2>2
  <2>4. Locked' BY <2>2
  <2>5. Places' BY <2>2
  <2> QED BY <2>3, <2>4, <2>5
<1>6. CASE ReadyRace(w) BY <1>6, DieControl DEF ReadyRace
<1>7. CASE Recv(w)
  <2>1. TypeOK' BY <1>7 DEF Recv, Turn
  <2>2. Locked' BY <1>7 DEF Recv
  <2>3. Places' BY <1>7 DEF Recv, Turn
  <2> QED BY <2>1, <2>2, <2>3
<1>8. CASE View(w) BY <1>8 DEF View, Turn
<1>9. CASE ViewPanic(w) BY <1>9, DieControl DEF ViewPanic
<1>10. CASE Deliver(w)
  <2>1. PICK b \in {"whole", "torn"} \cup {body[w]} : body' = [body EXCEPT ![w] = b]
    BY <1>10 DEF Deliver
  <2>2. TypeOK' BY <1>10, <2>1 DEF Deliver, Turn
  <2>3. Locked' BY <1>10 DEF Deliver
  <2>4. Places' BY <1>10 DEF Deliver, Turn
  <2> QED BY <2>2, <2>3, <2>4
<1>11. CASE DeliverFails(w) BY <1>11 DEF DeliverFails, Stick, Turn
<1>12. CASE Abandon(w) BY <1>12 DEF Abandon, Stick, Turn
<1>13. CASE Pong(w) BY <1>13 DEF Pong
<1>14. CASE Ok(w)
  <2>1. wch[w] \in Channels /\ cur[w] \in Nat BY <1>14 DEF Ok
  <2>2. ASSUME NEW c \in Channels PROVE done[c] \cup {cur[w]} \in SUBSET Nat
    <3>1. done[c] \in SUBSET Nat OBVIOUS
    <3> HIDE DEF Control
    <3> QED BY <2>1, <3>1
  <2>3. done' \in [Channels -> SUBSET Nat] BY <1>14, <2>1, <2>2 DEF Ok
  <2> QED BY <1>14, <2>3 DEF Ok, Turn
<1>15. CASE Expire(w) BY <1>15 DEF Expire
<1> QED BY <1>1, <1>2, <1>3, <1>4, <1>5, <1>6, <1>7, <1>8, <1>9, <1>10, <1>11, <1>12, <1>13, <1>14, <1>15 DEF WorkerNext

\* Every step keeps types, lock and places.
LEMMA ControlStep == Control /\ [Next]_vars => Control'
<1> SUFFICES ASSUME Control, [Next]_vars PROVE Control'
  OBVIOUS
<1>1. CASE UNCHANGED vars
  BY <1>1 DEF Control, TypeOK, Locked, Places, InFlight, vars, proc, disk, broker, http,
              conns, hist
<1>2. CASE Kill BY <1>2, DieControl DEF Kill, Control
<1>3. ASSUME NEW how \in {"up", "panic"}, Start(how) PROVE Control'
  BY <1>3 DEF Start, Control, TypeOK, Locked, Places, InFlight, disk, broker, http, conns, hist
<1>4. CASE Load \/ LoadPanics BY <1>3, <1>4 DEF Load, LoadPanics
<1>5. CASE \E p \in Producers : HandlerNext(p) BY <1>5, HandlerControl
<1>6. CASE \E w \in Workers : WorkerNext(w) BY <1>6, WorkerControl
<1> QED BY <1>1, <1>2, <1>4, <1>5, <1>6 DEF Next

\* Every variable keeps its type and no Go channel holds more than its
\* capacity, for any number of handlers and connections.
THEOREM TypeCorrect == Spec => []TypeOK
<1>1. Init => Control
  BY DEF Init, Control, TypeOK, Locked, Places, InFlight, TxPhases, Answered, Holding
<1>2. Control => TypeOK BY DEF Control
<1> QED BY <1>1, <1>2, ControlStep, PTL DEF Spec

-----------------------------------------------------------------------------
(* The ids: stored, open, failed; buffered, held, answered *)

Ledger == Numbered /\ Sources /\ OpenIsOut /\ HandedOnce /\ HandoutInOrder /\ NothingLost

\* The invariant in the two parts in which it is proved.
LEMMA InvParts == Inv <=> Control /\ Ledger
BY DEF Inv, Control, Ledger

\* Most steps move no id: what is published, held and answered stays, and so
\* does the open transaction.
LEMMA Frame ==
  ASSUME Ledger,
         UNCHANGED <<seq, jobs, pend, cur, done, failed>>,
         phase' = "up" => phase = "up" \/ \A c \in Channels : jobs[c] = {},
         \A w \in Workers : cur[w] # 0 => wch'[w] = wch[w],
         \A p \in Producers : ppc'[p] = "commit" <=> ppc[p] = "commit",
         \A p \in Producers : ppc[p] = "commit" => pch'[p] = pch[p]
  PROVE  Ledger'
<1>1. \A c \in Channels : Queued(c)' = Queued(c) BY DEF Queued
<1>2. \A c \in Channels : Held(c)' = Held(c) BY DEF Held
<1>3. \A c \in Channels : Open(c)' = Open(c) BY DEF Open, NextId
<1>4. Numbered' BY DEF Ledger, Numbered
<1>5. Sources' BY <1>1, <1>2, <1>3 DEF Ledger, Sources
<1>6. OpenIsOut' BY <1>1, <1>2, <1>3 DEF Ledger, OpenIsOut
<1>7. HandedOnce' BY <1>1, <1>2 DEF Ledger, HandedOnce
<1>8. HandoutInOrder' BY <1>1, <1>2 DEF Ledger, HandoutInOrder
<1>9. NothingLost' BY <1>1, <1>2 DEF Ledger, NothingLost
<1> QED BY <1>4, <1>5, <1>6, <1>7, <1>8, <1>9 DEF Ledger

\* A process that ends leaves the numbered jobs on disk, and nothing else.
LEMMA DieLedger ==
  ASSUME Control, Ledger, NEW how \in {"down", "panic"}, Die(how)
  PROVE  Ledger'
<1>1. \A c \in Channels : pend'[c] = <<>> /\ failed'[c] = {} /\ done'[c] = done[c] \cap jobs[c]
  BY DEF Die, FreshMemory
<1>2. \A c \in Channels : Queued(c)' = {} BY <1>1 DEF Queued, Range
<1>3. \A c \in Channels : Held(c)' = {} BY DEF Held, Die, FreshMemory
<1>4. \A c \in Channels : Open(c)' = {} BY DEF Open, Die, FreshMemory
<1>5. UNCHANGED disk /\ phase' # "up" BY DEF Die
<1>6. Numbered' BY <1>1, <1>5 DEF Ledger, Numbered, disk
<1>7. Sources' BY <1>1, <1>2, <1>3, <1>5 DEF Sources, disk
<1>8. OpenIsOut' BY <1>4 DEF OpenIsOut
<1>9. HandedOnce'
  <2>1. \A w \in Workers : cur'[w] = 0 BY DEF Die, FreshMemory
  <2> QED BY <2>1, <1>1, <1>2, <1>3 DEF HandedOnce
<1>10. HandoutInOrder' BY <1>1, <1>2, <1>3 DEF HandoutInOrder
<1>11. NothingLost' BY <1>5 DEF NothingLost
<1> QED BY <1>6, <1>7, <1>8, <1>9, <1>10, <1>11 DEF Ledger

\* Where an id can be: the only one beyond the committed sequence number is the
\* next one, and it is open or failed.
LEMMA IdBounds ==
  ASSUME Control, Ledger, NEW c \in Channels,
         NEW i \in Queued(c) \cup Held(c) \cup done[c]
  PROVE  /\ i \in 1 .. seq[c] + 1 /\ i \in Nat
         /\ i = NextId(c) => i \in Open(c) \cup failed[c]
<1>1. i \in jobs[c] \cup Open(c) \cup failed[c] BY DEF Ledger, Sources
<1>2. jobs[c] = 1 .. seq[c] /\ failed[c] \subseteq 1 .. seq[c] + 1 BY DEF Ledger, Numbered
<1>3. seq[c] \in Nat BY DEF Control, TypeOK
<1>4. Open(c) \subseteq {seq[c] + 1} BY DEF Open, NextId
<1>5. CASE i \in jobs[c] BY <1>5, <1>2, <1>3 DEF NextId
<1>6. CASE i \in Open(c) BY <1>6, <1>3, <1>4
<1>7. CASE i \in failed[c] BY <1>7, <1>2, <1>3
<1> QED BY <1>1, <1>5, <1>6, <1>7

\* The writer lock keeps transactions apart: while p is in one, no other
\* handler has an open id.
LEMMA OneOpen ==
  ASSUME Control, NEW p \in Producers, ppc[p] \in TxPhases
  PROVE  /\ pch[p] \in Channels
         /\ \A q \in Producers : ppc[q] = "commit" => q = p
         /\ \A c \in Channels :
              Open(c) = IF ppc[p] = "commit" /\ c = pch[p] THEN {NextId(c)} ELSE {}
<1>1. pch[p] \in Channels BY DEF Control, Places, InFlight
<1>2. \A q \in Producers : ppc[q] = "commit" => q = p BY DEF Control, Locked, TxPhases
<1> QED BY <1>1, <1>2 DEF Open

\* A handler sends the next number: one new id, open and buffered last.
LEMMA SendLedger ==
  ASSUME Control, Ledger, NEW p \in Producers, Send(p)
  PROVE  Ledger'
<1>a. PICK c \in Channels : c = pch[p] BY OneOpen DEF Send, TxPhases
<1>b. PICK i \in Nat \ {0} : i = NextId(c) BY <1>a DEF Control, TypeOK, NextId
<1>1. /\ \A d \in Channels : Open(d) = {}
      /\ \A q \in Producers : ppc[q] # "commit"
  BY OneOpen DEF Send, TxPhases
<1>2. /\ pend' = [pend EXCEPT ![c] = Append(@, i)] /\ ppc' = [ppc EXCEPT ![p] = "commit"]
      /\ UNCHANGED <<phase, seq, jobs, pch, wch, cur, done, failed>>
  BY <1>a, <1>b DEF Send, proc, disk, conns, hist
<1>3. /\ pend \in [Channels -> Seq(Nat \ {0})] /\ seq[c] \in Nat
      /\ ppc[p] = "send" /\ ppc \in [Producers -> Answered \cup TxPhases \cup {"lock"}]
  BY DEF Control, TypeOK, Send
<1>4. /\ Queued(c)' = Queued(c) \cup {i}
      /\ \A d \in Channels \ {c} : Queued(d)' = Queued(d)
  <2>1. pend'[c] = Append(pend[c], i) /\ pend[c] \in Seq(Nat \ {0}) BY <1>2, <1>3
  <2>2. Range(pend'[c]) = Range(pend[c]) \cup {i} BY <2>1, RangeAppend
  <2> QED BY <2>2, <1>2, <1>3 DEF Queued
<1>5. \A d \in Channels : Held(d)' = Held(d) BY <1>2 DEF Held
<1>6. Open(c)' = {i} /\ \A d \in Channels \ {c} : Open(d)' = {}
  BY <1>1, <1>2, <1>3, <1>a, <1>b DEF Open, NextId
<1>7. \A d \in Channels : \A j \in Queued(d) \cup Held(d) \cup done[d] :
        j \in 1 .. seq[d] + 1 /\ (j = NextId(d) => j \in failed[d])
  BY <1>1, IdBounds
<1>8. Numbered' BY <1>2 DEF Ledger, Numbered
<1>9. Sources' BY <1>1, <1>2, <1>4, <1>5, <1>6 DEF Ledger, Sources
<1>10. OpenIsOut' BY <1>4, <1>6 DEF OpenIsOut
<1>11. /\ Len(pend'[c]) = Len(pend[c]) + 1 /\ Len(pend[c]) \in Nat
       /\ pend'[c][Len(pend[c]) + 1] = i
       /\ \A n \in 1 .. Len(pend[c]) : pend'[c][n] = pend[c][n] /\ pend[c][n] \in Queued(c)
       /\ \A d \in Channels \ {c} : pend'[d] = pend[d]
  BY <1>1, <1>2, <1>3 DEF Queued, Range
<1>12. HandedOnce'
  <2> SUFFICES ASSUME NEW d \in Channels
               PROVE  /\ \A m, n \in 1 .. Len(pend'[d]) :
                           m # n /\ pend'[d][m] = pend'[d][n] => pend'[d][m] \in failed[d]
                      /\ \A v, w \in Workers :
                           /\ wch[v] = d /\ cur[v] # 0 /\ v # w /\ wch[w] = d /\ cur[v] = cur[w]
                           => cur[v] \in failed[d]
                      /\ Queued(d)' \cap Held(d) \subseteq failed[d]
                      /\ done[d] \cap (Queued(d)' \cup Held(d)) \subseteq failed[d]
    BY <1>2, <1>5 DEF HandedOnce
  <2>1. CASE d # c BY <2>1, <1>4, <1>11 DEF Ledger, HandedOnce
  <2>2. CASE d = c
    <3>1. ASSUME NEW m \in 1 .. Len(pend'[c]), NEW n \in 1 .. Len(pend'[c]),
                 m < n, pend'[c][m] = pend'[c][n]
          PROVE  pend'[c][m] \in failed[c]
      <4>1. CASE n = Len(pend[c]) + 1 BY <4>1, <3>1, <1>b, <1>7, <1>11
      <4>2. CASE n # Len(pend[c]) + 1
        <5>1. m \in 1 .. Len(pend[c]) /\ n \in 1 .. Len(pend[c]) BY <4>2, <3>1, <1>11
        <5> QED BY <5>1, <3>1, <1>1, <1>11 DEF Ledger, HandedOnce
      <4> QED BY <4>1, <4>2
    <3>2. \A m, n \in 1 .. Len(pend'[c]) :
            m # n /\ pend'[c][m] = pend'[c][n] => pend'[c][m] \in failed[c]
      BY <3>1, <1>11
    <3>3. i \in Held(c) \cup done[c] => i \in failed[c] BY <1>b, <1>7
    <3> QED BY <2>2, <3>2, <3>3, <1>1, <1>4 DEF Ledger, HandedOnce
  <2> QED BY <2>1, <2>2
<1>13. HandoutInOrder'
  <2> SUFFICES ASSUME NEW d \in Channels
               PROVE  /\ \A m, n \in 1 .. Len(pend'[d]) : m < n => pend'[d][m] <= pend'[d][n]
                      /\ \A j \in Held(d), k \in Queued(d)' : j <= k
    BY <1>5 DEF HandoutInOrder
  <2>1. CASE d # c BY <2>1, <1>4, <1>11 DEF Ledger, HandoutInOrder
  <2>2. CASE d = c
    <3>1. \A j \in Queued(c) \cup Held(c) : j <= i BY <1>3, <1>b, <1>7 DEF NextId
    <3>2. ASSUME NEW m \in 1 .. Len(pend'[c]), NEW n \in 1 .. Len(pend'[c]), m < n
          PROVE  pend'[c][m] <= pend'[c][n]
      <4>1. m \in 1 .. Len(pend[c]) BY <3>2, <1>11
      <4>2. CASE n = Len(pend[c]) + 1 BY <4>1, <4>2, <3>1, <1>11
      <4>3. CASE n # Len(pend[c]) + 1
        <5>1. n \in 1 .. Len(pend[c]) BY <4>3, <3>2, <1>11
        <5> QED BY <4>1, <5>1, <3>2, <1>1, <1>11 DEF Ledger, HandoutInOrder
      <4> QED BY <4>2, <4>3
    <3> QED BY <2>2, <3>1, <3>2, <1>1, <1>4 DEF Ledger, HandoutInOrder
  <2> QED BY <2>1, <2>2
<1>14. NothingLost' BY <1>2, <1>4, <1>5 DEF Ledger, NothingLost
<1> QED BY <1>8, <1>9, <1>10, <1>12, <1>13, <1>14 DEF Ledger

\* The transaction of p ends: its open id becomes a stored one, or a failed one.
LEMMA CommitLedger ==
  ASSUME Control, Ledger, NEW p \in Producers, Commit(p)
  PROVE  Ledger'
<1>1. PICK c \in Channels : c = pch[p] BY OneOpen DEF Commit, TxPhases
<1>2. /\ seq' = [seq EXCEPT ![c] = @ + 1] /\ jobs' = [jobs EXCEPT ![c] = @ \cup {seq[c] + 1}]
      /\ ppc' = [ppc EXCEPT ![p] = "stored"]
      /\ UNCHANGED <<phase, pend, wch, cur, done, failed>>
  BY <1>1 DEF Commit, NextId, proc, broker, hist
<1>3. /\ seq \in [Channels -> Nat] /\ jobs \in [Channels -> SUBSET Nat]
      /\ ppc \in [Producers -> Answered \cup TxPhases \cup {"lock"}]
  BY DEF Control, TypeOK
<1>4. /\ ppc[p] = "commit" /\ \A q \in Producers : ppc[q] = "commit" => q = p
      /\ \A d \in Channels : Open(d) = IF d = c THEN {seq[c] + 1} ELSE {}
  BY <1>1, OneOpen DEF Commit, TxPhases, NextId
<1>5. \A d \in Channels : Open(d)' = {} BY <1>2, <1>3, <1>4 DEF Open
<1>6. \A d \in Channels : Queued(d)' = Queued(d) /\ Held(d)' = Held(d)
  BY <1>2 DEF Queued, Held
<1>7. \A d \in Channels : jobs'[d] = jobs[d] \cup Open(d) BY <1>2, <1>3, <1>4
<1>8. Numbered'
  <2>1. ASSUME NEW d \in Channels
        PROVE  jobs'[d] = 1 .. seq'[d] /\ failed[d] \subseteq 1 .. seq'[d] + 1
    <3>1. jobs[d] = 1 .. seq[d] /\ failed[d] \subseteq 1 .. seq[d] + 1 /\ seq[d] \in Nat
      BY <1>3 DEF Ledger, Numbered
    <3>2. CASE d = c BY <3>1, <3>2, <1>2, <1>3
    <3>3. CASE d # c BY <3>1, <3>3, <1>2, <1>3
    <3> QED BY <3>2, <3>3
  <2> QED BY <2>1, <1>2 DEF Numbered
<1>9. Sources' BY <1>2, <1>5, <1>6, <1>7 DEF Ledger, Sources
<1>10. OpenIsOut' BY <1>5 DEF OpenIsOut
<1>11. HandedOnce' BY <1>2, <1>6 DEF Ledger, HandedOnce
<1>12. HandoutInOrder' BY <1>2, <1>6 DEF Ledger, HandoutInOrder
<1>13. NothingLost' BY <1>2, <1>6, <1>7 DEF Ledger, NothingLost, OpenIsOut
<1> QED BY <1>8, <1>9, <1>10, <1>11, <1>12, <1>13 DEF Ledger

\* The transaction of p fails: its open id becomes a failed one.
LEMMA CommitFailsLedger ==
  ASSUME Control, Ledger, NEW p \in Producers, CommitFails(p)
  PROVE  Ledger'
<1>1. PICK c \in Channels : c = pch[p] BY OneOpen DEF CommitFails, TxPhases
<1>2. /\ failed' = [failed EXCEPT ![c] = @ \cup {seq[c] + 1}]
      /\ ppc' = [ppc EXCEPT ![p] = "failed"]
      /\ UNCHANGED <<phase, seq, jobs, pend, wch, cur, done>>
  BY <1>1 DEF CommitFails, Rollback, NextId, proc, disk, broker
<1>3. /\ seq \in [Channels -> Nat] /\ failed \in [Channels -> SUBSET Nat]
      /\ ppc \in [Producers -> Answered \cup TxPhases \cup {"lock"}]
  BY DEF Control, TypeOK
<1>4. /\ ppc[p] = "commit" /\ \A q \in Producers : ppc[q] = "commit" => q = p
      /\ \A d \in Channels : Open(d) = IF d = c THEN {seq[c] + 1} ELSE {}
  BY <1>1, OneOpen DEF CommitFails, TxPhases, NextId
<1>5. \A d \in Channels : Open(d)' = {} BY <1>2, <1>3, <1>4 DEF Open
<1>6. \A d \in Channels : Queued(d)' = Queued(d) /\ Held(d)' = Held(d)
  BY <1>2 DEF Queued, Held
<1>7. \A d \in Channels : failed'[d] = failed[d] \cup Open(d) BY <1>2, <1>3, <1>4
<1>8. Numbered'
  <2>1. ASSUME NEW d \in Channels
        PROVE  jobs[d] = 1 .. seq[d] /\ failed'[d] \subseteq 1 .. seq[d] + 1
    <3>1. jobs[d] = 1 .. seq[d] /\ failed[d] \subseteq 1 .. seq[d] + 1 /\ seq[d] \in Nat
      BY <1>3 DEF Ledger, Numbered
    <3>2. CASE d = c BY <3>1, <3>2, <1>2, <1>3
    <3>3. CASE d # c BY <3>1, <3>3, <1>2, <1>3
    <3> QED BY <3>2, <3>3
  <2> QED BY <2>1, <1>2 DEF Numbered
<1>9. Sources' BY <1>2, <1>5, <1>6, <1>7 DEF Ledger, Sources
<1>10. OpenIsOut' BY <1>5 DEF OpenIsOut
<1>11. HandedOnce' BY <1>2, <1>6, <1>7 DEF Ledger, HandedOnce
<1>12. HandoutInOrder' BY <1>2, <1>6 DEF Ledger, HandoutInOrder
<1>13. NothingLost' BY <1>2, <1>6 DEF Ledger, NothingLost
<1> QED BY <1>8, <1>9, <1>10, <1>11, <1>12, <1>13 DEF Ledger

\* A worker receives the head of its channel: it moves from the buffered ids to
\* the held ones.
LEMMA RecvLedger ==
  ASSUME Control, Ledger, NEW w \in Workers, Recv(w)
  PROVE  Ledger'
<1>1. PICK c \in Channels : c = wch[w]
  BY DEF Control, Places, Recv
<1>2. pend[c] \in Seq(Nat \ {0}) /\ pend[c] # <<>>
  BY <1>1 DEF Recv, Control, TypeOK
<1>3. PICK i \in Nat \ {0} : i = Head(pend[c])
  BY <1>2, RangeTail
<1>4. /\ cur' = [cur EXCEPT ![w] = i] /\ pend' = [pend EXCEPT ![c] = Tail(@)]
      /\ UNCHANGED <<phase, seq, jobs, ppc, pch, wch, done, failed>>
  BY <1>1, <1>3 DEF Recv, Turn, proc, disk, http, hist
<1>5. /\ cur \in [Workers -> Nat] /\ cur[w] = 0
      /\ pend \in [Channels -> Seq(Nat \ {0})]
  BY DEF Control, TypeOK, Places, Recv, Holding
<1>6. /\ pend'[c] = Tail(pend[c]) /\ \A d \in Channels \ {c} : pend'[d] = pend[d]
      /\ Queued(c) = Queued(c)' \cup {i}
      /\ \A d \in Channels \ {c} : Queued(d)' = Queued(d)
  <2>1. pend'[c] = Tail(pend[c]) /\ \A d \in Channels \ {c} : pend'[d] = pend[d]
    BY <1>4, <1>5
  <2>2. Range(pend[c]) = Range(Tail(pend[c])) \cup {Head(pend[c])} BY <1>2, RangeTail
  <2> QED BY <2>1, <2>2, <1>3 DEF Queued
<1>7. /\ Held(c)' = Held(c) \cup {i}
      /\ \A d \in Channels \ {c} : Held(d)' = Held(d)
  <2>1. cur'[w] = i /\ \A v \in Workers \ {w} : cur'[v] = cur[v] BY <1>4, <1>5
  <2>2. i # 0 /\ cur[w] = 0 /\ wch[w] = c /\ wch' = wch BY <1>1, <1>3, <1>4, <1>5
  <2>3. \A d \in Channels, v \in Workers \ {w} :
          (wch'[v] = d /\ cur'[v] # 0) <=> (wch[v] = d /\ cur[v] # 0)
    BY <2>1, <2>2
  <2>4. Held(c)' = Held(c) \cup {i} BY <2>1, <2>2 DEF Held
  <2>5. \A d \in Channels \ {c} : Held(d)' = Held(d) BY <2>1, <2>2, <2>3 DEF Held
  <2> QED BY <2>4, <2>5
<1>8. \A d \in Channels : Open(d)' = Open(d) BY <1>4 DEF Open, NextId
<1>9. Numbered' BY <1>4 DEF Ledger, Numbered
<1>10. Sources' BY <1>4, <1>6, <1>7, <1>8 DEF Ledger, Sources
<1>11. OpenIsOut' BY <1>4, <1>6, <1>7, <1>8 DEF Ledger, OpenIsOut
<1>12. /\ Len(pend[c]) \in Nat \ {0} /\ Len(pend'[c]) = Len(pend[c]) - 1
       /\ \A n \in 1 .. Len(pend'[c]) :
            n + 1 \in 1 .. Len(pend[c]) /\ pend'[c][n] = pend[c][n + 1]
       /\ i = pend[c][1]
  <2>1. Tail(pend[c]) = pend'[c] BY <1>6
  <2>2. Len(pend[c]) \in Nat \ {0} /\ Head(pend[c]) = pend[c][1] BY <1>2
  <2>3. /\ Len(Tail(pend[c])) = Len(pend[c]) - 1
        /\ \A n \in 1 .. Len(Tail(pend[c])) :
             n + 1 \in 1 .. Len(pend[c]) /\ Tail(pend[c])[n] = pend[c][n + 1]
    BY <1>2, RangeTail
  <2> QED BY <2>1, <2>2, <2>3, <1>3
<1>13. \A j \in Queued(c)' : \E n \in 1 .. Len(pend'[c]) : j = pend'[c][n]
  <2>1. Tail(pend[c]) \in Seq(Nat \ {0}) BY <1>2, RangeTail
  <2> QED BY <2>1, <1>6 DEF Queued, Range
<1>14. HandedOnce'
  <2>1. ASSUME NEW d \in Channels, NEW m \in 1 .. Len(pend'[d]), NEW n \in 1 .. Len(pend'[d]),
               m # n, pend'[d][m] = pend'[d][n]
        PROVE  pend'[d][m] \in failed[d]
    <3>1. CASE d # c BY <3>1, <2>1, <1>6 DEF Ledger, HandedOnce
    <3>2. CASE d = c
      <4>1. /\ m + 1 \in 1 .. Len(pend[c]) /\ n + 1 \in 1 .. Len(pend[c]) /\ m + 1 # n + 1
            /\ pend[c][m + 1] = pend[c][n + 1] /\ pend'[c][m] = pend[c][m + 1]
        <5>1. m \in 1 .. Len(pend'[c]) /\ n \in 1 .. Len(pend'[c]) BY <3>2
        <5>2. m + 1 \in 1 .. Len(pend[c]) /\ pend'[c][m] = pend[c][m + 1] BY <5>1, <1>12
        <5>3. n + 1 \in 1 .. Len(pend[c]) /\ pend'[c][n] = pend[c][n + 1] BY <5>1, <1>12
        <5>4. m + 1 # n + 1 BY <2>1, <5>1
        <5> QED BY <3>2, <2>1, <5>2, <5>3, <5>4
      <4> QED BY <4>1, <3>2 DEF Ledger, HandedOnce
    <3> QED BY <3>1, <3>2
  <2>2. ASSUME NEW d \in Channels, NEW u \in Workers, NEW v \in Workers,
               wch[u] = d, cur'[u] # 0, u # v, wch[v] = d, cur'[u] = cur'[v]
        PROVE  cur'[u] \in failed[d]
    <3>1. CASE u # w /\ v # w
      BY <3>1, <2>2, <1>4, <1>5 DEF Ledger, HandedOnce
    <3>2. CASE u = w \/ v = w
      <4>1. d = c /\ cur'[u] = i /\ i \in Held(c)
        BY <3>2, <2>2, <1>1, <1>4, <1>5 DEF Held
      <4> QED BY <4>1, <1>6 DEF Ledger, HandedOnce
    <3> QED BY <3>1, <3>2
  <2>3. i \in Queued(c)' => i \in failed[c]
    <3>1. ASSUME i \in Queued(c)' PROVE i \in failed[c]
      <4>1. PICK n \in 1 .. Len(pend'[c]) : i = pend'[c][n] BY <3>1, <1>13
      <4>2. n + 1 \in 1 .. Len(pend[c]) /\ 1 \in 1 .. Len(pend[c]) /\ n + 1 # 1
            /\ pend[c][1] = pend[c][n + 1]
        <5>1. n + 1 \in 1 .. Len(pend[c]) /\ pend'[c][n] = pend[c][n + 1] BY <1>12
        <5> QED BY <4>1, <5>1, <1>12
      <4> QED BY <4>2, <1>12 DEF Ledger, HandedOnce
    <3> QED BY <3>1
  <2>4. \A d \in Channels : Queued(d)' \cap Held(d)' \subseteq failed[d]
    BY <2>3, <1>6, <1>7 DEF Ledger, HandedOnce
  <2>5. \A d \in Channels : done[d] \cap (Queued(d)' \cup Held(d)') \subseteq failed[d]
    BY <1>6, <1>7 DEF Ledger, HandedOnce
  <2> QED BY <2>1, <2>2, <2>4, <2>5, <1>4 DEF HandedOnce
<1>15. HandoutInOrder'
  <2>1. ASSUME NEW d \in Channels, NEW m \in 1 .. Len(pend'[d]), NEW n \in 1 .. Len(pend'[d]),
               m < n
        PROVE  pend'[d][m] <= pend'[d][n]
    <3>1. CASE d # c BY <3>1, <2>1, <1>6 DEF Ledger, HandoutInOrder
    <3>2. CASE d = c
      <4>1. /\ m + 1 \in 1 .. Len(pend[c]) /\ n + 1 \in 1 .. Len(pend[c]) /\ m + 1 < n + 1
            /\ pend'[c][n] = pend[c][n + 1] /\ pend'[c][m] = pend[c][m + 1]
        <5>1. m \in 1 .. Len(pend'[c]) /\ n \in 1 .. Len(pend'[c]) BY <3>2
        <5>2. m + 1 \in 1 .. Len(pend[c]) /\ pend'[c][m] = pend[c][m + 1] BY <5>1, <1>12
        <5>3. n + 1 \in 1 .. Len(pend[c]) /\ pend'[c][n] = pend[c][n + 1] BY <5>1, <1>12
        <5>4. m + 1 < n + 1 BY <2>1, <5>1
        <5> QED BY <5>2, <5>3, <5>4
      <4> QED BY <4>1, <3>2 DEF Ledger, HandoutInOrder
    <3> QED BY <3>1, <3>2
  <2>2. \A j \in Queued(c)' : i <= j
    <3>1. TAKE j \in Queued(c)'
    <3>2. PICK n \in 1 .. Len(pend'[c]) : j = pend'[c][n] BY <1>13
    <3>3. n + 1 \in 1 .. Len(pend[c]) /\ 1 \in 1 .. Len(pend[c]) /\ 1 < n + 1
          /\ j = pend[c][n + 1]
      BY <3>2, <1>12
    <3> QED BY <3>3, <1>12 DEF Ledger, HandoutInOrder
  <2>3. \A d \in Channels : \A j \in Held(d)', k \in Queued(d)' : j <= k
    <3>1. TAKE d \in Channels
    <3>2. CASE d # c BY <3>2, <1>6, <1>7 DEF Ledger, HandoutInOrder
    <3>3. CASE d = c BY <3>3, <2>2, <1>6, <1>7 DEF Ledger, HandoutInOrder
    <3> QED BY <3>2, <3>3
  <2> QED BY <2>1, <2>3 DEF HandoutInOrder
<1>16. NothingLost' BY <1>4, <1>6, <1>7 DEF Ledger, NothingLost
<1> QED BY <1>9, <1>10, <1>11, <1>14, <1>15, <1>16 DEF Ledger

\* A worker answers OK: its id moves from the held ids to the answered ones.
LEMMA OkLedger ==
  ASSUME Control, Ledger, NEW w \in Workers, Ok(w)
  PROVE  Ledger'
<1>1. PICK c \in Channels : c = wch[w]
  BY DEF Control, Places, Ok
<1>2. PICK i \in Nat \ {0} : i = cur[w]
  BY DEF Control, TypeOK, Places, Ok, Holding
<1>3. /\ cur' = [cur EXCEPT ![w] = 0] /\ done' = [done EXCEPT ![c] = @ \cup {i}]
      /\ UNCHANGED <<phase, seq, jobs, pend, ppc, pch, wch, failed>>
  BY <1>1, <1>2 DEF Ok, Turn, proc, disk, broker, http
<1>4. cur \in [Workers -> Nat] /\ done \in [Channels -> SUBSET Nat] BY DEF Control, TypeOK
<1>5. \A d \in Channels : Queued(d)' = Queued(d) /\ Open(d)' = Open(d)
  BY <1>3 DEF Queued, Open, NextId
<1>6. /\ \A v \in Workers : cur'[v] = IF v = w THEN 0 ELSE cur[v]
      /\ Held(c) = Held(c)' \cup {i}
      /\ \A d \in Channels \ {c} : Held(d)' = Held(d)
  <2>1. \A v \in Workers : cur'[v] = IF v = w THEN 0 ELSE cur[v] BY <1>3, <1>4
  <2> QED BY <2>1, <1>1, <1>2, <1>3 DEF Held
<1>7. /\ done'[c] = done[c] \cup {i}
      /\ \A d \in Channels \ {c} : done'[d] = done[d]
  BY <1>3, <1>4
<1>8. Numbered' BY <1>3 DEF Ledger, Numbered
<1>9. Sources' BY <1>3, <1>5, <1>6, <1>7 DEF Ledger, Sources
<1>10. OpenIsOut' BY <1>5, <1>6, <1>7 DEF Ledger, OpenIsOut
<1>11. HandedOnce'
  <2>1. i \in Queued(c) => i \in failed[c] BY <1>6 DEF Ledger, HandedOnce
  <2>2. i \in Held(c)' => i \in failed[c]
    <3>1. ASSUME i \in Held(c)' PROVE i \in failed[c]
      <4>1. PICK v \in Workers : wch[v] = c /\ cur'[v] = i BY <3>1, <1>3 DEF Held
      <4>2. v # w /\ cur[v] = i BY <4>1, <1>6
      <4> QED BY <4>1, <4>2, <1>1, <1>2 DEF Ledger, HandedOnce
    <3> QED BY <3>1
  <2>3. \A d \in Channels : done'[d] \cap (Queued(d) \cup Held(d)') \subseteq failed[d]
    BY <2>1, <2>2, <1>6, <1>7 DEF Ledger, HandedOnce
  <2>4. \A d \in Channels : Queued(d) \cap Held(d)' \subseteq failed[d]
    BY <1>6 DEF Ledger, HandedOnce
  <2>5. ASSUME NEW d \in Channels, NEW u \in Workers, NEW v \in Workers,
               wch[u] = d, cur'[u] # 0, u # v, wch[v] = d, cur'[u] = cur'[v]
        PROVE  cur'[u] \in failed[d]
    <3>1. u # w /\ v # w BY <2>5, <1>6
    <3> QED BY <3>1, <2>5, <1>6 DEF Ledger, HandedOnce
  <2>6. \A d \in Channels : \A m, n \in 1 .. Len(pend[d]) :
          m # n /\ pend[d][m] = pend[d][n] => pend[d][m] \in failed[d]
    BY DEF Ledger, HandedOnce
  <2> QED BY <2>3, <2>4, <2>5, <2>6, <1>3, <1>5 DEF HandedOnce
<1>12. HandoutInOrder' BY <1>3, <1>5, <1>6 DEF Ledger, HandoutInOrder
<1>13. NothingLost' BY <1>3, <1>5, <1>6, <1>7 DEF Ledger, NothingLost
<1> QED BY <1>8, <1>9, <1>10, <1>11, <1>12, <1>13 DEF Ledger

\* The facts about ids under the steps of a handler.
LEMMA HandlerLedger ==
  ASSUME Control, Ledger, NEW p \in Producers, HandlerNext(p)
  PROVE  Ledger'
<1> USE DEF proc, disk, broker, http, conns, hist, Answered
<1>0. ppc \in [Producers -> Answered \cup TxPhases \cup {"lock"}]
      /\ pch \in [Producers -> Channels \cup {None}]
  BY DEF Control, TypeOK
<1>1. ASSUME NEW c \in Channels, Request(p, c) PROVE Ledger' BY <1>0, <1>1, Frame DEF Request
<1>2. CASE Refuse(p) BY <1>0, <1>2, Frame DEF Refuse
<1>3. CASE Acquire(p) BY <1>0, <1>3, Frame DEF Acquire
<1>4. CASE Dump(p)
  <2>1. CASE Rollback(p) BY <1>0, <1>4, <2>1, Frame DEF Dump, Rollback
  <2>2. CASE /\ ppc' = [ppc EXCEPT ![p] = IF pch[p] \in chans THEN "send" ELSE "make"]
             /\ UNCHANGED <<rw, pch>>
    BY <1>0, <1>4, <2>2, Frame DEF Dump
  <2> QED BY <1>4, <2>1, <2>2 DEF Dump
<1>5. CASE Make(p) BY <1>0, <1>5, Frame DEF Make
<1>6. CASE Send(p) BY <1>6, SendLedger
<1>7. CASE Commit(p) BY <1>7, CommitLedger
<1>8. CASE CommitFails(p) BY <1>8, CommitFailsLedger
<1> QED BY <1>1, <1>2, <1>3, <1>4, <1>5, <1>6, <1>7, <1>8 DEF HandlerNext

\* The facts about ids under the steps of a connection.
LEMMA WorkerLedger ==
  ASSUME Control, Ledger, NEW w \in Workers, WorkerNext(w)
  PROVE  Ledger'
<1> USE DEF proc, disk, broker, http, conns, hist, Turn
<1>0. /\ wch \in [Workers -> Channels \cup {None}]
      /\ \A v \in Workers : cur[v] # 0 => wpc[v] \in Holding
  BY DEF Control, TypeOK, Places
<1>1. CASE Connect(w) BY <1>1, Frame DEF Connect
<1>2. ASSUME NEW c \in Channels, Chan(w, c) PROVE Ledger' BY <1>0, <1>2, Frame DEF Chan, Holding
<1>3. CASE BareChan(w) BY <1>3, DieLedger DEF BareChan
<1>4. CASE Drop(w) BY <1>0, <1>4, Frame DEF Drop, Hangup, Holding
<1>5. CASE Ready(w) BY <1>5, Frame DEF Ready
<1>6. CASE ReadyRace(w) BY <1>6, DieLedger DEF ReadyRace
<1>7. CASE Recv(w) BY <1>7, RecvLedger
<1>8. CASE View(w) BY <1>8, Frame DEF View
<1>9. CASE ViewPanic(w) BY <1>9, DieLedger DEF ViewPanic
<1>10. CASE Deliver(w) BY <1>10, Frame DEF Deliver
<1>11. CASE DeliverFails(w) BY <1>11, Frame DEF DeliverFails, Stick
<1>12. CASE Abandon(w) BY <1>12, Frame DEF Abandon, Stick
<1>13. CASE Pong(w) BY <1>13, Frame DEF Pong
<1>14. CASE Ok(w) BY <1>14, OkLedger
<1>15. CASE Expire(w) BY <1>15, Frame DEF Expire
<1> QED BY <1>1, <1>2, <1>3, <1>4, <1>5, <1>6, <1>7, <1>8, <1>9, <1>10, <1>11, <1>12, <1>13, <1>14, <1>15 DEF WorkerNext

\* Every step keeps the facts about ids.
LEMMA LedgerStep == Control /\ Ledger /\ [Next]_vars => Ledger'
<1> SUFFICES ASSUME Control, Ledger, [Next]_vars PROVE Ledger'
  OBVIOUS
<1> USE DEF proc, disk, broker, http, conns, hist
<1>1. CASE UNCHANGED vars BY <1>1, Frame DEF vars
<1>2. CASE Kill BY <1>2, DieLedger DEF Kill
<1>3. CASE Load
  \* Without a bucket nothing is stored: there is nothing to lose.
  <2>1. \A c \in Channels : jobs[c] = {}
    BY <1>3 DEF Load, Buckets, Ledger, Numbered, Control, TypeOK
  <2> QED BY <1>3, <2>1, Frame DEF Load, Start
<1>4. CASE LoadPanics BY <1>4, Frame DEF LoadPanics, Start
<1>5. CASE \E p \in Producers : HandlerNext(p) BY <1>5, HandlerLedger
<1>6. CASE \E w \in Workers : WorkerNext(w) BY <1>6, WorkerLedger
<1> QED BY <1>1, <1>2, <1>3, <1>4, <1>5, <1>6 DEF Next

\* At first there is no job, and no process.
LEMMA InitInv == Init => Control /\ Ledger
<1> SUFFICES ASSUME Init PROVE Control /\ Ledger
  OBVIOUS
<1>1. Control
  BY DEF Init, Control, TypeOK, Locked, Places, InFlight, TxPhases, Answered, Holding
<1>2. \A c \in Channels : Queued(c) = {} BY DEF Init, Queued, Range
<1>3. \A c \in Channels : Held(c) = {} /\ Open(c) = {} BY DEF Init, Held, Open
<1>4. Numbered /\ Sources /\ OpenIsOut
  BY <1>2, <1>3 DEF Init, Numbered, Sources, OpenIsOut
<1>5. HandedOnce
  <2>1. \A c \in Channels : Len(pend[c]) = 0 BY DEF Init
  <2> QED BY <2>1, <1>2, <1>3 DEF Init, HandedOnce
<1>6. HandoutInOrder
  <2>1. \A c \in Channels : Len(pend[c]) = 0 BY DEF Init
  <2> QED BY <2>1, <1>2, <1>3 DEF HandoutInOrder
<1>7. NothingLost BY DEF Init, NothingLost
<1> QED BY <1>1, <1>4, <1>5, <1>6, <1>7 DEF Ledger

\* The inductive invariant holds in every reachable state.
THEOREM Invariance == Spec => []Inv
<1>1. Init => Inv BY InitInv, InvParts
<1>2. Inv /\ [Next]_vars => Inv'
  <2> SUFFICES ASSUME Inv, [Next]_vars PROVE Inv'
    OBVIOUS
  <2>1. Control' /\ Ledger' BY ControlStep, LedgerStep, InvParts
  <2> QED BY <2>1 DEF Inv, Control, Ledger
<1> QED BY <1>1, <1>2, PTL DEF Spec

\* However handlers, workers, crashes and failed commits interleave, an id whose
\* transaction commits is never in two places at once.
THEOREM NeverHandedTwice == Spec => []HandedOnce
BY Invariance, PTL DEF Inv

\* Handlers publish, and workers receive, in the order of the ids.
THEOREM AlwaysInOrder == Spec => []HandoutInOrder
BY Invariance, PTL DEF Inv

\* While the process runs, a stored job is waiting, held, or was answered OK.
THEOREM NeverLost == Spec => []NothingLost
BY Invariance, PTL DEF Inv

\* A worker can only be given what is stored, being stored, or failed to be.
THEOREM NeverInvented == Spec => []NothingInvented
<1>1. Inv => NothingInvented BY DEF Inv, Sources, NothingInvented
<1> QED BY <1>1, Invariance, PTL
=============================================================================
