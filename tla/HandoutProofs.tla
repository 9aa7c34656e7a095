--------------------------- MODULE HandoutProofs ---------------------------
(* Without failed commits the queue implements JobHandout, for all numbers *)
(* of handlers, connections, channels and ids: its initial states are      *)
(* initial there, and each of its steps is one there, or changes no status.*)
EXTENDS QueueProofs, FiniteSetTheorems

-----------------------------------------------------------------------------
(* The invariant *)

\* No commit has failed, so no id was published in vain.
NoneFailed == \A c \in Channels : failed[c] = {}

\* The handlers with a request for a channel.  They are finitely many, even if
\* Producers is not, and their ids are within the bound of the model.
Asking(c) == {q \in Producers : pch[q] = c}
Fits == \A c \in Channels :
  IsFiniteSet(Asking(c)) /\ seq[c] + Cardinality(Asking(c)) <= MaxSeq

HandoutInv == Inv /\ NoneFailed /\ Fits

USE QueueAssumption DEF QueueAssumption

\* Steps that leave every request where it is, and number none.
LEMMA SameAsking ==
  ASSUME Fits, UNCHANGED <<seq, pch>>
  PROVE  Fits'
BY DEF Fits, Asking

\* A handler is done with its request, which may have been numbered.
LEMMA FewerAsking ==
  ASSUME Control, Fits, NEW p \in Producers, NEW c \in Channels, pch[p] = c,
         pch' = [pch EXCEPT ![p] = None], seq' \in {seq, [seq EXCEPT ![c] = @ + 1]}
  PROVE  Fits'
<1>1. seq \in [Channels -> Nat] /\ pch \in [Producers -> Channels \cup {None}] BY DEF Control, TypeOK
<1>2. Asking(c)' = Asking(c) \ {p} BY <1>1 DEF Asking
<1>3. \A d \in Channels \ {c} : Asking(d)' = Asking(d) BY <1>1 DEF Asking
<1>4. IsFiniteSet(Asking(c)') /\ Cardinality(Asking(c)') = Cardinality(Asking(c)) - 1
  BY <1>2, FS_RemoveElement DEF Fits, Asking
<1>5. IsFiniteSet(Asking(c)) /\ Cardinality(Asking(c)) \in Nat BY FS_CardinalityType DEF Fits
<1>6. seq[c] + Cardinality(Asking(c)) <= MaxSeq BY DEF Fits
<1>7. seq'[c] <= seq[c] + 1 /\ seq'[c] \in Nat /\ \A d \in Channels \ {c} : seq'[d] = seq[d]
  BY <1>1
<1>8. seq'[c] + Cardinality(Asking(c)') <= MaxSeq BY <1>1, <1>4, <1>5, <1>6, <1>7
<1>9. \A d \in Channels \ {c} : IsFiniteSet(Asking(d)') /\ seq'[d] + Cardinality(Asking(d)') <= MaxSeq
  BY <1>3, <1>7 DEF Fits
<1> QED BY <1>4, <1>8, <1>9 DEF Fits

\* A request is made only within the bound.
LEMMA MoreAsking ==
  ASSUME Control, Fits, NEW p \in Producers, NEW c \in Channels, Request(p, c)
  PROVE  Fits'
<1>1. seq \in [Channels -> Nat] /\ pch \in [Producers -> Channels \cup {None}] BY DEF Control, TypeOK
<1>2. pch[p] \notin Channels BY DEF Control, Places, InFlight, Request, Answered, TxPhases
<1>3. pch' = [pch EXCEPT ![p] = c] /\ seq' = seq /\ seq[c] + Cardinality(Asking(c)) < MaxSeq
  BY DEF Request, disk, Asking
<1>4. Asking(c)' = Asking(c) \cup {p} /\ p \notin Asking(c) BY <1>1, <1>2, <1>3 DEF Asking
<1>5. \A d \in Channels \ {c} : Asking(d)' = Asking(d) BY <1>1, <1>2, <1>3 DEF Asking
<1>6. IsFiniteSet(Asking(c)) /\ Cardinality(Asking(c)) \in Nat BY FS_CardinalityType DEF Fits
<1>7. IsFiniteSet(Asking(c)') /\ Cardinality(Asking(c)') = Cardinality(Asking(c)) + 1
  BY <1>4, <1>6, FS_AddElement
<1>8. seq'[c] + Cardinality(Asking(c)') <= MaxSeq BY <1>1, <1>3, <1>6, <1>7
<1>9. \A d \in Channels \ {c} : IsFiniteSet(Asking(d)') /\ seq'[d] + Cardinality(Asking(d)') <= MaxSeq
  BY <1>3, <1>5 DEF Fits
<1> QED BY <1>7, <1>8, <1>9 DEF Fits

\* The requests of a process end with it.
LEMMA NoneAsking ==
  ASSUME Control, Fits, NEW how \in {"down", "panic"}, Die(how)
  PROVE  Fits' /\ NoneFailed'
<1>1. \A c \in Channels : Asking(c)' = {} BY DEF Asking, Die, FreshMemory
<1>2. seq' = seq /\ seq \in [Channels -> Nat] BY DEF Die, disk, Control, TypeOK
<1>3. \A c \in Channels : IsFiniteSet(Asking(c)) /\ Cardinality(Asking(c)) \in Nat
  BY FS_CardinalityType DEF Fits
<1>4. \A c \in Channels : seq[c] <= MaxSeq BY <1>2, <1>3 DEF Fits
<1>5. Fits'
  <2>1. IsFiniteSet({}) /\ Cardinality({}) = 0 BY FS_EmptySet
  <2>2. \A c \in Channels : IsFiniteSet(Asking(c)') /\ Cardinality(Asking(c)') = 0 BY <1>1, <2>1
  <2> QED BY <1>2, <1>4, <2>2 DEF Fits
<1>6. NoneFailed' BY DEF NoneFailed, Die, FreshMemory
<1> QED BY <1>5, <1>6

\* The bound and the absence of failed commits under every step.
LEMMA BoundStep ==
  ASSUME MaxFaults = 0, Control, NoneFailed, Fits, [Next]_vars
  PROVE  NoneFailed' /\ Fits'
<1> USE DEF proc, disk, broker, http, conns, hist
<1>1. CASE UNCHANGED vars BY <1>1, SameAsking DEF vars, NoneFailed
<1>2. CASE Kill BY <1>2, NoneAsking DEF Kill
<1>3. CASE Load \/ LoadPanics BY <1>3, SameAsking DEF Load, LoadPanics, Start, NoneFailed
<1>4. ASSUME NEW p \in Producers, HandlerNext(p) PROVE NoneFailed' /\ Fits'
  <2>1. ASSUME NEW c \in Channels, Request(p, c) PROVE NoneFailed' /\ Fits'
    BY <2>1, MoreAsking DEF Request, NoneFailed
  <2>2. CASE Refuse(p) BY <2>2, SameAsking DEF Refuse, NoneFailed
  <2>3. CASE Acquire(p) BY <2>3, SameAsking DEF Acquire, NoneFailed
  <2>4. CASE Dump(p)
    <3>1. pch[p] \in Channels BY <2>4, OneOpen DEF Dump, TxPhases
    <3>2. seq' = seq /\ failed' = failed BY <2>4 DEF Dump
    <3>3. CASE Rollback(p) BY <3>1, <3>2, <3>3, FewerAsking DEF Rollback, NoneFailed
    <3>4. CASE UNCHANGED <<rw, pch>> BY <3>2, <3>4, SameAsking DEF NoneFailed
    <3> QED BY <2>4, <3>3, <3>4 DEF Dump
  <2>5. CASE Make(p) BY <2>5, SameAsking DEF Make, NoneFailed
  <2>6. CASE Send(p) BY <2>6, SameAsking DEF Send, NoneFailed
  <2>7. CASE Commit(p)
    <3>1. pch[p] \in Channels BY <2>7, OneOpen DEF Commit, TxPhases
    <3>2. seq' = [seq EXCEPT ![pch[p]] = @ + 1] /\ pch' = [pch EXCEPT ![p] = None] /\ failed' = failed
      BY <2>7 DEF Commit, NextId
    <3> QED BY <3>1, <3>2, FewerAsking DEF NoneFailed
  <2>8. CASE CommitFails(p) BY <2>8 DEF CommitFails, Control, TypeOK
  <2> QED BY <1>4, <2>1, <2>2, <2>3, <2>4, <2>5, <2>6, <2>7, <2>8 DEF HandlerNext
<1>5. ASSUME NEW w \in Workers, WorkerNext(w) PROVE NoneFailed' /\ Fits'
  <2>1. CASE BareChan(w) \/ ReadyRace(w) \/ ViewPanic(w)
    BY <2>1, NoneAsking DEF BareChan, ReadyRace, ViewPanic
  <2>2. CASE UNCHANGED <<seq, pch, failed>> BY <2>2, SameAsking DEF NoneFailed
  <2> QED BY <1>5, <2>1, <2>2
      DEF WorkerNext, Chan, Connect, Drop, Hangup, Ready, Recv, View, Deliver, DeliverFails,
          Abandon, Stick, Pong, Ok, Expire
<1> QED BY <1>1, <1>2, <1>3, <1>4, <1>5 DEF Next

LEMMA HandoutInvariance ==
  ASSUME MaxFaults = 0
  PROVE  Spec => []HandoutInv
<1>1. Init => NoneFailed /\ Fits
  <2> SUFFICES ASSUME Init PROVE NoneFailed /\ Fits
    OBVIOUS
  <2>1. \A c \in Channels : Asking(c) = {} /\ seq[c] = 0 BY DEF Init, Asking
  <2>2. IsFiniteSet({}) /\ Cardinality({}) = 0 BY FS_EmptySet
  <2>3. \A c \in Channels : IsFiniteSet(Asking(c)) /\ Cardinality(Asking(c)) = 0 BY <2>1, <2>2
  <2>4. Fits BY <2>1, <2>3 DEF Fits
  <2> QED BY <2>4 DEF Init, NoneFailed
<1>2. Init => HandoutInv BY <1>1, InitInv, InvParts DEF HandoutInv
<1>3. HandoutInv /\ [Next]_vars => HandoutInv'
  <2> SUFFICES ASSUME HandoutInv, [Next]_vars PROVE HandoutInv'
    OBVIOUS
  <2>1. Control /\ Ledger BY InvParts DEF HandoutInv
  <2>2. Control' /\ Ledger' BY <2>1, ControlStep, LedgerStep
  <2>3. Inv' BY <2>2 DEF Inv, Control, Ledger
  <2> QED BY <2>1, <2>3, BoundStep DEF HandoutInv
<1> QED BY <1>2, <1>3, PTL DEF Spec

-----------------------------------------------------------------------------
(* What a step does to the status of an id *)

\* The number that a request is given is within the bound.
LEMMA NextFits ==
  ASSUME Control, Fits, NEW p \in Producers, NEW c \in Channels, pch[p] = c
  PROVE  NextId(c) \in 1 .. MaxSeq
<1>1. IsFiniteSet(Asking(c)) /\ seq[c] + Cardinality(Asking(c)) <= MaxSeq BY DEF Fits
<1>2. p \in Asking(c) BY DEF Asking
<1>3. Cardinality(Asking(c)) \in Nat /\ Cardinality(Asking(c)) # 0
  BY <1>1, <1>2, FS_CardinalityType, FS_EmptySet
<1>4. seq[c] \in Nat BY DEF Control, TypeOK
<1> QED BY <1>1, <1>3, <1>4 DEF NextId

\* Where the ids of a channel are while no commit has failed: in one place at
\* most, and none beyond the one whose transaction is open.
LEMMA IdPlaces ==
  ASSUME HandoutInv, NEW c \in Channels
  PROVE  /\ seq[c] \in Nat /\ jobs[c] = 1 .. seq[c]
         /\ Queued(c) \cup Held(c) \cup done[c] \subseteq 1 .. seq[c] + 1
         /\ Queued(c) \cup Held(c) \cup done[c] \subseteq 1 .. MaxSeq
         /\ Queued(c) \cap Held(c) = {} /\ done[c] \cap (Queued(c) \cup Held(c)) = {}
         /\ NextId(c) \in Queued(c) \cup Held(c) \cup done[c] => Open(c) = {NextId(c)}
<1>1. Control /\ Ledger /\ failed[c] = {} BY InvParts DEF HandoutInv, NoneFailed
<1>2. seq[c] \in Nat /\ jobs[c] = 1 .. seq[c] BY <1>1 DEF Control, TypeOK, Ledger, Numbered
<1>3. Queued(c) \cup Held(c) \cup done[c] \subseteq 1 .. seq[c] + 1 BY <1>1, IdBounds
<1>4. NextId(c) \in Queued(c) \cup Held(c) \cup done[c] => Open(c) = {NextId(c)}
  BY <1>1, IdBounds DEF Open
<1>5. Queued(c) \cap Held(c) = {} /\ done[c] \cap (Queued(c) \cup Held(c)) = {}
  BY <1>1 DEF Ledger, HandedOnce
<1>6. seq[c] <= MaxSeq
  <2>1. IsFiniteSet(Asking(c)) /\ seq[c] + Cardinality(Asking(c)) <= MaxSeq BY DEF HandoutInv, Fits
  <2> QED BY <1>2, <2>1, FS_CardinalityType
<1>7. ASSUME NEW i \in Queued(c) \cup Held(c) \cup done[c] PROVE i \in 1 .. MaxSeq
  <2>1. CASE i = NextId(c)
    <3>1. PICK p \in Producers : pch[p] = c BY <1>4, <1>7, <2>1 DEF Open
    <3> QED BY <1>1, <2>1, <3>1, NextFits DEF HandoutInv
  <2>2. CASE i # NextId(c) BY <1>2, <1>3, <1>6, <1>7, <2>2 DEF NextId
  <2> QED BY <2>1, <2>2
<1> QED BY <1>2, <1>3, <1>4, <1>5, <1>7

\* A step that moves no id changes no status.
LEMMA SameStatus ==
  ASSUME UNCHANGED <<jobs, pend, cur, done>>,
         \A w \in Workers : cur[w] # 0 => wch'[w] = wch[w]
  PROVE  UNCHANGED status
<1>1. \A c \in Channels : Queued(c)' = Queued(c) BY DEF Queued
<1>2. \A c \in Channels : Held(c)' = Held(c) BY DEF Held
<1> QED BY <1>1, <1>2 DEF status

\* A function of functions that differs from another in one place.
LEMMA OneChanged ==
  ASSUME NEW C, NEW I, NEW S, NEW f \in [C -> [I -> S]], NEW g \in [C -> [I -> S]],
         NEW c \in C, NEW i \in I, NEW to, g[c][i] = to,
         \A j \in I : j # i => g[c][j] = f[c][j],
         \A d \in C : d # c => g[d] = f[d]
  PROVE  g = [f EXCEPT ![c][i] = to]
<1>1. f[c] \in [I -> S] /\ g[c] \in [I -> S] OBVIOUS
<1>2. g[c] = [f[c] EXCEPT ![i] = to] BY <1>1
<1> QED BY <1>2

\* A step that gives one id another status is a move of JobHandout.
LEMMA OneMove ==
  ASSUME NEW c \in Channels, NEW i \in 1 .. MaxSeq, NEW to,
         status'[c][i] = to,
         \A j \in 1 .. MaxSeq : j # i => status'[c][j] = status[c][j],
         \A d \in Channels : d # c => status'[d] = status[d]
  PROVE  Handout!Move(c, i, to)
<1> DEFINE Known == {"held", "queued", "done", "stranded", "free"}
<1>1. status \in [Channels -> [1 .. MaxSeq -> Known]] BY DEF status
<1>2. status' \in [Channels -> [1 .. MaxSeq -> Known]] BY DEF status
<1> QED BY <1>1, <1>2, OneChanged DEF Handout!Move

\* What each status says about an id.
StatusOf(c, i) ==
  IF i \in Held(c) THEN "held"
  ELSE IF i \in Queued(c) THEN "queued"
  ELSE IF i \in done[c] THEN "done"
  ELSE IF i \in jobs[c] THEN "stranded"
  ELSE "free"

LEMMA StatusIs ==
  /\ \A c \in Channels, i \in 1 .. MaxSeq : status[c][i] = StatusOf(c, i)
  /\ \A c \in Channels, i \in 1 .. MaxSeq : status'[c][i] = StatusOf(c, i)'
BY DEF status, StatusOf

\* A channel none of whose sets changes keeps its statuses.
LEMMA OtherChannels ==
  ASSUME NEW d \in Channels, Held(d)' = Held(d), Queued(d)' = Queued(d),
         done'[d] = done[d], jobs'[d] = jobs[d]
  PROVE  status'[d] = status[d]
BY DEF status

\* Send publishes the next number.
LEMMA SendPublishes ==
  ASSUME HandoutInv, NEW p \in Producers, Send(p)
  PROVE  \E c \in Channels : Handout!Publish(c)
<1>1. Control /\ Ledger /\ Fits BY InvParts DEF HandoutInv
<1>2. PICK c \in Channels : c = pch[p] BY <1>1, OneOpen DEF Send, TxPhases
<1>3. PICK i : i = NextId(c) OBVIOUS
<1>4. i \in 1 .. MaxSeq BY <1>1, <1>2, <1>3, NextFits
<1>5. Open(c) = {} BY <1>1, <1>2, OneOpen DEF Send, TxPhases
<1>6. i \notin Queued(c) \cup Held(c) \cup done[c] BY <1>3, <1>5, IdPlaces
<1>7. jobs[c] = 1 .. i - 1 /\ i \in Nat \ {0} BY <1>3, IdPlaces DEF NextId
<1>8. UNCHANGED <<jobs, wch, cur, done>> /\ pend' = [pend EXCEPT ![c] = Append(@, i)]
  BY <1>2, <1>3 DEF Send, disk, conns, hist
<1>9. \A d \in Channels : Held(d)' = Held(d) BY <1>8 DEF Held
<1>10. Queued(c)' = Queued(c) \cup {i} /\ \A d \in Channels : d # c => Queued(d)' = Queued(d)
  <2>1. pend \in [Channels -> Seq(Nat \ {0})] BY <1>1 DEF Control, TypeOK
  <2>2. pend'[c] = Append(pend[c], i) /\ \A d \in Channels : d # c => pend'[d] = pend[d]
    BY <1>8, <2>1
  <2>3. pend[c] \in Seq(Nat \ {0}) /\ i \in Nat \ {0} BY <1>7, <2>1
  <2>4. Range(Append(pend[c], i)) = Range(pend[c]) \cup {i} BY <2>3, RangeAppend
  <2> QED BY <2>2, <2>4 DEF Queued
<1>11. StatusOf(c, i) = "free" BY <1>6, <1>7 DEF StatusOf
<1>12. \A j \in 1 .. i - 1 : StatusOf(c, j) # "free" BY <1>7 DEF StatusOf
<1>13. StatusOf(c, i)' = "queued" BY <1>6, <1>9, <1>10 DEF StatusOf
<1>14. \A j \in 1 .. MaxSeq : j # i => StatusOf(c, j)' = StatusOf(c, j)
  BY <1>8, <1>9, <1>10 DEF StatusOf
<1>15. \A d \in Channels : d # c => status'[d] = status[d] BY <1>8, <1>9, <1>10, OtherChannels
<1>16. Handout!Move(c, i, "queued") BY <1>4, <1>13, <1>14, <1>15, StatusIs, OneMove
<1>17. status[c][i] = "free" /\ \A j \in 1 .. i - 1 : status[c][j] # "free"
  BY <1>4, <1>11, <1>12, StatusIs
<1> QED BY <1>4, <1>16, <1>17 DEF Handout!Publish, Handout!With, Handout!Ids

\* Recv takes the least id that waits.
LEMMA RecvTakes ==
  ASSUME HandoutInv, NEW w \in Workers, Recv(w)
  PROVE  \E c \in Channels : Handout!Take(c)
<1>1. Control /\ Ledger /\ Fits BY InvParts DEF HandoutInv
<1>2. PICK c \in Channels : c = wch[w] BY <1>1 DEF Control, Places, Recv
<1>3. pend \in [Channels -> Seq(Nat \ {0})] /\ pend[c] # <<>> BY <1>1, <1>2 DEF Recv, Control, TypeOK
<1>4. PICK i : i = Head(pend[c]) OBVIOUS
<1>5. /\ i \in Nat \ {0} /\ Queued(c) = Range(Tail(pend[c])) \cup {i}
      /\ Len(pend[c]) \in Nat \ {0} /\ i = pend[c][1]
  <2>1. pend[c] \in Seq(Nat \ {0}) BY <1>3
  <2>2. i \in Nat \ {0} /\ Queued(c) = Range(Tail(pend[c])) \cup {i}
    BY <1>3, <1>4, <2>1, RangeTail DEF Queued
  <2>3. Len(pend[c]) \in Nat \ {0} /\ i = pend[c][1] BY <1>3, <1>4, <2>1
  <2> QED BY <2>2, <2>3
<1>6. UNCHANGED <<jobs, wch, done>> /\ pend' = [pend EXCEPT ![c] = Tail(@)]
  BY <1>2 DEF Recv, disk, hist
<1>7. cur' = [cur EXCEPT ![w] = i] BY <1>2, <1>4 DEF Recv
<1>8. cur \in [Workers -> Nat] /\ cur[w] = 0 BY <1>1 DEF Control, TypeOK, Places, Recv, Holding
<1>9. Queued(c) = Queued(c)' \cup {i} /\ \A d \in Channels : d # c => Queued(d)' = Queued(d)
  BY <1>3, <1>5, <1>6 DEF Queued
<1>10. Held(c)' = Held(c) \cup {i} BY <1>2, <1>5, <1>6, <1>7, <1>8 DEF Held
<1>11. \A d \in Channels : d # c => Held(d)' = Held(d) BY <1>2, <1>6, <1>7, <1>8 DEF Held
<1>12. i \in 1 .. MaxSeq BY <1>9, IdPlaces
<1>13. StatusOf(c, i) = "queued" BY <1>9, IdPlaces DEF StatusOf
<1>14. \A j \in Queued(c) : i <= j
  <2>1. ASSUME NEW j \in Queued(c) PROVE i <= j
    <3>1. PICK n \in 1 .. Len(pend[c]) : j = pend[c][n] BY <1>3, <2>1 DEF Queued, Range
    <3>2. n = 1 \/ 1 < n BY <1>5
    <3>3. 1 \in 1 .. Len(pend[c]) BY <1>5
    <3> QED BY <1>1, <1>5, <3>1, <3>2, <3>3 DEF Ledger, HandoutInOrder
  <2> QED BY <2>1
<1>15. \A j \in 1 .. MaxSeq : StatusOf(c, j) = "queued" => j \in Queued(c) BY DEF StatusOf
<1>16. StatusOf(c, i)' = "held" BY <1>10 DEF StatusOf
<1>17. \A j \in 1 .. MaxSeq : j # i => StatusOf(c, j)' = StatusOf(c, j)
  BY <1>6, <1>9, <1>10 DEF StatusOf
<1>18. \A d \in Channels : d # c => status'[d] = status[d] BY <1>6, <1>9, <1>11, OtherChannels
<1>19. Handout!Move(c, i, "held") BY <1>12, <1>16, <1>17, <1>18, StatusIs, OneMove
<1>20. status[c][i] = "queued" /\ \A j \in 1 .. MaxSeq : status[c][j] = "queued" => i <= j
  BY <1>12, <1>13, <1>14, <1>15, StatusIs
<1> QED BY <1>12, <1>19, <1>20 DEF Handout!Take, Handout!With, Handout!Ids

\* OK finishes the job of its connection.
LEMMA OkFinishes ==
  ASSUME HandoutInv, NEW w \in Workers, Ok(w)
  PROVE  \E c \in Channels : Handout!Finish(c)
<1>1. Control /\ Ledger /\ NoneFailed BY InvParts DEF HandoutInv
<1>2. PICK c \in Channels : c = wch[w] BY <1>1 DEF Control, Places, Ok
<1>3. PICK i \in Nat \ {0} : i = cur[w] BY <1>1 DEF Control, TypeOK, Places, Ok, Holding
<1>4. /\ cur' = [cur EXCEPT ![w] = 0] /\ done' = [done EXCEPT ![c] = @ \cup {i}]
      /\ UNCHANGED <<jobs, pend, wch>>
  BY <1>2, <1>3 DEF Ok, disk, broker
<1>5. cur \in [Workers -> Nat] /\ done \in [Channels -> SUBSET Nat] BY <1>1 DEF Control, TypeOK
<1>6. \A d \in Channels : Queued(d)' = Queued(d) BY <1>4 DEF Queued
<1>7. done'[c] = done[c] \cup {i} /\ \A d \in Channels : d # c => done'[d] = done[d]
  BY <1>4, <1>5
<1>8. \A v \in Workers : cur'[v] = IF v = w THEN 0 ELSE cur[v] BY <1>4, <1>5
<1>9. Held(c) = Held(c)' \cup {i} /\ \A d \in Channels : d # c => Held(d)' = Held(d)
  BY <1>2, <1>3, <1>4, <1>8 DEF Held
<1>10. i \notin Held(c)'
  <2>1. SUFFICES ASSUME i \in Held(c)' PROVE FALSE
    OBVIOUS
  <2>2. PICK v \in Workers : wch[v] = c /\ cur'[v] = i BY <1>4, <2>1 DEF Held
  <2>3. v # w /\ cur[v] = i BY <1>3, <1>8, <2>2
  <2> QED BY <1>1, <1>2, <1>3, <2>2, <2>3 DEF Ledger, HandedOnce, NoneFailed
<1>11. i \in 1 .. MaxSeq /\ i \notin Queued(c) BY <1>9, IdPlaces
<1>12. StatusOf(c, i) = "held" BY <1>9 DEF StatusOf
<1>13. StatusOf(c, i)' = "done" BY <1>6, <1>7, <1>10, <1>11 DEF StatusOf
<1>14. \A j \in 1 .. MaxSeq : j # i => StatusOf(c, j)' = StatusOf(c, j)
  BY <1>4, <1>6, <1>7, <1>9 DEF StatusOf
<1>15. \A d \in Channels : d # c => status'[d] = status[d]
  BY <1>4, <1>6, <1>7, <1>9, OtherChannels
<1>16. Handout!Move(c, i, "done") BY <1>11, <1>13, <1>14, <1>15, StatusIs, OneMove
<1>17. status[c][i] = "held" BY <1>11, <1>12, StatusIs
<1> QED BY <1>11, <1>16, <1>17 DEF Handout!Finish, Handout!With, Handout!Ids

\* A commit stores the id that is out already.
LEMMA CommitKeeps ==
  ASSUME HandoutInv, NEW p \in Producers, Commit(p)
  PROVE  UNCHANGED status
<1>1. Control /\ Ledger BY InvParts DEF HandoutInv
<1>2. PICK c \in Channels : c = pch[p] BY <1>1, OneOpen DEF Commit, TxPhases
<1>3. NextId(c) \in Queued(c) \cup Held(c) \cup done[c]
  <2>1. Open(c) = {NextId(c)} BY <1>2 DEF Open, Commit
  <2> QED BY <1>1, <2>1 DEF Ledger, OpenIsOut
<1>4. jobs' = [jobs EXCEPT ![c] = @ \cup {NextId(c)}] /\ UNCHANGED <<pend, wch, cur, done>>
  BY <1>2 DEF Commit, broker, hist
<1>5. jobs \in [Channels -> SUBSET Nat] BY <1>1 DEF Control, TypeOK
<1>6. \A d \in Channels : Queued(d)' = Queued(d) /\ Held(d)' = Held(d) BY <1>4 DEF Queued, Held
<1>7. \A d \in Channels, i \in 1 .. MaxSeq :
        i \in jobs'[d] => i \in jobs[d] \/ i \in Queued(d) \cup Held(d) \cup done[d]
  BY <1>3, <1>4, <1>5
<1>8. \A d \in Channels : jobs[d] \subseteq jobs'[d] BY <1>4, <1>5
<1>9. \A d \in Channels, i \in 1 .. MaxSeq : StatusOf(d, i)' = StatusOf(d, i)
  BY <1>4, <1>6, <1>7, <1>8 DEF StatusOf
<1>10. \A d \in Channels, i \in 1 .. MaxSeq : status'[d][i] = status[d][i] BY <1>9, StatusIs
<1> QED BY <1>10 DEF status

\* The end of the process strands what was not answered, and forgets the one id
\* whose transaction was open.
LEMMA DieCrashes ==
  ASSUME HandoutInv, NEW how \in {"down", "panic"}, Die(how)
  PROVE  Handout!Crash
<1> DEFINE lost == {ci \in Channels \X (1 .. MaxSeq) : Open(ci[1]) = {ci[2]}}
<1>1. Control /\ Ledger BY InvParts DEF HandoutInv
<1>2. \A c \in Channels : Queued(c)' = {} /\ Held(c)' = {} /\ done'[c] = done[c] \cap jobs[c]
  <2>1. \A c \in Channels : Queued(c)' = {} BY DEF Queued, Range, Die, FreshMemory
  <2>2. \A c \in Channels : Held(c)' = {} BY DEF Held, Die, FreshMemory
  <2> QED BY <2>1, <2>2 DEF Die
<1>3. jobs' = jobs BY DEF Die, disk
<1>4. \A x, y \in lost : x = y
  <2>1. ASSUME NEW c \in Channels, NEW d \in Channels, Open(c) # {}, Open(d) # {} PROVE c = d
    <3>1. PICK p \in Producers : ppc[p] = "commit" /\ pch[p] = c BY <2>1 DEF Open
    <3>2. PICK q \in Producers : ppc[q] = "commit" /\ pch[q] = d BY <2>1 DEF Open
    <3>3. p = q BY <1>1, <3>1, <3>2, OneOpen DEF TxPhases
    <3> QED BY <3>1, <3>2, <3>3
  <2>2. ASSUME NEW x \in lost, NEW y \in lost PROVE x = y
    <3>1. x[1] = y[1] BY <2>1, <2>2
    <3> QED BY <2>2, <3>1
  <2> QED BY <2>2
<1>5. ASSUME NEW c \in Channels, NEW i \in 1 .. MaxSeq, Open(c) = {i} PROVE Handout!IsLast(c, i)
  <2>1. i = NextId(c) BY <1>5 DEF Open
  <2>2. i \in Queued(c) \cup Held(c) \cup done[c] BY <1>1, <1>5 DEF Ledger, OpenIsOut
  <2>3. StatusOf(c, i) # "free" BY <2>2 DEF StatusOf
  <2>4. \A j \in i + 1 .. MaxSeq : StatusOf(c, j) = "free"
    <3>1. ASSUME NEW j \in i + 1 .. MaxSeq PROVE j \notin 1 .. seq[c] + 1
      BY <2>1, <3>1, IdPlaces DEF NextId
    <3>2. ASSUME NEW j \in i + 1 .. MaxSeq PROVE j \notin 1 .. seq[c]
      BY <2>1, <3>2, IdPlaces DEF NextId
    <3> QED BY <3>1, <3>2, IdPlaces DEF StatusOf
  <2>5. \A j \in i + 1 .. MaxSeq : j \in 1 .. MaxSeq OBVIOUS
  <2> QED BY <2>3, <2>4, <2>5, StatusIs DEF Handout!IsLast
<1>6. ASSUME NEW c \in Channels, NEW i \in 1 .. MaxSeq
      PROVE  status'[c][i] = IF Open(c) = {i} THEN "free"
                             ELSE IF status[c][i] \in {"queued", "held"} THEN "stranded"
                             ELSE status[c][i]
  <2>1. StatusOf(c, i)' = IF i \in done[c] \cap jobs[c] THEN "done"
                          ELSE IF i \in jobs[c] THEN "stranded" ELSE "free"
    BY <1>2, <1>3 DEF StatusOf
  <2>2. CASE Open(c) = {i}
    <3>1. i \notin jobs[c] BY <2>2, IdPlaces DEF Open, NextId
    <3> QED BY <2>1, <2>2, <3>1, StatusIs
  <2>3. CASE Open(c) # {i}
    <3>1. i \in Queued(c) \cup Held(c) \cup done[c] => i \in jobs[c]
      BY <2>3, IdPlaces DEF NextId
    <3>2. i \in Queued(c) \cup Held(c) => i \notin done[c] BY IdPlaces
    <3>3. StatusOf(c, i)' = IF StatusOf(c, i) \in {"queued", "held"} THEN "stranded"
                            ELSE StatusOf(c, i)
      BY <2>1, <3>1, <3>2 DEF StatusOf
    <3> QED BY <2>3, <3>3, StatusIs
  <2> QED BY <2>2, <2>3
<1>7. lost \in SUBSET {ci \in Channels \X (1 .. MaxSeq) : Handout!IsLast(ci[1], ci[2])}
  BY <1>5
<1>8. status' = [c \in Channels |-> [i \in 1 .. MaxSeq |->
        IF <<c, i>> \in lost THEN "free"
        ELSE IF status[c][i] \in {"queued", "held"} THEN "stranded"
        ELSE status[c][i]]]
  <2>1. \A c \in Channels, i \in 1 .. MaxSeq : <<c, i>> \in lost <=> Open(c) = {i} OBVIOUS
  <2>2. status' = [c \in Channels |-> [i \in 1 .. MaxSeq |-> status'[c][i]]] BY DEF status
  <2> HIDE DEF lost
  <2> QED BY <1>6, <2>1, <2>2
<1> HIDE DEF lost
<1> QED BY <1>4, <1>7, <1>8 DEF Handout!Crash, Handout!Ids

\* Each step of the queue is a step of JobHandout or changes no status.
LEMMA StepMaps ==
  ASSUME MaxFaults = 0, HandoutInv, [Next]_vars
  PROVE  [Handout!Next]_status
<1> USE DEF proc, disk, broker, http, conns, hist
<1>1. Control /\ Ledger BY InvParts DEF HandoutInv
<1>2. CASE UNCHANGED vars BY <1>2, SameStatus DEF vars
<1>3. CASE Kill BY <1>3, DieCrashes DEF Kill, Handout!Next
<1>4. CASE Load \/ LoadPanics BY <1>4, SameStatus DEF Load, LoadPanics, Start
<1>5. ASSUME NEW p \in Producers, HandlerNext(p) PROVE [Handout!Next]_status
  <2>1. CASE Send(p) BY <2>1, SendPublishes DEF Handout!Next
  <2>2. CASE Commit(p) BY <2>2, CommitKeeps
  <2>3. CASE CommitFails(p) BY <1>1, <2>3 DEF CommitFails, Control, TypeOK
  <2>4. CASE UNCHANGED <<jobs, pend, cur, done, wch>> BY <2>4, SameStatus
  <2> QED BY <1>5, <2>1, <2>2, <2>3, <2>4 DEF HandlerNext, Request, Refuse, Acquire, Dump, Make
<1>6. ASSUME NEW w \in Workers, WorkerNext(w) PROVE [Handout!Next]_status
  <2>1. CASE Recv(w) BY <2>1, RecvTakes DEF Handout!Next
  <2>2. CASE Ok(w) BY <2>2, OkFinishes DEF Handout!Next
  <2>3. CASE BareChan(w) \/ ReadyRace(w) \/ ViewPanic(w)
    BY <2>3, DieCrashes DEF BareChan, ReadyRace, ViewPanic, Handout!Next
  <2>4. CASE UNCHANGED <<jobs, pend, cur, done, wch>> BY <2>4, SameStatus
  <2>5. CASE Drop(w) \/ \E c \in Channels : Chan(w, c)
    <3>1. cur[w] = 0 BY <1>1, <2>5 DEF Drop, Chan, Control, Places, TypeOK, Holding
    <3>2. \A v \in Workers : v # w => wch'[v] = wch[v]
      BY <1>1, <2>5 DEF Drop, Hangup, Chan, Control, TypeOK
    <3> QED BY <2>5, <3>1, <3>2, SameStatus DEF Drop, Hangup, Chan
  <2> QED BY <1>6, <2>1, <2>2, <2>3, <2>4, <2>5
      DEF WorkerNext, Connect, Ready, View, Deliver, DeliverFails, Abandon, Stick, Pong, Expire
<1> QED BY <1>2, <1>3, <1>4, <1>5, <1>6 DEF Next

\* While no commit fails the queue keeps the promise of JobHandout: ids of a
\* channel are numbered in order, handed out in order and once, and a process
\* that ends forgets at most the id whose transaction was open (queue.go, Handle;
\* worker.go, handle).
THEOREM QueueImplementsJobHandout ==
  ASSUME MaxFaults = 0
  PROVE  Spec => ImplementsJobHandout
<1>1. Init => Handout!Init
  <2> SUFFICES ASSUME Init PROVE Handout!Init
    OBVIOUS
  <2>1. \A c \in Channels : Queued(c) = {} /\ Held(c) = {} BY DEF Init, Queued, Range, Held
  <2> QED BY <2>1 DEF Init, status, Handout!Init, Handout!Ids
<1>2. HandoutInv /\ [Next]_vars => [Handout!Next]_status BY StepMaps
<1> QED BY <1>1, <1>2, HandoutInvariance, PTL DEF Spec, ImplementsJobHandout, Handout!Spec
=============================================================================
