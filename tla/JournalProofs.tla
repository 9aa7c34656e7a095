---------------------------- MODULE JournalProofs ----------------------------
(* Digests have no hole, and the cursor passes no line worth reporting      *)
(* unmailed unless a digest was full, for every severity, batch and size of *)
(* digest, however often the service fails, stops and starts.               *)
EXTENDS DeltaJournal, TLAPS

\* Lines worth reporting that lie in a part of the journal.
Worth(m, from, to) == from < m /\ m <= to /\ Reported(journal[m])

\* Outside of a pass there is no digest.
Idle == pc \notin {"look", "mail", "save"} => buf = {} /\ looked = 0

\* While the journal is read backwards, everything between the line that is
\* next and the tail has been looked at, and the cursor is still ahead.
Looking ==
  pc = "look" =>
    /\ cursor <= next /\ looked < Batch
    /\ \A l \in buf : l > next
    /\ \A m \in Lines : Worth(m, next, tail) => m \in buf

\* A digest that is ready for mail reaches to the cursor, unless it is full.
Reaches ==
  pc = "mail" =>
    \/ Full(looked, buf)
    \/ \A m \in Lines : Worth(m, cursor, tail) => m \in buf \/ m < oldest

JInv == TypeOK /\ Idle /\ Looking /\ DigestIsWhole /\ Reaches

USE DeltaJournalAssumption

LEMMA JournalInit == Init => JInv
<1> SUFFICES ASSUME Init PROVE JInv
  OBVIOUS
<1> USE DEF Init
<1>1. sig \in BOOLEAN OBVIOUS
<1>2. journal \in Seq(Kinds) /\ Len(journal) = 0 OBVIOUS
<1>3. looked \in 0 .. Batch OBVIOUS
<1>4. TypeOK BY <1>1, <1>2, <1>3 DEF TypeOK
<1> QED BY <1>4 DEF JInv, Idle, Looking, DigestIsWhole, Reaches

\* The variables of a pass are gone: nothing is left to show but types.
LEMMA AtRest ==
  ASSUME TypeOK', pc' \notin {"look", "mail", "save"}, buf' = {}, looked' = 0
  PROVE  JInv'
BY DEF JInv, Idle, Looking, DigestIsWhole, Reaches

\* Another line, or one line less.
LEMMA ArriveStep == ASSUME JInv, Arrive PROVE JInv'
<1>1. PICK k \in Kinds : journal' = Append(journal, k) BY DEF Arrive
<1>2. UNCHANGED <<oldest, pc, cursor, saved, tail, next, looked, buf, sig, mailed, starts, faults, signals>>
  BY DEF Arrive, pass, count
<1>3. /\ journal' \in Seq(Kinds) /\ Len(journal) \in Nat /\ Len(journal') = Len(journal) + 1
      /\ \A l \in 1 .. Len(journal) : journal'[l] = journal[l]
  BY <1>1 DEF JInv, TypeOK
<1>4. Lines \subseteq Lines' /\ (\A l \in Lines : journal'[l] = journal[l]) BY <1>3 DEF Lines
<1>5. /\ cursor \in 0 .. Len(journal') /\ saved \in 0 .. Len(journal')
      /\ tail \in 0 .. Len(journal') /\ next \in 0 .. Len(journal')
  BY <1>3 DEF JInv, TypeOK
<1>6. TypeOK' BY <1>2, <1>3, <1>4, <1>5 DEF JInv, TypeOK
<1>7. \A m \in Lines' : m <= tail => m \in Lines BY <1>3 DEF JInv, TypeOK, Lines
<1>8. Looking' BY <1>2, <1>4, <1>7 DEF JInv, Looking, Worth
<1>9. DigestIsWhole' BY <1>2, <1>4, <1>7 DEF JInv, DigestIsWhole
<1>10. CASE Full(looked, buf) BY <1>2, <1>6, <1>8, <1>9, <1>10 DEF JInv, Idle, Reaches, Full
<1>11. CASE ~Full(looked, buf)
  <2>1. Reaches' BY <1>2, <1>4, <1>7, <1>11 DEF JInv, Reaches, Worth, Full
  <2> QED BY <1>2, <1>6, <1>8, <1>9, <2>1 DEF JInv, Idle
<1> QED BY <1>10, <1>11

LEMMA VacuumStep == ASSUME JInv, Vacuum PROVE JInv'
<1>1. UNCHANGED <<journal, pc, cursor, saved, tail, next, looked, buf, sig, mailed, starts, faults, signals>>
  BY DEF Vacuum, pass, count
<1>2. oldest' = oldest + 1 /\ oldest \in Nat \ {0} BY DEF Vacuum, JInv, TypeOK
<1>3. TypeOK' BY <1>1, <1>2 DEF JInv, TypeOK, Lines
<1>4. Reaches' BY <1>1, <1>2 DEF JInv, TypeOK, Reaches, Worth, Lines, Full
<1> QED BY <1>1, <1>3, <1>4 DEF JInv, Idle, Looking, DigestIsWhole, Lines, Worth

\* A line is looked at, or the pass is over.
LEMMA LookStep == ASSUME JInv, Look PROVE JInv'
<1> USE DEF JInv
<1>1. /\ pc = "look" /\ cursor <= next /\ looked < Batch
      /\ \A l \in buf : l > next
      /\ \A m \in Lines : Worth(m, next, tail) => m \in buf
  BY DEF Look, Looking
<1>2. UNCHANGED <<journal, oldest, saved, sig, mailed, starts, faults, signals>> BY DEF Look, disk, count
<1>3. Lines' = Lines BY <1>2 DEF Lines
<1>4. /\ cursor \in 0 .. Len(journal) /\ tail \in 0 .. Len(journal) /\ next \in 0 .. Len(journal)
      /\ Len(journal) \in Nat /\ oldest \in Nat \ {0} /\ looked \in Nat /\ buf \subseteq Lines
  BY DEF TypeOK
<1>5. ASSUME NEW b \in SUBSET Lines, NEW n \in 0 .. Batch, Ended(b, n),
             \A l \in b, m \in Lines : Worth(m, l - 1, tail) => m \in b,
             Full(n, b) \/ \A m \in Lines : Worth(m, cursor, tail) => m \in b \/ m < oldest
      PROVE  JInv'
  <2>1. /\ pc' \in {"mail", "save"} /\ cursor' \in {cursor, tail}
        /\ (pc' = "mail" => cursor' = cursor)
        /\ buf' = b /\ looked' = n /\ next' = 0 /\ tail' = tail
    BY <1>5 DEF Ended
  <2>2. TypeOK' BY <1>2, <1>3, <1>4, <2>1 DEF TypeOK
  <2>3. Idle' /\ Looking' BY <2>1 DEF Idle, Looking
  <2>4. DigestIsWhole'
    <3>1. \A l \in b, m \in Lines : (l <= m /\ m <= tail /\ Reported(journal[m])) => m \in b
      BY <1>4, <1>5 DEF Worth, Lines
    <3> QED BY <1>2, <1>3, <2>1, <3>1 DEF DigestIsWhole
  <2>5. Reaches' BY <1>2, <1>3, <1>5, <2>1 DEF Reaches, Worth, Full
  <2> QED BY <2>2, <2>3, <2>4, <2>5
<1>6. CASE AtEnd /\ Ended(buf, looked)
  <2>1. \A l \in buf, m \in Lines : Worth(m, l - 1, tail) => m \in buf BY <1>1, <1>4 DEF Worth, Lines
  <2>2. \A m \in Lines : Worth(m, cursor, tail) => m \in buf \/ m < oldest
    BY <1>1, <1>4, <1>6 DEF Worth, Lines, AtEnd
  <2>3. looked \in 0 .. Batch BY <1>1, <1>4
  <2> QED BY <1>4, <1>5, <1>6, <2>1, <2>2, <2>3
<1>7. CASE pc' = "wait" /\ Forget /\ UNCHANGED cursor
  <2>1. TypeOK' BY <1>2, <1>3, <1>4, <1>7 DEF TypeOK, Forget
  <2> QED BY <1>7, <2>1, AtRest DEF Forget
<1>8. CASE ~AtEnd /\ journal[next] # "junk"
  <2> DEFINE b == buf \cup {l \in {next} : Reported(journal[l])}
  <2>1. next \in Lines /\ cursor < next /\ next >= oldest BY <1>1, <1>4, <1>8 DEF AtEnd, Lines
  <2>2. b \in SUBSET Lines BY <1>4, <2>1
  <2>3. \A m \in Lines : Worth(m, next - 1, tail) => m \in b BY <1>1, <1>4, <2>1 DEF Worth, Lines
  <2>4. \A l \in b : l >= next /\ l \in Nat BY <1>1, <1>4, <2>1 DEF Lines
  <2>5. looked + 1 \in 0 .. Batch BY <1>1, <1>4
  <2>6. CASE Full(looked + 1, b) /\ Ended(b, looked + 1)
    <3>1. \A l \in b, m \in Lines : Worth(m, l - 1, tail) => m \in b BY <1>4, <2>3, <2>4 DEF Worth, Lines
    <3> QED BY <1>5, <2>2, <2>5, <2>6, <3>1
  <2>7. CASE ~Full(looked + 1, b) /\ next' = next - 1 /\ looked' = looked + 1 /\ buf' = b
             /\ UNCHANGED <<pc, cursor, tail>>
    <3>1. TypeOK' BY <1>2, <1>3, <1>4, <2>1, <2>2, <2>5, <2>7 DEF TypeOK, Lines
    <3>2. looked' < Batch BY <1>4, <2>7 DEF Full
    <3>3. cursor' <= next' /\ \A l \in buf' : l > next' BY <1>4, <2>1, <2>4, <2>7
    <3>4. \A m \in Lines' : Worth(m, next, tail)' => m \in buf' BY <1>2, <1>3, <2>3, <2>7 DEF Worth
    <3>5. Looking' BY <3>2, <3>3, <3>4 DEF Looking, Worth
    <3> QED BY <1>1, <2>7, <3>1, <3>5 DEF Idle, DigestIsWhole, Reaches
  <2> QED BY <1>8, <2>6, <2>7 DEF Look
<1> QED BY <1>6, <1>7, <1>8 DEF Look

\* Seek() starts a pass at a tail that is no older than the one HasLog saw.
LEMMA SeekStep == ASSUME JInv, Seek PROVE JInv'
<1>1. /\ pc = "seek" /\ pc' = "look" /\ next' = Len(journal)
      /\ UNCHANGED <<journal, oldest, cursor, saved, tail, looked, buf, sig, mailed, starts, faults, signals>>
  BY DEF Seek, disk, count
<1>2. buf = {} /\ looked = 0 BY <1>1 DEF JInv, Idle
<1>3. TypeOK' BY <1>1 DEF JInv, TypeOK, Lines
<1>4. \A m \in Lines : ~(Len(journal) < m /\ m <= tail) BY DEF JInv, TypeOK, Lines
<1>5. Looking'
  <2>1. cursor' <= next' /\ looked' < Batch BY <1>1, <1>2 DEF JInv, TypeOK
  <2>2. \A m \in Lines' : ~Worth(m, next, tail)' BY <1>1, <1>4 DEF Worth, Lines
  <2> QED BY <1>1, <1>2, <2>1, <2>2 DEF Looking, Worth
<1> QED BY <1>1, <1>3, <1>5 DEF JInv, Idle, DigestIsWhole, Reaches

\* The cursor moves to the tail, the digest was sent.
LEMMA MailStep == ASSUME JInv, Mail PROVE JInv'
<1>1. TypeOK' BY DEF JInv, Mail, TypeOK, disk, pass, count, Lines
<1> QED BY <1>1 DEF JInv, Mail, Idle, Looking, DigestIsWhole, Reaches

\* What these steps may do to the variables.
LEMMA RestTypes ==
  ASSUME TypeOK, UNCHANGED disk,
         pc' \in {"down", "boot", "head", "seek", "look", "mail", "save", "wait", "stop", "stopped"},
         cursor' \in {cursor, 0}, saved' \in {saved, cursor, 0}, tail' \in {tail, Len(journal), 0},
         next' \in {next, 0}, looked' \in {looked, 0}, buf' \in {buf, {}},
         mailed' \in {mailed, mailed \cup buf}, sig' \in BOOLEAN,
         starts' \in Nat, faults' \in Nat, signals' \in Nat
  PROVE  TypeOK'
<1>1. Lines' = Lines /\ Len(journal) \in Nat /\ UNCHANGED <<journal, oldest>> BY DEF TypeOK, Lines, disk
<1>2. /\ cursor' \in 0 .. Len(journal) /\ saved' \in 0 .. Len(journal)
      /\ tail' \in 0 .. Len(journal) /\ next' \in 0 .. Len(journal) /\ looked' \in 0 .. Batch
  <2>1. /\ cursor \in 0 .. Len(journal) /\ saved \in 0 .. Len(journal)
        /\ tail \in 0 .. Len(journal) /\ next \in 0 .. Len(journal) /\ looked \in 0 .. Batch
    BY DEF TypeOK
  <2>2. 0 \in 0 .. Len(journal) /\ Len(journal) \in 0 .. Len(journal) /\ 0 \in 0 .. Batch BY <1>1, <2>1
  <2> QED BY <2>1, <2>2
<1>3. buf' \subseteq Lines /\ mailed' \subseteq Lines
  <2>1. buf \subseteq Lines /\ mailed \subseteq Lines BY DEF TypeOK
  <2> QED BY <2>1
<1>4. journal \in Seq(Kinds) /\ oldest \in Nat \ {0} BY DEF TypeOK
<1> QED BY <1>1, <1>2, <1>3, <1>4 DEF TypeOK

\* Steps that end a pass or happen outside of one.
LEMMA RestStep ==
  ASSUME JInv,
         \/ Signal \/ Crash \/ Boot \/ ReadFails \/ MailFails
         \/ Enter \/ HasLog \/ Interrupted \/ Save \/ TakeSignal \/ Tick \/ Stop
  PROVE  JInv'
<1>1. TypeOK BY DEF JInv
<1>2. /\ sig \in BOOLEAN /\ starts \in Nat /\ faults \in Nat /\ signals \in Nat
      /\ pc \in {"down", "boot", "head", "seek", "look", "mail", "save", "wait", "stop", "stopped"}
  BY <1>1 DEF TypeOK
<1> USE DEF disk, pass, count, Forget
<1>3. CASE Signal
  <2>1. pc' \in {pc, "stopped"} /\ (pc' # pc => pc = "boot") BY <1>3 DEF Signal
  <2>2. sig' \in BOOLEAN BY <1>2, <1>3 DEF Signal
  <2>3. signals' \in Nat BY <1>2, <1>3 DEF Signal
  <2>4. /\ UNCHANGED <<journal, oldest, cursor, saved, tail, next, looked, buf, mailed, starts, faults>>
    BY <1>3 DEF Signal
  <2>5. TypeOK' BY <1>1, <1>2, <2>1, <2>2, <2>3, <2>4, RestTypes
  <2>6. Idle' BY <2>1, <2>4 DEF JInv, Idle
  <2>7. Looking' BY <2>1, <2>4 DEF JInv, Looking, Worth, Lines
  <2>8. DigestIsWhole' BY <2>1, <2>4 DEF JInv, DigestIsWhole, Lines
  <2>9. Reaches' BY <2>1, <2>4 DEF JInv, Reaches, Worth, Lines, Full
  <2> QED BY <2>5, <2>6, <2>7, <2>8, <2>9 DEF JInv
<1>4. CASE Crash
  <2>1. /\ pc' = "down" /\ cursor' = 0 /\ sig' = FALSE /\ buf' = {} /\ looked' = 0
        /\ tail' = 0 /\ next' = 0 /\ faults' = faults + 1
        /\ UNCHANGED <<journal, oldest, saved, mailed, starts, signals>>
    BY <1>4 DEF Crash, Down
  <2>2. TypeOK'
    <3>1. sig' \in BOOLEAN BY <2>1
    <3> QED BY <1>1, <1>2, <2>1, <3>1, RestTypes
  <2> QED BY <2>1, <2>2, AtRest
<1>5. CASE Boot \/ Enter \/ TakeSignal \/ Tick
  <2>1. /\ pc \in {"down", "stopped", "boot", "wait"} /\ pc' \in {"boot", "head", "stop"}
        /\ cursor' \in {cursor, 0} /\ starts' \in {starts, starts + 1}
        /\ UNCHANGED <<journal, oldest, saved, tail, next, looked, buf, mailed, faults, signals>>
    BY <1>5 DEF Boot, Enter, TakeSignal, Tick
  <2>2. sig' \in BOOLEAN BY <1>2, <1>5 DEF Boot, Enter, TakeSignal, Tick
  <2>3. buf = {} /\ looked = 0 BY <2>1 DEF JInv, Idle
  <2>4. TypeOK' BY <1>1, <1>2, <2>1, <2>2, RestTypes
  <2> QED BY <2>1, <2>3, <2>4, AtRest
<1>6. CASE ReadFails \/ MailFails
  <2>1. /\ pc' \in {"wait", "head"} /\ mailed' \in {mailed, mailed \cup buf}
        /\ faults' = faults + 1 /\ tail' = 0 /\ next' = 0 /\ looked' = 0 /\ buf' = {}
        /\ UNCHANGED <<journal, oldest, cursor, saved, sig, starts, signals>>
    BY <1>6 DEF ReadFails, MailFails
  <2>2. TypeOK' BY <1>1, <1>2, <2>1, RestTypes
  <2> QED BY <2>1, <2>2, AtRest
<1>7. CASE HasLog
  <2>1. /\ pc' \in {"down", "wait", "seek"} /\ cursor' \in {cursor, 0}
        /\ tail' \in {tail, Len(journal), 0} /\ next' \in {next, 0}
        /\ looked' \in {looked, 0} /\ buf' \in {buf, {}} /\ pc = "head"
        /\ UNCHANGED <<journal, oldest, saved, mailed, starts, faults, signals>>
    BY <1>7 DEF HasLog, Down
  <2>2. sig' \in BOOLEAN BY <1>2, <1>7 DEF HasLog, Down
  <2>3. buf = {} /\ looked = 0 BY <2>1 DEF JInv, Idle
  <2>4. TypeOK' BY <1>1, <1>2, <2>1, <2>2, RestTypes
  <2> QED BY <2>1, <2>3, <2>4, AtRest
<1>8. CASE Interrupted
  <2>1. /\ pc' = "stop" /\ sig' = FALSE /\ tail' = 0 /\ next' = 0 /\ looked' = 0 /\ buf' = {}
        /\ UNCHANGED <<journal, oldest, cursor, saved, mailed, starts, faults, signals>>
    BY <1>8 DEF Interrupted
  <2>2. TypeOK' BY <1>1, <1>2, <2>1, RestTypes
  <2> QED BY <2>1, <2>2, AtRest
<1>9. CASE Save \/ Stop
  <2>1. /\ pc' \in {"wait", "stopped"} /\ saved' \in {saved, cursor, 0}
        /\ faults' \in {faults, faults + 1} /\ tail' = 0 /\ next' = 0 /\ looked' = 0 /\ buf' = {}
        /\ UNCHANGED <<journal, oldest, cursor, sig, mailed, starts, signals>>
    BY <1>9 DEF Save, Stop, Write
  <2>2. TypeOK' BY <1>1, <1>2, <2>1, RestTypes
  <2> QED BY <2>1, <2>2, AtRest
<1> QED BY <1>3, <1>4, <1>5, <1>6, <1>7, <1>8, <1>9

LEMMA JournalStep == JInv /\ [Next]_vars => JInv'
<1> SUFFICES ASSUME JInv, [Next]_vars PROVE JInv'
  OBVIOUS
<1>1. CASE UNCHANGED vars
  BY <1>1 DEF vars, disk, pass, count, JInv, TypeOK, Lines, Idle, Looking, DigestIsWhole, Reaches, Worth, Full
<1>2. CASE Next
  BY <1>2, ArriveStep, VacuumStep, LookStep, SeekStep, MailStep, RestStep DEF Next, Service
<1> QED BY <1>1, <1>2

\* The types of the journal and of main(), and no pass looks at more lines
\* than a batch has.  (readlines.go:39)
THEOREM JournalTypes == Spec => []TypeOK
<1>1. JInv => TypeOK BY DEF JInv
<1> QED BY <1>1, JournalInit, JournalStep, PTL DEF Spec

\* From its oldest line to the tail that becomes the cursor, a digest has every
\* line worth reporting.  (readlines.go:39-147)
THEOREM DigestsAreWhole == Spec => []DigestIsWhole
<1>1. JInv => DigestIsWhole BY DEF JInv
<1> QED BY <1>1, JournalInit, JournalStep, PTL DEF Spec

\* Where the cursor passes lines, they were mailed, vacuumed, or the digest was
\* full.  (main.go:83-106)
THEOREM AlwaysPassesOnlyWhenFull == Spec => PassesOnlyWhenFull
<1> DEFINE Passed == cursor' > cursor =>
                       \A l \in cursor + 1 .. cursor' :
                         Reported(journal[l]) => l \in mailed' \/ l < oldest \/ Full(looked', buf)
<1>1. JInv /\ [Next]_vars => [Passed]_vars
  <2> SUFFICES ASSUME JInv, Next, cursor' > cursor PROVE Passed
    OBVIOUS
  <2>1. /\ cursor \in Nat /\ tail \in 0 .. Len(journal) /\ Len(journal) \in Nat /\ next \in Nat
        /\ oldest \in Nat /\ buf \subseteq Lines
    BY DEF JInv, TypeOK
  <2>2. \A l \in cursor + 1 .. tail : l \in Lines /\ cursor < l /\ l <= tail BY <2>1 DEF Lines
  <2>3. CASE Mail
    <3>1. cursor' = tail /\ mailed' = mailed \cup buf /\ looked' = looked /\ pc = "mail"
      BY <2>3 DEF Mail, pass
    <3> QED BY <2>2, <3>1 DEF JInv, Reaches, Worth
  <2>4. CASE Look
    <3>1. /\ pc = "look" /\ cursor <= next /\ \A m \in Lines : Worth(m, next, tail) => m \in buf
      BY <2>4 DEF JInv, Look, Looking
    <3>2. CASE AtEnd /\ Ended(buf, looked)
      <4>1. cursor' = tail /\ buf = {} BY <2>1, <3>2 DEF Ended
      <4> QED BY <2>1, <2>2, <3>1, <3>2, <4>1 DEF AtEnd, Worth, Lines
    <3> DEFINE b == buf \cup {l \in {next} : Reported(journal[l])}
    <3>3. CASE Full(looked + 1, b) /\ Ended(b, looked + 1)
      <4>1. b = {} /\ looked' = looked + 1 BY <2>1, <3>3 DEF Ended
      <4>2. b = buf BY <4>1
      <4> QED BY <3>3, <4>1, <4>2
    <3>4. cursor' # cursor BY <2>1
    <3> QED BY <2>4, <3>2, <3>3, <3>4 DEF Look
  <2>5. CASE ~Mail /\ ~Look
    <3>1. cursor' \in {cursor, 0}
      BY <2>5 DEF Next, Service, Arrive, Vacuum, Signal, Crash, Down, Boot, ReadFails, MailFails,
                  Enter, HasLog, Seek, Interrupted, Save, TakeSignal, Tick, Stop, Write
    <3> QED BY <2>1, <3>1
  <2> QED BY <2>3, <2>4, <2>5
<1> QED BY <1>1, JournalInit, JournalStep, PTL DEF Spec, PassesOnlyWhenFull
=============================================================================
