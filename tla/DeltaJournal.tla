---------------------------- MODULE DeltaJournal ----------------------------
(***************************************************************************)
(* contrib/deltajournal: a service that reads the systemd journal          *)
(* backwards from its tail to the point it mailed last, and mails the      *)
(* lines worth reporting as one digest.  A line is its position in the     *)
(* journal; the cursor of position 0 is the empty string.                  *)
(***************************************************************************)
EXTENDS Naturals, Sequences, FiniteSets

CONSTANTS
  Kinds,     \* what may arrive, see Reported
  Severity,  \* the severity of the config that applies to every line
  Batch,     \* lines looked at per digest (1024)
  Room,      \* reported lines a digest holds before it exceeds 512 KiB
  MaxLines, MaxStarts, MaxFaults, MaxSignals   \* bounds of the model

ASSUME DeltaJournalAssumption ==
  /\ Kinds \subseteq {"err", "info", "plain", "filtered", "junk"}
  /\ {Severity, Room, MaxLines, MaxStarts, MaxFaults, MaxSignals} \subseteq Nat
  /\ Batch \in Nat \ {0}

VARIABLES
  journal,  \* the kinds of all lines ever written
  oldest,   \* the oldest line that was not vacuumed
  pc,       \* "down", "boot", "head", "seek", "look", "mail", "save", "wait",
            \* "stop" (after the loop), "stopped" (exit 0: systemd leaves it)
  cursor,   \* the local cursor of main()
  saved,    \* the cursor in the state file, 0 when it is not there or torn
  tail,     \* lastCursor, the tail when HasLog asked
  next,     \* the line j.Previous() gives next
  looked,   \* lines looked at in this pass
  buf,      \* the lines of the digest
  sig,      \* a signal waits in SigOS, whose capacity is 1
  mailed,   \* history: the lines that were mailed
  starts, faults, signals   \* counted for the bounds

disk == <<journal, oldest>>
pass == <<tail, next, looked, buf>>
count == <<starts, faults, signals>>
vars == <<disk, pc, cursor, saved, pass, sig, mailed, count>>

Lines == 1 .. Len(journal)

TypeOK ==
  /\ journal \in Seq(Kinds) /\ oldest \in Nat \ {0}
  /\ pc \in {"down", "boot", "head", "seek", "look", "mail", "save", "wait", "stop", "stopped"}
  /\ cursor \in 0 .. Len(journal) /\ saved \in 0 .. Len(journal)
  /\ tail \in 0 .. Len(journal) /\ next \in 0 .. Len(journal)
  /\ looked \in 0 .. Batch /\ buf \subseteq Lines /\ mailed \subseteq Lines
  /\ sig \in BOOLEAN /\ starts \in Nat /\ faults \in Nat /\ signals \in Nat

-----------------------------------------------------------------------------
(* Which line is reported *)

\* The PRIORITY of a kind; a line without one gets the configured severity.
Prio(k) == CASE k = "err" -> 3 [] k \in {"info", "filtered"} -> 6 [] k = "plain" -> Severity

\* A smaller number is the more severe line, and is the one that is ignored.
Reported(k) ==
  /\ k # "junk"
  /\ ~ Prio(k) < Severity
  /\ k # "filtered"

-----------------------------------------------------------------------------
(* The journal and systemd *)

\* Some unit writes a line.
Arrive ==
  /\ Len(journal) < MaxLines
  /\ \E k \in Kinds : journal' = Append(journal, k)
  /\ UNCHANGED <<oldest, pc, cursor, saved, pass, sig, mailed, count>>

\* journald removes its oldest lines, never the last one.
Vacuum ==
  /\ oldest < Len(journal)
  /\ oldest' = oldest + 1
  /\ UNCHANGED <<journal, pc, cursor, saved, pass, sig, mailed, count>>

\* SIGINT or SIGTERM.  Before signal.Notify it ends the process.
Signal ==
  /\ signals < MaxSignals /\ pc \notin {"down", "stopped"}
  /\ signals' = signals + 1
  /\ IF pc = "boot" THEN pc' = "stopped" /\ UNCHANGED sig
                    ELSE sig' = TRUE /\ UNCHANGED pc
  /\ UNCHANGED <<disk, cursor, saved, pass, mailed, starts, faults>>

\* A pass over the journal ends: its variables go with it.
Forget == tail' = 0 /\ next' = 0 /\ looked' = 0 /\ buf' = {}

\* The process is killed, or panics because the journal is empty.
Down ==
  /\ pc' = "down" /\ cursor' = 0 /\ sig' = FALSE /\ Forget
  /\ UNCHANGED <<disk, saved, mailed>>

Crash ==
  /\ pc \notin {"down", "stopped"} /\ faults < MaxFaults
  /\ faults' = faults + 1
  /\ Down /\ UNCHANGED <<starts, signals>>

-----------------------------------------------------------------------------
(* main() *)

\* systemd starts the service, after a failure (Restart=on-failure) or again
\* after it stopped.  main() reads the state file into the global cursor.
Boot ==
  /\ pc \in {"down", "stopped"} /\ starts < MaxStarts
  /\ pc' = "boot"
  /\ starts' = starts + 1
  /\ UNCHANGED <<disk, cursor, saved, pass, sig, mailed, faults, signals>>

\* The loop begins with a local cursor of its own, which is empty.
Enter ==
  /\ pc = "boot"
  /\ pc' = "head" /\ cursor' = 0
  /\ UNCHANGED <<disk, saved, pass, sig, mailed, count>>

\* HasLog: the tail of the journal, unless it is the cursor.  It panics when
\* the journal is empty.
HasLog ==
  /\ pc = "head"
  /\ \/ journal = <<>> /\ Down /\ UNCHANGED count
     \/ /\ journal # <<>>
        /\ IF cursor = Len(journal) THEN pc' = "wait" /\ UNCHANGED tail
                                    ELSE pc' = "seek" /\ tail' = Len(journal)
        /\ UNCHANGED <<disk, cursor, saved, next, looked, buf, sig, mailed, count>>

\* Bug: an entry is skipped before the loop.
Bug_Seek ==
  /\ pc = "seek"
  /\ pc' = "look"
  /\ next' = Len(journal) - 1
  /\ UNCHANGED <<disk, cursor, saved, tail, looked, buf, sig, mailed, count>>

\* The second SeekTail() finds a tail of its own.
Seek ==
  /\ pc = "seek"
  /\ pc' = "look"
  /\ next' = Len(journal)
  /\ UNCHANGED <<disk, cursor, saved, tail, looked, buf, sig, mailed, count>>

\* ReadLines has its lines; without any, the cursor moves at once.
Ended(b, n) ==
  /\ pc' = IF b = {} THEN "save" ELSE "mail"
  /\ cursor' = IF b = {} THEN tail ELSE cursor
  /\ buf' = b /\ looked' = n /\ next' = 0 /\ UNCHANGED tail

\* Where the backwards read is over: the start of the journal, or the point
\* of last time.
AtEnd == next < oldest \/ next = cursor

\* Bug: i <= 1024.
Bug_Full(n, b) == n > Batch \/ Cardinality(b) > Room

Full(n, b) == n >= Batch \/ Cardinality(b) > Room

\* One round of the loop of ReadLines, which asks for signals first.
Interrupted ==
  /\ pc = "look" /\ sig
  /\ sig' = FALSE /\ pc' = "stop" /\ Forget
  /\ UNCHANGED <<disk, cursor, saved, mailed, count>>

Look ==
  /\ pc = "look" /\ ~sig
  /\ \/ AtEnd /\ Ended(buf, looked)
     \/ /\ ~AtEnd /\ journal[next] = "junk"      \* strconv.Atoi fails
        /\ pc' = "wait" /\ Forget /\ UNCHANGED cursor
     \/ /\ ~AtEnd /\ journal[next] # "junk"
        /\ LET b == buf \cup {l \in {next} : Reported(journal[l])} IN
             IF Full(looked + 1, b) THEN Ended(b, looked + 1)
             ELSE next' = next - 1 /\ looked' = looked + 1 /\ buf' = b /\ UNCHANGED <<pc, cursor, tail>>
  /\ UNCHANGED <<disk, saved, sig, mailed, count>>

\* The journal cannot be opened or read: an error is logged, nothing is done.
ReadFails ==
  /\ pc \in {"head", "seek", "look"} /\ faults < MaxFaults
  /\ faults' = faults + 1
  /\ pc' = "wait" /\ Forget
  /\ UNCHANGED <<disk, cursor, saved, sig, mailed, starts, signals>>

\* Email() succeeds and the cursor moves to where HasLog saw the tail.
Mail ==
  /\ pc = "mail"
  /\ mailed' = mailed \cup buf
  /\ cursor' = tail /\ pc' = "save"
  /\ UNCHANGED <<disk, saved, pass, sig, count>>

\* Bug: the cursor moves although the mail failed; the loop is left.
Bug_MailFails ==
  /\ pc = "mail" /\ faults < MaxFaults
  /\ faults' = faults + 1
  /\ mailed' \in {mailed, mailed \cup buf}
  /\ cursor' = tail /\ pc' = "stop" /\ Forget
  /\ UNCHANGED <<disk, saved, sig, starts, signals>>

\* Email() fails, maybe after the message was sent; the loop goes on at once.
MailFails ==
  /\ pc = "mail" /\ faults < MaxFaults
  /\ faults' = faults + 1
  /\ mailed' \in {mailed, mailed \cup buf}
  /\ pc' = "head" /\ Forget
  /\ UNCHANGED <<disk, cursor, saved, sig, starts, signals>>

\* WriteFile truncates and writes; a failure is only a warning.
Write(to) ==
  /\ saved' \in IF faults < MaxFaults THEN {cursor, saved, 0} ELSE {cursor}
  /\ faults' = IF saved' = cursor THEN faults ELSE faults + 1
  /\ pc' = to
  /\ Forget
  /\ UNCHANGED <<disk, cursor, sig, mailed, starts, signals>>

Save == pc = "save" /\ Write("wait")

\* Bug: break leaves only the select.
Bug_TakeSignal ==
  /\ pc = "wait" /\ sig
  /\ sig' = FALSE /\ pc' = "head"
  /\ UNCHANGED <<disk, cursor, saved, pass, mailed, count>>

\* select of the signal and the ticker.
TakeSignal ==
  /\ pc = "wait" /\ sig
  /\ sig' = FALSE /\ pc' = "stop"
  /\ UNCHANGED <<disk, cursor, saved, pass, mailed, count>>

Tick ==
  /\ pc = "wait" /\ pc' = "head"
  /\ UNCHANGED <<disk, cursor, saved, pass, sig, mailed, count>>

Stop == pc = "stop" /\ Write("stopped")

-----------------------------------------------------------------------------

Init ==
  /\ journal = <<>> /\ oldest = 1 /\ pc = "down"
  /\ cursor = 0 /\ saved = 0 /\ tail = 0 /\ next = 0 /\ looked = 0 /\ buf = {}
  /\ sig = FALSE /\ mailed = {} /\ starts = 0 /\ faults = 0 /\ signals = 0

Service == Enter \/ HasLog \/ Seek \/ Interrupted \/ Look \/ Mail \/ Save \/ TakeSignal \/ Tick \/ Stop

Next == Arrive \/ Vacuum \/ Signal \/ Crash \/ Boot \/ ReadFails \/ MailFails \/ Service

\* The process runs; Restart=on-failure starts it again after a crash; select
\* takes a signal that stays there, sooner or later.
Fairness ==
  /\ WF_vars(Service \/ (pc = "down" /\ Boot))
  /\ SF_vars(TakeSignal)

Spec     == Init /\ [][Next]_vars
FairSpec == Spec /\ Fairness

-----------------------------------------------------------------------------
(* Properties *)

\* The cursor passes a line worth reporting that was not mailed only when the
\* digest was full (1024 lines, 512 KiB) or journald had removed the line,
\* whatever arrives between the two SeekTail() calls, while the journal is
\* read and while the mail is sent.  (main.go:83-106, readlines.go:22-147)
PassesOnlyWhenFull ==
  [][cursor' > cursor =>
       \A l \in cursor + 1 .. cursor' :
         Reported(journal[l]) => l \in mailed' \/ l < oldest \/ Full(looked', buf)]_vars

\* A digest has no hole: from its oldest line to the tail that becomes the
\* cursor, every line worth reporting is in it.  (readlines.go:39-147)
DigestIsWhole ==
  pc = "mail" => \A l \in buf, m \in Lines : (l <= m /\ m <= tail /\ Reported(journal[m])) => m \in buf

\* A line worth reporting that is still to be mailed.
Due(l) == Reported(journal[l]) /\ l \notin mailed /\ l >= oldest /\ l > cursor

\* In reach of the next pass there is a line whose PRIORITY is no number, which
\* the pass gives up on.
Blocked == \E l \in Lines : journal[l] = "junk" /\ l > cursor

\* A signal stopped the service, or it is down for good.
Over == (pc = "stopped" /\ signals > 0) \/ (pc = "down" /\ starts = MaxStarts)

\* The lines worth reporting are all mailed or passed by the cursor at last,
\* however often the mail or the journal failed, unless a line that cannot be
\* parsed is in the way or a signal stopped the service.  (main.go:81-127)
EveryLineSettles ==
  (\E l \in Lines : Due(l)) ~> ((\A l \in Lines : ~Due(l)) \/ Blocked \/ Over)

\* A signal stops the service although it is read in two places and the
\* loop may never reach the select while mails fail.  (main.go:84, 97-100, 120)
SignalStops == (sig /\ pc # "down") ~> pc \in {"stopped", "down"}

\* CLAIM, README.md:3: entries are mailed "from the last emailed point".  The
\* loop's cursor shadows the one main() read from the state file.
FromLastPoint == pc = "mail" => \A l \in buf : l > saved
=============================================================================
