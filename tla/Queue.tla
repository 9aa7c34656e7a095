------------------------------- MODULE Queue -------------------------------
(***************************************************************************)
(* The job queue of hfast (src/queue): HTTP handlers that store a request  *)
(* in boltdb and publish its id on a Go channel, connected workers that    *)
(* receive ids and are sent the stored request, and the process around     *)
(* them, which may die at any moment and is started again by systemd.      *)
(*                                                                         *)
(* A "channel" is what queue.go calls bucketName: <domain>_<name>.  Each   *)
(* has a bucket on disk (its sequence number and the stored ids) and, once *)
(* a request was published in this run of the process, a Go channel of     *)
(* capacity ChanCap in the unsynchronised map `queue'.                     *)
(***************************************************************************)
EXTENDS Integers, Sequences, FiniteSets, Functions

CONSTANTS
  Producers,   \* goroutines that run Handle()
  Workers,     \* goroutines that run handle(conn)
  Channels,    \* bucket names
  None,        \* nil
  ChanCap,     \* capacity of a Go channel: make(chan Msg, 500)
  MaxSeq,      \* bound of the model: ids per channel
  MaxStarts,   \* bound of the model: starts of the process
  MaxFaults    \* bound of the model: commits that fail

ASSUME QueueAssumption ==
  /\ None \notin Producers /\ None \notin Channels
  /\ ChanCap \in Nat \ {0}
  /\ MaxSeq \in Nat /\ MaxStarts \in Nat /\ MaxFaults \in Nat

VARIABLES
  phase,    \* of the process: "down", "panic" (down after a panic) or "up"
  starts,   \* how often it was started
  faults,   \* how many commits failed
  seq,      \* disk: sequence number of each bucket; 0 when there is no bucket
  jobs,     \* disk: the ids stored in each bucket
  rw,       \* boltdb's writer lock: the handler inside db.Update, or None
  chans,    \* memory: the channels that have an entry in the map `queue'
  pend,     \* memory: the ids buffered in queue[c]
  ppc, pch, \* handlers: progress, and the channel of the request
  wpc, wch, \* worker connections: progress, and the CHAN they named
  cur,      \* worker connections: curmsg, 0 for nil
  body,     \* worker connections: what v holds
  dl,       \* worker connections: the deadline set on conn
  done,     \* history: the ids a worker answered OK
  failed    \* history: the ids published by a transaction that did not commit

disk   == <<seq, jobs>>
broker == <<chans, pend>>
http   == <<ppc, pch>>
conns  == <<wpc, wch, cur, body, dl>>
hist   == <<done, failed>>
proc   == <<phase, starts>>
vars   == <<proc, faults, disk, rw, broker, http, conns, hist>>

-----------------------------------------------------------------------------
(* Types *)

\* Handle() is inside the closure of db.Update in these phases.
TxPhases == {"dump", "make", "send", "commit"}
\* The request was answered: 400 or 403, 500, or 200.
Answered == {"idle", "refused", "failed", "stored"}
\* handle() owns a message in these phases: it was received, not answered.
Holding  == {"view", "write", "busy", "requeue"}

TypeOK ==
  /\ phase \in {"down", "panic", "up"} /\ starts \in Nat /\ faults \in Nat
  /\ seq \in [Channels -> Nat] /\ jobs \in [Channels -> SUBSET Nat]
  /\ rw \in Producers \cup {None}
  /\ chans \in SUBSET Channels
  /\ pend \in [Channels -> Seq(Nat \ {0})] /\ \A c \in Channels : Len(pend[c]) <= ChanCap
  /\ ppc \in [Producers -> Answered \cup TxPhases \cup {"lock"}]
  /\ pch \in [Producers -> Channels \cup {None}]
  /\ wpc \in [Workers -> {"off", "chan", "idle", "wait", "nilwait"} \cup Holding]
  /\ wch \in [Workers -> Channels \cup {None}]
  /\ cur \in [Workers -> Nat]
  /\ body \in [Workers -> {"none", "empty", "whole", "unpinned", "torn"}]
  /\ dl \in [Workers -> {"none", "armed", "past"}]
  /\ done \in [Channels -> SUBSET Nat] /\ failed \in [Channels -> SUBSET Nat]

-----------------------------------------------------------------------------
(* The process *)

\* What a new process has in memory: maps without entries, no handler, no
\* connection.
FreshMemory ==
  /\ rw' = None
  /\ chans' = {}
  /\ pend' = [c \in Channels |-> <<>>]
  /\ ppc' = [p \in Producers |-> "idle"]
  /\ pch' = [p \in Producers |-> None]
  /\ wpc' = [w \in Workers |-> "off"]
  /\ wch' = [w \in Workers |-> None]
  /\ cur' = [w \in Workers |-> 0]
  /\ body' = [w \in Workers |-> "none"]
  /\ dl' = [w \in Workers |-> "none"]
  /\ failed' = [c \in Channels |-> {}]

\* The process ends: killed from outside, or by a panic of a goroutine that
\* nothing recovers (handle() is started with a bare go statement).  The disk
\* stays; an open transaction leaves nothing there.
Die(how) ==
  /\ phase' = how
  /\ FreshMemory
  /\ done' = [c \in Channels |-> done[c] \cap jobs[c]]
  /\ UNCHANGED <<starts, faults, disk>>

Kill == phase = "up" /\ Die("down")

\* The buckets Init() finds: Handle() creates them nested in "queue", in the
\* transaction that takes their first sequence number.
Buckets == {c \in Channels : seq[c] > 0}

Start(how) ==
  /\ phase \in {"down", "panic"} /\ starts < MaxStarts
  /\ phase' = how
  /\ starts' = starts + 1
  /\ UNCHANGED <<faults, disk, rw, broker, http, conns, hist>>

\* Init() opens the database, finds no bucket, and main() serves.
Load == Buckets = {} /\ Start("up")

\* Init() looks for each bucket it finds with tx.Bucket(k), that is among the
\* buckets of the root, where it is not; Cursor() of the nil bucket panics.
LoadPanics == Buckets # {} /\ Start("panic")

-----------------------------------------------------------------------------
(* Handle(): an HTTP request stores a job *)

\* Mutant: number by what is queued.
Bug_NextId(c) == Len(pend[c]) + 1

\* bchan.NextSequence() under the writer lock: the next id, on disk only when
\* the transaction commits.
NextId(c) == seq[c] + 1

\* Mutant: one more than the capacity.
Bug_Full(c) == Len(pend[c]) > ChanCap

Full(c) == Len(pend[c]) = ChanCap

\* A request for channel c with a valid path and hash reaches db.Update.
\* Bound: no request is made that could push the sequence beyond MaxSeq.
Request(p, c) ==
  /\ phase = "up" /\ ppc[p] \in Answered
  /\ seq[c] + Cardinality({q \in Producers : pch[q] = c}) < MaxSeq
  /\ ppc' = [ppc EXCEPT ![p] = "lock"]
  /\ pch' = [pch EXCEPT ![p] = c]
  /\ UNCHANGED <<proc, faults, disk, rw, broker, conns, hist>>

\* Answered before db.Update: wrong number of path elements, a suffix other than
\* .ok, a wrong hash, or no secret key (a panic, which RecoverWrap stops).
Refuse(p) ==
  /\ phase = "up" /\ ppc[p] \in Answered
  /\ ppc' = [ppc EXCEPT ![p] = "refused"]
  /\ UNCHANGED <<proc, faults, disk, rw, broker, pch, conns, hist>>

\* db.Update begins: boltdb has one writer at a time.
Acquire(p) ==
  /\ ppc[p] = "lock" /\ rw = None
  /\ rw' = p
  /\ ppc' = [ppc EXCEPT ![p] = "dump"]
  /\ UNCHANGED <<proc, faults, disk, broker, pch, conns, hist>>

\* Mutant: the error path keeps the writer lock.
Bug_Rollback(p) ==
  /\ rw' = rw
  /\ ppc' = [ppc EXCEPT ![p] = "failed"]
  /\ pch' = [pch EXCEPT ![p] = None]

\* The closure of db.Update returned an error: nothing of the transaction
\* reaches the disk, the lock is released, the client is told 500.
Rollback(p) ==
  /\ rw' = None
  /\ ppc' = [ppc EXCEPT ![p] = "failed"]
  /\ pch' = [pch EXCEPT ![p] = None]

\* DumpRequest reads the body while the lock is held; it fails when the body
\* is over MaxQueueBodySize or the client goes away.  Otherwise the request is
\* put in the bucket, still uncommitted, and the map `queue' is consulted.
Dump(p) ==
  /\ ppc[p] = "dump"
  /\ \/ /\ ppc' = [ppc EXCEPT ![p] = IF pch[p] \in chans THEN "send" ELSE "make"]
        /\ UNCHANGED <<rw, pch>>
     \/ Rollback(p)
  /\ UNCHANGED <<proc, faults, disk, broker, conns, hist>>

\* queue[bucketName] = make(chan Msg, 500): the map write of phase "make".
Make(p) ==
  /\ ppc[p] = "make"
  /\ chans' = chans \cup {pch[p]}
  /\ ppc' = [ppc EXCEPT ![p] = "send"]
  /\ UNCHANGED <<proc, faults, disk, rw, pend, pch, conns, hist>>

\* queue[bucketName] <- Msg{Id: idb}, inside the transaction: it blocks, with
\* the writer lock held, while the channel is full, and the id can be received
\* from here on although the transaction has not committed.
Send(p) ==
  LET c == pch[p] IN
  /\ ppc[p] = "send" /\ ~Full(c)
  /\ pend' = [pend EXCEPT ![c] = Append(@, NextId(c))]
  /\ ppc' = [ppc EXCEPT ![p] = "commit"]
  /\ UNCHANGED <<proc, faults, disk, rw, chans, pch, conns, hist>>

\* A commit grows the map of the file or writes over pages freed earlier: a
\* value that a worker still refers to after its own transaction is no longer
\* protected.
Unpin(b) == [w \in Workers |-> IF b[w] = "whole" /\ wpc[w] = "write" THEN "unpinned" ELSE b[w]]

Commit(p) ==
  LET c == pch[p] IN
  /\ ppc[p] = "commit"
  /\ seq' = [seq EXCEPT ![c] = NextId(c)]
  /\ jobs' = [jobs EXCEPT ![c] = @ \cup {NextId(c)}]
  /\ rw' = None
  /\ ppc' = [ppc EXCEPT ![p] = "stored"]
  /\ pch' = [pch EXCEPT ![p] = None]
  /\ body' = Unpin(body)
  /\ UNCHANGED <<proc, faults, broker, wpc, wch, cur, dl, hist>>

\* tx.Commit fails (disk full, write error): the sequence number is not
\* advanced, so the next request gets the id that is already published.
CommitFails(p) ==
  LET c == pch[p] IN
  /\ ppc[p] = "commit" /\ faults < MaxFaults
  /\ faults' = faults + 1
  /\ Rollback(p)
  /\ failed' = [failed EXCEPT ![c] = @ \cup {NextId(c)}]
  /\ body' = Unpin(body)
  /\ UNCHANGED <<proc, disk, broker, wpc, wch, cur, dl, done>>

-----------------------------------------------------------------------------
(* handle(): the connection of a worker *)

\* The connection moves on; what the other connections do is not touched.
Turn(w, to) == wpc' = [wpc EXCEPT ![w] = to]

\* handle() returns, or the connection is closed by handle().
Hangup(w) ==
  /\ Turn(w, "off")
  /\ wch' = [wch EXCEPT ![w] = None]
  /\ dl' = [dl EXCEPT ![w] = "none"]
  /\ UNCHANGED <<proc, faults, disk, rw, broker, http, cur, body, hist>>

\* Accept() returns and HELLO is written.  Nothing counts the connections.
Connect(w) ==
  /\ phase = "up" /\ wpc[w] = "off"
  /\ Turn(w, "chan")
  /\ UNCHANGED <<proc, faults, disk, rw, broker, http, wch, cur, body, dl, hist>>

\* CHAN <name>: any name is accepted.
Chan(w, c) ==
  /\ wpc[w] = "chan"
  /\ Turn(w, "idle")
  /\ wch' = [wch EXCEPT ![w] = c]
  /\ UNCHANGED <<proc, faults, disk, rw, broker, http, cur, body, dl, hist>>

\* CHAN without a name: tok[1] is out of range.
BareChan(w) == wpc[w] = "chan" /\ Die("panic")

\* The client leaves, says something else, or its deadline passes: state is 0
\* or 1, so there is nothing to requeue.
Drop(w) == wpc[w] \in {"chan", "idle"} /\ Hangup(w)

\* Some handler is writing to the map `queue'.
Making == \E p \in Producers : ppc[p] = "make"

\* READY: the select evaluates queue[channel] once.  Without an entry in the
\* map both cases receive from a nil channel, and never proceed.  A read that
\* races with the write of another entry may also miss an entry.
Ready(w) ==
  /\ wpc[w] = "idle"
  /\ \/ wch[w] \in chans /\ Turn(w, "wait")
     \/ (wch[w] \notin chans \/ Making) /\ Turn(w, "nilwait")
  /\ UNCHANGED <<proc, faults, disk, rw, broker, http, wch, cur, body, dl, hist>>

\* The map is read while a handler writes it: the runtime ends the process
\* when it notices, with a fatal error that cannot be recovered.
ReadyRace(w) == wpc[w] = "idle" /\ Making /\ Die("panic")

\* Mutant: receive in batches.
Bug_Recv(w) ==
  LET c == wch[w] IN
  /\ wpc[w] = "wait" /\ Len(pend[c]) > 1
  /\ cur' = [cur EXCEPT ![w] = Head(pend[c])]
  /\ pend' = [pend EXCEPT ![c] = Tail(@)]
  /\ Turn(w, "view")
  /\ UNCHANGED <<proc, faults, disk, rw, chans, http, wch, body, dl, hist>>

\* msg = <-queue[channel]
Recv(w) ==
  LET c == wch[w] IN
  /\ wpc[w] = "wait" /\ pend[c] # <<>>
  /\ cur' = [cur EXCEPT ![w] = Head(pend[c])]
  /\ pend' = [pend EXCEPT ![c] = Tail(@)]
  /\ Turn(w, "view")
  /\ UNCHANGED <<proc, faults, disk, rw, chans, http, wch, body, dl, hist>>

\* db.View: what is committed by now; Get of an absent key returns nil.
View(w) ==
  /\ wpc[w] = "view" /\ wch[w] \in Buckets
  /\ body' = [body EXCEPT ![w] = IF cur[w] \in jobs[wch[w]] THEN "whole" ELSE "empty"]
  /\ Turn(w, "write")
  /\ UNCHANGED <<proc, faults, disk, rw, broker, http, wch, cur, dl, hist>>

\* The transaction that creates the bucket has not committed: bjob is nil.
ViewPanic(w) == wpc[w] = "view" /\ wch[w] \notin Buckets /\ Die("panic")

\* JOB <id> <len>, the body, SetDeadline: a body that is no longer pinned by a
\* transaction is sent as it was, or as what its pages hold by now.
Deliver(w) ==
  /\ wpc[w] = "write" /\ dl[w] # "past"
  /\ body' \in {[body EXCEPT ![w] = b] :
                  b \in IF body[w] = "unpinned" THEN {"whole", "torn"} ELSE {body[w]}}
  /\ dl' = [dl EXCEPT ![w] = "armed"]
  /\ Turn(w, "busy")
  /\ UNCHANGED <<proc, faults, disk, rw, broker, http, wch, cur, hist>>

\* Mutant: a message that was not answered is dropped.
Bug_Stick(w) ==
  /\ Turn(w, "idle")
  /\ cur' = [cur EXCEPT ![w] = 0]
  /\ body' = [body EXCEPT ![w] = "none"]
  /\ UNCHANGED <<proc, faults, disk, rw, broker, http, wch, dl, hist>>

\* requeue[channel] <- *curmsg, with state 2.  requeue never gets an entry, so
\* this is a send on a nil channel: the goroutine stays here with its message,
\* and conn, whose Close() is deferred, stays open.
Stick(w) ==
  /\ Turn(w, "requeue")
  /\ body' = [body EXCEPT ![w] = "none"]
  /\ UNCHANGED <<proc, faults, disk, rw, broker, http, wch, cur, dl, hist>>

\* A write fails: the client left, a deadline set for an earlier job has
\* passed, or the pages of the body are no longer mapped.
DeliverFails(w) == wpc[w] = "write" /\ Stick(w)

\* The client leaves, its deadline passes, or it says something else.
Abandon(w) == wpc[w] = "busy" /\ Stick(w)

\* PONG: two more minutes.
Pong(w) ==
  /\ wpc[w] = "busy"
  /\ dl' = [dl EXCEPT ![w] = "armed"]
  /\ UNCHANGED <<proc, faults, disk, rw, broker, http, wpc, wch, cur, body, hist>>

\* OK: the job is not deleted from the bucket, and the deadline stays set.
Ok(w) ==
  /\ wpc[w] = "busy"
  /\ Turn(w, "idle")
  /\ done' = [done EXCEPT ![wch[w]] = @ \cup {cur[w]}]
  /\ cur' = [cur EXCEPT ![w] = 0]
  /\ body' = [body EXCEPT ![w] = "none"]
  /\ UNCHANGED <<proc, faults, disk, rw, broker, http, wch, dl, failed>>

\* Time passes the deadline of a connection.
Expire(w) ==
  /\ dl[w] = "armed"
  /\ dl' = [dl EXCEPT ![w] = "past"]
  /\ UNCHANGED <<proc, faults, disk, rw, broker, http, wpc, wch, cur, body, hist>>

-----------------------------------------------------------------------------
(* The specification *)

Init ==
  /\ phase = "down" /\ starts = 0 /\ faults = 0
  /\ seq = [c \in Channels |-> 0] /\ jobs = [c \in Channels |-> {}]
  /\ rw = None /\ chans = {} /\ pend = [c \in Channels |-> <<>>]
  /\ ppc = [p \in Producers |-> "idle"] /\ pch = [p \in Producers |-> None]
  /\ wpc = [w \in Workers |-> "off"] /\ wch = [w \in Workers |-> None]
  /\ cur = [w \in Workers |-> 0] /\ body = [w \in Workers |-> "none"]
  /\ dl = [w \in Workers |-> "none"]
  /\ done = [c \in Channels |-> {}] /\ failed = [c \in Channels |-> {}]

HandlerNext(p) ==
  \/ \E c \in Channels : Request(p, c)
  \/ Refuse(p) \/ Acquire(p) \/ Dump(p) \/ Make(p) \/ Send(p)
  \/ Commit(p) \/ CommitFails(p)

WorkerNext(w) ==
  \/ \E c \in Channels : Chan(w, c)
  \/ Connect(w) \/ BareChan(w) \/ Drop(w) \/ Ready(w) \/ ReadyRace(w)
  \/ Recv(w) \/ View(w) \/ ViewPanic(w) \/ Deliver(w) \/ DeliverFails(w)
  \/ Abandon(w) \/ Pong(w) \/ Ok(w) \/ Expire(w)

Next ==
  \/ Kill \/ Load \/ LoadPanics
  \/ \E p \in Producers : HandlerNext(p)
  \/ \E w \in Workers : WorkerNext(w)

Spec == Init /\ [][Next]_vars

\* What the runtime gives: systemd restarts the process (Restart=on-failure),
\* goroutines that can run do, a mutex is handed to whoever starves, and a
\* channel serves its receivers and its senders first come, first served.
\* Nothing is assumed of clients: not that a body is ever sent completely
\* (HTTP/3 is served without a read timeout), not that a worker says anything.
Fairness ==
  /\ WF_vars(Load)
  /\ \A p \in Producers :
       /\ SF_vars(Acquire(p)) /\ WF_vars(Make(p)) /\ SF_vars(Send(p))
       /\ WF_vars(Commit(p) \/ CommitFails(p))
  /\ \A w \in Workers : SF_vars(Recv(w)) /\ WF_vars(View(w) \/ ViewPanic(w))

FairSpec == Spec /\ Fairness

\* Workers that do their part: they connect, ask, and are connected well
\* enough for what they are sent.
FairWorkersSpec ==
  /\ FairSpec
  /\ \A w \in Workers :
       /\ WF_vars(Connect(w)) /\ WF_vars(\E c \in Channels : Chan(w, c))
       /\ WF_vars(Ready(w)) /\ WF_vars(Deliver(w)) /\ WF_vars(Ok(w))

-----------------------------------------------------------------------------
(* Safety *)

Queued(c) == Range(pend[c])
Held(c)   == {cur[w] : w \in {v \in Workers : wch[v] = c /\ cur[v] # 0}}
\* The id in flight between the send in the transaction and its commit.
Open(c)   == IF \E p \in Producers : ppc[p] = "commit" /\ pch[p] = c
             THEN {NextId(c)} ELSE {}

\* An id that is published by a transaction that commits is never in two
\* places: buffered twice, buffered and with a worker, with two workers, or
\* handed out again after OK.  The id is sent before its transaction commits
\* (queue.go, Handle), so it takes a failed commit to see an id again.
HandedOnce == \A c \in Channels :
  /\ \A m, n \in 1 .. Len(pend[c]) :
       m # n /\ pend[c][m] = pend[c][n] => pend[c][m] \in failed[c]
  /\ \A v, w \in Workers :
       /\ wch[v] = c /\ cur[v] # 0 /\ v # w /\ wch[w] = c /\ cur[v] = cur[w]
       => cur[v] \in failed[c]
  /\ Queued(c) \cap Held(c) \subseteq failed[c]
  /\ done[c] \cap (Queued(c) \cup Held(c)) \subseteq failed[c]

\* A channel hands its jobs out in the order of their ids, whichever handlers
\* and workers race: what waits is sorted and not older than what was taken,
\* even when a failed commit makes an id appear again.
HandoutInOrder == \A c \in Channels :
  /\ \A m, n \in 1 .. Len(pend[c]) : m < n => pend[c][m] <= pend[c][n]
  /\ \A i \in Held(c), j \in Queued(c) : i <= j

\* While the process runs, a request that was answered 200 is waiting in its
\* channel, is with a worker that has not answered, or was answered OK: no
\* error path of Handle() or handle() lets go of a stored job.
NothingLost == phase = "up" =>
  \A c \in Channels : jobs[c] \subseteq Queued(c) \cup Held(c) \cup done[c]

\* What workers can be given is stored, or its transaction is still open, or
\* its commit failed after the id was sent: no other id is ever handed out.
NothingInvented == \A c \in Channels :
  Queued(c) \cup Held(c) \subseteq jobs[c] \cup Open(c) \cup failed[c]

-----------------------------------------------------------------------------
(* The inductive invariant *)

InFlight(p) == ppc[p] \in TxPhases \cup {"lock"}

Locked == \A p \in Producers : rw = p <=> ppc[p] \in TxPhases

Places ==
  /\ \A p \in Producers : pch[p] \in Channels <=> InFlight(p)
  /\ \A w \in Workers :
       /\ wch[w] \in Channels <=> wpc[w] \notin {"off", "chan"}
       /\ cur[w] # 0 <=> wpc[w] \in Holding

Numbered == \A c \in Channels :
  /\ jobs[c] = 1 .. seq[c]
  /\ failed[c] \subseteq 1 .. seq[c] + 1

Sources == \A c \in Channels :
  Queued(c) \cup Held(c) \cup done[c] \subseteq jobs[c] \cup Open(c) \cup failed[c]

OpenIsOut == \A c \in Channels : Open(c) \subseteq Queued(c) \cup Held(c) \cup done[c]

\* Handlers exclude each other between NextSequence and the commit, so an id is
\* published once per committed number: what was ever published is stored, or
\* is the one id of the open transaction, or belongs to a failed commit; and
\* the open id is already out.  The conjunction with the safety properties is
\* preserved by every step of the code.
Inv ==
  /\ TypeOK /\ Locked /\ Places /\ Numbered /\ Sources /\ OpenIsOut
  /\ HandedOnce /\ HandoutInOrder /\ NothingLost

-----------------------------------------------------------------------------
(* Liveness *)

\* A handler hangs for good only while some channel is full for good (no
\* worker serves it: the handler that waits for it keeps the one writer lock,
\* and with it every other channel of every domain), or while the client of
\* the handler that has the lock never completes its body.
HangsOnlyBehindFullOrClient == \A p \in Producers :
  <>[]InFlight(p) =>
    \/ <>[](\E c \in Channels : Full(c))
    \/ <>[](\E q \in Producers : ppc[q] = "dump")

\* A worker that is blocked on the Go channel of its name is not left waiting
\* while that channel holds jobs.
WaiterIsServed == \A w \in Workers :
  ~ <>[](wpc[w] = "wait" /\ pend[wch[w]] # <<>>)

-----------------------------------------------------------------------------
(* The queue implements JobHandout while no commit fails *)

status == [c \in Channels |-> [i \in 1 .. MaxSeq |->
  IF i \in Held(c) THEN "held"
  ELSE IF i \in Queued(c) THEN "queued"
  ELSE IF i \in done[c] THEN "done"
  ELSE IF i \in jobs[c] THEN "stranded"
  ELSE "free"]]

Handout == INSTANCE JobHandout WITH MaxId <- MaxSeq

\* Seen through `status', every step of handlers, workers and the process is a
\* step of JobHandout or none: numbering, order, at most one handout, and a
\* crash that forgets at most the one job whose transaction was open.
ImplementsJobHandout == Handout!Spec

-----------------------------------------------------------------------------
(* What comments and documentation say, and the code does not do *)

\* queue.go:53, "Load entries in the queue": after a start of the process every
\* stored entry is in its channel.
EntriesAreLoaded == [][starts' > starts =>
  phase' = "up" /\ \A c \in Channels : jobs[c] \subseteq Range(pend'[c])]_vars

\* worker.go:36, "re=retry": a job that its worker did not answer is offered
\* again, unless the process ends first.
UnansweredIsRetried == \A w \in Workers :
  wpc[w] = "requeue" ~> (wpc[w] # "requeue")
=============================================================================
