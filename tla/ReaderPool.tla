----------------------------- MODULE ReaderPool -----------------------------
(***************************************************************************)
(* The page of contrib/uploadme (pub/chunked.js, pub/app.js): each file    *)
(* that is dropped on it is read and sent chunk by chunk, at most Limit    *)
(* files at a time, the others wait in a queue.                            *)
(***************************************************************************)
EXTENDS Naturals, Sequences

CONSTANTS
  Uploads,  \* files dropped on the page, each time they are
  Parts,    \* how many chunks each has: 0 for an empty file
  Limit     \* files read at a time (4)

PoolAssumption == Parts \in [Uploads -> Nat] /\ Limit \in Nat \ {0}

VARIABLES
  st,       \* of each upload: "new", "queued", "reading", "sending", "done",
            \* "failed" (its line is red), "stuck" (the read gave an error)
  idx,      \* the chunk it is at
  queue,    \* uploads that wait for a place
  workers   \* places taken

pool == <<st, idx, queue, workers>>

Stuck  == {u \in Uploads : st[u] = "stuck"}
Queued == {queue[i] : i \in DOMAIN queue}

States == {"new", "queued", "reading", "sending", "done", "failed", "stuck"}

TypeOK ==
  /\ st \in [Uploads -> States]
  /\ idx \in [Uploads -> Nat]
  /\ queue \in Seq(Uploads)
  /\ workers \in 0 .. Limit

Init ==
  /\ st = [u \in Uploads |-> "new"] /\ idx = [u \in Uploads |-> 0]
  /\ queue = <<>> /\ workers = 0

\* Bug: one place too many.
Bug_Drop(u) ==
  /\ st[u] = "new"
  /\ IF workers > Limit
     THEN st' = [st EXCEPT ![u] = "queued"] /\ queue' = Append(queue, u) /\ UNCHANGED workers
     ELSE st' = [st EXCEPT ![u] = "reading"] /\ workers' = workers + 1 /\ UNCHANGED queue
  /\ UNCHANGED idx

\* limitedChunkedReader: a file waits when every place is taken.
Drop(u) ==
  /\ st[u] = "new"
  /\ IF workers = Limit
     THEN st' = [st EXCEPT ![u] = "queued"] /\ queue' = Append(queue, u) /\ UNCHANGED workers
     ELSE st' = [st EXCEPT ![u] = "reading"] /\ workers' = workers + 1 /\ UNCHANGED queue
  /\ UNCHANGED idx

\* A chunk is read and sent.
Read(u) ==
  /\ st[u] = "reading"
  /\ st' = [st EXCEPT ![u] = "sending"]
  /\ UNCHANGED <<idx, queue, workers>>

\* Bug: a read error passes the place on without a look at the queue.
Bug_ReadFails(u) ==
  /\ st[u] = "reading"
  /\ st' = [st EXCEPT ![u] = "failed"] /\ workers' = workers - 1
  /\ UNCHANGED <<idx, queue>>

\* The file cannot be read: nobody calls fnDone.
ReadFails(u) ==
  /\ st[u] = "reading"
  /\ st' = [st EXCEPT ![u] = "stuck"]
  /\ UNCHANGED <<idx, queue, workers>>

\* fnDone, which is next(): the place goes to the first file that waits, or
\* is given up and the end announced.
Finish(u, how) ==
  IF queue = <<>>
  THEN st' = [st EXCEPT ![u] = how] /\ workers' = workers - 1 /\ UNCHANGED queue
  ELSE /\ st' = [st EXCEPT ![u] = how, ![Head(queue)] = "reading"]
       /\ queue' = Tail(queue)
       /\ UNCHANGED workers

\* The chunk was answered "OK.": the next one, or the end of the file.
Accepted(u) ==
  /\ st[u] = "sending"
  /\ IF idx[u] + 1 >= Parts[u]
     THEN Finish(u, "done") /\ UNCHANGED idx
     ELSE st' = [st EXCEPT ![u] = "reading"] /\ idx' = [idx EXCEPT ![u] = @ + 1]
          /\ UNCHANGED <<queue, workers>>

\* Another answer, or none (onerror): the file is given up.
Rejected(u) ==
  /\ st[u] = "sending"
  /\ Finish(u, "failed")
  /\ UNCHANGED idx
=============================================================================
