------------------------------ MODULE UploadMe ------------------------------
(***************************************************************************)
(* contrib/uploadme: the page and its server together.  A chunk the pool   *)
(* of readers sends is a request of the server, its answer is what moves   *)
(* the pool on; an answer may be lost while its request still runs.        *)
(***************************************************************************)
EXTENDS Naturals, Sequences, FiniteSets

CONSTANTS
  Uploads, Parts, Limit, Name,
  MaxFaults, MaxRemoves    \* bounds of the model: failures; rm requests

VARIABLES st, idx, queue, workers,
          req, at, mem, meta, part, turn, mixed,
          faults, removes

Pool   == INSTANCE ReaderPool
Server == INSTANCE ChunkServer

ASSUME UploadAssumption == Pool!PoolAssumption /\ {MaxFaults, MaxRemoves} \subseteq Nat

page  == <<st, idx, queue, workers>>
disk  == <<at, mem, meta, part, turn, mixed>>
count == <<faults, removes>>
vars  == <<page, req, disk, count>>

TypeOK == Pool!TypeOK /\ Server!TypeOK /\ faults \in Nat /\ removes \in Nat

Init == Pool!Init /\ Server!Init /\ faults = 0 /\ removes = 0

Fault == faults < MaxFaults /\ faults' = faults + 1 /\ UNCHANGED removes

-----------------------------------------------------------------------------

\* A file is dropped on the page.
Drop(u) == Pool!Drop(u) /\ UNCHANGED <<req, disk, count>>

\* fnChunk posts the chunk that was read.
Send(u) == Pool!Read(u) /\ Server!Receive(u, idx[u]) /\ UNCHANGED count

ReadFails(u) == Pool!ReadFails(u) /\ UNCHANGED <<req, disk, count>>

\* xhr.onload with 200 and "OK."
Accepted(u) ==
  /\ req[u] = "ok" /\ Pool!Accepted(u)
  /\ Server!Leave(u) /\ UNCHANGED count

\* xhr.onload with another status, or xhr.onerror after the server ended.
Rejected(u) ==
  /\ req[u] \in {"bad", "gone"} /\ Pool!Rejected(u)
  /\ Server!Leave(u) /\ UNCHANGED count

\* xhr.onerror while the server still works on the request.
Lose(u) == Pool!Rejected(u) /\ Fault /\ UNCHANGED <<req, disk>>

Serve(u) ==
  /\ \/ Server!Load(u) \/ Server!Stat(u) \/ Server!Remove(u) \/ Server!Open(u)
     \/ Server!Copy(u) \/ Server!Truncate(u) \/ Server!Write(u)
  /\ UNCHANGED <<page, count>>

Fails(u) ==
  /\ Server!Refuse(u) \/ Server!CopyFails(u) \/ Server!WriteFails(u)
  /\ Fault /\ UNCHANGED page

Rm(n) ==
  /\ removes < MaxRemoves /\ Server!Rm(n)
  /\ removes' = removes + 1 /\ UNCHANGED <<page, faults>>

Crash == Server!Crash /\ Fault /\ UNCHANGED page

Step(u) == Send(u) \/ Accepted(u) \/ Rejected(u) \/ Serve(u)

Next ==
  \/ \E u \in Uploads : Drop(u) \/ ReadFails(u) \/ Lose(u) \/ Fails(u) \/ Step(u)
  \/ \E n \in Server!Names : Rm(n)
  \/ Crash

\* The browser reads and calls back, the server's timeouts end each request:
\* as long as one file or request can go on, one does.
Spec == Init /\ [][Next]_vars /\ WF_vars(\E u \in Uploads : Step(u))

-----------------------------------------------------------------------------
(* Properties *)

Placed == {u \in Uploads : st[u] \in {"reading", "sending", "stuck"}}

\* Every place of the page is a file being read or sent or one that is stuck
\* for good; files wait only while all places are taken, each of them once,
\* and no other file believes that it waits.  (chunked.js:54-83)
PlacesAccounted ==
  /\ workers = Cardinality(Placed)
  /\ workers <= Limit
  /\ queue # <<>> => workers = Limit
  /\ Pool!Queued = {u \in Uploads : st[u] = "queued"}
  /\ \A i, j \in DOMAIN queue : queue[i] = queue[j] => i = j

Whole(n, u) == \A i \in 0 .. Parts[u] - 1 : part'[n][i] = [by |-> {u}, whole |-> {u}]

\* A name is listed only when every part was stored from begin to end by one
\* upload, through failed copies and saves, crashes and removals: the only
\* exception are uploads of one name that overlapped on the server, where a
\* repeated, zombie or parallel request is counted too.  (main.go:136-202)
StoredWhenListed ==
  [][\A n \in Server!Names :
       (Server!Listed(meta'[n]) /\ ~Server!Listed(meta[n]) /\ n \notin mixed')
         => \E u \in turn'[n] : meta'[n].total = Parts[u] /\ Whole(n, u)]_vars

\* What the page shows in green stays on disk, and status() lists it until it
\* is removed or sent again.  (app.js:46-64, main.go:188-201)
GreenIsKept ==
  \A u \in Uploads :
    LET n == Name[u] IN
    (st[u] = "done" /\ Parts[u] > 0 /\ turn[n] = {u} /\ n \notin mixed)
      => /\ meta[n] = Server!None \/ Server!Listed(meta[n])
         /\ \A i \in 0 .. Parts[u] - 1 : Server!Intact(n, i, u)

\* A file that waits is started, whatever fails for the others, unless every
\* place was lost to a read error.  (chunked.js:19-23, 64-77)
QueuedStarts ==
  queue # <<>> ~> (queue = <<>> \/ Cardinality(Pool!Stuck) = Limit)
=============================================================================
