---------------------------- MODULE UploadProofs ----------------------------
(* For every number of uploads, parts and places: the places of the page   *)
(* are accounted for, and what is listed or shown in green was stored.     *)
EXTENDS UploadMe, FiniteSetTheorems, TLAPS

-----------------------------------------------------------------------------
(* The places.  What the server does is of no concern: each step of the    *)
(* page is one of the pool, and the others leave the pool alone.           *)

Types ==
  /\ st \in [Uploads -> Pool!States] /\ idx \in [Uploads -> Nat] /\ queue \in Seq(Uploads)
  /\ workers \in Nat /\ workers <= Limit

\* Files with a place are finitely many, whatever the set Uploads is.
Places == IsFiniteSet(Placed) /\ workers = Cardinality(Placed)

Waits == Pool!Queued = {u \in Uploads : st[u] = "queued"}
Once  == \A i, j \in DOMAIN queue : queue[i] = queue[j] => i = j

PoolInv == Types /\ Places /\ Waits /\ Once /\ (queue # <<>> => workers = Limit)

USE UploadAssumption DEF Pool!PoolAssumption

\* Nothing has been dropped on the page.
LEMMA PoolInit == Init => PoolInv
<1> SUFFICES ASSUME Init PROVE PoolInv
  OBVIOUS
<1> USE DEF Init, Pool!Init
<1>1. Placed = {} BY DEF Placed
<1>2. Places BY <1>1, FS_EmptySet DEF Places
<1>3. st \in [Uploads -> Pool!States] BY DEF Pool!States
<1>4. Types
  <2>1. idx \in [Uploads -> Nat] /\ queue \in Seq(Uploads) OBVIOUS
  <2>3. Limit \in Nat BY DEF UploadAssumption
  <2>4. workers = 0 OBVIOUS
  <2>5. workers \in Nat /\ workers <= Limit BY <2>3, <2>4
  <2> QED BY <1>3, <2>1, <2>5 DEF Types
<1>5. Pool!Queued = {} BY DEF Pool!Queued
<1>6. Waits BY <1>5 DEF Waits
<1> QED BY <1>2, <1>4, <1>6 DEF PoolInv, Once

\* A file takes a place that is free, or the end of the queue.
LEMMA DropStep ==
  ASSUME PoolInv, NEW u \in Uploads, Pool!Drop(u)
  PROVE  PoolInv'
<1>1. Types /\ Places /\ Waits /\ Once /\ (queue # <<>> => workers = Limit) BY DEF PoolInv
<1>2. st[u] = "new" /\ idx' = idx BY DEF Pool!Drop
<1>3. CASE workers = Limit
  <2>1. st' = [st EXCEPT ![u] = "queued"] /\ queue' = Append(queue, u) /\ workers' = workers
    BY <1>3 DEF Pool!Drop
  <2>2. st' \in [Uploads -> Pool!States] BY <1>1, <2>1 DEF Types, Pool!States
  <2>3. Types' BY <1>1, <1>2, <2>1, <2>2 DEF Types
  <2>4. Placed' = Placed BY <1>1, <1>2, <2>1 DEF Placed, Types
  <2>5. /\ DOMAIN queue = 1 .. Len(queue) /\ DOMAIN queue' = 1 .. (Len(queue) + 1)
        /\ queue'[Len(queue) + 1] = u /\ Len(queue) \in Nat
        /\ \A i \in 1 .. Len(queue) : queue'[i] = queue[i]
    BY <1>1, <2>1 DEF Types
  <2>6. u \notin Pool!Queued BY <1>1, <1>2 DEF Waits
  <2>7. \A i \in DOMAIN queue : queue[i] # u BY <2>6 DEF Pool!Queued
  <2>8. Once'
    <3> SUFFICES ASSUME NEW i \in DOMAIN queue', NEW j \in DOMAIN queue', queue'[i] = queue'[j]
                 PROVE  i = j
      BY DEF Once
    <3>1. (i = Len(queue) + 1 \/ i \in DOMAIN queue) /\ (j = Len(queue) + 1 \/ j \in DOMAIN queue) BY <2>5
    <3> QED BY <1>1, <2>5, <2>7, <3>1 DEF Once
  <2>9. Pool!Queued' = Pool!Queued \cup {u}
    <3>1. \A x \in Pool!Queued' : x \in Pool!Queued \cup {u} BY <2>5 DEF Pool!Queued
    <3>2. \A x \in Pool!Queued \cup {u} : x \in Pool!Queued' BY <2>5 DEF Pool!Queued
    <3> QED BY <3>1, <3>2
  <2>10. {v \in Uploads : st'[v] = "queued"} = {v \in Uploads : st[v] = "queued"} \cup {u}
    BY <1>1, <2>1 DEF Types
  <2>11. Waits' BY <1>1, <2>9, <2>10 DEF Waits
  <2> QED BY <1>1, <1>3, <2>1, <2>3, <2>4, <2>8, <2>11 DEF PoolInv, Places
<1>4. CASE workers # Limit
  <2>1. st' = [st EXCEPT ![u] = "reading"] /\ workers' = workers + 1 /\ queue' = queue
    BY <1>4 DEF Pool!Drop
  <2>2. st' \in [Uploads -> Pool!States] BY <1>1, <2>1 DEF Types, Pool!States
  <2>3. Types' BY <1>1, <1>2, <1>4, <2>1, <2>2 DEF Types
  <2>4. Placed' = Placed \cup {u} /\ u \notin Placed BY <1>1, <1>2, <2>1 DEF Placed, Types
  <2>5. Places' BY <1>1, <2>1, <2>4, FS_AddElement DEF Places
  <2>6. {v \in Uploads : st'[v] = "queued"} = {v \in Uploads : st[v] = "queued"}
    BY <1>1, <1>2, <2>1 DEF Types
  <2>7. Waits' BY <1>1, <2>1, <2>6 DEF Waits, Pool!Queued
  <2> QED BY <1>1, <1>4, <2>1, <2>3, <2>5, <2>7 DEF PoolInv, Once
<1> QED BY <1>3, <1>4

\* fnDone: the place goes to the file that waited first, or is given up.
LEMMA FinishStep ==
  ASSUME PoolInv, NEW u \in Uploads, NEW how \in {"done", "failed"},
         st[u] = "sending", Pool!Finish(u, how), idx' = idx
  PROVE  PoolInv'
<1>1. Types /\ Places /\ Waits /\ Once /\ (queue # <<>> => workers = Limit) BY DEF PoolInv
<1>2. u \in Placed BY DEF Placed
<1>3. /\ IsFiniteSet(Placed \ {u}) /\ Cardinality(Placed \ {u}) = workers - 1
      /\ Cardinality(Placed \ {u}) \in Nat
  <2>1. IsFiniteSet(Placed \ {u}) /\ Cardinality(Placed \ {u}) = Cardinality(Placed) - 1
    BY <1>1, <1>2, FS_RemoveElement DEF Places
  <2> QED BY <1>1, <2>1, FS_CardinalityType DEF Places
<1>4. CASE queue = <<>>
  <2>1. /\ st' = [st EXCEPT ![u] = how] /\ workers' = workers - 1
        /\ queue' = queue
    BY <1>4 DEF Pool!Finish
  <2>2. st' \in [Uploads -> Pool!States] BY <1>1, <2>1 DEF Types, Pool!States
  <2>3. workers' \in Nat /\ workers' <= Limit BY <1>1, <1>3, <2>1 DEF Types
  <2>4. Types' BY <1>1, <2>1, <2>2, <2>3 DEF Types
  <2>5. Placed' = Placed \ {u} BY <1>1, <2>1 DEF Placed, Types
  <2>6. Places' BY <1>3, <2>1, <2>5 DEF Places
  <2>7. {v \in Uploads : st'[v] = "queued"} = {v \in Uploads : st[v] = "queued"}
    BY <1>1, <2>1 DEF Types
  <2>8. Waits' BY <1>1, <2>1, <2>7 DEF Waits, Pool!Queued
  <2> QED BY <1>1, <1>4, <2>1, <2>4, <2>6, <2>8 DEF PoolInv, Once
<1>5. CASE queue # <<>>
  <2> DEFINE first == Head(queue)
  <2>1. Len(queue) \in Nat \ {0} /\ DOMAIN queue = 1 .. Len(queue) /\ first = queue[1]
    BY <1>1, <1>5 DEF Types
  <2>2. /\ st' = [st EXCEPT ![u] = how, ![first] = "reading"] /\ queue' = Tail(queue)
        /\ UNCHANGED workers
    BY <1>5 DEF Pool!Finish
  <2>3. queue' \in Seq(Uploads) /\ Len(queue') = Len(queue) - 1 /\ DOMAIN queue' = 1 .. (Len(queue) - 1)
    BY <1>1, <1>5, <2>2 DEF Types
  <2>4. \A i \in DOMAIN queue' : queue'[i] = queue[i + 1] BY <1>1, <1>5, <2>2, <2>3 DEF Types
  <2> HIDE DEF first
  <2>5. first \in Pool!Queued
    <3>1. 1 \in DOMAIN queue BY <2>1
    <3> QED BY <2>1, <3>1 DEF Pool!Queued
  <2>6. first \in Uploads /\ st[first] = "queued" BY <1>1, <2>5 DEF Waits
  <2>7. st' \in [Uploads -> Pool!States] BY <1>1, <2>2 DEF Types, Pool!States
  <2>8. Types' BY <1>1, <2>2, <2>3, <2>7 DEF Types
  <2>9. Placed' = (Placed \ {u}) \cup {first} /\ first \notin Placed \ {u}
    BY <1>1, <2>2, <2>6 DEF Placed, Types
  <2>10. IsFiniteSet(Placed') /\ Cardinality(Placed') = Cardinality(Placed \ {u}) + 1
    BY <1>3, <2>9, FS_AddElement
  <2>11. Places' BY <1>1, <1>3, <2>2, <2>10 DEF Places, Types
  <2>12. Once'
    <3> SUFFICES ASSUME NEW i \in DOMAIN queue', NEW j \in DOMAIN queue', queue'[i] = queue'[j]
                 PROVE  i = j
      BY DEF Once
    <3>1. i \in Int /\ j \in Int BY <2>1, <2>3
    <3>2. i + 1 \in DOMAIN queue /\ j + 1 \in DOMAIN queue BY <2>1, <2>3
    <3>3. queue[i + 1] = queue[j + 1] BY <2>4
    <3>4. i + 1 = j + 1 BY <1>1, <3>2, <3>3 DEF Once
    <3> QED BY <3>1, <3>4
  <2>13. Pool!Queued' = Pool!Queued \ {first}
    <3>1. ASSUME NEW i \in DOMAIN queue' PROVE queue'[i] \in Pool!Queued \ {first}
      <4>1. i + 1 \in DOMAIN queue /\ i + 1 # 1 /\ 1 \in DOMAIN queue BY <2>1, <2>3
      <4>2. queue[i + 1] # queue[1] BY <1>1, <4>1 DEF Once
      <4>3. queue[i + 1] \in Pool!Queued BY <4>1 DEF Pool!Queued
      <4> QED BY <2>1, <2>4, <4>2, <4>3
    <3>2. ASSUME NEW x \in Pool!Queued \ {first} PROVE x \in Pool!Queued'
      <4>1. PICK i \in DOMAIN queue : x = queue[i] BY DEF Pool!Queued
      <4>2. i # 1 BY <2>1, <4>1
      <4>3. i - 1 \in DOMAIN queue' /\ (i - 1) + 1 = i BY <2>1, <2>3, <4>2
      <4>4. queue'[i - 1] = x BY <2>4, <4>1, <4>3
      <4> QED BY <4>3, <4>4 DEF Pool!Queued
    <3>3. \A x \in Pool!Queued' : x \in Pool!Queued \ {first} BY <3>1 DEF Pool!Queued
    <3> QED BY <3>2, <3>3
  <2>14. {v \in Uploads : st'[v] = "queued"} = {v \in Uploads : st[v] = "queued"} \ {first}
    BY <1>1, <2>2, <2>6 DEF Types
  <2>15. Waits' BY <1>1, <2>13, <2>14 DEF Waits
  <2> QED BY <1>1, <1>5, <2>2, <2>8, <2>11, <2>12, <2>15 DEF PoolInv
<1> QED BY <1>4, <1>5

\* Steps that neither take nor give up a place.
LEMMA KeepStep ==
  ASSUME PoolInv, NEW u \in Uploads, st[u] \in {"reading", "sending"},
         NEW how \in {"reading", "sending", "stuck"},
         st' = [st EXCEPT ![u] = how], idx' \in [Uploads -> Nat],
         UNCHANGED <<queue, workers>>
  PROVE  PoolInv'
<1>1. Types /\ Places /\ Waits /\ Once /\ (queue # <<>> => workers = Limit) BY DEF PoolInv
<1>2. st' \in [Uploads -> Pool!States] BY <1>1 DEF Types, Pool!States
<1>3. Types' BY <1>1, <1>2 DEF Types
<1>4. Placed' = Placed BY <1>1 DEF Placed, Types
<1>5. {v \in Uploads : st'[v] = "queued"} = {v \in Uploads : st[v] = "queued"} BY <1>1 DEF Types
<1>6. Waits' BY <1>1, <1>5 DEF Waits, Pool!Queued
<1> QED BY <1>1, <1>3, <1>4, <1>6 DEF PoolInv, Places, Once

\* Every step of the page and its server.
LEMMA PoolStep == PoolInv /\ [Next]_vars => PoolInv'
<1> SUFFICES ASSUME PoolInv, [Next]_vars PROVE PoolInv'
  OBVIOUS
<1>1. ASSUME NEW u \in Uploads, Drop(u) PROVE PoolInv' BY <1>1, DropStep DEF Drop
<1>2. ASSUME NEW u \in Uploads, Send(u) PROVE PoolInv'
  BY <1>2, KeepStep DEF Send, Pool!Read, PoolInv, Types
<1>3. ASSUME NEW u \in Uploads, ReadFails(u) PROVE PoolInv'
  BY <1>3, KeepStep DEF ReadFails, Pool!ReadFails, PoolInv, Types
<1>4. ASSUME NEW u \in Uploads, Accepted(u) PROVE PoolInv'
  <2>1. CASE idx[u] + 1 >= Parts[u] BY <1>4, <2>1, FinishStep DEF Accepted, Pool!Accepted
  <2>2. CASE ~(idx[u] + 1 >= Parts[u])
    <3>1. idx' = [idx EXCEPT ![u] = @ + 1] /\ idx \in [Uploads -> Nat]
      BY <1>4, <2>2 DEF Accepted, Pool!Accepted, PoolInv, Types
    <3>2. idx' \in [Uploads -> Nat] BY <3>1
    <3> QED BY <1>4, <2>2, <3>2, KeepStep DEF Accepted, Pool!Accepted
  <2> QED BY <2>1, <2>2
<1>5. ASSUME NEW u \in Uploads, Rejected(u) \/ Lose(u) PROVE PoolInv'
  BY <1>5, FinishStep DEF Rejected, Lose, Pool!Rejected
<1>6. CASE UNCHANGED page
  BY <1>6 DEF page, PoolInv, Types, Places, Placed, Waits, Once, Pool!Queued
<1>7. ASSUME NEW u \in Uploads, Serve(u) \/ Fails(u) PROVE UNCHANGED page BY <1>7 DEF Serve, Fails
<1>8. ASSUME NEW n \in Server!Names, Rm(n) PROVE UNCHANGED page BY <1>8 DEF Rm
<1>9. ASSUME Crash \/ UNCHANGED vars PROVE UNCHANGED page BY <1>9 DEF Crash, vars
<1> QED BY <1>1, <1>2, <1>3, <1>4, <1>5, <1>6, <1>7, <1>8, <1>9 DEF Next, Step

\* The places of limitedChunkedReader are accounted for, however chunks and
\* reads fail and whatever the server does.  (chunked.js:54-83)
THEOREM AlwaysPlacesAccounted == Spec => []PlacesAccounted
<1>1. PoolInv => PlacesAccounted BY DEF PoolInv, Types, Places, Waits, Once, PlacesAccounted
<1> QED BY <1>1, PoolInit, PoolStep, PTL DEF Spec

-----------------------------------------------------------------------------
(* The directory: a request and its page, as long as the uploads of their  *)
(* name have not overlapped                                                *)

\* It is the turn of u, alone.
Turn(u) == turn[Name[u]] = {u} /\ Name[u] \notin mixed

Stored(u, p) == \A i \in 0 .. p - 1 : Server!Intact(Name[u], i, u)
Counts(u, p) == [total |-> Parts[u], n |-> p]

\* The first p parts are stored, and counted unless they were removed from the list.
Kept(u, p) == Stored(u, p) /\ (p > 0 => meta[Name[u]] \in {Server!None, Counts(u, p)})

Begun == {"stat", "remove", "open", "copy", "save", "write", "unlinked"}

OfRequest(u) ==
  Server!Running(u) /\ Name[u] \notin mixed =>
    /\ turn[Name[u]] = {u}
    /\ Stored(u, at[u])
    /\ req[u] = "load" /\ at[u] > 0 => meta[Name[u]] \in {Server!None, Server!Torn, Counts(u, at[u])}
    /\ req[u] \in Begun => mem[u] = Counts(u, at[u])
    /\ req[u] = "open" => Server!File(u) = Server!Absent
    /\ req[u] = "copy" => Server!File(u) = [by |-> {u}, whole |-> {}]
    /\ req[u] \in {"save", "write", "unlinked"} => Server!Intact(Name[u], at[u], u)
    /\ req[u] = "unlinked" => meta[Name[u]] = Server!None

\* What the page knows of the request, and what was stored when it goes on.
OfPage(u) ==
  /\ idx[u] = 0 \/ idx[u] < Parts[u]
  /\ st[u] \in {"new", "queued"} => idx[u] = 0
  /\ st[u] \notin {"sending", "failed"} => req[u] = "none"
  /\ st[u] = "sending" /\ Server!Running(u) => at[u] = idx[u]
  /\ Turn(u) =>
       /\ st[u] = "reading" => Kept(u, idx[u])
       /\ st[u] = "sending" /\ req[u] = "ok" => Kept(u, idx[u] + 1)
       /\ st[u] = "done" /\ Parts[u] > 0 => Kept(u, Parts[u])

Sane == \A n \in Server!Names : \A i \in Server!PartIds : part[n][i].whole \subseteq part[n][i].by

StoreInv == Server!TypeOK /\ Sane /\ \A u \in Uploads : OfRequest(u) /\ OfPage(u)

UploadInv == PoolInv /\ StoreInv

LEMMA NamesAndParts ==
  ASSUME NEW u \in Uploads
  PROVE  Name[u] \in Server!Names /\ 0 .. Parts[u] \subseteq Server!PartIds /\ Parts[u] \in Nat
BY DEF Server!Names, Server!PartIds, UploadAssumption

LEMMA PartIdsAreNat == Server!PartIds \subseteq Nat
BY DEF Server!PartIds, UploadAssumption

LEMMA UploadInit == Init => UploadInv
<1> SUFFICES ASSUME Init PROVE StoreInv BY PoolInit DEF UploadInv
<1>1. Server!Init /\ Pool!Init BY DEF Init
<1>2. \A u \in Uploads : req[u] = "none" /\ at[u] = 0 /\ st[u] = "new" /\ idx[u] = 0
  BY <1>1 DEF Server!Init, Pool!Init
<1>3. Server!TypeOK
  <2>1. at \in [Uploads -> Server!PartIds] BY <1>1, NamesAndParts DEF Server!Init
  <2>2. req \in [Uploads -> {"none"}] /\ mixed \subseteq Server!Names /\ turn \in [Server!Names -> SUBSET Uploads]
    BY <1>1 DEF Server!Init
  <2>3. Server!None \in [total : Nat, n : Nat] BY DEF Server!None
  <2>4. mem \in [Uploads -> [total : Nat, n : Nat]] /\ meta \in [Server!Names -> [total : Nat, n : Nat]]
    BY <1>1, <2>3 DEF Server!Init
  <2>5. Server!Absent \in [by : SUBSET Uploads, whole : SUBSET Uploads] BY DEF Server!Absent
  <2>6. part \in [Server!Names -> [Server!PartIds -> [by : SUBSET Uploads, whole : SUBSET Uploads]]]
    BY <1>1, <2>5 DEF Server!Init
  <2> QED BY <2>1, <2>2, <2>4, <2>6 DEF Server!TypeOK
<1>4. Sane BY <1>1 DEF Server!Init, Sane, Server!Absent
<1>5. ASSUME NEW u \in Uploads PROVE OfRequest(u) /\ OfPage(u)
  BY <1>2 DEF OfRequest, OfPage, Server!Running
<1> QED BY <1>3, <1>4, <1>5 DEF StoreInv
FileT == [by : SUBSET Uploads, whole : SUBSET Uploads]
MetaT == [total : Nat, n : Nat]

\* Nothing that concerns v has changed.
LEMMA SameUpload ==
  ASSUME NEW v, OfRequest(v), OfPage(v),
         req'[v] = req[v], at'[v] = at[v], mem'[v] = mem[v], st'[v] = st[v], idx'[v] = idx[v],
         (Name[v] \in mixed') = (Name[v] \in mixed), turn'[Name[v]] = turn[Name[v]],
         part'[Name[v]] = part[Name[v]], meta'[Name[v]] = meta[Name[v]]
  PROVE  OfRequest(v)' /\ OfPage(v)'
<1>1. (Server!Running(v)' => Server!Running(v)) /\ (Turn(v)' => Turn(v)) BY DEF Server!Running, Turn
<1>2. Stored(v, at[v]) => Stored(v, at[v])' BY DEF Stored, Server!Intact
<1>3. OfRequest(v)' BY <1>1, <1>2 DEF OfRequest, Counts, Server!File, Server!Intact
<1>4. Kept(v, idx[v]) => Kept(v, idx[v])' BY DEF Kept, Stored, Counts, Server!Intact
<1>5. Kept(v, idx[v] + 1) => Kept(v, idx[v] + 1)' BY DEF Kept, Stored, Counts, Server!Intact
<1>6. Kept(v, Parts[v]) => Kept(v, Parts[v])' BY DEF Kept, Stored, Counts, Server!Intact
<1>7. OfPage(v)' BY <1>1, <1>4, <1>5, <1>6 DEF OfPage
<1> QED BY <1>3, <1>7

\* A step of a request, which touches its own name and locals only.
LEMMA RequestStep ==
  ASSUME StoreInv, NEW u \in Uploads, Server!Running(u), UNCHANGED <<st, idx, turn, mixed>>,
         Server!TypeOK', Sane',
         \A v \in Uploads \ {u} : req'[v] = req[v] /\ at'[v] = at[v] /\ mem'[v] = mem[v],
         \A n \in Server!Names \ {Name[u]} : part'[n] = part[n] /\ meta'[n] = meta[n],
         OfRequest(u)', Server!Running(u)' => at'[u] = at[u],
         NEW k, k = at[u] + 1, Turn(u) /\ req'[u] = "ok" => Kept(u, k)'
  PROVE  StoreInv'
<1>1. \A v \in Uploads : OfRequest(v) /\ OfPage(v) BY DEF StoreInv
<1>2. st[u] \in {"sending", "failed"}
  <2>1. req[u] # "none" BY DEF Server!Running
  <2> QED BY <1>1, <2>1 DEF OfPage
<1>3. OfPage(u)'
  <2>1. (st[u] = "sending" => at[u] = idx[u]) /\ (idx[u] = 0 \/ idx[u] < Parts[u]) BY <1>1 DEF OfPage
  <2>2. Turn(u)' => Turn(u) BY DEF Turn
  <2>3. st'[u] = st[u] /\ idx'[u] = idx[u] OBVIOUS
  <2>4. Turn(u)' /\ st[u] = "sending" /\ req'[u] = "ok" => Kept(u, idx[u] + 1)'
    <3>1. SUFFICES ASSUME st[u] = "sending", Kept(u, k)' PROVE Kept(u, idx[u] + 1)' BY <2>2
    <3>2. k = idx'[u] + 1 BY <2>1, <2>3, <3>1
    <3> QED BY <3>1, <3>2 DEF Kept, Stored, Counts
  <2> QED BY <1>2, <2>1, <2>3, <2>4 DEF OfPage
<1>4. ASSUME NEW v \in Uploads \ {u} PROVE OfRequest(v)' /\ OfPage(v)'
  <2>1. /\ req'[v] = req[v] /\ at'[v] = at[v] /\ mem'[v] = mem[v] /\ st'[v] = st[v] /\ idx'[v] = idx[v]
        /\ turn' = turn /\ mixed' = mixed
    OBVIOUS
  <2>2. OfRequest(v) /\ OfPage(v) BY <1>1
  <2>3. CASE Name[v] # Name[u]
    <3>1. part'[Name[v]] = part[Name[v]] /\ meta'[Name[v]] = meta[Name[v]] BY <2>3, NamesAndParts
    <3>2. QED BY <2>1, <2>2, <3>1, SameUpload
  <2>4. CASE Name[v] = Name[u]
    <3>1. Name[u] \notin mixed => turn[Name[u]] = {u} BY <1>1 DEF OfRequest
    <3>2. {u} # {v} OBVIOUS
    <3>3. ~Turn(v)' BY <2>1, <2>4, <3>1, <3>2 DEF Turn
    <3>4. OfRequest(v)'
      <4>1. Name[v] \notin mixed => ~Server!Running(v) BY <2>2, <2>4, <3>1, <3>2 DEF OfRequest
      <4> QED BY <2>1, <4>1 DEF OfRequest, Server!Running
    <3>5. OfPage(v)' BY <2>1, <2>2, <3>3 DEF OfPage, Server!Running
    <3> QED BY <3>4, <3>5
  <2> QED BY <2>3, <2>4
<1> QED BY <1>3, <1>4 DEF StoreInv

\* The handler returns.
LEMMA EndStep ==
  ASSUME StoreInv, NEW u \in Uploads, Server!Running(u), NEW answer \in {"ok", "bad"}, Server!End(u, answer),
         UNCHANGED <<st, idx, part, turn, mixed>>, meta' \in [Server!Names -> MetaT],
         \A n \in Server!Names \ {Name[u]} : meta'[n] = meta[n],
         NEW k, k = at[u] + 1, Turn(u) /\ answer = "ok" => Kept(u, k)'
  PROVE  StoreInv'
<1>1. Server!TypeOK /\ Sane BY DEF StoreInv
<1>2. /\ req' = [req EXCEPT ![u] = answer] /\ at' = [at EXCEPT ![u] = 0]
      /\ mem' = [mem EXCEPT ![u] = Server!None]
  BY DEF Server!End, Server!Go
<1>3. 0 \in Server!PartIds /\ Server!None \in MetaT BY NamesAndParts DEF MetaT, Server!None
<1>4. Server!TypeOK' BY <1>1, <1>2, <1>3 DEF Server!TypeOK, MetaT
<1>5. Sane' BY <1>1 DEF Sane
<1>6. \A v \in Uploads \ {u} : req'[v] = req[v] /\ at'[v] = at[v] /\ mem'[v] = mem[v]
  BY <1>1, <1>2 DEF Server!TypeOK
<1>7. req'[u] = answer BY <1>1, <1>2 DEF Server!TypeOK
<1>8. ~Server!Running(u)' BY <1>7 DEF Server!Running
<1>9. OfRequest(u)' BY <1>8 DEF OfRequest
<1> QED BY <1>4, <1>5, <1>6, <1>7, <1>8, <1>9, RequestStep

\* What [F EXCEPT ![a][b] = f] is.
LEMMA OnePart ==
  ASSUME NEW A, NEW B, NEW T, NEW F \in [A -> [B -> T]], NEW a \in A, NEW b \in B, NEW f \in T
  PROVE  LET G == [F EXCEPT ![a][b] = f] IN
         /\ G \in [A -> [B -> T]] /\ G[a][b] = f
         /\ \A y \in B : y # b => G[a][y] = F[a][y]
         /\ \A x \in A : x # a => G[x] = F[x]
<1> DEFINE g == [F[a] EXCEPT ![b] = f]
           G == [F EXCEPT ![a] = g]
<1>1. g \in [B -> T] /\ g[b] = f /\ \A y \in B : y # b => g[y] = F[a][y] OBVIOUS
<1> HIDE DEF g
<1>2. G \in [A -> [B -> T]] /\ G[a] = g /\ \A x \in A : x # a => G[x] = F[x] BY <1>1
<1> HIDE DEF G
<1>3. G = [F EXCEPT ![a][b] = f] BY DEF G, g
<1> QED BY <1>1, <1>2, <1>3

\* The handler goes on.
LEMMA GoStep ==
  ASSUME StoreInv, NEW u \in Uploads, Server!Running(u), NEW to \in Begun, Server!Go(u, to),
         UNCHANGED <<st, idx, at, turn, mixed>>,
         mem' \in [Uploads -> MetaT], \A v \in Uploads \ {u} : mem'[v] = mem[v],
         meta' \in [Server!Names -> MetaT], \A n \in Server!Names \ {Name[u]} : meta'[n] = meta[n],
         NEW f \in FileT, f.whole \subseteq f.by,
         part' = [part EXCEPT ![Name[u]][at[u]] = f],
         Turn(u) =>
           /\ mem'[u] = Counts(u, at[u])
           /\ to = "open" => f = Server!Absent
           /\ to = "copy" => f = [by |-> {u}, whole |-> {}]
           /\ to \in {"save", "write"} => f = [by |-> {u}, whole |-> {u}]
           /\ to # "unlinked"
  PROVE  StoreInv'
<1>1. Server!TypeOK /\ Sane /\ OfRequest(u) BY DEF StoreInv
<1>2. Name[u] \in Server!Names /\ at[u] \in Server!PartIds /\ at[u] \in Nat
  BY <1>1, NamesAndParts, PartIdsAreNat DEF Server!TypeOK
<1>3. req' = [req EXCEPT ![u] = to] BY DEF Server!Go
<1>4. /\ part' \in [Server!Names -> [Server!PartIds -> FileT]]
      /\ part'[Name[u]][at[u]] = f
      /\ \A i \in Server!PartIds : i # at[u] => part'[Name[u]][i] = part[Name[u]][i]
      /\ \A n \in Server!Names : n # Name[u] => part'[n] = part[n]
  <2>1. part \in [Server!Names -> [Server!PartIds -> FileT]] BY <1>1 DEF Server!TypeOK, FileT
  <2> HIDE DEF FileT
  <2> QED BY <1>2, <2>1, OnePart
<1>5. Server!TypeOK'
  <2>1. req' \in [Uploads -> {"none", "load", "stat", "remove", "open", "copy", "save", "write",
                              "unlinked", "ok", "bad", "gone"}]
    BY <1>1, <1>3 DEF Server!TypeOK, Begun
  <2> QED BY <1>1, <1>4, <2>1 DEF Server!TypeOK, MetaT, FileT
<1>6. Sane'
  <2>1. ASSUME NEW n \in Server!Names, NEW i \in Server!PartIds
        PROVE  part'[n][i].whole \subseteq part'[n][i].by
    <3>1. CASE n = Name[u] /\ i = at[u] BY <1>4, <3>1
    <3>2. CASE n = Name[u] /\ i # at[u] BY <1>1, <1>4, <3>2 DEF Sane
    <3>3. CASE n # Name[u] BY <1>1, <1>4, <3>3 DEF Sane
    <3> QED BY <3>1, <3>2, <3>3
  <2> QED BY <2>1 DEF Sane
<1>7. req'[u] = to /\ \A v \in Uploads \ {u} : req'[v] = req[v] BY <1>1, <1>3 DEF Server!TypeOK
<1>8. OfRequest(u)'
  <2>1. SUFFICES ASSUME Name[u] \notin mixed PROVE OfRequest(u)' BY DEF OfRequest
  <2>2. turn[Name[u]] = {u} /\ Stored(u, at[u]) BY <1>1, <2>1 DEF OfRequest
  <2>3. Turn(u) BY <2>1, <2>2 DEF Turn
  <2>4. Stored(u, at[u])'
    <3>1. ASSUME NEW i \in 0 .. at[u] - 1 PROVE part'[Name[u]][i] = [by |-> {u}, whole |-> {u}]
      <4>1. i # at[u] BY <1>2
      <4>2. i \in Server!PartIds
        <5>1. PICK v \in Uploads : at[u] \in 0 .. Parts[v] BY <1>2 DEF Server!PartIds
        <5>2. i \in 0 .. Parts[v] BY <1>2, <5>1, NamesAndParts
        <5> QED BY <5>2, NamesAndParts
      <4>3. part[Name[u]][i] = [by |-> {u}, whole |-> {u}] BY <2>2 DEF Stored, Server!Intact
      <4> QED BY <1>4, <4>1, <4>2, <4>3
    <3> QED BY <3>1 DEF Stored, Server!Intact
  <2>5. req'[u] \notin {"load", "unlinked"} BY <1>7, <2>3 DEF Begun
  <2>6. mem'[u] = Counts(u, at[u])' BY <2>3 DEF Counts
  <2> QED BY <1>4, <1>7, <2>2, <2>3, <2>4, <2>5, <2>6 DEF OfRequest, Server!File, Server!Intact
<1>9. req'[u] # "ok" BY <1>7 DEF Begun
<1>10. \A v \in Uploads \ {u} : req'[v] = req[v] /\ at'[v] = at[v] /\ mem'[v] = mem[v] BY <1>7
<1>11. \A n \in Server!Names \ {Name[u]} : part'[n] = part[n] /\ meta'[n] = meta[n] BY <1>4
<1> QED BY <1>5, <1>6, <1>8, <1>9, <1>10, <1>11, RequestStep
LEMMA TypesOf ==
  ASSUME StoreInv, NEW u \in Uploads
  PROVE  /\ Name[u] \in Server!Names /\ at[u] \in Server!PartIds /\ at[u] \in Nat /\ Parts[u] \in Nat
         /\ Server!File(u) \in FileT /\ Server!File(u).whole \subseteq Server!File(u).by
         /\ mem \in [Uploads -> MetaT] /\ meta \in [Server!Names -> MetaT] /\ OfRequest(u)
         /\ part = [part EXCEPT ![Name[u]][at[u]] = Server!File(u)]
<1>1. Server!TypeOK /\ Sane /\ OfRequest(u) BY DEF StoreInv
<1>2. Name[u] \in Server!Names /\ at[u] \in Server!PartIds /\ at[u] \in Nat /\ Parts[u] \in Nat
  BY <1>1, NamesAndParts, PartIdsAreNat DEF Server!TypeOK
<1>3. part \in [Server!Names -> [Server!PartIds -> FileT]] BY <1>1 DEF Server!TypeOK, FileT
<1>4. Server!File(u) \in FileT BY <1>2, <1>3 DEF Server!File
<1>5. Server!File(u).whole \subseteq Server!File(u).by BY <1>1, <1>2 DEF Sane, Server!File
<1>6. part = [part EXCEPT ![Name[u]][at[u]] = Server!File(u)] BY <1>2, <1>3 DEF Server!File
<1>7. mem \in [Uploads -> MetaT] /\ meta \in [Server!Names -> MetaT] BY <1>1 DEF Server!TypeOK, MetaT
<1> QED BY <1>1, <1>2, <1>4, <1>5, <1>6, <1>7

\* The answers that move nothing.
LEMMA BadStep ==
  ASSUME StoreInv, NEW u \in Uploads, Server!Running(u), Server!End(u, "bad"),
         UNCHANGED <<st, idx, part, meta, turn, mixed>>
  PROVE  StoreInv'
<1> DEFINE k == at[u] + 1
<1>1. meta' \in [Server!Names -> MetaT] BY TypesOf
<1>2. k = at[u] + 1 OBVIOUS
<1> HIDE DEF k
<1> QED BY <1>1, <1>2, EndStep

LEMMA LoadStep ==
  ASSUME StoreInv, NEW u \in Uploads, Server!Load(u), UNCHANGED <<st, idx>>
  PROVE  StoreInv'
<1> DEFINE m == meta[Name[u]]
           f == Server!File(u)
<1>1. /\ req[u] = "load" /\ Server!Running(u) /\ UNCHANGED <<meta, part, turn, mixed>>
  BY DEF Server!Load, Server!Running
<1>2. CASE at[u] > 0 /\ m \in {Server!None, Server!Torn}
  <2>1. Server!End(u, "bad") BY <1>2 DEF Server!Load
  <2> QED BY <1>1, <2>1, BadStep
<1>3. CASE ~(at[u] > 0 /\ m \in {Server!None, Server!Torn})
  <2> DEFINE x == IF at[u] = 0 THEN [total |-> Parts[u], n |-> 0] ELSE m
  <2>1. Server!Go(u, "stat") /\ at' = at /\ mem' = [mem EXCEPT ![u] = x] BY <1>3 DEF Server!Load
  <2>2. x \in MetaT BY TypesOf DEF MetaT
  <2>3. Turn(u) => x = Counts(u, at[u])
    <3>1. ASSUME Turn(u), at[u] # 0 PROVE m = Counts(u, at[u])
      <4>1. at[u] > 0
        <5>1. at[u] \in Nat BY TypesOf
        <5> QED BY <3>1, <5>1
      <4> QED BY <1>1, <1>3, <3>1, <4>1, TypesOf DEF OfRequest, Turn
    <3> QED BY <3>1 DEF Counts
  <2> HIDE DEF x
  <2>4. mem' \in [Uploads -> MetaT] /\ mem'[u] = x /\ \A v \in Uploads \ {u} : mem'[v] = mem[v]
    BY <2>1, <2>2, TypesOf
  <2>5. f \in FileT /\ f.whole \subseteq f.by /\ part' = [part EXCEPT ![Name[u]][at[u]] = f] BY <1>1, TypesOf
  <2>6. meta' \in [Server!Names -> MetaT] BY <1>1, TypesOf
  <2>7. "stat" \in Begun BY DEF Begun
  <2> HIDE DEF f
  <2> QED BY <1>1, <2>1, <2>3, <2>4, <2>5, <2>6, <2>7, GoStep
<1> QED BY <1>2, <1>3

\* A step that changes at most the part file.
LEMMA FileStep ==
  ASSUME StoreInv, NEW u \in Uploads, Server!Running(u), req[u] \in Begun, NEW to \in Begun, Server!Go(u, to),
         UNCHANGED <<st, idx, at, mem, meta, turn, mixed>>,
         NEW f \in FileT, f.whole \subseteq f.by,
         part' = [part EXCEPT ![Name[u]][at[u]] = f],
         Turn(u) =>
           /\ to = "open" => f = Server!Absent
           /\ to = "copy" => f = [by |-> {u}, whole |-> {}]
           /\ to \in {"save", "write"} => f = [by |-> {u}, whole |-> {u}]
           /\ to # "unlinked"
  PROVE  StoreInv'
<1>1. Turn(u) => mem'[u] = Counts(u, at[u]) BY TypesOf DEF OfRequest, Turn
<1>2. mem' \in [Uploads -> MetaT] /\ meta' \in [Server!Names -> MetaT] BY TypesOf
<1> QED BY <1>1, <1>2, GoStep

LEMMA StatStep ==
  ASSUME StoreInv, NEW u \in Uploads, Server!Stat(u), UNCHANGED <<st, idx>>
  PROVE  StoreInv'
<1> DEFINE f == Server!File(u)
           to == IF f.by = {} THEN "open" ELSE "remove"
<1>1. /\ req[u] = "stat" /\ Server!Running(u) /\ Server!Go(u, to)
      /\ UNCHANGED <<at, mem, meta, part, turn, mixed>>
  BY DEF Server!Stat, Server!Running
<1>2. f \in FileT /\ f.whole \subseteq f.by /\ part' = [part EXCEPT ![Name[u]][at[u]] = f] BY <1>1, TypesOf
<1> HIDE DEF f
<1>3. to = "open" => f = Server!Absent
  <2>1. f.by = {} => f.whole = {} BY <1>2
  <2>2. f = [by |-> f.by, whole |-> f.whole] BY <1>2 DEF FileT
  <2> QED BY <2>1, <2>2 DEF Server!Absent
<1>4. to \in {"open", "remove"} OBVIOUS
<1>5. to \in Begun /\ req[u] \in Begun BY <1>1, <1>4 DEF Begun
<1> HIDE DEF to
<1> QED BY <1>1, <1>2, <1>3, <1>4, <1>5, FileStep

LEMMA RemoveStep ==
  ASSUME StoreInv, NEW u \in Uploads, Server!Remove(u), UNCHANGED <<st, idx>>
  PROVE  StoreInv'
<1>1. req[u] = "remove" /\ Server!Running(u) /\ UNCHANGED <<meta, turn, mixed>>
  BY DEF Server!Remove, Server!Running
<1>2. CASE Server!File(u).by = {}
  <2>1. Server!End(u, "bad") /\ part' = part BY <1>2 DEF Server!Remove
  <2> QED BY <1>1, <2>1, BadStep
<1>3. CASE Server!File(u).by # {}
  <2> DEFINE f == Server!Absent
  <2>1. Server!Go(u, "open") /\ part' = [part EXCEPT ![Name[u]][at[u]] = f] /\ UNCHANGED <<at, mem>>
    BY <1>3 DEF Server!Remove, Server!SetFile
  <2>2. f \in FileT /\ f.whole \subseteq f.by BY DEF Server!Absent, FileT
  <2>3. "open" \in Begun /\ req[u] \in Begun BY <1>1 DEF Begun
  <2> QED BY <1>1, <2>1, <2>2, <2>3, FileStep
<1> QED BY <1>2, <1>3

LEMMA OpenStep ==
  ASSUME StoreInv, NEW u \in Uploads, Server!Open(u), UNCHANGED <<st, idx>>
  PROVE  StoreInv'
<1> DEFINE g == Server!File(u)
           f == [g EXCEPT !.by = @ \cup {u}]
<1>1. /\ req[u] = "open" /\ Server!Running(u) /\ Server!Go(u, "copy")
      /\ part' = [part EXCEPT ![Name[u]][at[u]] = f] /\ UNCHANGED <<at, mem, meta, turn, mixed>>
  BY DEF Server!Open, Server!Running, Server!SetFile
<1>2. g \in FileT /\ g.whole \subseteq g.by BY TypesOf
<1>3. Turn(u) => g = [by |-> {}, whole |-> {}] BY <1>1, TypesOf DEF OfRequest, Turn, Server!Absent
<1> HIDE DEF g
<1>4. f \in FileT /\ f.whole \subseteq f.by BY <1>2 DEF FileT
<1>5. Turn(u) => f = [by |-> {u}, whole |-> {}] BY <1>3
<1>6. "copy" \in Begun /\ req[u] \in Begun BY <1>1 DEF Begun
<1> HIDE DEF f
<1> QED BY <1>1, <1>4, <1>5, <1>6, FileStep

LEMMA CopyStep ==
  ASSUME StoreInv, NEW u \in Uploads, Server!Copy(u), UNCHANGED <<st, idx>>
  PROVE  StoreInv'
<1> DEFINE g == Server!File(u)
           f == IF u \in g.by THEN [g EXCEPT !.whole = @ \cup {u}] ELSE g
<1>1. /\ req[u] = "copy" /\ Server!Running(u) /\ Server!Go(u, "save")
      /\ UNCHANGED <<at, mem, meta, turn, mixed>>
  BY DEF Server!Copy, Server!Running
<1>2. g \in FileT /\ g.whole \subseteq g.by BY TypesOf
<1>3. Turn(u) => g = [by |-> {u}, whole |-> {}] BY <1>1, TypesOf DEF OfRequest, Turn
<1>4. part' = [part EXCEPT ![Name[u]][at[u]] = f]
  <2>1. CASE u \in g.by BY <2>1 DEF Server!Copy, Server!SetFile
  <2>2. CASE u \notin g.by BY <2>2, TypesOf DEF Server!Copy
  <2> QED BY <2>1, <2>2
<1> HIDE DEF g
<1>5. f \in FileT /\ f.whole \subseteq f.by BY <1>2 DEF FileT
<1>6. Turn(u) => f = [by |-> {u}, whole |-> {u}] BY <1>3
<1>7. "save" \in Begun /\ req[u] \in Begun BY <1>1 DEF Begun
<1> HIDE DEF f
<1> QED BY <1>1, <1>4, <1>5, <1>6, <1>7, FileStep

LEMMA TruncateStep ==
  ASSUME StoreInv, NEW u \in Uploads, Server!Truncate(u), UNCHANGED <<st, idx>>
  PROVE  StoreInv'
<1> DEFINE f == Server!File(u)
<1>1. /\ req[u] = "save" /\ Server!Running(u) /\ Server!Go(u, "write")
      /\ meta' = [meta EXCEPT ![Name[u]] = Server!Torn] /\ UNCHANGED <<at, mem, part, turn, mixed>>
  BY DEF Server!Truncate, Server!Running
<1>2. f \in FileT /\ f.whole \subseteq f.by /\ part' = [part EXCEPT ![Name[u]][at[u]] = f] BY <1>1, TypesOf
<1>3. "write" \in Begun /\ req[u] \in Begun BY <1>1 DEF Begun
<1>4. Turn(u) => f = [by |-> {u}, whole |-> {u}] /\ mem'[u] = Counts(u, at[u])
  BY <1>1, <1>3, TypesOf DEF OfRequest, Turn, Server!Intact, Server!File
<1>5. mem' \in [Uploads -> MetaT] BY <1>1, TypesOf
<1>6. meta' \in [Server!Names -> MetaT] /\ \A n \in Server!Names \ {Name[u]} : meta'[n] = meta[n]
  <2>1. Server!Torn \in MetaT BY DEF Server!Torn, MetaT
  <2> QED BY <1>1, <2>1, TypesOf
<1> HIDE DEF f
<1>7. Turn(u) =>
        /\ mem'[u] = Counts(u, at[u])
        /\ "write" = "open" => f = Server!Absent
        /\ "write" = "copy" => f = [by |-> {u}, whole |-> {}]
        /\ "write" \in {"save", "write"} => f = [by |-> {u}, whole |-> {u}]
        /\ "write" # "unlinked"
  BY <1>4
<1>8. \A v \in Uploads \ {u} : mem'[v] = mem[v] BY <1>1
<1>9. meta' \in [Server!Names -> MetaT] /\ \A n \in Server!Names \ {Name[u]} : meta'[n] = meta[n] BY <1>6
<1>10. UNCHANGED <<at, turn, mixed>> BY <1>1
<1> QED BY <1>1, <1>2, <1>3, <1>5, <1>7, <1>8, <1>9, <1>10, GoStep

\* What Write(u) leaves, for the action property too.
LEMMA WriteLeaves ==
  ASSUME StoreInv, NEW u \in Uploads, Server!Write(u)
  PROVE  /\ Turn(u) => Stored(u, at[u] + 1)
         /\ Name[u] \notin mixed => Turn(u)
         /\ Turn(u) => meta'[Name[u]] \in {Server!None, Counts(u, at[u] + 1)}
         /\ meta' \in [Server!Names -> MetaT] /\ \A n \in Server!Names \ {Name[u]} : meta'[n] = meta[n]
<1>1. req[u] \in {"write", "unlinked"} /\ Server!Running(u) /\ req[u] \in Begun
  BY DEF Server!Write, Server!Running, Begun
<1>2. Name[u] \notin mixed => Turn(u) BY <1>1, TypesOf DEF OfRequest, Turn
<1>3. ASSUME Turn(u) PROVE Stored(u, at[u] + 1)
  <2>1. Turn(u) BY <1>3
  <2>2. Stored(u, at[u]) /\ Server!Intact(Name[u], at[u], u) BY <1>1, <2>1, TypesOf DEF OfRequest, Turn
  <2>3. at[u] \in Nat BY TypesOf
  <2>4. ASSUME NEW i \in 0 .. (at[u] + 1) - 1 PROVE Server!Intact(Name[u], i, u)
    <3>1. i = at[u] \/ i \in 0 .. at[u] - 1 BY <2>3
    <3>2. CASE i = at[u] BY <2>2, <3>2 DEF Server!Intact
    <3>3. CASE i \in 0 .. at[u] - 1 BY <2>2, <3>3 DEF Stored
    <3> QED BY <3>1, <3>2, <3>3
  <2> QED BY <2>4 DEF Stored
<1> DEFINE m == [mem[u] EXCEPT !.n = @ + 1]
<1>4. CASE req[u] = "unlinked"
  <2>1. meta' = meta BY <1>4 DEF Server!Write
  <2> QED BY <1>2, <1>3, <1>4, <2>1, <1>1, TypesOf DEF OfRequest, Turn
<1>5. CASE req[u] # "unlinked"
  <2>1. meta' = [meta EXCEPT ![Name[u]] = m] BY <1>5 DEF Server!Write
  <2>2. m \in MetaT
    <3>1. mem[u] \in MetaT BY TypesOf
    <3> QED BY <3>1 DEF MetaT
  <2>3. Turn(u) => m = Counts(u, at[u] + 1)
    <3>1. Turn(u) => mem[u] = [total |-> Parts[u], n |-> at[u]] BY <1>1, TypesOf DEF OfRequest, Turn, Counts
    <3> QED BY <3>1 DEF Counts
  <2> HIDE DEF m
  <2>4. meta'[Name[u]] = m BY <2>1, TypesOf
  <2>5. meta' \in [Server!Names -> MetaT] /\ \A n \in Server!Names \ {Name[u]} : meta'[n] = meta[n]
    BY <2>1, <2>2, TypesOf
  <2> QED BY <1>2, <1>3, <2>3, <2>4, <2>5
<1> QED BY <1>4, <1>5

LEMMA WriteStep ==
  ASSUME StoreInv, NEW u \in Uploads, Server!Write(u), UNCHANGED <<st, idx>>
  PROVE  StoreInv'
<1>1. Server!End(u, "ok") /\ Server!Running(u) /\ UNCHANGED <<part, turn, mixed>>
  BY DEF Server!Write, Server!Running
<1>2. PICK k : k = at[u] + 1 OBVIOUS
<1>3. /\ meta' \in [Server!Names -> MetaT] /\ \A n \in Server!Names \ {Name[u]} : meta'[n] = meta[n]
      /\ Turn(u) => Stored(u, k) /\ meta'[Name[u]] \in {Server!None, Counts(u, k)}
  BY <1>2, WriteLeaves
<1>4. Turn(u) => Kept(u, k)' BY <1>1, <1>3 DEF Kept, Stored, Counts, Server!Intact
<1> QED BY <1>1, <1>2, <1>3, <1>4, EndStep

LEMMA ServeStep ==
  ASSUME StoreInv, NEW u \in Uploads, Serve(u) \/ Fails(u)
  PROVE  StoreInv'
<1>1. UNCHANGED <<st, idx>> BY DEF Serve, Fails, page
<1>2. CASE Server!Refuse(u)
  <2>1. Server!Running(u) BY <1>2 DEF Server!Refuse, Server!Running
  <2> QED BY <1>1, <1>2, <2>1, BadStep DEF Server!Refuse
<1>3. CASE Server!CopyFails(u)
  <2>1. Server!Running(u) BY <1>3 DEF Server!CopyFails, Server!Running
  <2> QED BY <1>1, <1>3, <2>1, BadStep DEF Server!CopyFails
<1>4. CASE Server!WriteFails(u)
  <2>1. Server!Running(u) BY <1>4 DEF Server!WriteFails, Server!Running
  <2> QED BY <1>1, <1>4, <2>1, BadStep DEF Server!WriteFails
<1> QED BY <1>1, <1>2, <1>3, <1>4, LoadStep, StatStep, RemoveStep, OpenStep, CopyStep, TruncateStep, WriteStep
    DEF Serve, Fails
\* A step of the page, which at most takes an answer from its request.
LEMMA PageStep ==
  ASSUME StoreInv, UNCHANGED <<at, mem, meta, part, turn, mixed>>,
         Server!TypeOK', \A v \in Uploads : req'[v] = req[v] \/ ~Server!Running(v)',
         \A v \in Uploads : OfPage(v)'
  PROVE  StoreInv'
<1>1. ASSUME NEW v \in Uploads PROVE OfRequest(v)'
  <2>1. OfRequest(v) BY DEF StoreInv
  <2>2. CASE ~Server!Running(v)' BY <2>2 DEF OfRequest
  <2>3. CASE req'[v] = req[v]
    BY <2>1, <2>3 DEF OfRequest, Server!Running, Stored, Counts, Server!File, Server!Intact
  <2> QED BY <2>2, <2>3
<1>2. Sane' BY DEF StoreInv, Sane
<1> QED BY <1>1, <1>2 DEF StoreInv

\* Files that the step is not about: one may have got a place.
LEMMA OtherPages ==
  ASSUME NEW v \in Uploads, OfPage(v), idx'[v] = idx[v], req'[v] = req[v],
         UNCHANGED <<at, mem, meta, part, turn, mixed>>,
         st'[v] = st[v] \/ (st[v] \in {"new", "queued"} /\ st'[v] \in {"queued", "reading"})
  PROVE  OfPage(v)'
<1>1. (Server!Running(v)' => Server!Running(v)) /\ (Turn(v)' => Turn(v)) BY DEF Server!Running, Turn
<1>2. Kept(v, idx[v]) => Kept(v, idx[v])' BY DEF Kept, Stored, Counts, Server!Intact
<1>3. Kept(v, idx[v] + 1) => Kept(v, idx[v] + 1)' BY DEF Kept, Stored, Counts, Server!Intact
<1>4. Kept(v, Parts[v]) => Kept(v, Parts[v])' BY DEF Kept, Stored, Counts, Server!Intact
<1>5. CASE st'[v] = st[v] BY <1>1, <1>2, <1>3, <1>4, <1>5 DEF OfPage
<1>6. CASE st[v] \in {"new", "queued"} /\ st'[v] \in {"queued", "reading"}
  <2>1. idx[v] = 0 /\ req[v] = "none" BY <1>6 DEF OfPage
  <2>2. idx'[v] = 0 /\ req'[v] = "none" BY <2>1
  <2>3. Kept(v, idx[v])' BY <2>2 DEF Kept, Stored
  <2> QED BY <1>6, <2>2, <2>3 DEF OfPage
<1> QED BY <1>5, <1>6

\* fnDone ends u, and starts at most one file that waited.
LEMMA Finishes ==
  ASSUME PoolInv, NEW u \in Uploads, st[u] = "sending", NEW how \in {"done", "failed"}, Pool!Finish(u, how)
  PROVE  /\ st'[u] = how
         /\ \A v \in Uploads \ {u} : st'[v] = st[v] \/ (st[v] = "queued" /\ st'[v] = "reading")
<1>1. Types /\ Waits BY DEF PoolInv
<1>2. CASE queue = <<>> BY <1>1, <1>2 DEF Pool!Finish, Types
<1>3. CASE queue # <<>>
  <2> DEFINE w == Head(queue)
  <2>1. w = queue[1] /\ 1 \in DOMAIN queue BY <1>1, <1>3 DEF Types
  <2>2. st' = [st EXCEPT ![u] = how, ![w] = "reading"] BY <1>3 DEF Pool!Finish
  <2> HIDE DEF w
  <2>3. w \in Uploads /\ st[w] = "queued" BY <1>1, <2>1 DEF Waits, Pool!Queued
  <2> QED BY <1>1, <2>2, <2>3 DEF Types
<1> QED BY <1>2, <1>3

\* An answer is taken, or given up.
LEMMA FinishKeeps ==
  ASSUME PoolInv, StoreInv, NEW u \in Uploads, st[u] = "sending", NEW how \in {"done", "failed"},
         Pool!Finish(u, how), idx' = idx, UNCHANGED <<at, mem, meta, part, turn, mixed>>,
         req' = req \/ (req' = [req EXCEPT ![u] = "none"] /\ ~Server!Running(u)),
         how = "done" => /\ req'[u] = "none"
                         /\ Turn(u) /\ Parts[u] > 0 => Kept(u, Parts[u])
  PROVE  StoreInv'
<1>1. Server!TypeOK /\ \A v \in Uploads : OfPage(v) BY DEF StoreInv
<1>2. st'[u] = how /\ \A v \in Uploads \ {u} : st'[v] = st[v] \/ (st[v] = "queued" /\ st'[v] = "reading")
  BY Finishes
<1>3. req \in [Uploads -> {"none", "load", "stat", "remove", "open", "copy", "save", "write", "unlinked",
                           "ok", "bad", "gone"}]
  BY <1>1 DEF Server!TypeOK
<1>4. /\ \A v \in Uploads \ {u} : req'[v] = req[v]
      /\ req'[u] = req[u] \/ req'[u] = "none"
  BY <1>3
<1>5. Server!TypeOK'
  <2>1. req' \in [Uploads -> {"none", "load", "stat", "remove", "open", "copy", "save", "write", "unlinked",
                              "ok", "bad", "gone"}]
    BY <1>3
  <2> QED BY <1>1, <2>1 DEF Server!TypeOK
<1>6. ASSUME NEW v \in Uploads \ {u} PROVE OfPage(v)' BY <1>1, <1>2, <1>4, <1>6, OtherPages
<1>7. OfPage(u)'
  <2>1. idx[u] = 0 \/ idx[u] < Parts[u] BY <1>1 DEF OfPage
  <2>2. (Turn(u)' => Turn(u)) /\ (Kept(u, Parts[u]) => Kept(u, Parts[u])')
    BY DEF Turn, Kept, Stored, Counts, Server!Intact
  <2> QED BY <1>2, <2>1, <2>2 DEF OfPage
<1>8. ASSUME NEW v \in Uploads PROVE req'[v] = req[v] \/ ~Server!Running(v)'
  <2>1. req'[v] = "none" => ~Server!Running(v)' BY DEF Server!Running
  <2> QED BY <1>4, <2>1
<1> QED BY <1>5, <1>6, <1>7, <1>8, PageStep

LEMMA DropKeeps == ASSUME StoreInv, NEW u \in Uploads, Drop(u), PoolInv PROVE StoreInv'
<1>1. /\ st[u] = "new" /\ idx' = idx /\ req' = req /\ UNCHANGED <<at, mem, meta, part, turn, mixed>>
      /\ \E s \in {"queued", "reading"} : st' = [st EXCEPT ![u] = s]
  BY DEF Drop, Pool!Drop, disk
<1>2. st \in [Uploads -> Pool!States] BY DEF PoolInv, Types
<1>3. Server!TypeOK' /\ \A v \in Uploads : OfPage(v) BY <1>1 DEF StoreInv, Server!TypeOK
<1>4. \A v \in Uploads : st'[v] = st[v] \/ (st[v] \in {"new", "queued"} /\ st'[v] \in {"queued", "reading"})
  BY <1>1, <1>2
<1>5. \A v \in Uploads : OfPage(v)' BY <1>1, <1>3, <1>4, OtherPages
<1> QED BY <1>1, <1>3, <1>5, PageStep

LEMMA ReadFailsKeeps == ASSUME StoreInv, NEW u \in Uploads, ReadFails(u), PoolInv PROVE StoreInv'
<1>1. /\ st[u] = "reading" /\ st' = [st EXCEPT ![u] = "stuck"] /\ idx' = idx /\ req' = req
      /\ UNCHANGED <<at, mem, meta, part, turn, mixed>>
  BY DEF ReadFails, Pool!ReadFails, disk
<1>2. st \in [Uploads -> Pool!States] BY DEF PoolInv, Types
<1>3. Server!TypeOK' /\ \A v \in Uploads : OfPage(v) BY <1>1 DEF StoreInv, Server!TypeOK
<1>4. st'[u] = "stuck" /\ \A v \in Uploads \ {u} : st'[v] = st[v] BY <1>1, <1>2
<1>5. \A v \in Uploads \ {u} : OfPage(v)' BY <1>1, <1>3, <1>4, OtherPages
<1>6. OfPage(u)' BY <1>1, <1>3, <1>4 DEF OfPage
<1> QED BY <1>1, <1>3, <1>5, <1>6, PageStep

LEMMA AcceptedKeeps == ASSUME StoreInv, NEW u \in Uploads, Accepted(u), PoolInv PROVE StoreInv'
<1>1. /\ req[u] = "ok" /\ st[u] = "sending" /\ req' = [req EXCEPT ![u] = "none"]
      /\ UNCHANGED <<at, mem, meta, part, turn, mixed>>
  BY DEF Accepted, Pool!Accepted, Server!Leave, Server!Go
<1>2. Server!TypeOK /\ OfPage(u) /\ \A v \in Uploads : OfPage(v) BY DEF StoreInv
<1>3. st \in [Uploads -> Pool!States] /\ idx \in [Uploads -> Nat] /\ Parts[u] \in Nat
  BY NamesAndParts DEF PoolInv, Types
<1>4. Turn(u) => Kept(u, idx[u] + 1) BY <1>1, <1>2 DEF OfPage
<1>5. ~Server!Running(u) /\ req'[u] = "none" BY <1>1, <1>2 DEF Server!Running, Server!TypeOK
<1>6. CASE idx[u] + 1 >= Parts[u]
  <2>1. Pool!Finish(u, "done") /\ idx' = idx BY <1>6 DEF Accepted, Pool!Accepted
  <2>2. Parts[u] > 0 => Parts[u] = idx[u] + 1 BY <1>2, <1>3, <1>6 DEF OfPage
  <2>3. Turn(u) /\ Parts[u] > 0 => Kept(u, Parts[u]) BY <1>4, <2>2
  <2> QED BY <1>1, <1>5, <2>1, <2>3, FinishKeeps
<1>7. CASE ~(idx[u] + 1 >= Parts[u])
  <2>1. st' = [st EXCEPT ![u] = "reading"] /\ idx' = [idx EXCEPT ![u] = @ + 1]
    BY <1>7 DEF Accepted, Pool!Accepted
  <2>2. /\ st'[u] = "reading" /\ idx'[u] = idx[u] + 1
        /\ \A v \in Uploads \ {u} : st'[v] = st[v] /\ idx'[v] = idx[v] /\ req'[v] = req[v]
    BY <1>1, <1>2, <1>3, <2>1 DEF Server!TypeOK
  <2>3. \A v \in Uploads \ {u} : OfPage(v)' BY <1>1, <1>2, <2>2, OtherPages
  <2>4. OfPage(u)'
    <3>1. Turn(u)' => Turn(u) BY <1>1 DEF Turn
    <3>2. Kept(u, idx[u] + 1) => Kept(u, idx[u])' BY <1>1, <2>2 DEF Kept, Stored, Counts, Server!Intact
    <3>3. idx'[u] < Parts[u] BY <1>3, <1>7, <2>2
    <3> QED BY <1>4, <1>5, <2>2, <3>1, <3>2, <3>3 DEF OfPage
  <2>5. Server!TypeOK' BY <1>1, <1>2 DEF Server!TypeOK
  <2>6. ASSUME NEW v \in Uploads PROVE req'[v] = req[v] \/ ~Server!Running(v)'
    BY <1>5, <2>2, <2>6 DEF Server!Running
  <2> QED BY <1>1, <2>3, <2>4, <2>5, <2>6, PageStep
<1> QED BY <1>6, <1>7

LEMMA RejectedKeeps == ASSUME StoreInv, NEW u \in Uploads, Rejected(u) \/ Lose(u), PoolInv PROVE StoreInv'
<1>1. /\ st[u] = "sending" /\ Pool!Finish(u, "failed") /\ idx' = idx
      /\ UNCHANGED <<at, mem, meta, part, turn, mixed>>
  BY DEF Rejected, Lose, Pool!Rejected, Server!Leave, disk
<1>2. req' = req \/ (req' = [req EXCEPT ![u] = "none"] /\ ~Server!Running(u))
  BY DEF Rejected, Lose, Server!Leave, Server!Go, Server!Running
<1> QED BY <1>1, <1>2, FinishKeeps
\* The chunk that was read comes to the server.
LEMMA SendKeeps == ASSUME StoreInv, NEW u \in Uploads, Send(u), PoolInv PROVE StoreInv'
<1> DEFINE n == Name[u]
           i == idx[u]
           alone == \A v \in Uploads \ {u} : Name[v] = Name[u] => ~Server!Running(v)
<1>1. /\ st[u] = "reading" /\ st' = [st EXCEPT ![u] = "sending"] /\ idx' = idx
      /\ UNCHANGED <<mem, meta, part>>
      /\ req' = [req EXCEPT ![u] = "load"] /\ at' = [at EXCEPT ![u] = i]
      /\ turn' = IF i = 0 THEN [turn EXCEPT ![n] = {u}] ELSE turn
      /\ mixed' = IF i = 0 /\ alone THEN mixed \ {n}
                  ELSE IF alone /\ turn[n] = {u} THEN mixed ELSE mixed \cup {n}
  BY DEF Send, Pool!Read, Server!Receive, Server!Go
<1>2. Server!TypeOK /\ Sane /\ \A v \in Uploads : OfRequest(v) /\ OfPage(v) BY DEF StoreInv
<1>3. /\ st \in [Uploads -> Pool!States] /\ idx \in [Uploads -> Nat] /\ Parts[u] \in Nat
      /\ n \in Server!Names /\ 0 .. Parts[u] \subseteq Server!PartIds
  BY NamesAndParts DEF PoolInv, Types
<1>4. i \in Nat /\ i \in Server!PartIds /\ (i = 0 \/ i < Parts[u]) BY <1>2, <1>3 DEF OfPage
<1>5. /\ st'[u] = "sending" /\ req'[u] = "load" /\ at'[u] = i /\ idx'[u] = i
      /\ \A v \in Uploads \ {u} : /\ st'[v] = st[v] /\ req'[v] = req[v] /\ at'[v] = at[v] /\ mem'[v] = mem[v]
                                  /\ idx'[v] = idx[v]
  BY <1>1, <1>2, <1>3 DEF Server!TypeOK
<1>6. /\ turn'[n] = IF i = 0 THEN {u} ELSE turn[n]
      /\ turn' \in [Server!Names -> SUBSET Uploads] /\ mixed' \subseteq Server!Names
      /\ \A m \in Server!Names \ {n} : turn'[m] = turn[m] /\ (m \in mixed') = (m \in mixed)
  <2>1. turn \in [Server!Names -> SUBSET Uploads] /\ mixed \subseteq Server!Names
    BY <1>2 DEF Server!TypeOK
  <2> HIDE DEF alone
  <2> QED BY <1>1, <1>3, <2>1
<1>7. Server!TypeOK'
  <2>1. at' \in [Uploads -> Server!PartIds] BY <1>1, <1>2, <1>4 DEF Server!TypeOK
  <2>2. req' \in [Uploads -> {"none", "load", "stat", "remove", "open", "copy", "save", "write", "unlinked",
                              "ok", "bad", "gone"}]
    BY <1>1, <1>2 DEF Server!TypeOK
  <2> QED BY <1>1, <1>2, <1>6, <2>1, <2>2 DEF Server!TypeOK
<1>8. Sane' BY <1>1, <1>2 DEF Sane
<1>9. n \notin mixed' => alone /\ (i = 0 \/ (turn[n] = {u} /\ n \notin mixed))
  <2> HIDE DEF alone
  <2> QED BY <1>1
<1>10. n \notin mixed' => turn'[n] = {u} BY <1>6, <1>9
<1>11. OfRequest(u)'
  <2>1. SUFFICES ASSUME n \notin mixed' PROVE OfRequest(u)' BY DEF OfRequest
  <2>2. turn'[n] = {u} BY <1>10, <2>1
  <2>3. i = 0 \/ Kept(u, i)
    <3>1. i = 0 \/ Turn(u) BY <1>9, <2>1 DEF Turn
    <3> QED BY <1>1, <1>2, <3>1 DEF OfPage
  <2>4. Stored(u, i)
    <3>1. CASE i = 0 BY <3>1 DEF Stored
    <3>2. CASE Kept(u, i) BY <3>2 DEF Kept
    <3> QED BY <2>3, <3>1, <3>2
  <2>5. Stored(u, at[u])' BY <1>1, <1>5, <2>4 DEF Stored, Server!Intact
  <2>6. i > 0 => meta'[n] \in {Server!None, Counts(u, i)} BY <1>1, <1>4, <2>3 DEF Kept
  <2> QED BY <1>5, <2>2, <2>5, <2>6 DEF OfRequest, Begun, Counts
<1>12. OfPage(u)'
  <2>1. Server!Running(u)' => at'[u] = idx'[u] BY <1>5
  <2> QED BY <1>4, <1>5, <2>1 DEF OfPage
<1>13. ASSUME NEW v \in Uploads \ {u} PROVE OfRequest(v)' /\ OfPage(v)'
  <2>1. OfRequest(v) /\ OfPage(v) BY <1>2
  <2>2. CASE Name[v] # n
    <3>1. Name[v] \in Server!Names BY NamesAndParts
    <3>2. turn'[Name[v]] = turn[Name[v]] /\ (Name[v] \in mixed') = (Name[v] \in mixed)
          /\ part'[Name[v]] = part[Name[v]] /\ meta'[Name[v]] = meta[Name[v]]
      BY <1>1, <1>6, <2>2, <3>1
    <3> QED BY <1>5, <2>1, <3>2, SameUpload
  <2>3. CASE Name[v] = n
    <3>1. ~Turn(v)'
      <4>1. {u} # {v} OBVIOUS
      <4> QED BY <1>10, <2>3, <4>1 DEF Turn
    <3>2. OfPage(v)' BY <1>5, <2>1, <3>1 DEF OfPage, Server!Running
    <3>3. n \notin mixed' => ~Server!Running(v) BY <1>9, <2>3
    <3>4. OfRequest(v)' BY <1>5, <2>3, <3>3 DEF OfRequest, Server!Running
    <3> QED BY <3>2, <3>4
  <2> QED BY <2>2, <2>3
<1> QED BY <1>7, <1>8, <1>11, <1>12, <1>13 DEF StoreInv

\* rm() forgets the count; a request that was writing it writes to nothing.
LEMMA RmKeeps == ASSUME StoreInv, NEW m \in Server!Names, Rm(m) PROVE StoreInv'
<1>1. /\ meta' = [meta EXCEPT ![m] = Server!None]
      /\ req' = [u \in Uploads |-> IF Name[u] = m /\ req[u] = "write" THEN "unlinked" ELSE req[u]]
      /\ UNCHANGED <<st, idx, at, mem, part, turn, mixed>>
  BY DEF Rm, Server!Rm, page
<1>2. Server!TypeOK /\ Sane /\ \A v \in Uploads : OfRequest(v) /\ OfPage(v) BY DEF StoreInv
<1>3. meta \in [Server!Names -> MetaT] BY <1>2 DEF Server!TypeOK, MetaT
<1>4. /\ meta' \in [Server!Names -> MetaT] /\ meta'[m] = Server!None
      /\ \A x \in Server!Names \ {m} : meta'[x] = meta[x]
  <2>1. Server!None \in MetaT BY DEF Server!None, MetaT
  <2> QED BY <1>1, <1>3, <2>1
<1>5. Server!TypeOK'
  <2>1. req' \in [Uploads -> {"none", "load", "stat", "remove", "open", "copy", "save", "write", "unlinked",
                              "ok", "bad", "gone"}]
    BY <1>1, <1>2 DEF Server!TypeOK
  <2> QED BY <1>1, <1>2, <1>4, <2>1 DEF Server!TypeOK, MetaT
<1>6. Sane' BY <1>1, <1>2 DEF Sane
<1>7. ASSUME NEW v \in Uploads PROVE OfRequest(v)' /\ OfPage(v)'
  <2>1. OfRequest(v) /\ OfPage(v) /\ Name[v] \in Server!Names BY <1>2, NamesAndParts
  <2>2. req'[v] = IF Name[v] = m /\ req[v] = "write" THEN "unlinked" ELSE req[v] BY <1>1
  <2>3. CASE Name[v] # m
    <3>1. req'[v] = req[v] /\ meta'[Name[v]] = meta[Name[v]] BY <1>4, <2>1, <2>2, <2>3
    <3> QED BY <1>1, <2>1, <3>1, SameUpload
  <2>4. CASE Name[v] = m
    <3>1. meta'[Name[v]] = Server!None BY <1>4, <2>4
    <3>2. req'[v] = req[v] \/ (req[v] = "write" /\ req'[v] = "unlinked") BY <2>2
    <3>3. Server!Running(v)' => Server!Running(v) BY <2>2 DEF Server!Running
    <3>4. Stored(v, at[v]) => Stored(v, at[v])' BY <1>1 DEF Stored, Server!Intact
    <3>5. OfRequest(v)'
      BY <1>1, <2>1, <3>1, <3>2, <3>3, <3>4 DEF OfRequest, Begun, Counts, Server!File, Server!Intact
    <3>6. Kept(v, idx[v]) => Kept(v, idx[v])' BY <1>1, <3>1 DEF Kept, Stored, Server!Intact
    <3>7. Kept(v, idx[v] + 1) => Kept(v, idx[v] + 1)' BY <1>1, <3>1 DEF Kept, Stored, Server!Intact
    <3>8. Kept(v, Parts[v]) => Kept(v, Parts[v])' BY <1>1, <3>1 DEF Kept, Stored, Server!Intact
    <3>9. Turn(v)' => Turn(v) BY <1>1 DEF Turn
    <3>10. OfPage(v)' BY <1>1, <2>1, <3>2, <3>3, <3>6, <3>7, <3>8, <3>9 DEF OfPage
    <3> QED BY <3>5, <3>10
  <2> QED BY <2>3, <2>4
<1> QED BY <1>5, <1>6, <1>7 DEF StoreInv

\* No request outlives the process.
LEMMA CrashKeeps == ASSUME StoreInv, Crash PROVE StoreInv'
<1>1. /\ req' = [u \in Uploads |-> IF req[u] = "none" THEN "none" ELSE "gone"]
      /\ at' = [u \in Uploads |-> 0] /\ mem' = [u \in Uploads |-> Server!None]
      /\ UNCHANGED <<st, idx, meta, part, turn, mixed>>
  BY DEF Crash, Server!Crash, page
<1>2. Server!TypeOK /\ Sane /\ \A v \in Uploads : OfRequest(v) /\ OfPage(v) BY DEF StoreInv
<1>3. Server!TypeOK'
  <2>1. at' \in [Uploads -> Server!PartIds] BY <1>1, NamesAndParts
  <2>2. Server!None \in MetaT BY DEF Server!None, MetaT
  <2>3. mem' \in [Uploads -> MetaT] BY <1>1, <2>2
  <2>4. req' \in [Uploads -> {"none", "load", "stat", "remove", "open", "copy", "save", "write", "unlinked",
                              "ok", "bad", "gone"}]
    BY <1>1
  <2> QED BY <1>1, <1>2, <2>1, <2>3, <2>4 DEF Server!TypeOK, MetaT
<1>4. Sane' BY <1>1, <1>2 DEF Sane
<1>5. ASSUME NEW v \in Uploads PROVE OfRequest(v)' /\ OfPage(v)'
  <2>1. req'[v] \in {"none", "gone"} /\ (req[v] = "none" => req'[v] = "none") BY <1>1
  <2>2. ~Server!Running(v)' BY <2>1 DEF Server!Running
  <2>3. OfRequest(v)' BY <2>2 DEF OfRequest
  <2>4. Turn(v)' => Turn(v) BY <1>1 DEF Turn
  <2>5. Kept(v, idx[v]) => Kept(v, idx[v])' BY <1>1 DEF Kept, Stored, Counts, Server!Intact
  <2>6. Kept(v, Parts[v]) => Kept(v, Parts[v])' BY <1>1 DEF Kept, Stored, Counts, Server!Intact
  <2>7. OfPage(v) BY <1>2
  <2>8. OfPage(v)' BY <1>1, <2>1, <2>2, <2>4, <2>5, <2>6, <2>7 DEF OfPage
  <2> QED BY <2>3, <2>8
<1> QED BY <1>3, <1>4, <1>5 DEF StoreInv

LEMMA StoreStutters == ASSUME StoreInv, UNCHANGED vars PROVE StoreInv'
<1>1. UNCHANGED <<st, idx, req, at, mem, meta, part, turn, mixed>> BY DEF vars, page, disk
<1>2. Server!TypeOK' /\ Sane' BY <1>1 DEF StoreInv, Server!TypeOK, Sane
<1>3. ASSUME NEW v \in Uploads PROVE OfRequest(v)' /\ OfPage(v)' BY <1>1, SameUpload DEF StoreInv
<1> QED BY <1>2, <1>3 DEF StoreInv

LEMMA UploadStep == UploadInv /\ [Next]_vars => UploadInv'
<1> SUFFICES ASSUME PoolInv, StoreInv, [Next]_vars PROVE StoreInv' BY PoolStep DEF UploadInv
<1>1. ASSUME NEW u \in Uploads, Drop(u) PROVE StoreInv' BY <1>1, DropKeeps
<1>2. ASSUME NEW u \in Uploads, ReadFails(u) PROVE StoreInv' BY <1>2, ReadFailsKeeps
<1>3. ASSUME NEW u \in Uploads, Lose(u) \/ Rejected(u) PROVE StoreInv' BY <1>3, RejectedKeeps
<1>4. ASSUME NEW u \in Uploads, Fails(u) \/ Serve(u) PROVE StoreInv' BY <1>4, ServeStep
<1>5. ASSUME NEW u \in Uploads, Send(u) PROVE StoreInv' BY <1>5, SendKeeps
<1>6. ASSUME NEW u \in Uploads, Accepted(u) PROVE StoreInv' BY <1>6, AcceptedKeeps
<1>7. ASSUME NEW n \in Server!Names, Rm(n) PROVE StoreInv' BY <1>7, RmKeeps
<1> QED BY <1>1, <1>2, <1>3, <1>4, <1>5, <1>6, <1>7, CrashKeeps, StoreStutters DEF Next, Step

-----------------------------------------------------------------------------
(* Theorems about the directory *)

\* The page and the server keep to UploadInv, which is inductive.
THEOREM UploadInvariance == Spec => []UploadInv
BY UploadInit, UploadStep, PTL DEF Spec

\* Types of the page and of the server: no request is about a part its file
\* has not, no metadata is less than nothing.  (main.go:95-202)
THEOREM UploadTypes == Spec => []TypeOK
<1>1. Init => faults \in Nat /\ removes \in Nat BY DEF Init
<1>2. (faults \in Nat /\ removes \in Nat) /\ [Next]_vars => (faults \in Nat /\ removes \in Nat)'
  <2>1. SUFFICES ASSUME faults \in Nat /\ removes \in Nat, [Next]_vars
                 PROVE  faults' \in {faults, faults + 1} /\ removes' \in {removes, removes + 1}
    OBVIOUS
  <2> QED BY <2>1 DEF Next, Step, Drop, ReadFails, Lose, Fails, Send, Accepted, Rejected, Serve, Rm, Crash,
                      Fault, vars, count
<1>3. UploadInv /\ faults \in Nat /\ removes \in Nat => TypeOK
  BY DEF UploadInv, PoolInv, Types, StoreInv, TypeOK, Pool!TypeOK
<1> QED BY <1>1, <1>2, <1>3, UploadInvariance, PTL DEF Spec

\* Green stays true: what the page shows as uploaded is on disk from begin to
\* end, and listed until it is removed or sent again.  (app.js:46-64, main.go:188-201)
THEOREM GreenIsAlwaysKept == Spec => []GreenIsKept
<1>1. UploadInv => GreenIsKept
  <2> SUFFICES ASSUME UploadInv, NEW u \in Uploads, st[u] = "done", Parts[u] > 0, Turn(u)
               PROVE  /\ meta[Name[u]] = Server!None \/ Server!Listed(meta[Name[u]])
                      /\ \A i \in 0 .. Parts[u] - 1 : Server!Intact(Name[u], i, u)
    BY DEF GreenIsKept, Turn
  <2>1. Kept(u, Parts[u]) BY DEF UploadInv, StoreInv, OfPage
  <2>2. Parts[u] \in Nat BY NamesAndParts
  <2>3. meta[Name[u]] = Server!None \/ meta[Name[u]] = Counts(u, Parts[u]) BY <2>1 DEF Kept
  <2>4. Server!Listed(Counts(u, Parts[u]))
    BY <2>2 DEF Server!Listed, Counts, Server!None, Server!Torn
  <2> QED BY <2>1, <2>3, <2>4 DEF Kept, Stored
<1> QED BY <1>1, UploadInvariance, PTL

\* A name that appears in the list has every part of one upload on disk, whole.
\* (main.go:136-202)
THEOREM ListedIsStored == Spec => StoredWhenListed
<1> DEFINE A == \A n \in Server!Names :
                  (Server!Listed(meta'[n]) /\ ~Server!Listed(meta[n]) /\ n \notin mixed')
                    => \E u \in turn'[n] : meta'[n].total = Parts[u] /\ Whole(n, u)
<1>1. UploadInv /\ [Next]_vars => A
  <2> SUFFICES ASSUME UploadInv, [Next]_vars, NEW n \in Server!Names,
                      Server!Listed(meta'[n]), ~Server!Listed(meta[n]), n \notin mixed'
               PROVE  \E u \in turn'[n] : meta'[n].total = Parts[u] /\ Whole(n, u)
    OBVIOUS
  <2>1. StoreInv /\ meta \in [Server!Names -> MetaT] BY DEF UploadInv, StoreInv, Server!TypeOK, MetaT
  <2>2. meta' # meta /\ meta'[n] # meta[n] OBVIOUS
  <2>3. ~Server!Listed(Server!None) /\ ~Server!Listed(Server!Torn) BY DEF Server!Listed
  <2>4. PICK u \in Uploads : Server!Write(u)
    <3>1. ASSUME NEW m \in Server!Names, Rm(m) PROVE FALSE
      <4>1. meta' = [meta EXCEPT ![m] = Server!None] BY <3>1 DEF Rm, Server!Rm
      <4>2. meta'[n] = meta[n] \/ meta'[n] = Server!None BY <2>1, <4>1
      <4> QED BY <2>3, <4>2
    <3>2. ASSUME NEW u \in Uploads, Server!Truncate(u) PROVE FALSE
      <4>1. meta' = [meta EXCEPT ![Name[u]] = Server!Torn] BY <3>2 DEF Server!Truncate
      <4>2. meta'[n] = meta[n] \/ meta'[n] = Server!Torn BY <2>1, <4>1
      <4> QED BY <2>3, <4>2
    <3>3. ASSUME NEW u \in Uploads, Drop(u) \/ ReadFails(u) \/ Lose(u) \/ Fails(u) \/ Send(u) \/ Accepted(u)
                                    \/ Rejected(u)
          PROVE  FALSE
      BY <2>2, <3>3 DEF Drop, ReadFails, Lose, Fails, Send, Accepted, Rejected, disk, Server!Refuse,
                        Server!CopyFails, Server!WriteFails, Server!Receive, Server!Leave
    <3>4. ASSUME NEW u \in Uploads, Serve(u) PROVE Server!Write(u) \/ Server!Truncate(u)
      BY <2>2, <3>4 DEF Serve, Server!Load, Server!Stat, Server!Remove, Server!Open, Server!Copy
    <3>5. ~Crash /\ ~UNCHANGED vars BY <2>2 DEF Crash, Server!Crash, vars, disk
    <3> QED BY <3>1, <3>2, <3>3, <3>4, <3>5 DEF Next, Step
  <2>5. /\ Turn(u) => Stored(u, at[u] + 1)
        /\ Name[u] \notin mixed => Turn(u)
        /\ Turn(u) => meta'[Name[u]] \in {Server!None, Counts(u, at[u] + 1)}
        /\ \A x \in Server!Names \ {Name[u]} : meta'[x] = meta[x]
    BY <2>1, <2>4, WriteLeaves
  <2>6. Name[u] = n BY <2>2, <2>5
  <2>7. Turn(u) /\ mixed' = mixed
    <3>1. mixed' = mixed BY <2>4 DEF Server!Write
    <3> QED BY <2>5, <2>6, <3>1
  <2>8. meta'[n] = Counts(u, at[u] + 1) BY <2>3, <2>5, <2>6, <2>7
  <2>9. meta'[n].total = Parts[u] /\ at[u] + 1 = Parts[u] BY <2>8 DEF Server!Listed, Counts
  <2>10. turn' = turn /\ part' = part BY <2>4 DEF Server!Write
  <2>11. Whole(n, u)
    <3>1. Stored(u, Parts[u]) BY <2>5, <2>7, <2>9
    <3> QED BY <2>6, <2>10, <3>1 DEF Stored, Whole, Server!Intact
  <2>12. u \in turn'[n] BY <2>6, <2>7, <2>10 DEF Turn
  <2> QED BY <2>9, <2>11, <2>12
<1>2. Spec => [][A]_vars BY <1>1, UploadInvariance, PTL DEF Spec
<1> QED BY <1>2 DEF StoredWhenListed
=============================================================================
