---------------------------- MODULE ChunkServer ----------------------------
(***************************************************************************)
(* The server of contrib/uploadme (main.go): one directory of chunk files  *)
(* and one .json per name that counts them.  Requests of one name are not  *)
(* kept apart.  A request is named after the upload that sent it: an       *)
(* upload has at most one.                                                 *)
(***************************************************************************)
EXTENDS Naturals, FiniteSets

CONSTANTS
  Uploads,
  Parts,     \* total, in every request of an upload
  Name       \* of each upload

Names  == {Name[u] : u \in Uploads}
PartIds == UNION {0 .. Parts[u] : u \in Uploads}
None   == [total |-> 0, n |-> 0]         \* no .json (a saved one has n > 0)
Torn   == [total |-> 1, n |-> 0]         \* a .json that does not decode
Absent == [by |-> {}, whole |-> {}]      \* no such chunk file

VARIABLES
  req,    \* of each upload: "none", "load", "stat", "remove", "open", "copy",
          \* "save", "write" ("unlinked" when rm() removed what it writes to),
          \* or the answer: "ok", "bad"; "gone": there is none
  at,     \* the part its request is about
  mem,    \* the metadata its request works on
  meta,   \* of each name, the .json: how many parts there are to be, and are
  part,   \* of each name and part, the uploads that opened this very file, and
          \* those among them that wrote it to the end
  turn,   \* history: the upload whose part 0 came last
  mixed   \* history: names whose uploads overlapped since then

server == <<req, at, mem, meta, part, turn, mixed>>

Running(u) == req[u] \notin {"none", "ok", "bad", "gone"}

TypeOK ==
  /\ req \in [Uploads -> {"none", "load", "stat", "remove", "open", "copy", "save", "write", "unlinked", "ok", "bad", "gone"}]
  /\ at \in [Uploads -> PartIds]
  /\ mem \in [Uploads -> [total : Nat, n : Nat]] /\ meta \in [Names -> [total : Nat, n : Nat]]
  /\ part \in [Names -> [PartIds -> [by : SUBSET Uploads, whole : SUBSET Uploads]]]
  /\ turn \in [Names -> SUBSET Uploads] /\ mixed \subseteq Names

Init ==
  /\ req = [u \in Uploads |-> "none"] /\ at = [u \in Uploads |-> 0]
  /\ mem = [u \in Uploads |-> None]
  /\ meta = [n \in Names |-> None] /\ part = [n \in Names |-> [i \in PartIds |-> Absent]]
  /\ turn = [n \in Names |-> {}] /\ mixed = {}

Go(u, to) == req' = [req EXCEPT ![u] = to]

\* A handler ends with its answer, and its locals with it.
End(u, answer) ==
  /\ Go(u, answer)
  /\ at' = [at EXCEPT ![u] = 0] /\ mem' = [mem EXCEPT ![u] = None]

\* The answer is taken.
Leave(u) == Go(u, "none") /\ UNCHANGED <<at, mem, meta, part, turn, mixed>>

\* A chunk request arrives with part i.
Receive(u, i) ==
  LET n == Name[u]
      alone == \A v \in Uploads \ {u} : Name[v] = n => ~Running(v)
  IN /\ ~Running(u)
     /\ Go(u, "load")
     /\ at' = [at EXCEPT ![u] = i]
     /\ turn' = IF i = 0 THEN [turn EXCEPT ![n] = {u}] ELSE turn
     /\ mixed' = IF i = 0 /\ alone THEN mixed \ {n}
                 ELSE IF alone /\ turn[n] = {u} THEN mixed ELSE mixed \cup {n}
     /\ UNCHANGED <<mem, meta, part>>

\* The limiter (200 a minute) or a failed system call: an error is answered.
Refuse(u) ==
  /\ req[u] \in {"load", "stat", "remove", "open"}
  /\ End(u, "bad")
  /\ UNCHANGED <<meta, part, turn, mixed>>

\* Part 0 starts new metadata, another part continues what is in the .json.
Load(u) ==
  LET m == meta[Name[u]] IN
  /\ req[u] = "load"
  /\ IF at[u] > 0 /\ m \in {None, Torn} THEN End(u, "bad")
     ELSE /\ Go(u, "stat") /\ UNCHANGED at
          /\ mem' = [mem EXCEPT ![u] = IF at[u] = 0 THEN [total |-> Parts[u], n |-> 0] ELSE m]
  /\ UNCHANGED <<meta, part, turn, mixed>>

File(u) == part[Name[u]][at[u]]
SetFile(u, f) == part' = [part EXCEPT ![Name[u]][at[u]] = f]

Stat(u) ==
  /\ req[u] = "stat"
  /\ Go(u, IF File(u).by = {} THEN "open" ELSE "remove")
  /\ UNCHANGED <<at, mem, meta, part, turn, mixed>>

\* Somebody else may have removed it in between.
Remove(u) ==
  /\ req[u] = "remove"
  /\ IF File(u).by = {} THEN End(u, "bad") /\ UNCHANGED part
                        ELSE Go(u, "open") /\ SetFile(u, Absent) /\ UNCHANGED <<at, mem>>
  /\ UNCHANGED <<meta, turn, mixed>>

\* O_CREATE, neither O_EXCL nor O_TRUNC: a file that is there now is shared.
Open(u) ==
  /\ req[u] = "open"
  /\ Go(u, "copy")
  /\ SetFile(u, [File(u) EXCEPT !.by = @ \cup {u}])
  /\ UNCHANGED <<at, mem, meta, turn, mixed>>

\* Bug: the error of io.Copy is not looked at.
Bug_CopyFails(u) ==
  /\ req[u] = "copy"
  /\ Go(u, "save")
  /\ UNCHANGED <<at, mem, meta, part, turn, mixed>>

\* The body ends early or takes more than 5 seconds: what came stays there.
CopyFails(u) ==
  /\ req[u] = "copy"
  /\ End(u, "bad")
  /\ UNCHANGED <<meta, part, turn, mixed>>

\* The body is written, to a file that may have lost its name by now.
Copy(u) ==
  /\ req[u] = "copy"
  /\ Go(u, "save")
  /\ IF u \in File(u).by THEN SetFile(u, [File(u) EXCEPT !.whole = @ \cup {u}]) ELSE UNCHANGED part
  /\ UNCHANGED <<at, mem, meta, turn, mixed>>

\* WriteFile truncates the .json ...
Truncate(u) ==
  /\ req[u] = "save"
  /\ Go(u, "write")
  /\ meta' = [meta EXCEPT ![Name[u]] = Torn]
  /\ UNCHANGED <<at, mem, part, turn, mixed>>

\* Bug: the part is not counted.
Bug_Write(u) ==
  /\ req[u] \in {"write", "unlinked"}
  /\ End(u, "ok")
  /\ meta' = [meta EXCEPT ![Name[u]] = [mem[u] EXCEPT !.n = at[u]]]
  /\ UNCHANGED <<part, turn, mixed>>

\* ... and writes it with one part more.
Write(u) ==
  /\ req[u] \in {"write", "unlinked"}
  /\ End(u, "ok")
  /\ meta' = IF req[u] = "unlinked" THEN meta ELSE [meta EXCEPT ![Name[u]] = [mem[u] EXCEPT !.n = @ + 1]]
  /\ UNCHANGED <<part, turn, mixed>>

\* The disk is full: 500 is answered, and "OK." after it.
WriteFails(u) ==
  /\ req[u] \in {"write", "unlinked"}
  /\ End(u, "bad")
  /\ UNCHANGED <<meta, part, turn, mixed>>

\* rm() removes the .json, the chunks stay.
Rm(n) ==
  /\ meta[n] # None
  /\ meta' = [meta EXCEPT ![n] = None]
  /\ req' = [u \in Uploads |-> IF Name[u] = n /\ req[u] = "write" THEN "unlinked" ELSE req[u]]
  /\ UNCHANGED <<at, mem, part, turn, mixed>>

\* The process ends and is started again: its requests are never answered.
Crash ==
  /\ req' = [u \in Uploads |-> IF req[u] = "none" THEN "none" ELSE "gone"]
  /\ at' = [u \in Uploads |-> 0] /\ mem' = [u \in Uploads |-> None]
  /\ UNCHANGED <<meta, part, turn, mixed>>

\* status(): the names it shows.
Listed(m) == m \notin {None, Torn} /\ m.n = m.total

\* The chunk file was written once, by u, from begin to end.
Intact(n, i, u) == part[n][i] = [by |-> {u}, whole |-> {u}]
=============================================================================
