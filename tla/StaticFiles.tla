---------------------------- MODULE StaticFiles ----------------------------
(***************************************************************************)
(* The static file server (fileserver.go): requests that choose a file,    *)
(* open it and answer with it, while a deployment replaces the files, and  *)
(* a browser that keeps what it got.  Every file is replaced by a rename,  *)
(* so an open file does not change.  One request at a time is enough:      *)
(* requests share nothing but the files.                                   *)
(***************************************************************************)
EXTENDS Ranges, FiniteSets

CONSTANTS
  Size,       \* of each version of the asset
  Paths,      \* how the asset, or something else, is asked for: see Gate
  Accepts,    \* Accept-Encoding headers: sequences of "br" and "gzip"
  Headers,    \* Range headers
  MaxTime     \* bound of the model: half seconds

\* "-0" and a suffix below 0, for which parseRange keeps a range without bytes,
\* are left out.
ASSUME FilesAssumption ==
  /\ Size \in Seq(Nat \ {0}) /\ Len(Size) > 0
  /\ Paths \subseteq {"dot", "php", "index", "dir", "dir/", "file", "file/"}
  /\ Accepts \subseteq Seq({"br", "gzip"})
  /\ \A h \in Headers : h \in Seq(Spec3) /\ \A i \in DOMAIN h : h[i].kind = "suffix" => h[i].a > 0
  /\ MaxTime \in Nat

Versions  == DOMAIN Size
Encodings == {"plain", "br", "gzip"}
None      == [v |-> 0, t |-> 0]

VARIABLES
  disk,     \* the asset and its .br and .gz: version and modification time
  clock,
  pc,       \* of the request: "idle", "gate", "choose", "open", "stat", "check", "answer"
  req,      \* its path, the encodings still to look for, its headers
  hops,     \* redirects it followed
  found,    \* the encodings whose file exists
  name,     \* the file it chose
  fd,       \* the file it opened
  head,     \* what fstat said of it
  answer,   \* status, file and ranges
  gone,     \* history: a file was removed since the request came
  copy      \* the asset as the browser has it

files == <<disk, clock>>
work  == <<hops, found, name, fd, head, answer>>
vars  == <<files, pc, req, work, gone, copy>>

NoAnswer == [code |-> 0, ranges |-> <<>>, file |-> None]

Files == [v : {0} \cup Versions, t : 0 .. MaxTime]

TypeOK ==
  /\ disk \in [Encodings -> Files] /\ clock \in 0 .. MaxTime
  /\ pc \in {"idle", "gate", "choose", "open", "stat", "check", "answer"}
  /\ req.path \in Paths \cup {"dir/", "file", "index"} /\ req.want \in Seq({"br", "gzip"})
  /\ hops \in Nat /\ found \subseteq {"br", "gzip"} /\ name \in Encodings
  /\ fd \in Files /\ head \in Files
  /\ answer.code \in {0, 200, 206, 301, 304, 403, 404, 412, 416, 500} /\ answer.file \in Files
  /\ gone \in BOOLEAN /\ copy \in Files
  /\ \A i \in DOMAIN answer.ranges : answer.ranges[i] \in [start : Nat, length : Nat \ {0}]

-----------------------------------------------------------------------------
(* Deployment *)

Tick ==
  /\ clock < MaxTime /\ clock' = clock + 1
  /\ UNCHANGED <<disk, pc, req, work, gone, copy>>

\* A new version is renamed over the asset.
Deploy ==
  /\ disk["plain"].v < Len(Size)
  /\ disk' = [disk EXCEPT !["plain"] = [v |-> @.v + 1, t |-> clock]]
  /\ UNCHANGED <<clock, pc, req, work, gone, copy>>

\* gzip or brotli, with the time of the original or the time it is.
Compress(e) ==
  /\ \E t \in {disk["plain"].t, clock} : disk' = [disk EXCEPT ![e] = [disk["plain"] EXCEPT !.t = t]]
  /\ UNCHANGED <<clock, pc, req, work, gone, copy>>

Clean(e) ==
  /\ disk[e] # None
  /\ disk' = [disk EXCEPT ![e] = None] /\ gone' = (pc # "idle")
  /\ UNCHANGED <<clock, pc, req, work, copy>>

-----------------------------------------------------------------------------
(* The browser *)

\* What it asks: everything, whether its copy is current, a part, the rest
\* of its copy; and conditions on tags, which never match.
Plain == [match |-> "none", noneMatch |-> "none", since |-> Never, unmodified |-> Never,
          ifRange |-> Never, range |-> <<>>]

Conditions ==
  {Plain} \cup {[Plain EXCEPT !.range = h] : h \in Headers}
  \cup {[Plain EXCEPT !.match = m] : m \in {"any", "tag"}}
  \cup {[Plain EXCEPT !.noneMatch = m] : m \in {"any", "tag", "comma"}}
  \cup IF copy = None THEN {}
       ELSE LET date == copy.t \div 2 IN
            {[Plain EXCEPT !.since = date], [Plain EXCEPT !.unmodified = date],
             [Plain EXCEPT !.ifRange = date, !.range = <<[kind |-> "from", a |-> 1, b |-> 0]>>]}

NoRequest == [path |-> "file", want |-> <<>>, cond |-> Plain]

\* The asset is asked for, or something else.
Ask ==
  /\ pc = "idle"
  /\ \E p \in Paths, want \in Accepts : req' = [path |-> p, want |-> want, cond |-> Plain]
  /\ pc' = "gate"
  /\ UNCHANGED <<files, work, gone, copy>>

\* Bug: a file with a slash is sent to itself.
Bug_Target(path) == IF path = "file/" THEN "file/" ELSE "dir/"

\* Where localRedirect() sends it: "../name" from a file with a slash, "./" or
\* "name/" to the directory.
Target(path) == IF path = "file/" THEN "file" ELSE "dir/"

\* It follows a redirect, or keeps a whole answer.
Take ==
  /\ pc = "answer"
  /\ IF answer.code = 301
     THEN /\ pc' = "gate" /\ hops' = hops + 1
          /\ req' = [req EXCEPT !.path = Target(@)]
          /\ UNCHANGED <<gone, copy>>
     ELSE /\ pc' = "idle" /\ hops' = 0 /\ gone' = FALSE /\ req' = NoRequest
          /\ copy' = IF answer.code = 200 THEN answer.file ELSE copy
  /\ found' = {} /\ name' = "plain" /\ fd' = None /\ head' = None /\ answer' = NoAnswer
  /\ UNCHANGED files

-----------------------------------------------------------------------------
(* serveFile() *)

Reply(code) ==
  /\ pc' = "answer"
  /\ answer' = [NoAnswer EXCEPT !.code = code]

\* The part of serveFile() that needs no file: names with a dot, index.html
\* and .php, and a directory without its slash.  What is left is a file, or
\* the index.html of a directory.
Gate ==
  /\ pc = "gate"
  /\ CASE req.path \in {"dot", "php"}   -> Reply(403)
       [] req.path \in {"index", "dir"} -> Reply(301)
       [] OTHER -> pc' = "choose" /\ UNCHANGED answer
  /\ UNCHANGED <<files, req, hops, found, name, fd, head, gone, copy>>

\* Bug: a form is taken to be there without a look.
Bug_Choose ==
  /\ pc = "choose"
  /\ IF req.want # <<>>
     THEN /\ found' = found \cup {Head(req.want)}
          /\ req' = [req EXCEPT !.want = Tail(@)]
          /\ UNCHANGED <<pc, name>>
     ELSE /\ name' = IF "br" \in found THEN "br" ELSE IF "gzip" \in found THEN "gzip" ELSE "plain"
          /\ pc' = "open"
          /\ UNCHANGED <<found, req>>
  /\ UNCHANGED <<files, hops, fd, head, answer, gone, copy>>

\* precompressed(): one Exists() for each encoding the client names; brotli
\* is preferred.
Choose ==
  /\ pc = "choose"
  /\ IF req.want # <<>>
     THEN LET e == Head(req.want) IN
          /\ found' = found \cup {x \in {e} : disk[x] # None}
          /\ req' = [req EXCEPT !.want = Tail(@)]
          /\ UNCHANGED <<pc, name>>
     ELSE /\ name' = IF "br" \in found THEN "br" ELSE IF "gzip" \in found THEN "gzip" ELSE "plain"
          /\ pc' = "open"
          /\ UNCHANGED <<found, req>>
  /\ UNCHANGED <<files, hops, fd, head, answer, gone, copy>>

\* The file that was chosen may be gone.
Open ==
  /\ pc = "open"
  /\ IF disk[name] = None THEN Reply(IF req.path = "dir/" THEN 403 ELSE 404) /\ UNCHANGED fd
                          ELSE pc' = "stat" /\ fd' = disk[name] /\ UNCHANGED answer
  /\ UNCHANGED <<files, req, hops, found, name, head, gone, copy>>

\* Bug: the name is asked, not the open file.
Bug_Stat ==
  /\ pc = "stat"
  /\ IF req.path = "file/" THEN Reply(301) /\ UNCHANGED head
                           ELSE pc' = "check" /\ head' = disk[name] /\ UNCHANGED answer
  /\ UNCHANGED <<files, req, hops, found, name, fd, gone, copy>>

\* Stat() of the open file; a file asked for with a slash is redirected.
Stat ==
  /\ pc = "stat"
  /\ IF req.path = "file/" THEN Reply(301) /\ UNCHANGED head
                           ELSE pc' = "check" /\ head' = fd /\ UNCHANGED answer
  /\ UNCHANGED <<files, req, hops, found, name, fd, gone, copy>>

AnswerOf(c) ==
  LET a == Respond(c, head.t, Size[head.v])
  IN [code |-> a.code, ranges |-> a.ranges, file |-> [v |-> fd.v, t |-> head.t]]

\* serveContent(), which is the first to read the conditions of the request:
\* the time and size that fstat gave, the bytes of the file.
ServeContent ==
  /\ pc = "check"
  /\ \E c \in Conditions :
       /\ req' = [req EXCEPT !.cond = c]
       /\ answer' = AnswerOf(c)
  /\ pc' = "answer"
  /\ UNCHANGED <<files, hops, found, name, fd, head, gone, copy>>

-----------------------------------------------------------------------------

Init ==
  /\ disk = [e \in Encodings |-> IF e = "plain" THEN [v |-> 1, t |-> 0] ELSE None]
  /\ clock = 0
  /\ pc = "idle" /\ req = NoRequest
  /\ hops = 0 /\ found = {} /\ name = "plain" /\ fd = None /\ head = None /\ answer = NoAnswer
  /\ gone = FALSE /\ copy = None

Deployment == Tick \/ Deploy \/ \E e \in {"br", "gzip"} : Compress(e) \/ Clean(e)
Request == Take \/ Gate \/ Choose \/ Open \/ Stat \/ ServeContent

Next == Deployment \/ Ask \/ Request

Spec == Init /\ [][Next]_vars

-----------------------------------------------------------------------------
(* Properties *)

SameSecond(t, u) == t \div 2 = u \div 2

\* Length, time, encoding and bytes of an answer are those of one file,
\* whatever is replaced while it is made.  (fileserver.go:642-708)
AnswerIsOneFile ==
  pc = "answer" /\ answer.code \in {200, 206} =>
    /\ answer.file = fd
    /\ \A i \in DOMAIN answer.ranges :
         answer.ranges[i].start + answer.ranges[i].length <= Size[fd.v]

\* "Not modified" to a browser that asked with the date of its copy: its copy
\* is of the version that was opened, or that one was written in the same
\* second.  (fileserver.go:454-472, 554-558)
NotModifiedIsCurrent ==
  pc = "answer" /\ answer.code = 304 /\ req.cond.since # Never =>
    fd.v <= copy.v \/ SameSecond(fd.t, copy.t)

\* The rest of a file that is resumed with If-Range belongs to the version
\* the browser has, except within a second.  (fileserver.go:474-503)
ResumeIsSameVersion ==
  pc = "answer" /\ answer.code = 206 /\ req.cond.ifRange # Never =>
    answer.file.v = copy.v \/ SameSecond(fd.t, copy.t)

\* Every range that is sent has the bytes RFC 7233 gives its spec, no
\* spec that has bytes is left out, and together they are no longer than the file.
\* (fileserver.go:833-899, 258-264)
BytesOf(r) == r.start .. r.start + r.length - 1
Asked(s, size) ==
  CASE s.kind = "suffix" -> {p \in 0 .. size - 1 : p >= size - s.a}
    [] s.kind = "from"   -> {p \in 0 .. size - 1 : p >= s.a}
    [] s.kind = "span"   -> {p \in 0 .. size - 1 : s.a <= p /\ p <= s.b}
RangesAreTheAsked ==
  pc = "answer" /\ answer.code = 206 =>
    LET size == Size[fd.v]  header == req.cond.range IN
    /\ DOMAIN answer.ranges = {i \in DOMAIN header : Asked(header[i], size) # {}}
    /\ \A i \in DOMAIN answer.ranges : BytesOf(answer.ranges[i]) = Asked(header[i], size)
    /\ Total(answer.ranges) <= size

\* Redirects end after one.  (fileserver.go:629-682)
FewRedirects == hops <= 1

\* An asset that is there is not found only when a compressed form was
\* removed between Exists() and Open().  (fileserver.go:598-610, 643)
FoundUnlessRemoved == pc = "answer" /\ answer.code = 404 => gone
=============================================================================
