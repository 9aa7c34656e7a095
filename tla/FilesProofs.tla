----------------------------- MODULE FilesProofs -----------------------------
(* The properties of StaticFiles, for every number and size of versions,   *)
(* every time and every Range header: an answer is one file with the       *)
(* ranges that were asked for, and what the browser keeps is compared      *)
(* rightly, whatever a deployment does in between.                         *)
EXTENDS RangesProofs

-----------------------------------------------------------------------------
(* What serveContent() makes of a request *)

Header == {h \in Seq(Spec3) : \A i \in DOMAIN h : h[i].kind = "suffix" => h[i].a > 0}

Ranged(ranges, size) ==
  \A i \in DOMAIN ranges : /\ ranges[i] \in [start : Nat, length : Nat \ {0}]
                           /\ ranges[i].start + ranges[i].length <= size

\* The ranges of an answer to a header, see RangesAreTheAsked.
Exact(ranges, header, size) ==
  /\ DOMAIN ranges = {i \in DOMAIN header : Asked(header[i], size) # {}}
  /\ \A i \in DOMAIN ranges : BytesOf(ranges[i]) = Asked(header[i], size)
  /\ Total(ranges) <= size

LEMMA ServeIsTheAsked ==
  ASSUME NEW size \in Nat \ {0}, NEW header \in Header, NEW s, s = Serve(header, size)
  PROVE  /\ s.code \in {200, 206, 416} /\ Ranged(s.ranges, size)
         /\ s.code = 206 => header # <<>> /\ Exact(s.ranges, header, size)
<1> DEFINE kept   == {i \in DOMAIN header : ~NoOverlap(header[i], size)}
           ranges == [i \in kept |-> RangeOf(header[i], size)]
           junk   == \E i \in DOMAIN header : Junk(header[i], size)
<1>1. \A i \in DOMAIN header : header[i] \in Spec3 /\ (header[i].kind = "suffix" => header[i].a > 0)
  BY DEF Header
<1>2. s = IF junk \/ (header # <<>> /\ kept = {}) THEN Status(416)
          ELSE IF header # <<>> /\ Total(ranges) <= size THEN [code |-> 206, ranges |-> ranges]
          ELSE [code |-> 200, ranges |-> Whole(size)]
  BY DEF Serve
<1>3. ASSUME ~junk PROVE Ranged(ranges, size)
  <2>1. SUFFICES ASSUME NEW i \in kept
                 PROVE  /\ RangeOf(header[i], size) \in [start : Nat, length : Nat \ {0}]
                        /\ RangeOf(header[i], size).start + RangeOf(header[i], size).length <= size
    BY DEF Ranged
  <2>2. ~Junk(header[i], size) /\ ~NoOverlap(header[i], size) BY <1>3
  <2>3. /\ RangeOf(header[i], size).start \in Nat /\ RangeOf(header[i], size).length \in Nat \ {0}
        /\ RangeOf(header[i], size).start + RangeOf(header[i], size).length <= size
    BY <1>1, <2>2, RangeIsTheAsked
  <2>4. RangeOf(header[i], size) = [start |-> RangeOf(header[i], size).start,
                                    length |-> RangeOf(header[i], size).length]
    BY DEF RangeOf
  <2> QED BY <2>3, <2>4
<1>4. ASSUME ~junk
      PROVE  /\ kept = {i \in DOMAIN header : Asked(header[i], size) # {}}
             /\ \A i \in kept : BytesOf(RangeOf(header[i], size)) = Asked(header[i], size)
  <2>1. ASSUME NEW i \in DOMAIN header PROVE NoOverlap(header[i], size) <=> Asked(header[i], size) = {}
    BY <1>1, <1>4, <2>1, DroppedWhenNothingAsked
  <2>2. ASSUME NEW i \in kept PROVE BytesOf(RangeOf(header[i], size)) = Asked(header[i], size)
    BY <1>1, <1>4, <2>2, RangeIsTheAsked
  <2> QED BY <2>1, <2>2
<1> HIDE DEF junk
<1>5. CASE junk \/ (header # <<>> /\ kept = {})
  <2>1. s.code = 416 /\ s.ranges = <<>> BY <1>2, <1>5 DEF Status
  <2> QED BY <2>1 DEF Ranged
<1>6. CASE ~junk /\ header # <<>> /\ Total(ranges) <= size /\ ~(header # <<>> /\ kept = {})
  <2>1. s = [code |-> 206, ranges |-> ranges] BY <1>2, <1>6, Zenon
  <2>2. s.code = 206 /\ s.ranges = ranges BY <2>1
  <2>3. Exact(ranges, header, size) BY <1>4, <1>6 DEF Exact
  <2> QED BY <1>3, <1>6, <2>2, <2>3
<1>7. CASE ~junk /\ ~(header # <<>> /\ kept = {}) /\ ~(header # <<>> /\ Total(ranges) <= size)
  <2>1. s = [code |-> 200, ranges |-> Whole(size)] BY <1>2, <1>7, Zenon
  <2>2. s.code = 200 /\ s.ranges = <<[start |-> 0, length |-> size]>> BY <2>1 DEF Whole
  <2> QED BY <2>2 DEF Ranged
<1> QED BY <1>5, <1>6, <1>7

LEMMA RespondIs ==
  ASSUME NEW size \in Nat \ {0}, NEW r, r.range \in Header, NEW t, NEW a, a = Respond(r, t, size)
  PROVE  /\ a.code \in {200, 206, 304, 412, 416, 500} /\ Ranged(a.ranges, size)
         /\ a.code = 304 => NotModified(r, t)
         /\ a.code = 206 => RangeHolds(r, t) /\ Exact(a.ranges, r.range, size)
<1>1. CASE IfMatchFails(r, t) \/ r.noneMatch = "comma"
  <2>1. a.code \in {412, 500} /\ a.ranges = <<>> BY <1>1 DEF Respond, Status
  <2> QED BY <2>1 DEF Ranged
<1>2. CASE ~IfMatchFails(r, t) /\ r.noneMatch # "comma" /\ NotModified(r, t)
  <2>1. a.code = 304 /\ a.ranges = <<>> BY <1>2 DEF Respond, Status
  <2> QED BY <1>2, <2>1 DEF Ranged
<1>3. CASE ~IfMatchFails(r, t) /\ r.noneMatch # "comma" /\ ~NotModified(r, t)
  <2> DEFINE h == IF RangeHolds(r, t) THEN r.range ELSE <<>>
  <2>1. a = Serve(h, size) BY <1>3 DEF Respond
  <2>2. h \in Header BY DEF Header
  <2>3. h # <<>> => RangeHolds(r, t) /\ h = r.range OBVIOUS
  <2> HIDE DEF h
  <2>4. /\ a.code \in {200, 206, 416} /\ Ranged(a.ranges, size)
        /\ a.code = 206 => h # <<>> /\ Exact(a.ranges, h, size)
    BY <2>1, <2>2, ServeIsTheAsked
  <2> QED BY <2>3, <2>4
<1> QED BY <1>1, <1>2, <1>3

-----------------------------------------------------------------------------
(* The invariant *)

Conds == [match : {"none", "any", "tag"}, noneMatch : {"none", "any", "tag", "comma"},
          since : Int, unmodified : Int, ifRange : Int, range : Header]
Asks  == [path : Paths \cup {"dir/", "file", "index"}, want : Seq({"br", "gzip"}), cond : Conds]
Codes == {0, 200, 206, 301, 304, 403, 404, 412, 416, 500}

\* Of the files and the request; a version is never 0.
Typed ==
  /\ disk \in [Encodings -> Files] /\ clock \in 0 .. MaxTime
  /\ disk["plain"].v \in Versions /\ \A e \in Encodings : disk[e] # None => disk[e].v \in Versions
  /\ pc \in {"idle", "gate", "choose", "open", "stat", "check", "answer"}
  /\ req \in Asks /\ hops \in Nat /\ found \subseteq {"br", "gzip"} /\ name \in Encodings
  /\ fd \in Files /\ head \in Files /\ gone \in BOOLEAN /\ copy \in Files

\* What was opened is a file, and the one that fstat looked at.
Opened ==
  /\ pc = "stat" => fd.v \in Versions
  /\ pc = "check" => fd.v \in Versions /\ head = fd

\* Files that are there, open or kept by the browser.
Kept == {disk[e] : e \in Encodings} \cup {fd, copy}

\* A later version has no earlier time, and the newest is the one that is there.
Dated ==
  /\ \A f \in Kept : f.v <= disk["plain"].v /\ f.t <= clock
  /\ \A f, g \in Kept : f.v < g.v => f.t <= g.t

Replied ==
  /\ answer.code \in Codes /\ answer.file \in Files
  /\ \A i \in DOMAIN answer.ranges : answer.ranges[i] \in [start : Nat, length : Nat \ {0}]
  /\ AnswerIsOneFile /\ NotModifiedIsCurrent /\ ResumeIsSameVersion /\ RangesAreTheAsked

\* Who was redirected asks for what is not redirected.
Hopped ==
  /\ pc = "idle" => hops = 0
  /\ hops = 0 \/ (hops = 1 /\ req.path \in {"file", "dir/"})
  /\ pc = "answer" /\ answer.code = 301 => req.path \in {"index", "dir", "file/"}

\* What Exists() found is there, or was removed since.
Found ==
  /\ gone \/ \A e \in found : disk[e] # None
  /\ pc = "idle" => found = {}
  /\ pc = "open" => name = "plain" \/ name \in found
  /\ FoundUnlessRemoved

FilesInv == Typed /\ Opened /\ Dated /\ Replied /\ Hopped /\ Found

\* What the browser asks with, about the copy it has.
LEMMA ConditionsAre ==
  ASSUME copy \in Files, NEW c \in Conditions
  PROVE  /\ c \in Conds
         /\ c.since # Never => c.noneMatch = "none" /\ c.since = copy.t \div 2
         /\ c.ifRange # Never => c.ifRange = copy.t \div 2
<1> DEFINE date == copy.t \div 2
           rest == <<[kind |-> "from", a |-> 1, b |-> 0]>>
<1>1. Never \in Int /\ date \in Int
  <2>1. copy.t \in Nat BY FilesAssumption DEF Files, FilesAssumption
  <2> QED BY <2>1 DEF Never
<1>2. <<>> \in Header /\ rest \in Header /\ Headers \subseteq Header
  <2>1. rest \in Seq(Spec3) /\ \A i \in DOMAIN rest : rest[i].kind # "suffix" BY DEF Spec3
  <2>2. <<>> \in Header BY DEF Header
  <2>3. Headers \subseteq Header BY FilesAssumption DEF FilesAssumption, Header
  <2> HIDE DEF rest
  <2> QED BY <2>1, <2>2, <2>3 DEF Header
<1>3. Plain \in Conds BY <1>1, <1>2 DEF Plain, Conds
<1>4. \/ c = Plain
      \/ \E h \in Headers : c = [Plain EXCEPT !.range = h]
      \/ \E m \in {"any", "tag"} : c = [Plain EXCEPT !.match = m]
      \/ \E m \in {"any", "tag", "comma"} : c = [Plain EXCEPT !.noneMatch = m]
      \/ c = [Plain EXCEPT !.since = date] \/ c = [Plain EXCEPT !.unmodified = date]
      \/ c = [Plain EXCEPT !.ifRange = date, !.range = rest]
  BY DEF Conditions
<1> HIDE DEF date, rest
<1>5. CASE c = Plain BY <1>3, <1>5 DEF Plain
<1>6. ASSUME NEW h \in Headers, c = [Plain EXCEPT !.range = h]
      PROVE  c \in Conds /\ c.since = Never /\ c.ifRange = Never
  BY <1>2, <1>1, <1>6 DEF Plain, Conds
<1>7. ASSUME NEW m \in {"any", "tag"}, c = [Plain EXCEPT !.match = m]
      PROVE  c \in Conds /\ c.since = Never /\ c.ifRange = Never
  BY <1>2, <1>1, <1>7 DEF Plain, Conds
<1>8. ASSUME NEW m \in {"any", "tag", "comma"}, c = [Plain EXCEPT !.noneMatch = m]
      PROVE  c \in Conds /\ c.since = Never /\ c.ifRange = Never
  BY <1>2, <1>1, <1>8 DEF Plain, Conds
<1>9. CASE c = [Plain EXCEPT !.since = date]
  <2>1. c \in Conds /\ c.since = date /\ c.noneMatch = "none" /\ c.ifRange = Never
    BY <1>1, <1>2, <1>9 DEF Plain, Conds
  <2> QED BY <2>1 DEF date
<1>10. CASE c = [Plain EXCEPT !.unmodified = date]
  <2>1. c \in Conds /\ c.since = Never /\ c.ifRange = Never BY <1>1, <1>2, <1>10 DEF Plain, Conds
  <2> QED BY <2>1
<1>11. CASE c = [Plain EXCEPT !.ifRange = date, !.range = rest]
  <2>1. c \in Conds /\ c.since = Never /\ c.ifRange = date BY <1>1, <1>2, <1>11 DEF Plain, Conds
  <2> QED BY <2>1 DEF date
<1> QED BY <1>4, <1>5, <1>6, <1>7, <1>8, <1>9, <1>10, <1>11

LEMMA Versioned == Versions = 1 .. Len(Size) /\ Len(Size) \in Nat \ {0} /\ MaxTime \in Nat
                   /\ \A v \in Versions : Size[v] \in Nat \ {0}
BY FilesAssumption DEF FilesAssumption, Versions

LEMMA NoneIsFile == None \in Files /\ None.v \notin Versions /\ None.v = 0 /\ None.t = 0
BY Versioned DEF None, Files

LEMMA FilesAre == ASSUME NEW f \in Files
                  PROVE  f.v \in Nat /\ f.t \in Nat /\ f.t <= MaxTime /\ f = [v |-> f.v, t |-> f.t]
<1>1. f.v \in {0} \cup Versions /\ f.t \in 0 .. MaxTime BY DEF Files
<1> QED BY <1>1, Versioned DEF Files

LEMMA InitInv == Init => FilesInv
<1> SUFFICES ASSUME Init PROVE FilesInv OBVIOUS
<1>1. NoRequest \in Asks
  <2>1. Plain \in Conds
    <3>1. <<>> \in Header /\ Never \in Int BY DEF Header, Never
    <3> QED BY <3>1 DEF Plain, Conds
  <2>2. <<>> \in Seq({"br", "gzip"}) OBVIOUS
  <2> QED BY <2>1, <2>2 DEF NoRequest, Asks
<1>2. /\ disk \in [Encodings -> Files] /\ disk["plain"].v \in Versions
      /\ \A e \in Encodings : disk[e] # None => disk[e].v \in Versions
      /\ disk["plain"] = [v |-> 1, t |-> 0] /\ \A e \in Encodings : disk[e] \in {disk["plain"], None}
  <2>1. disk = [e \in Encodings |-> IF e = "plain" THEN [v |-> 1, t |-> 0] ELSE None] BY DEF Init
  <2>2. [v |-> 1, t |-> 0] \in Files /\ 1 \in Versions BY Versioned DEF Files
  <2> QED BY <2>1, <2>2, NoneIsFile DEF Encodings
<1>3. Typed
  <2>1. /\ clock = 0 /\ pc = "idle" /\ req = NoRequest /\ hops = 0 /\ found = {} /\ name = "plain"
        /\ fd = None /\ head = None /\ gone = FALSE /\ copy = None
    BY DEF Init
  <2>2. name \in Encodings /\ clock \in 0 .. MaxTime BY <2>1, Versioned DEF Encodings
  <2> QED BY <1>1, <1>2, <2>1, <2>2, NoneIsFile DEF Typed
<1>4. Opened BY DEF Init, Opened
<1>5. Dated
  <2>1. clock = 0 /\ fd = None /\ copy = None BY DEF Init
  <2>2. disk["plain"].v = 1 /\ disk["plain"].t = 0 BY <1>2
  <2>3. \A f \in Kept : f = disk["plain"] \/ f = None BY <1>2, <2>1, Zenon DEF Kept
  <2>4. \A f \in Kept : f.v \in {0, 1} /\ f.t = 0 BY <2>2, <2>3, NoneIsFile
  <2>5. \A f \in Kept : f.v <= disk["plain"].v /\ f.t <= clock BY <2>1, <2>2, <2>4
  <2>6. \A f, g \in Kept : f.v < g.v => f.t <= g.t BY <2>4
  <2> QED BY <2>5, <2>6 DEF Dated
<1>6. Replied
  <2>1. pc = "idle" /\ answer = NoAnswer BY DEF Init
  <2>2. answer.code = 0 /\ answer.file = None /\ answer.ranges = <<>> BY <2>1 DEF NoAnswer
  <2> QED BY <2>1, <2>2, NoneIsFile
      DEF Replied, Codes, AnswerIsOneFile, NotModifiedIsCurrent, ResumeIsSameVersion, RangesAreTheAsked
<1>7. Hopped BY DEF Init, Hopped
<1>8. Found BY DEF Init, Found, FoundUnlessRemoved
<1> QED BY <1>3, <1>4, <1>5, <1>6, <1>7, <1>8 DEF FilesInv

-----------------------------------------------------------------------------
(* The deployment *)

\* A step that brings at most one file among those that are kept.
LEMMA OneMore ==
  ASSUME Typed, Dated, NEW x \in Files, Kept' \subseteq Kept \cup {x},
         clock' \in Nat, clock <= clock', disk'["plain"].v \in Nat, disk["plain"].v <= disk'["plain"].v,
         x.v <= disk'["plain"].v, x.t <= clock',
         \A f \in Kept : (f.v < x.v => f.t <= x.t) /\ (x.v < f.v => x.t <= f.t)
  PROVE  Dated'
<1>1. ASSUME NEW f \in Kept PROVE f.v \in Nat /\ f.t \in Nat
  <2>1. f \in Files BY DEF Kept, Typed
  <2> QED BY <2>1, FilesAre
<1>2. x.v \in Nat /\ x.t \in Nat BY FilesAre
<1>3. clock \in Nat /\ disk["plain"].v \in Nat BY Versioned DEF Typed
<1>4. ASSUME NEW f \in Kept' PROVE f.v <= disk'["plain"].v /\ f.t <= clock'
  <2>1. CASE f = x BY <2>1
  <2>2. CASE f \in Kept
    <3>1. f.v <= disk["plain"].v /\ f.t <= clock BY <2>2 DEF Dated
    <3> QED BY <1>1, <1>3, <2>2, <3>1
  <2> QED BY <1>4, <2>1, <2>2
<1>5. ASSUME NEW f \in Kept', NEW g \in Kept', f.v < g.v PROVE f.t <= g.t
  <2>1. CASE f = x /\ g = x BY <1>2, <1>5, <2>1
  <2>2. CASE f = x /\ g \in Kept BY <1>5, <2>2
  <2>3. CASE f \in Kept /\ g = x BY <1>5, <2>3
  <2>4. CASE f \in Kept /\ g \in Kept BY <1>5, <2>4 DEF Dated
  <2> QED BY <1>5, <2>1, <2>2, <2>3, <2>4
<1> QED BY <1>4, <1>5 DEF Dated

\* What a deployment leaves alone, and what it says of the files.
LEMMA DeploymentKeeps ==
  ASSUME FilesInv, UNCHANGED <<pc, req, work, copy>>,
         gone' \in BOOLEAN, pc # "idle" => (gone => gone') /\ (gone' \/ \A e \in Encodings : disk[e] # None => disk'[e] # None),
         disk' \in [Encodings -> Files], clock' \in 0 .. MaxTime, disk'["plain"].v \in Versions,
         \A e \in Encodings : disk'[e] # None => disk'[e].v \in Versions, Dated'
  PROVE  FilesInv'
<1>1. Typed /\ Opened /\ Replied /\ Hopped /\ Found BY DEF FilesInv
<1>2. UNCHANGED <<hops, found, name, fd, head, answer, pc, req, copy>> BY DEF work
<1>3. Typed' BY <1>1, <1>2 DEF Typed
<1>4. Opened' BY <1>1, <1>2 DEF Opened
<1>5. Replied'
  BY <1>1, <1>2
  DEF Replied, AnswerIsOneFile, NotModifiedIsCurrent, ResumeIsSameVersion, RangesAreTheAsked
<1>6. Hopped' BY <1>1, <1>2 DEF Hopped
<1>7. Found'
  <2>1. gone' \/ \A e \in found : disk'[e] # None
    <3>1. CASE pc = "idle" BY <1>1, <3>1 DEF Found
    <3>2. CASE pc # "idle"
      <4>1. found \subseteq Encodings BY <1>1 DEF Typed, Encodings
      <4> QED BY <1>1, <3>2, <4>1 DEF Found
    <3> QED BY <3>1, <3>2
  <2>2. FoundUnlessRemoved' BY <1>1, <1>2 DEF Found, FoundUnlessRemoved
  <2> QED BY <1>1, <1>2, <2>1, <2>2 DEF Found
<1> QED BY <1>3, <1>4, <1>5, <1>6, <1>7 DEF FilesInv

LEMMA DeploymentStep == FilesInv /\ Deployment => FilesInv'
<1> SUFFICES ASSUME FilesInv, Deployment PROVE FilesInv' OBVIOUS
<1>1. Typed /\ Dated BY DEF FilesInv
<1>2. /\ disk \in [Encodings -> Files] /\ clock \in 0 .. MaxTime /\ gone \in BOOLEAN
      /\ disk["plain"].v \in Versions /\ \A e \in Encodings : disk[e] # None => disk[e].v \in Versions
  BY <1>1 DEF Typed
<1>3. "plain" \in Encodings /\ "br" \in Encodings /\ "gzip" \in Encodings BY DEF Encodings
<1> DEFINE now == disk["plain"]
<1>4. now \in Files /\ now.v \in Nat /\ now.t \in Nat /\ now \in Kept /\ now.t <= clock /\ clock \in Nat
  BY <1>1, <1>2, <1>3, FilesAre, Versioned DEF Kept, Dated
<1>5. ASSUME NEW f \in Kept PROVE f.v \in Nat /\ f.t \in Nat /\ f.v <= now.v /\ f.t <= clock
                                /\ (f.v < now.v => f.t <= now.t)
  <2>1. f \in Files BY <1>1 DEF Kept, Typed
  <2> QED BY <1>1, <1>4, <2>1, FilesAre DEF Dated
<1>6. CASE Tick
  <2>1. /\ clock' = clock + 1 /\ clock < MaxTime /\ disk' = disk /\ gone' = gone
        /\ UNCHANGED <<pc, req, work, copy>>
    BY <1>6 DEF Tick
  <2>2. clock' \in 0 .. MaxTime BY <1>2, <2>1, Versioned
  <2>3. fd' = fd /\ copy' = copy BY <2>1 DEF work
  <2>4. Kept' = Kept BY <2>1, <2>3 DEF Kept
  <2>5. Dated'
    <3> HIDE DEF now
    <3>1. \A f \in Kept : f.v <= disk["plain"].v /\ f.t <= clock + 1 BY <1>4, <1>5 DEF now
    <3> QED BY <1>1, <2>1, <2>4, <3>1 DEF Dated
  <2> QED BY <1>2, <2>1, <2>2, <2>5, DeploymentKeeps
<1>7. CASE Deploy
  <2> DEFINE x == [v |-> now.v + 1, t |-> clock]
  <2>1. /\ now.v < Len(Size) /\ disk' = [disk EXCEPT !["plain"] = x] /\ clock' = clock /\ gone' = gone
        /\ UNCHANGED <<pc, req, work, copy>>
    BY <1>7 DEF Deploy
  <2>2. x.v \in Versions /\ x \in Files BY <1>2, <1>4, <2>1, Versioned DEF Files
  <2>3. x # None BY <2>2, NoneIsFile
  <2>4. x.v = now.v + 1 /\ x.t = clock OBVIOUS
  <2>5. fd' = fd /\ copy' = copy BY <2>1 DEF work
  <2> HIDE DEF x
  <2>6. disk'["plain"] = x /\ \A e \in Encodings : disk'[e] = IF e = "plain" THEN x ELSE disk[e]
    BY <1>2, <1>3, <2>1
  <2>7. Kept' \subseteq Kept \cup {x} BY <2>5, <2>6 DEF Kept
  <2>8. Dated'
    <3>1. \A f \in Kept : (f.v < x.v => f.t <= x.t) /\ (x.v < f.v => x.t <= f.t)
      BY <1>4, <1>5, <2>4
    <3> QED BY <1>1, <1>4, <2>1, <2>2, <2>4, <2>6, <2>7, <3>1, OneMore
  <2>9. disk' \in [Encodings -> Files] BY <1>2, <2>1, <2>2
  <2>10. \A e \in Encodings : disk'[e] # None => disk'[e].v \in Versions BY <1>2, <2>2, <2>6
  <2>11. \A e \in Encodings : disk[e] # None => disk'[e] # None BY <2>3, <2>6
  <2> QED BY <1>2, <2>1, <2>2, <2>6, <2>8, <2>9, <2>10, <2>11, DeploymentKeeps
<1>8. ASSUME NEW e \in {"br", "gzip"}, Compress(e) PROVE FilesInv'
  <2>1. PICK t \in {now.t, clock} : disk' = [disk EXCEPT ![e] = [now EXCEPT !.t = t]] BY <1>8 DEF Compress
  <2> DEFINE x == [now EXCEPT !.t = t]
  <2>2. clock' = clock /\ gone' = gone /\ UNCHANGED <<pc, req, work, copy>> BY <1>8 DEF Compress
  <2>3. t \in 0 .. MaxTime /\ t \in Nat BY <1>2, <1>4, Versioned DEF Files
  <2>4. x \in Files /\ x.v = now.v /\ x.t = t BY <1>4, <2>3 DEF Files
  <2>5. x # None /\ x.v \in Versions BY <1>2, <2>4, NoneIsFile
  <2>6. fd' = fd /\ copy' = copy BY <2>2 DEF work
  <2> HIDE DEF x
  <2>7. e \in Encodings /\ e # "plain" /\ \A d \in Encodings : disk'[d] = IF d = e THEN x ELSE disk[d]
    BY <1>2, <1>3, <2>1 DEF x
  <2>8. Kept' \subseteq Kept \cup {x} BY <2>6, <2>7 DEF Kept
  <2>9. disk'["plain"] = now BY <1>3, <2>7
  <2>10. Dated'
    <3>1. \A f \in Kept : (f.v < x.v => f.t <= x.t) /\ (x.v < f.v => x.t <= f.t)
      BY <1>4, <1>5, <2>1, <2>3, <2>4
    <3>2. x.v <= now.v /\ x.t <= clock BY <1>4, <2>1, <2>4
    <3> QED BY <1>1, <1>4, <2>2, <2>4, <2>8, <2>9, <3>1, <3>2, OneMore
  <2>11. disk' \in [Encodings -> Files] BY <1>2, <2>1, <2>4 DEF x
  <2>12. \A d \in Encodings : disk'[d] # None => disk'[d].v \in Versions BY <1>2, <2>5, <2>7
  <2>13. \A d \in Encodings : disk[d] # None => disk'[d] # None BY <2>5, <2>7
  <2> QED BY <1>2, <2>2, <2>9, <2>10, <2>11, <2>12, <2>13, DeploymentKeeps
<1>9. ASSUME NEW e \in {"br", "gzip"}, Clean(e) PROVE FilesInv'
  <2>1. disk' = [disk EXCEPT ![e] = None] /\ gone' = (pc # "idle") /\ clock' = clock
        /\ UNCHANGED <<pc, req, work, copy>>
    BY <1>9 DEF Clean
  <2>2. fd' = fd /\ copy' = copy BY <2>1 DEF work
  <2>3. e \in Encodings /\ e # "plain" /\ \A d \in Encodings : disk'[d] = IF d = e THEN None ELSE disk[d]
    BY <1>2, <1>3, <2>1
  <2>4. Kept' \subseteq Kept \cup {None} BY <2>2, <2>3 DEF Kept
  <2>5. disk'["plain"] = now BY <1>3, <2>3
  <2>6. Dated'
    <3>1. \A f \in Kept : (f.v < None.v => f.t <= None.t) /\ (None.v < f.v => None.t <= f.t)
      BY <1>5, NoneIsFile
    <3> QED BY <1>1, <1>4, <2>1, <2>4, <2>5, <3>1, NoneIsFile, OneMore
  <2>7. disk' \in [Encodings -> Files] BY <1>2, <2>1, NoneIsFile
  <2>8. \A d \in Encodings : disk'[d] # None => disk'[d].v \in Versions BY <1>2, <2>3
  <2>9. gone' \in BOOLEAN /\ (pc # "idle" => gone') BY <2>1
  <2> QED BY <1>2, <2>1, <2>5, <2>6, <2>7, <2>8, <2>9, DeploymentKeeps
<1> QED BY <1>6, <1>7, <1>8, <1>9 DEF Deployment

-----------------------------------------------------------------------------
(* A request *)

LEMMA NothingNew ==
  ASSUME Typed, Dated, UNCHANGED files, Kept' \subseteq Kept \cup {None}
  PROVE  Dated'
<1>1. disk' = disk /\ clock' = clock BY DEF files
<1>2. disk["plain"].v \in Nat /\ clock \in Nat BY Versioned DEF Typed
<1>3. ASSUME NEW f \in Kept PROVE f.v \in Nat /\ f.t \in Nat
  <2>1. f \in Files BY DEF Kept, Typed
  <2> QED BY <2>1, FilesAre
<1>4. \A f \in Kept : (f.v < None.v => f.t <= None.t) /\ (None.v < f.v => None.t <= f.t)
  BY <1>3, NoneIsFile
<1> QED BY <1>1, <1>2, <1>4, NoneIsFile, OneMore

LEMMA NotYet == ASSUME Replied, answer' = answer, pc' # "answer" PROVE Replied'
BY DEF Replied, AnswerIsOneFile, NotModifiedIsCurrent, ResumeIsSameVersion, RangesAreTheAsked

LEMMA ReplyIs ==
  ASSUME NEW code \in Codes \ {200, 206, 304}, Reply(code)
  PROVE  Replied' /\ pc' = "answer" /\ answer'.code = code
<1>1. /\ pc' = "answer" /\ answer'.code = code /\ answer'.file = None /\ answer'.ranges = <<>>
  BY DEF Reply, NoAnswer
<1> QED BY <1>1, NoneIsFile
    DEF Replied, AnswerIsOneFile, NotModifiedIsCurrent, ResumeIsSameVersion, RangesAreTheAsked

LEMMA AskStep == FilesInv /\ Ask => FilesInv'
<1> SUFFICES ASSUME FilesInv, Ask PROVE FilesInv' OBVIOUS
<1>1. Typed /\ Dated /\ Replied /\ Hopped /\ Found BY DEF FilesInv
<1>2. PICK p \in Paths, want \in Accepts : req' = [path |-> p, want |-> want, cond |-> Plain]
  BY DEF Ask
<1>3. /\ pc = "idle" /\ pc' = "gate" /\ disk' = disk /\ clock' = clock /\ gone' = gone /\ copy' = copy
      /\ UNCHANGED <<hops, found, name, fd, head, answer>>
  BY DEF Ask, files, work
<1>4. req' \in Asks
  <2>1. Plain \in Conds
    <3>1. <<>> \in Header /\ Never \in Int BY DEF Header, Never
    <3> QED BY <3>1 DEF Plain, Conds
  <2>2. want \in Seq({"br", "gzip"}) BY FilesAssumption DEF FilesAssumption
  <2> QED BY <1>2, <2>1, <2>2 DEF Asks
<1>5. Typed' BY <1>1, <1>3, <1>4 DEF Typed
<1>6. Opened' BY <1>3 DEF Opened
<1>7. Dated' BY <1>1, <1>3 DEF Dated, Kept
<1>8. Replied' BY <1>1, <1>3, NotYet
<1>9. Hopped' BY <1>1, <1>3 DEF Hopped
<1>10. Found' BY <1>1, <1>3 DEF Found, FoundUnlessRemoved
<1> QED BY <1>5, <1>6, <1>7, <1>8, <1>9, <1>10 DEF FilesInv

LEMMA TakeStep == FilesInv /\ Take => FilesInv'
<1> SUFFICES ASSUME FilesInv, Take PROVE FilesInv' OBVIOUS
<1>1. Typed /\ Dated /\ Replied /\ Hopped /\ Found BY DEF FilesInv
<1>2. /\ pc = "answer" /\ disk' = disk /\ clock' = clock
      /\ found' = {} /\ name' = "plain" /\ fd' = None /\ head' = None /\ answer' = NoAnswer
  BY DEF Take, files
<1>3. answer'.code = 0 /\ answer'.file = None /\ answer'.ranges = <<>> BY <1>2 DEF NoAnswer
<1>4. NoRequest \in Asks
  <2>1. Plain \in Conds
    <3>1. <<>> \in Header /\ Never \in Int BY DEF Header, Never
    <3> QED BY <3>1 DEF Plain, Conds
  <2>2. <<>> \in Seq({"br", "gzip"}) OBVIOUS
  <2> QED BY <2>1, <2>2 DEF NoRequest, Asks
<1>5. \/ /\ answer.code = 301 /\ pc' = "gate" /\ hops' = hops + 1
         /\ req' = [req EXCEPT !.path = Target(req.path)] /\ gone' = gone /\ copy' = copy
      \/ /\ pc' = "idle" /\ hops' = 0 /\ gone' = FALSE /\ req' = NoRequest
         /\ copy' = IF answer.code = 200 THEN answer.file ELSE copy
  BY DEF Take
<1>6. req' \in Asks /\ hops' \in Nat /\ gone' \in BOOLEAN /\ pc' \in {"gate", "idle"} /\ Hopped'
  <2>1. CASE /\ answer.code = 301 /\ pc' = "gate" /\ hops' = hops + 1
             /\ req' = [req EXCEPT !.path = Target(req.path)] /\ gone' = gone
    <3>1. req.path \in {"index", "dir", "file/"} /\ hops = 0 BY <1>1, <1>2, <2>1 DEF Hopped
    <3>2. Target(req.path) \in {"file", "dir/"} BY DEF Target
    <3>3. req \in Asks BY <1>1 DEF Typed
    <3>4. req' \in Asks /\ req'.path \in {"file", "dir/"}
      <4> DEFINE p == Target(req.path)
      <4>1. p \in Paths \cup {"dir/", "file", "index"} BY <3>2
      <4> HIDE DEF p
      <4>2. req' = [req EXCEPT !.path = p] BY <2>1 DEF p
      <4>3. req' \in Asks /\ req'.path = p BY <3>3, <4>1, <4>2 DEF Asks
      <4> QED BY <3>2, <4>3 DEF p
    <3>5. gone' \in BOOLEAN BY <1>1, <2>1 DEF Typed
    <3>6. hops' = 1 BY <2>1, <3>1
    <3> QED BY <2>1, <3>4, <3>5, <3>6 DEF Hopped
  <2>2. CASE pc' = "idle" /\ hops' = 0 /\ gone' = FALSE /\ req' = NoRequest
    BY <1>4, <2>2 DEF Hopped
  <2> QED BY <1>5, <2>1, <2>2
<1>7. copy' \in {copy, fd}
  <2>1. answer.code = 200 => answer.file = fd BY <1>1, <1>2 DEF Replied, AnswerIsOneFile
  <2> QED BY <1>5, <2>1
<1>8. Typed'
  <2>1. copy' \in Files BY <1>1, <1>7 DEF Typed
  <2>2. name' \in Encodings BY <1>2 DEF Encodings
  <2> QED BY <1>1, <1>2, <1>6, <2>1, <2>2, NoneIsFile DEF Typed
<1>9. Opened' BY <1>6 DEF Opened
<1>10. Dated'
  <2>1. Kept' \subseteq Kept \cup {None} BY <1>2, <1>7 DEF Kept
  <2> QED BY <1>1, <1>2, <2>1, NothingNew DEF files
<1>11. Replied'
  BY <1>3, <1>6, NoneIsFile
  DEF Replied, Codes, AnswerIsOneFile, NotModifiedIsCurrent, ResumeIsSameVersion, RangesAreTheAsked
<1>12. Found' BY <1>2, <1>6 DEF Found, FoundUnlessRemoved
<1> QED BY <1>6, <1>8, <1>9, <1>10, <1>11, <1>12 DEF FilesInv

LEMMA GateStep == FilesInv /\ Gate => FilesInv'
<1> SUFFICES ASSUME FilesInv, Gate PROVE FilesInv' OBVIOUS
<1>1. Typed /\ Dated /\ Replied /\ Hopped /\ Found BY DEF FilesInv
<1>2. /\ pc = "gate" /\ disk' = disk /\ clock' = clock
      /\ UNCHANGED <<req, hops, found, name, fd, head, gone, copy>>
  BY DEF Gate, files
<1>3. \/ req.path \in {"dot", "php"} /\ Reply(403)
      \/ req.path \in {"index", "dir"} /\ Reply(301)
      \/ pc' = "choose" /\ answer' = answer
  BY DEF Gate
<1>4. /\ Replied' /\ pc' \in {"choose", "answer"}
      /\ pc' = "answer" => answer'.code = 403 \/ (answer'.code = 301 /\ req.path \in {"index", "dir"})
  <2>1. CASE req.path \in {"dot", "php"} /\ Reply(403)
    <3>1. 403 \in Codes \ {200, 206, 304} BY DEF Codes
    <3> QED BY <2>1, <3>1, ReplyIs
  <2>2. CASE req.path \in {"index", "dir"} /\ Reply(301)
    <3>1. 301 \in Codes \ {200, 206, 304} BY DEF Codes
    <3> QED BY <2>2, <3>1, ReplyIs
  <2>3. CASE pc' = "choose" /\ answer' = answer BY <1>1, <2>3, NotYet
  <2> QED BY <1>3, <2>1, <2>2, <2>3
<1>5. Typed' BY <1>1, <1>2, <1>4 DEF Typed
<1>6. Opened' BY <1>4 DEF Opened
<1>7. Dated' BY <1>1, <1>2 DEF Dated, Kept
<1>8. Hopped' BY <1>1, <1>2, <1>4 DEF Hopped
<1>9. Found' BY <1>1, <1>2, <1>4 DEF Found, FoundUnlessRemoved
<1> QED BY <1>4, <1>5, <1>6, <1>7, <1>8, <1>9 DEF FilesInv

LEMMA ChooseStep == FilesInv /\ Choose => FilesInv'
<1> SUFFICES ASSUME FilesInv, Choose PROVE FilesInv' OBVIOUS
<1>1. Typed /\ Dated /\ Replied /\ Hopped /\ Found BY DEF FilesInv
<1>2. /\ pc = "choose" /\ disk' = disk /\ clock' = clock
      /\ UNCHANGED <<hops, fd, head, answer, gone, copy>>
  BY DEF Choose, files
<1>3. req \in Asks /\ req.want \in Seq({"br", "gzip"}) BY <1>1 DEF Typed, Asks
<1>4. CASE req.want # <<>>
  <2> DEFINE e == Head(req.want)
             want == Tail(req.want)
  <2>1. found' = found \cup {x \in {e} : disk[x] # None} /\ req' = [req EXCEPT !.want = want]
        /\ pc' = pc /\ name' = name
    BY <1>4 DEF Choose
  <2>2. e \in {"br", "gzip"} /\ want \in Seq({"br", "gzip"}) BY <1>3, <1>4
  <2> HIDE DEF e, want
  <2>3. req' \in Asks /\ req'.path = req.path BY <1>3, <2>1, <2>2 DEF Asks
  <2>4. found' \subseteq {"br", "gzip"} BY <1>1, <2>1, <2>2 DEF Typed
  <2>5. Typed' BY <1>1, <1>2, <2>1, <2>3, <2>4 DEF Typed
  <2>6. Opened' BY <1>2, <2>1 DEF Opened
  <2>7. Dated' BY <1>1, <1>2 DEF Dated, Kept
  <2>8. Replied' BY <1>1, <1>2, <2>1, NotYet
  <2>9. Hopped' BY <1>1, <1>2, <2>1, <2>3 DEF Hopped
  <2>10. Found' BY <1>1, <1>2, <2>1 DEF Found, FoundUnlessRemoved
  <2> QED BY <2>5, <2>6, <2>7, <2>8, <2>9, <2>10 DEF FilesInv
<1>5. CASE req.want = <<>>
  <2>1. /\ name' = IF "br" \in found THEN "br" ELSE IF "gzip" \in found THEN "gzip" ELSE "plain"
        /\ pc' = "open" /\ found' = found /\ req' = req
    BY <1>5 DEF Choose
  <2>2. name' \in Encodings /\ (name' = "plain" \/ name' \in found') BY <2>1 DEF Encodings
  <2>3. Typed' BY <1>1, <1>2, <2>1, <2>2 DEF Typed
  <2>4. Opened' BY <2>1 DEF Opened
  <2>5. Dated' BY <1>1, <1>2 DEF Dated, Kept
  <2>6. Replied' BY <1>1, <1>2, <2>1, NotYet
  <2>7. Hopped' BY <1>1, <1>2, <2>1 DEF Hopped
  <2>8. Found' BY <1>1, <1>2, <2>1, <2>2 DEF Found, FoundUnlessRemoved
  <2> QED BY <2>3, <2>4, <2>5, <2>6, <2>7, <2>8 DEF FilesInv
<1> QED BY <1>4, <1>5

LEMMA OpenStep == FilesInv /\ Open => FilesInv'
<1> SUFFICES ASSUME FilesInv, Open PROVE FilesInv' OBVIOUS
<1>1. Typed /\ Dated /\ Replied /\ Hopped /\ Found BY DEF FilesInv
<1>2. /\ pc = "open" /\ disk' = disk /\ clock' = clock
      /\ UNCHANGED <<req, hops, found, name, head, gone, copy>>
  BY DEF Open, files
<1>3. name \in Encodings /\ disk[name] \in Files BY <1>1 DEF Typed
<1>4. CASE disk[name] = None
  <2>1. PICK code \in {403, 404} : Reply(code) BY <1>4 DEF Open
  <2>2. fd' = fd BY <1>4 DEF Open
  <2>3. code \in Codes \ {200, 206, 304} BY DEF Codes
  <2>4. Replied' /\ pc' = "answer" /\ answer'.code = code BY <2>1, <2>3, ReplyIs
  <2>5. gone
    <3>1. name # "plain"
      <4>1. disk["plain"].v \in Versions BY <1>1 DEF Typed
      <4> QED BY <1>4, <4>1, NoneIsFile
    <3> QED BY <1>1, <1>2, <1>4, <3>1 DEF Found
  <2>6. Typed' BY <1>1, <1>2, <2>2, <2>4 DEF Typed
  <2>7. Opened' BY <2>4 DEF Opened
  <2>8. Dated' BY <1>1, <1>2, <2>2 DEF Dated, Kept
  <2>9. Hopped' BY <1>1, <1>2, <2>4 DEF Hopped
  <2>10. Found' BY <1>1, <1>2, <2>4, <2>5 DEF Found, FoundUnlessRemoved
  <2> QED BY <2>4, <2>6, <2>7, <2>8, <2>9, <2>10 DEF FilesInv
<1>5. CASE disk[name] # None
  <2>1. pc' = "stat" /\ fd' = disk[name] /\ answer' = answer BY <1>5 DEF Open
  <2>2. fd' \in Files /\ fd'.v \in Versions BY <1>1, <1>3, <1>5, <2>1 DEF Typed
  <2>3. Typed' BY <1>1, <1>2, <2>1, <2>2 DEF Typed
  <2>4. Opened' BY <2>1, <2>2 DEF Opened
  <2>5. Dated'
    <3>1. Kept' \subseteq Kept \cup {None} BY <1>2, <1>3, <2>1 DEF Kept
    <3> QED BY <1>1, <1>2, <3>1, NothingNew DEF files
  <2>6. Replied' BY <1>1, <2>1, NotYet
  <2>7. Hopped' BY <1>1, <1>2, <2>1 DEF Hopped
  <2>8. Found' BY <1>1, <1>2, <2>1 DEF Found, FoundUnlessRemoved
  <2> QED BY <2>3, <2>4, <2>5, <2>6, <2>7, <2>8 DEF FilesInv
<1> QED BY <1>4, <1>5

LEMMA StatStep == FilesInv /\ Stat => FilesInv'
<1> SUFFICES ASSUME FilesInv, Stat PROVE FilesInv' OBVIOUS
<1>1. Typed /\ Opened /\ Dated /\ Replied /\ Hopped /\ Found BY DEF FilesInv
<1>2. /\ pc = "stat" /\ disk' = disk /\ clock' = clock
      /\ UNCHANGED <<req, hops, found, name, fd, gone, copy>>
  BY DEF Stat, files
<1>3. CASE req.path = "file/"
  <2>1. Reply(301) /\ head' = head BY <1>3 DEF Stat
  <2>2. 301 \in Codes \ {200, 206, 304} BY DEF Codes
  <2>3. Replied' /\ pc' = "answer" /\ answer'.code = 301 BY <2>1, <2>2, ReplyIs
  <2>4. Typed' BY <1>1, <1>2, <2>1, <2>3 DEF Typed
  <2>5. Opened' BY <2>3 DEF Opened
  <2>6. Dated' BY <1>1, <1>2 DEF Dated, Kept
  <2>7. Hopped' BY <1>1, <1>2, <1>3, <2>3 DEF Hopped
  <2>8. Found' BY <1>1, <1>2, <2>3 DEF Found, FoundUnlessRemoved
  <2> QED BY <2>3, <2>4, <2>5, <2>6, <2>7, <2>8 DEF FilesInv
<1>4. CASE req.path # "file/"
  <2>1. pc' = "check" /\ head' = fd /\ answer' = answer BY <1>4 DEF Stat
  <2>2. Typed' BY <1>1, <1>2, <2>1 DEF Typed
  <2>3. Opened' BY <1>1, <1>2, <2>1 DEF Opened
  <2>4. Dated' BY <1>1, <1>2 DEF Dated, Kept
  <2>5. Replied' BY <1>1, <2>1, NotYet
  <2>6. Hopped' BY <1>1, <1>2, <2>1 DEF Hopped
  <2>7. Found' BY <1>1, <1>2, <2>1 DEF Found, FoundUnlessRemoved
  <2> QED BY <2>2, <2>3, <2>4, <2>5, <2>6, <2>7 DEF FilesInv
<1> QED BY <1>3, <1>4

LEMMA ServeContentStep == FilesInv /\ ServeContent => FilesInv'
<1> SUFFICES ASSUME FilesInv, ServeContent PROVE FilesInv' OBVIOUS
<1>1. Typed /\ Opened /\ Dated /\ Replied /\ Hopped /\ Found BY DEF FilesInv
<1>2. PICK c \in Conditions : req' = [req EXCEPT !.cond = c] /\ answer' = AnswerOf(c)
  BY DEF ServeContent
<1>3. /\ pc = "check" /\ pc' = "answer" /\ disk' = disk /\ clock' = clock
      /\ UNCHANGED <<hops, found, name, fd, head, gone, copy>>
  BY DEF ServeContent, files
<1>4. fd \in Files /\ copy \in Files /\ req \in Asks BY <1>1 DEF Typed
<1>5. head = fd /\ fd.v \in Versions BY <1>1, <1>3 DEF Opened
<1> DEFINE size == Size[fd.v]
           a == Respond(c, fd.t, size)
<1>6. size \in Nat \ {0} BY <1>5, Versioned
<1>7. /\ c \in Conds
      /\ c.since # Never => c.noneMatch = "none" /\ c.since = copy.t \div 2
      /\ c.ifRange # Never => c.ifRange = copy.t \div 2
  BY <1>4, ConditionsAre
<1>8. c.range \in Header BY <1>7 DEF Conds
<1>9. answer'.code = a.code /\ answer'.ranges = a.ranges /\ answer'.file = fd
  <2>1. fd = [v |-> fd.v, t |-> fd.t] BY <1>4, FilesAre
  <2> QED BY <1>2, <1>5, <2>1 DEF AnswerOf
<1>10. req' \in Asks /\ req'.path = req.path /\ req'.cond = c
  BY <1>2, <1>4, <1>7 DEF Asks
<1> HIDE DEF size
<1>11. /\ a.code \in {200, 206, 304, 412, 416, 500} /\ Ranged(a.ranges, size)
       /\ a.code = 304 => NotModified(c, fd.t)
       /\ a.code = 206 => RangeHolds(c, fd.t) /\ Exact(a.ranges, c.range, size)
  BY <1>6, <1>8, RespondIs
<1> HIDE DEF a
<1>12. Typed' BY <1>1, <1>3, <1>10 DEF Typed
<1>13. Opened' BY <1>3 DEF Opened
<1>14. Dated' BY <1>1, <1>3 DEF Dated, Kept
<1>15. AnswerIsOneFile'
  <2>1. answer'.file = fd' BY <1>3, <1>9
  <2>2. \A i \in DOMAIN answer'.ranges :
          answer'.ranges[i].start + answer'.ranges[i].length <= Size[fd'.v]
    BY <1>3, <1>9, <1>11 DEF Ranged, size
  <2> QED BY <2>1, <2>2 DEF AnswerIsOneFile
<1>16. fd.v \in Nat /\ fd.t \in Nat /\ copy.v \in Nat /\ copy.t \in Nat BY <1>4, FilesAre
<1>17. NotModifiedIsCurrent'
  <2>1. SUFFICES ASSUME a.code = 304, c.since # Never, copy.v < fd.v
                 PROVE  fd.t \div 2 = copy.t \div 2
    BY <1>3, <1>9, <1>10, <1>16 DEF NotModifiedIsCurrent, SameSecond
  <2>2. copy.t <= fd.t BY <1>1, <2>1 DEF Dated, Kept
  <2>3. fd.t < 2 * (copy.t \div 2 + 1)
    BY <1>7, <1>11, <2>1 DEF NotModified, NotAfter
  <2> QED BY <1>16, <2>2, <2>3
<1>18. ResumeIsSameVersion'
  <2>1. SUFFICES ASSUME a.code = 206, c.ifRange # Never PROVE fd.t \div 2 = copy.t \div 2
    BY <1>3, <1>9, <1>10 DEF ResumeIsSameVersion, SameSecond
  <2> QED BY <1>7, <1>11, <2>1 DEF RangeHolds
<1>19. RangesAreTheAsked'
  <2>1. a.code = 206 => Exact(a.ranges, c.range, size) BY <1>11
  <2>2. size = Size[fd'.v] BY <1>3 DEF size
  <2>3. answer'.code = 206 => Exact(answer'.ranges, req'.cond.range, Size[fd'.v])
    BY <1>9, <1>10, <2>1, <2>2
  <2> QED BY <2>3 DEF RangesAreTheAsked, Exact
<1>20. Replied'
  <2>1. answer'.code \in Codes /\ answer'.file \in Files BY <1>4, <1>9, <1>11 DEF Codes
  <2>2. \A i \in DOMAIN answer'.ranges : answer'.ranges[i] \in [start : Nat, length : Nat \ {0}]
    BY <1>9, <1>11 DEF Ranged
  <2> QED BY <1>15, <1>17, <1>18, <1>19, <2>1, <2>2 DEF Replied
<1>21. Hopped' BY <1>1, <1>3, <1>9, <1>10, <1>11 DEF Hopped
<1>22. Found' BY <1>1, <1>3, <1>9, <1>11 DEF Found, FoundUnlessRemoved
<1> QED BY <1>12, <1>13, <1>14, <1>20, <1>21, <1>22 DEF FilesInv

-----------------------------------------------------------------------------
(* Theorems *)

\* The files, the browser and the request keep to FilesInv, which is inductive.
THEOREM FilesInvariance == Spec => []FilesInv
<1>1. Init => FilesInv BY InitInv
<1>2. FilesInv /\ [Next]_vars => FilesInv'
  <2>1. FilesInv /\ UNCHANGED vars => FilesInv'
    BY DEF vars, files, work, FilesInv, Typed, Opened, Dated, Kept, Replied, Hopped, Found, AnswerIsOneFile,
           NotModifiedIsCurrent, ResumeIsSameVersion, RangesAreTheAsked, FoundUnlessRemoved
  <2> QED BY <2>1, DeploymentStep, AskStep, TakeStep, GateStep, ChooseStep, OpenStep, StatStep, ServeContentStep
      DEF Next, Request
<1> QED BY <1>1, <1>2, PTL DEF Spec

\* Types: every status that is answered is one of those serveFile() writes, and
\* every range has a byte.  (fileserver.go:598-720)
THEOREM FilesTypes == Spec => []TypeOK
<1>1. FilesInv => TypeOK
  BY DEF FilesInv, Typed, Replied, TypeOK, Asks, Codes
<1> QED BY <1>1, FilesInvariance, PTL

\* Whatever is deployed while an answer is made, it is of one file and within
\* it.  (fileserver.go:642-708)
THEOREM AnswersAreOneFile == Spec => []AnswerIsOneFile
<1>1. FilesInv => AnswerIsOneFile BY DEF FilesInv, Replied
<1> QED BY <1>1, FilesInvariance, PTL

\* "Not modified" is never said of a version older than the one that was opened,
\* but for one second.  (fileserver.go:454-472, 554-558)
THEOREM NotModifiedMeansCurrent == Spec => []NotModifiedIsCurrent
<1>1. FilesInv => NotModifiedIsCurrent BY DEF FilesInv, Replied
<1> QED BY <1>1, FilesInvariance, PTL

\* What is resumed is the version the browser has part of, but for one second.
\* (fileserver.go:474-503)
THEOREM ResumesSameVersion == Spec => []ResumeIsSameVersion
<1>1. FilesInv => ResumeIsSameVersion BY DEF FilesInv, Replied
<1> QED BY <1>1, FilesInvariance, PTL

\* For every Range header and every size the ranges that are sent are exactly
\* those that were asked for and that the file has.  (fileserver.go:833-899, 258-264)
THEOREM SendsTheRangesAsked == Spec => []RangesAreTheAsked
<1>1. FilesInv => RangesAreTheAsked BY DEF FilesInv, Replied
<1> QED BY <1>1, FilesInvariance, PTL

\* No chain of redirects is longer than one.  (fileserver.go:629-682)
THEOREM RedirectsAreFew == Spec => []FewRedirects
<1>1. FilesInv => FewRedirects BY DEF FilesInv, Hopped, FewRedirects
<1> QED BY <1>1, FilesInvariance, PTL

\* 404 for an asset that is there only when a form of it was removed
\* under the request.  (fileserver.go:598-610, 643)
THEOREM NotFoundOnlyIfRemoved == Spec => []FoundUnlessRemoved
<1>1. FilesInv => FoundUnlessRemoved BY DEF FilesInv, Found
<1> QED BY <1>1, FilesInvariance, PTL
=============================================================================
