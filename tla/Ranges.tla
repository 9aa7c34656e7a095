------------------------------- MODULE Ranges -------------------------------
(***************************************************************************)
(* Range and precondition headers of the static file server                *)
(* (fileserver.go).  A Range header is a sequence of specs; a file is its  *)
(* size; a range of it is where it starts and how long it is.  Times of    *)
(* files are in half seconds, dates in headers in seconds.                 *)
(***************************************************************************)
EXTENDS Integers, Sequences, Functions

\* "a-b", "a-", "-a" (b is unused) and what is none of them.
Spec3 == [kind : {"span", "from", "suffix", "junk"}, a : Nat, b : Nat]

Junk(s, size)      == s.kind = "junk" \/ (s.kind = "span" /\ s.a < size /\ s.b < s.a)
NoOverlap(s, size) == s.kind \in {"span", "from"} /\ s.a >= size

\* Bug: nothing is cut off.
Bug_Least(x, y) == x

Least(x, y) == IF x < y THEN x ELSE y

\* Bug: the last byte is left out.
Bug_RangeOf(s, size) ==
  LET start == IF s.kind = "suffix" THEN size - Least(s.a, size) ELSE s.a
      last  == IF s.kind = "span" THEN Least(s.b, size - 1) ELSE size - 1
  IN [start |-> start, length |-> last - start]

\* The range of one spec.
RangeOf(s, size) ==
  LET start == IF s.kind = "suffix" THEN size - Least(s.a, size) ELSE s.a
      last  == IF s.kind = "span" THEN Least(s.b, size - 1) ELSE size - 1
  IN [start |-> start, length |-> last - start + 1]

\* Of ranges that are kept by the place of their spec in the header.
Total(ranges) == FoldFunction(LAMBDA r, n : r.length + n, 0, ranges)

Whole(size) == <<[start |-> 0, length |-> size]>>

Status(code) == [code |-> code, ranges |-> <<>>]

\* parseRange() and what serveContent() makes of it: the status and the
\* ranges that are sent.
Serve(header, size) ==
  LET kept   == {i \in DOMAIN header : ~NoOverlap(header[i], size)}
      ranges == [i \in kept |-> RangeOf(header[i], size)]
  IN IF (\E i \in DOMAIN header : Junk(header[i], size)) \/ (header # <<>> /\ kept = {}) THEN Status(416)
     ELSE IF header # <<>> /\ Total(ranges) <= size THEN [code |-> 206, ranges |-> ranges]
     ELSE [code |-> 200, ranges |-> Whole(size)]

-----------------------------------------------------------------------------
(* Preconditions.  No Etag is ever set, so no tag of a client matches.  A  *)
(* header that is absent is "none", a date that is absent is Never.        *)

Never == -1

\* mtime.Before(date + 1s), for a date of a header.
NotAfter(t, date) == t < 2 * (date + 1)

IfMatchFails(r, t) ==
  IF r.match # "none" THEN r.match = "tag" ELSE r.unmodified # Never /\ ~NotAfter(t, r.unmodified)

\* Bug: a date is accepted that is a second too old.
Bug_NotModified(r, t) ==
  IF r.noneMatch # "none" THEN r.noneMatch = "any" ELSE r.since # Never /\ NotAfter(t, r.since + 1)

\* If-None-Match: "*" is found, a tag is not, and then the date is not asked;
\* a list that ends in a comma is read past its end.
NotModified(r, t) ==
  IF r.noneMatch # "none" THEN r.noneMatch = "any" ELSE r.since # Never /\ NotAfter(t, r.since)

\* Bug: If-Range is compared like If-Modified-Since, with a margin.
Bug_RangeHolds(r, t) == r.ifRange = Never \/ NotAfter(t, r.ifRange + 1)

\* If-Range is the second of the file.
RangeHolds(r, t) == r.ifRange = Never \/ r.ifRange = t \div 2

\* checkPreconditions() and the rest of serveContent() for a GET.
Respond(r, t, size) ==
  IF IfMatchFails(r, t)         THEN Status(412)
  ELSE IF r.noneMatch = "comma" THEN Status(500)    \* a panic that RecoverWrap answers
  ELSE IF NotModified(r, t)     THEN Status(304)
  ELSE Serve(IF RangeHolds(r, t) THEN r.range ELSE <<>>, size)
=============================================================================
