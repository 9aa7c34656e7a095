---------------------------- MODULE RangesProofs ----------------------------
(* The arithmetic of parseRange: for files of every size and specs with    *)
(* every number.                                                           *)
EXTENDS StaticFiles, TLAPS

\* A spec is dropped as NoOverlap exactly when the file has none of the bytes it
\* asks for, unless it is "-0", whose empty range is kept.  (fileserver.go:872-875)
THEOREM DroppedWhenNothingAsked ==
  ASSUME NEW size \in Nat \ {0}, NEW s \in Spec3, ~Junk(s, size), s.kind = "suffix" => s.a > 0
  PROVE  NoOverlap(s, size) <=> Asked(s, size) = {}
<1> USE DEF Spec3, NoOverlap, Asked, Junk
<1>1. CASE s.kind = "suffix"
  <2>1. size - 1 \in Asked(s, size) BY <1>1
  <2> QED BY <1>1, <2>1
<1>2. CASE s.kind = "from"
  <2>1. CASE s.a < size
    <3>1. s.a \in Asked(s, size) BY <1>2, <2>1
    <3> QED BY <1>2, <2>1, <3>1
  <2>2. CASE s.a >= size BY <1>2, <2>2
  <2> QED BY <2>1, <2>2
<1>3. CASE s.kind = "span"
  <2>1. CASE s.a < size
    <3>1. s.b >= s.a BY <1>3, <2>1
    <3>2. s.a \in Asked(s, size) BY <1>3, <2>1, <3>1
    <3> QED BY <1>3, <2>1, <3>2
  <2>2. CASE s.a >= size BY <1>3, <2>2
  <2> QED BY <2>1, <2>2
<1>4. s.kind \in {"span", "from", "suffix"} OBVIOUS
<1> QED BY <1>1, <1>2, <1>3, <1>4

\* The range of a spec that is kept has exactly the bytes the spec asks for:
\* it is not empty and ends where the file ends or before.  (fileserver.go:853-896)
THEOREM RangeIsTheAsked ==
  ASSUME NEW size \in Nat \ {0}, NEW s \in Spec3, ~Junk(s, size), ~NoOverlap(s, size),
         s.kind = "suffix" => s.a > 0
  PROVE  LET r == RangeOf(s, size) IN
           /\ r.start \in Nat /\ r.length \in Nat \ {0} /\ r.start + r.length <= size
           /\ BytesOf(r) = Asked(s, size)
<1> DEFINE r == RangeOf(s, size)
<1>1. s.a \in Nat /\ s.b \in Nat /\ s.kind \in {"span", "from", "suffix"} BY DEF Spec3, Junk
<1>2. CASE s.kind = "suffix"
  <2>1. r.start = size - Least(s.a, size) /\ r.length = Least(s.a, size) BY <1>1, <1>2 DEF RangeOf, Least
  <2>2. Least(s.a, size) \in 1 .. size /\ (s.a <= size => Least(s.a, size) = s.a)
        /\ (s.a > size => Least(s.a, size) = size)
    BY <1>1, <1>2 DEF Least
  <2>3. Asked(s, size) = {p \in 0 .. size - 1 : p >= size - s.a} BY <1>2 DEF Asked
  <2>4. BytesOf(r) = r.start .. size - 1 BY <2>1, <2>2 DEF BytesOf
  <2>5. BytesOf(r) = Asked(s, size) BY <1>1, <2>1, <2>2, <2>3, <2>4
  <2> QED BY <2>1, <2>2, <2>5
<1>3. CASE s.kind = "from"
  <2>1. s.a < size BY <1>1, <1>3 DEF NoOverlap
  <2>2. r.start = s.a /\ r.length = size - s.a BY <1>1, <1>3, <2>1 DEF RangeOf
  <2>3. Asked(s, size) = {p \in 0 .. size - 1 : p >= s.a} BY <1>3 DEF Asked
  <2>4. BytesOf(r) = s.a .. size - 1 BY <1>1, <2>1, <2>2 DEF BytesOf
  <2>5. BytesOf(r) = Asked(s, size) BY <1>1, <2>1, <2>3, <2>4
  <2> QED BY <1>1, <2>1, <2>2, <2>5
<1>4. CASE s.kind = "span"
  <2>1. s.a < size /\ s.b >= s.a BY <1>1, <1>4 DEF NoOverlap, Junk
  <2>2. r.start = s.a /\ r.length = Least(s.b, size - 1) - s.a + 1 BY <1>1, <1>4, <2>1 DEF RangeOf
  <2>3. /\ Least(s.b, size - 1) \in s.a .. size - 1
        /\ \A p \in 0 .. size - 1 : p <= s.b <=> p <= Least(s.b, size - 1)
    BY <1>1, <2>1 DEF Least
  <2>4. Asked(s, size) = {p \in 0 .. size - 1 : s.a <= p /\ p <= s.b} BY <1>4 DEF Asked
  <2>5. BytesOf(r) = s.a .. Least(s.b, size - 1) BY <1>1, <2>2, <2>3 DEF BytesOf
  <2>6. BytesOf(r) = Asked(s, size) BY <1>1, <2>1, <2>3, <2>4, <2>5
  <2> QED BY <1>1, <2>1, <2>2, <2>3, <2>6
<1> QED BY <1>1, <1>2, <1>3, <1>4
=============================================================================
