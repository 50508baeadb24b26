--------------------------- MODULE BrowsingProofs ---------------------------
(***************************************************************************)
(* Which handler a request line reaches, for every set of identifiers and  *)
(* whatever words they hold; and what the listing of a collection and its  *)
(* export feed show, for every database.                                   *)
(*                                                                         *)
(* The documented paths have one shape: collections, an identifier, a      *)
(* fixed segment, an identifier, and so on, broken off after one to seven  *)
(* segments.  On this shape every test of the router depends on the length *)
(* and the fixed segments, and on the words in the identifiers.  So the    *)
(* proofs evaluate the tests for the shape once, and then go through the   *)
(* documented requests.                                                    *)
(*                                                                         *)
(* A listing folds over a finite set of rows and over the sequences of a   *)
(* trajectory, a feed over the sequence of its rows.  The library gives    *)
(* these folds as functions that are CHOSEN: induction over the subsets of *)
(* a finite set, and over the places of a sequence, shows that they exist  *)
(* and what they return.  The invariant AnswerInv then says of the last    *)
(* answer that it was made from the database as it stands.                 *)
(***************************************************************************)
EXTENDS Browsing, SequenceTheorems, FiniteSetTheorems, WellFoundedInduction, TLAPS

-----------------------------------------------------------------------------
(* The shape of a path.                                                    *)

Shaped(t, ids, query, n, w3, w5, w7) ==
  /\ n \in 1..7 /\ t.path \in Seq(Segments \cup Fixed) /\ Len(t.path) = n /\ DOMAIN t.path = 1..n
  /\ t.query = query /\ t = [path |-> t.path, query |-> t.query]
  /\ t.path[1] = "collections"
  /\ n >= 2 => t.path[2] = ids.c
  /\ n >= 3 => t.path[3] = w3
  /\ n >= 4 => t.path[4] = ids.f
  /\ n >= 5 => t.path[5] = w5
  /\ n >= 6 => t.path[6] = ids.x
  /\ n >= 7 => t.path[7] = w7

\* The beginning of a documented path, and the rest.
Beginning(ids, depth) == SubSeq(<<"collections", ids.c, "items", ids.f>>, 1, depth)
Filled(rest, x) == [n \in DOMAIN rest |-> IF rest[n] = "x" THEN x ELSE rest[n]]

\* The identifiers of a request are segments.
LEMMA IdsType ==
  ASSUME NEW ids \in Ids
  PROVE  ids.c \in Segments /\ ids.f \in Segments /\ ids.x \in Segments
  BY SegmentsAssumption

\* The length of the beginning and its segments.
LEMMA BeginningOf ==
  ASSUME NEW ids \in Ids, NEW depth \in 1..4
  PROVE  LET begin == Beginning(ids, depth)
         IN  /\ begin \in Seq(Segments \cup Fixed) /\ Len(begin) = depth
             /\ begin[1] = "collections"
             /\ depth >= 2 => begin[2] = ids.c
             /\ depth >= 3 => begin[3] = "items"
             /\ depth >= 4 => begin[4] = ids.f
<1> DEFINE base == <<"collections", ids.c, "items", ids.f>>
           begin == Beginning(ids, depth)
<1>1. \A n \in 1..4 : base[n] \in Segments \cup Fixed
  BY IdsType DEF Fixed
<1>2. base[1] = "collections" /\ base[2] = ids.c /\ base[3] = "items" /\ base[4] = ids.f
  OBVIOUS
<1>3. begin = SubSeq(base, 1, depth)
  BY DEF Beginning
<1> HIDE DEF base, begin
<1>4. /\ begin \in Seq(Segments \cup Fixed)
      /\ Len(begin) = IF 1 <= depth THEN depth - 1 + 1 ELSE 0
      /\ \A i \in 1 .. depth - 1 + 1 : begin[i] = base[1 + i - 1]
  <2>1. \A n \in 1..depth : base[n] \in Segments \cup Fixed
    BY <1>1
  <2>2. QED
    BY <1>3, <2>1, SubSeqProperties
<1>5. Len(begin) = depth /\ \A i \in 1..depth : begin[i] = base[i]
  BY <1>4
<1>6. QED
  BY <1>2, <1>4, <1>5 DEF begin

\* The length of the rest and its segments.
LEMMA RestOf ==
  ASSUME NEW x \in Segments, NEW m \in 0..3, NEW rest, DOMAIN rest = 1..m,
         \A n \in 1..m : rest[n] \in Fixed \cup {"x"}
  PROVE  LET filled == Filled(rest, x)
         IN  /\ filled \in Seq(Segments \cup Fixed) /\ Len(filled) = m
             /\ \A n \in 1..m : filled[n] = IF rest[n] = "x" THEN x ELSE rest[n]
<1> DEFINE filled == Filled(rest, x)
<1>1. /\ DOMAIN filled = 1..m /\ filled = [n \in 1..m |-> filled[n]]
      /\ \A n \in 1..m : filled[n] = IF rest[n] = "x" THEN x ELSE rest[n]
  BY DEF Filled
<1> HIDE DEF filled
<1>2. \A n \in 1..m : filled[n] \in Segments \cup Fixed
  BY <1>1
<1>3. filled \in [1..m -> Segments \cup Fixed]
  BY <1>1, <1>2
<1>4. filled \in Seq(Segments \cup Fixed)
  <2>1. m \in Nat
    OBVIOUS
  <2>2. filled \in UNION {[1..n -> Segments \cup Fixed] : n \in Nat}
    BY <1>3, <2>1
  <2>3. QED
    BY <2>2, SeqDef
<1>5. Len(filled) = m
  <2>1. Len(filled) \in Nat /\ 1..Len(filled) = 1..m
    BY <1>1, <1>4, LenProperties
  <2>2. m \in 1..m <=> m \in 1..Len(filled)
    BY <2>1
  <2>3. Len(filled) \in 1..m <=> Len(filled) \in 1..Len(filled)
    BY <2>1
  <2>4. QED
    BY <2>1, <2>2, <2>3
<1>6. QED
  BY <1>1, <1>4, <1>5 DEF filled

\* One after the other.
LEMMA PathOf ==
  ASSUME NEW begin \in Seq(Segments \cup Fixed), NEW filled \in Seq(Segments \cup Fixed),
         NEW depth \in 1..4, Len(begin) = depth, NEW m \in 0..3, Len(filled) = m
  PROVE  LET path == begin \o filled
         IN  /\ Len(path) = depth + m /\ DOMAIN path = 1..depth + m
             /\ \A n \in 1..depth : path[n] = begin[n]
             /\ \A n \in 1..m : path[depth + n] = filled[n]
<1> DEFINE path == begin \o filled
<1>1. /\ path \in Seq(Segments \cup Fixed) /\ Len(path) = depth + m
      /\ \A n \in 1..depth + m : path[n] = IF n <= depth THEN begin[n] ELSE filled[n - depth]
  BY ConcatProperties
<1> HIDE DEF path
<1>2. \A n \in 1..depth : path[n] = begin[n]
  BY <1>1
<1>3. ASSUME NEW n \in 1..m PROVE path[depth + n] = filled[n]
  <2>1. depth + n \in 1..depth + m /\ ~(depth + n <= depth) /\ (depth + n) - depth = n
    OBVIOUS
  <2>2. QED
    BY <1>1, <2>1
<1>4. DOMAIN path = 1..depth + m
  BY <1>1, LenProperties
<1>5. QED
  BY <1>1, <1>2, <1>3, <1>4 DEF path
-----------------------------------------------------------------------------
(* The tests on that shape.                                                *)

\* The segments of a path: the fixed ones and the identifiers.
Parts(t, n) == {t.path[k] : k \in 1..n}
FixedParts(n, w3, w5, w7) ==
  {"collections"} \cup (IF n >= 3 THEN {w3} ELSE {}) \cup (IF n >= 5 THEN {w5} ELSE {})
                  \cup (IF n >= 7 THEN {w7} ELSE {})
IdParts(n, ids) ==
  (IF n >= 2 THEN {ids.c} ELSE {}) \cup (IF n >= 4 THEN {ids.f} ELSE {})
    \cup (IF n >= 6 THEN {ids.x} ELSE {})

\* A fixed segment is the only word it holds, and an identifier is not fixed.
LEMMA WordsOf ==
  ASSUME NEW s \in Segments \cup Fixed, NEW word \in Fixed
  PROVE  /\ s \in Fixed => (Has(s, word) <=> s = word) /\ (Begins(s, word) <=> s = word)
         /\ s \in Segments => /\ s # word
                              /\ Has(s, word) <=> word \in WordsIn[s]
                              /\ Begins(s, word) <=> word \in WordsAtStart[s]
  BY SegmentsAssumption DEF Has, Begins

\* The segments of such a path are those.
LEMMA PartsOf ==
  ASSUME NEW ids, NEW query, NEW n \in 1..7, NEW w3, NEW w5, NEW w7, NEW t,
         Shaped(t, ids, query, n, w3, w5, w7)
  PROVE  Parts(t, n) = FixedParts(n, w3, w5, w7) \cup IdParts(n, ids)
<1>1. /\ n \in 1..7 /\ Len(t.path) = n /\ DOMAIN t.path = 1..n /\ t.path[1] = "collections"
      /\ n >= 2 => t.path[2] = ids.c
      /\ n >= 3 => t.path[3] = w3
      /\ n >= 4 => t.path[4] = ids.f
      /\ n >= 5 => t.path[5] = w5
      /\ n >= 6 => t.path[6] = ids.x
      /\ n >= 7 => t.path[7] = w7
  BY DEF Shaped
<1>2. \A k \in 1..n : k = 1 \/ k = 2 \/ k = 3 \/ k = 4 \/ k = 5 \/ k = 6 \/ k = 7
  OBVIOUS
<1>3. ASSUME NEW k \in 1..n PROVE t.path[k] \in FixedParts(n, w3, w5, w7) \cup IdParts(n, ids)
  BY <1>1, <1>2 DEF FixedParts, IdParts
<1>4. /\ 1 \in 1..n
      /\ n >= 2 => 2 \in 1..n
      /\ n >= 3 => 3 \in 1..n
      /\ n >= 4 => 4 \in 1..n
      /\ n >= 5 => 5 \in 1..n
      /\ n >= 6 => 6 \in 1..n
      /\ n >= 7 => 7 \in 1..n
  OBVIOUS
<1> DEFINE All == Parts(t, n)
<1>5. /\ t.path[1] \in All
      /\ n >= 2 => t.path[2] \in All
      /\ n >= 3 => t.path[3] \in All
      /\ n >= 4 => t.path[4] \in All
      /\ n >= 5 => t.path[5] \in All
      /\ n >= 6 => t.path[6] \in All
      /\ n >= 7 => t.path[7] \in All
  BY <1>4 DEF Parts
<1>6. FixedParts(n, w3, w5, w7) \cup IdParts(n, ids) \subseteq All
  <2> HIDE DEF All
  <2>1. QED
    BY <1>1, <1>5 DEF FixedParts, IdParts
<1>7. QED
  BY <1>3, <1>6 DEF Parts

\* What each test finds in a path of that shape.
Found(t, ids, n, w3, w5, w7, word) ==
  /\ Mentions(t, word) <=> \/ word \in FixedParts(n, w3, w5, w7)
                           \/ \E s \in IdParts(n, ids) : word \in WordsIn[s]
  /\ Opens(t, word) <=> \/ word \in FixedParts(n, w3, w5, w7)
                        \/ \E s \in IdParts(n, ids) : word \in WordsAtStart[s]
  /\ Inside(t, word) <=> \/ n >= 2 /\ word = "collections"
                         \/ n >= 4 /\ w3 = word
                         \/ n >= 6 /\ w5 = word
  /\ EndsWith(t, word) <=> \/ n = 1 /\ word = "collections"
                           \/ n = 3 /\ w3 = word
                           \/ n = 5 /\ w5 = word
                           \/ n = 7 /\ w7 = word

\* That is what they find.
LEMMA Tests ==
  ASSUME NEW ids \in Ids, NEW query, NEW n \in 1..7, NEW w3 \in Fixed, NEW w5 \in Fixed,
         NEW w7 \in Fixed, NEW t, Shaped(t, ids, query, n, w3, w5, w7), NEW word \in Fixed
  PROVE  Found(t, ids, n, w3, w5, w7, word)
<1>1. /\ n \in 1..7 /\ Len(t.path) = n /\ DOMAIN t.path = 1..n /\ t.path[1] = "collections"
      /\ n >= 2 => t.path[2] = ids.c
      /\ n >= 3 => t.path[3] = w3
      /\ n >= 4 => t.path[4] = ids.f
      /\ n >= 5 => t.path[5] = w5
      /\ n >= 6 => t.path[6] = ids.x
      /\ n >= 7 => t.path[7] = w7
  BY DEF Shaped
<1>2. /\ FixedParts(n, w3, w5, w7) \subseteq Fixed /\ IdParts(n, ids) \subseteq Segments
      /\ {ids.c, ids.f, ids.x} \subseteq Segments
  BY IdsType DEF FixedParts, IdParts, Fixed
<1>3. /\ \A s \in FixedParts(n, w3, w5, w7) :
           (Has(s, word) <=> s = word) /\ (Begins(s, word) <=> s = word)
      /\ \A s \in IdParts(n, ids) : /\ Has(s, word) <=> word \in WordsIn[s]
                                    /\ Begins(s, word) <=> word \in WordsAtStart[s]
      /\ \A s \in {ids.c, ids.f, ids.x} : s # word
  BY <1>2, WordsOf
<1> DEFINE All == Parts(t, n)
<1>4. All = FixedParts(n, w3, w5, w7) \cup IdParts(n, ids)
  BY PartsOf
<1>5. /\ Mentions(t, word) <=> \E s \in All : Has(s, word)
      /\ Opens(t, word) <=> \E s \in All : Begins(s, word)
  BY <1>1 DEF Mentions, Opens, Parts
<1> HIDE DEF All
<1>6. /\ Mentions(t, word) <=> \/ word \in FixedParts(n, w3, w5, w7)
                               \/ \E s \in IdParts(n, ids) : word \in WordsIn[s]
      /\ Opens(t, word) <=> \/ word \in FixedParts(n, w3, w5, w7)
                            \/ \E s \in IdParts(n, ids) : word \in WordsAtStart[s]
  BY <1>3, <1>4, <1>5
<1>7. Inside(t, word) <=> \/ n >= 2 /\ word = "collections"
                          \/ n >= 4 /\ w3 = word
                          \/ n >= 6 /\ w5 = word
  <2>1. Inside(t, word) <=> \E k \in 1..n : k < n /\ t.path[k] = word
    BY <1>1 DEF Inside
  <2>2. \A k \in 1..n : k < n => k = 1 \/ k = 2 \/ k = 3 \/ k = 4 \/ k = 5 \/ k = 6
    OBVIOUS
  <2>3. /\ n >= 2 => 1 \in 1..n /\ 1 < n
        /\ n >= 4 => 3 \in 1..n /\ 3 < n
        /\ n >= 6 => 5 \in 1..n /\ 5 < n
        /\ \A k \in 1..n : k < n => /\ k = 1 => n >= 2
                                    /\ k = 2 => n >= 2 /\ n >= 3
                                    /\ k = 3 => n >= 4 /\ n >= 3
                                    /\ k = 4 => n >= 4
                                    /\ k = 5 => n >= 6 /\ n >= 5
                                    /\ k = 6 => n >= 6
    OBVIOUS
  <2>4. ASSUME Inside(t, word)
        PROVE  \/ n >= 2 /\ word = "collections"
               \/ n >= 4 /\ w3 = word
               \/ n >= 6 /\ w5 = word
    <3>1. PICK k \in 1..n : k < n /\ t.path[k] = word
      BY <2>1, <2>4
    <3>2. k # 2 /\ k # 4 /\ k # 6
      BY <1>1, <1>3, <2>3, <3>1
    <3>3. QED
      BY <1>1, <2>2, <2>3, <3>1, <3>2
  <2>5. ASSUME \/ n >= 2 /\ word = "collections"
               \/ n >= 4 /\ w3 = word
               \/ n >= 6 /\ w5 = word
        PROVE  Inside(t, word)
    <3>1. CASE n >= 2 /\ word = "collections"
      BY <1>1, <2>1, <2>3, <3>1
    <3>2. CASE n >= 4 /\ w3 = word
      <4>1. n >= 3
        BY <3>2
      <4>2. QED
        BY <1>1, <2>1, <2>3, <3>2, <4>1
    <3>3. CASE n >= 6 /\ w5 = word
      <4>1. n >= 5
        BY <3>3
      <4>2. QED
        BY <1>1, <2>1, <2>3, <3>3, <4>1
    <3>4. QED
      BY <2>5, <3>1, <3>2, <3>3
  <2>6. QED
    BY <2>4, <2>5
<1>8. EndsWith(t, word) <=> \/ n = 1 /\ word = "collections"
                            \/ n = 3 /\ w3 = word
                            \/ n = 5 /\ w5 = word
                            \/ n = 7 /\ w7 = word
  <2>1. t.path # <<>>
    BY <1>1
  <2>2. EndsWith(t, word) <=> t.path[n] = word
    BY <1>1, <2>1 DEF EndsWith
  <2>3. n = 1 \/ n = 2 \/ n = 3 \/ n = 4 \/ n = 5 \/ n = 6 \/ n = 7
    OBVIOUS
  <2>4. t.path[n] # word \/ (n # 2 /\ n # 4 /\ n # 6)
    BY <1>1, <1>3
  <2>5. QED
    BY <1>1, <2>2, <2>3, <2>4
<1>9. QED
  BY <1>6, <1>7, <1>8 DEF Found
-----------------------------------------------------------------------------
(* The documented requests.                                                *)

\* Which shape the request of an endpoint has.
Fits(h, n, w3, w5, w7) ==
  LET depth == Routes[h].depth
      rest  == Routes[h].rest
      m     == n - depth
  IN  /\ n \in 1..7 /\ depth \in 1..4 /\ m \in 0..3 /\ DOMAIN rest = 1..m
      /\ w3 \in Fixed /\ w5 \in Fixed /\ w7 \in Fixed
      /\ depth \in {1, 3} => m = 0
      /\ depth = 2 => m <= 1
      /\ depth >= 3 => w3 = "items"
      /\ depth = 2 /\ m = 1 => rest[1] = w3
      /\ depth = 4 /\ m >= 1 => rest[1] = w5
      /\ depth = 4 /\ m >= 2 => rest[2] = "x"
      /\ depth = 4 /\ m >= 3 => rest[3] = w7

\* What the documented request asks to be called with.
Plain(s) == [text |-> s, query |-> FALSE]
Args(n, ids) == [i \in 1..n |-> Plain(<<ids.c, ids.f, ids.x>>[i])]
Arity(n) == IF n = 1 THEN 0 ELSE IF n <= 3 THEN 1 ELSE IF n <= 5 THEN 2 ELSE 3

\* Its request line has that shape.
LEMMA RequestShaped ==
  ASSUME NEW h, NEW ids \in Ids, NEW query \in Queries,
         NEW n, NEW w3, NEW w5, NEW w7, Fits(h, n, w3, w5, w7)
  PROVE  /\ Shaped(Request(h, ids, query).target, ids, query, n, w3, w5, w7)
         /\ Request(h, ids, query).method = Routes[h].method
<1> DEFINE depth == Routes[h].depth
           rest == Routes[h].rest
           m == n - depth
           begin == Beginning(ids, depth)
           filled == Filled(rest, ids.x)
           path == begin \o filled
           t == Request(h, ids, query).target
<1>1. t = [path |-> path, query |-> query] /\ Request(h, ids, query).method = Routes[h].method
  BY DEF Request, Beginning, Filled
<1>2. /\ n \in 1..7 /\ depth \in 1..4 /\ m \in 0..3 /\ DOMAIN rest = 1..m
      /\ depth \in {1, 3} => m = 0
      /\ depth = 2 => m <= 1
      /\ depth >= 3 => w3 = "items"
      /\ depth = 2 /\ m = 1 => rest[1] = w3
      /\ depth = 4 /\ m >= 1 => rest[1] = w5
      /\ depth = 4 /\ m >= 2 => rest[2] = "x"
      /\ depth = 4 /\ m >= 3 => rest[3] = w7
      /\ w3 \in Fixed /\ w5 \in Fixed /\ w7 \in Fixed
  BY DEF Fits
<1> HIDE DEF depth, rest, t
<1>3. /\ begin \in Seq(Segments \cup Fixed) /\ Len(begin) = depth
      /\ begin[1] = "collections"
      /\ depth >= 2 => begin[2] = ids.c
      /\ depth >= 3 => begin[3] = "items"
      /\ depth >= 4 => begin[4] = ids.f
  BY <1>2, BeginningOf
<1>4. m = 0 \/ m = 1 \/ m = 2 \/ m = 3
  BY <1>2
<1>5. \A k \in 1..m : rest[k] \in Fixed \cup {"x"}
  BY <1>2, <1>4
<1> HIDE DEF m, begin
<1>6. /\ filled \in Seq(Segments \cup Fixed) /\ Len(filled) = m
      /\ \A k \in 1..m : filled[k] = IF rest[k] = "x" THEN ids.x ELSE rest[k]
  <2>1. ids.x \in Segments
    BY IdsType
  <2>2. \A x \in Segments :
           /\ Filled(rest, x) \in Seq(Segments \cup Fixed) /\ Len(Filled(rest, x)) = m
           /\ \A k \in 1..m : Filled(rest, x)[k] = IF rest[k] = "x" THEN x ELSE rest[k]
    <3>1. m \in 0..3 /\ DOMAIN rest = 1..m
      BY <1>2
    <3>2. QED
      BY <1>5, <3>1, RestOf
  <2>3. QED
    BY <2>1, <2>2
<1> HIDE DEF filled
<1>7. /\ Len(path) = depth + m /\ DOMAIN path = 1..depth + m
      /\ \A k \in 1..depth : path[k] = begin[k]
      /\ \A k \in 1..m : path[depth + k] = filled[k]
  BY <1>2, <1>3, <1>6, PathOf
<1>8. path \in Seq(Segments \cup Fixed)
  BY <1>3, <1>6, ConcatProperties
<1> HIDE DEF path
<1>9. "x" \notin Fixed
  BY DEF Fixed
<1>10. depth + m = n
  BY <1>2 DEF m
<1>11. /\ path[1] = "collections"
       /\ n >= 2 => path[2] = ids.c
       /\ n >= 3 => path[3] = w3
       /\ n >= 4 => path[4] = ids.f
       /\ n >= 5 => path[5] = w5
       /\ n >= 6 => path[6] = ids.x
       /\ n >= 7 => path[7] = w7
  <2>1. CASE depth = 1
    BY <1>2, <1>3, <1>7, <1>10, <2>1
  <2>2. CASE depth = 2
    BY <1>2, <1>3, <1>6, <1>7, <1>9, <1>10, <2>2
  <2>3. CASE depth = 3
    BY <1>2, <1>3, <1>7, <1>10, <2>3
  <2>4. CASE depth = 4
    BY <1>2, <1>3, <1>4, <1>6, <1>7, <1>9, <1>10, <2>4
  <2>5. QED
    BY <1>2, <2>1, <2>2, <2>3, <2>4
<1>12. n \in 1..7
  BY <1>2
<1>13. QED
  BY <1>1, <1>7, <1>8, <1>10, <1>11, <1>12 DEF Shaped, t

\* And it should reach its handler with its first identifiers.
LEMMA DocumentedArgs ==
  ASSUME NEW h, NEW ids \in Ids, NEW n, NEW w3, NEW w5, NEW w7, Fits(h, n, w3, w5, w7)
  PROVE  Documented(h, ids) = Reach(h, Args(Arity(n), ids))
<1> DEFINE depth == Routes[h].depth
           rest == Routes[h].rest
           m == n - depth
           third == \E k \in DOMAIN rest : rest[k] = "x"
           first == SubSeq(<<ids.c, ids.f>>, 1, depth \div 2)
           last == IF third THEN <<ids.x>> ELSE <<>>
           args == first \o last
<1>1. Documented(h, ids) = Reach(h, [k \in DOMAIN args |-> [text |-> args[k], query |-> FALSE]])
  BY DEF Documented
<1>2. /\ n \in 1..7 /\ depth \in 1..4 /\ m \in 0..3 /\ DOMAIN rest = 1..m
      /\ depth \in {1, 3} => m = 0
      /\ depth = 2 => m <= 1
      /\ depth = 2 /\ m = 1 => rest[1] = w3
      /\ depth = 4 /\ m >= 1 => rest[1] = w5
      /\ depth = 4 /\ m >= 2 => rest[2] = "x"
      /\ w3 \in Fixed /\ w5 \in Fixed
  BY DEF Fits
<1> HIDE DEF depth, rest
<1>3. "x" \notin Fixed
  BY DEF Fixed
<1>4. m = 0 \/ m = 1 \/ m = 2 \/ m = 3
  BY <1>2
<1>5. third <=> depth = 4 /\ m >= 2
  <2>1. \A k \in 1..m : k = 1 \/ (m >= 2 /\ depth = 4)
    BY <1>2
  <2>2. m >= 1 => depth = 2 \/ depth = 4
    BY <1>2
  <2>3. m >= 1 => rest[1] # "x"
    BY <1>2, <1>3, <2>2
  <2>4. third => depth = 4 /\ m >= 2
    BY <1>2, <2>1, <2>3
  <2>5. depth = 4 /\ m >= 2 => 2 \in DOMAIN rest
    BY <1>2
  <2>6. QED
    BY <1>2, <2>4, <2>5
<1>6. ids.c \in Segments /\ ids.f \in Segments /\ ids.x \in Segments
  BY IdsType
<1> HIDE DEF third
<1> DEFINE i == depth \div 2
           j == IF third THEN 1 ELSE 0
           base == <<ids.c, ids.f>>
<1>7. i \in 0..2 /\ i = (IF depth = 1 THEN 0 ELSE IF depth = 4 THEN 2 ELSE 1)
  BY <1>2
<1>8. /\ first \in Seq(Segments) /\ Len(first) = i
      /\ \A k \in 1..i : first[k] = base[k]
  <2>1. base[1] = ids.c /\ base[2] = ids.f
    OBVIOUS
  <2>2. \A k \in 1..2 : base[k] \in Segments
    BY <1>6, <2>1
  <2> HIDE DEF i, base
  <2>3. \A k \in 1..i : base[k] \in Segments
    BY <1>7, <2>2
  <2>4. first = SubSeq(base, 1, i)
    BY DEF i, base
  <2> HIDE DEF first
  <2>5. /\ first \in Seq(Segments)
        /\ Len(first) = IF 1 <= i THEN i - 1 + 1 ELSE 0
        /\ \A k \in 1 .. i - 1 + 1 : first[k] = base[1 + k - 1]
    BY <1>7, <2>3, <2>4, SubSeqProperties
  <2>6. QED
    BY <1>7, <2>5
<1>9. last \in Seq(Segments) /\ Len(last) = j /\ (third => last[1] = ids.x)
  BY <1>6
<1> HIDE DEF i, j, first, last, base
<1>10. /\ args \in Seq(Segments) /\ Len(args) = i + j
       /\ \A k \in 1 .. i + j : args[k] = IF k <= i THEN first[k] ELSE last[k - i]
  BY <1>8, <1>9, ConcatProperties
<1> HIDE DEF args
<1>11. j \in {0, 1} /\ (j = 1 <=> third)
  BY DEF j
<1>12. i + j = Arity(n)
  BY <1>2, <1>4, <1>5, <1>7, <1>11 DEF Arity
<1>13. DOMAIN args = 1..Arity(n)
  BY <1>10, <1>12, LenProperties
<1>14. ASSUME NEW k \in 1..Arity(n) PROVE args[k] = <<ids.c, ids.f, ids.x>>[k]
  <2>1. base[1] = ids.c /\ base[2] = ids.f
    BY DEF base
  <2>2. CASE k <= i
    BY <1>7, <1>8, <1>10, <1>12, <2>1, <2>2
  <2>3. CASE ~(k <= i)
    <3>1. third /\ i = 2 /\ k = 3
      BY <1>5, <1>7, <1>11, <1>12, <2>3
    <3>2. QED
      BY <1>9, <1>10, <1>12, <3>1
  <2>4. QED
    BY <2>2, <2>3
<1>15. [k \in DOMAIN args |-> [text |-> args[k], query |-> FALSE]] = Args(Arity(n), ids)
  BY <1>13, <1>14 DEF Args, Plain
<1>16. QED
  BY <1>1, <1>15

\* The segments at the places of the arguments are the identifiers, unless the
\* path is too short.
TakesOne(t, ids, handler) == Take(handler, t, <<2>>) = Reach(handler, Args(1, ids))
TakesTwo(t, ids, handler) ==
  /\ Take(handler, t, <<2, 4>>) = Reach(handler, Args(2, ids))
  /\ TakeInTry(handler, t, <<2, 4>>) = Reach(handler, Args(2, ids))
TakesThree(t, ids, handler) == Take(handler, t, <<2, 4, 6>>) = Reach(handler, Args(3, ids))
TakesLast(t, ids, handler) == Reach(handler, <<LastPart(t)>>) = Reach(handler, Args(1, ids))
TooShortForTwo(t, handler) == TakeInTry(handler, t, <<2, 4>>) = Reach("error 500", <<>>)
TooShortForThree(t, handler) == Take(handler, t, <<2, 4, 6>>) = NoAnswer

Taken(t, ids, n, query, handler) ==
  /\ n >= 3 \/ (n = 2 /\ query = "none") => TakesOne(t, ids, handler)
  /\ n >= 5 \/ (n = 4 /\ query = "none") => TakesTwo(t, ids, handler)
  /\ n >= 7 \/ (n = 6 /\ query = "none") => TakesThree(t, ids, handler)
  /\ n < 4 /\ query = "none" => TooShortForTwo(t, handler)
  /\ n < 6 /\ query = "none" => TooShortForThree(t, handler)
  /\ n = 2 /\ query = "none" => TakesLast(t, ids, handler)

\* That is what is taken.
LEMMA TakenArgs ==
  ASSUME NEW ids \in Ids, NEW query \in Queries, NEW n \in 1..7, NEW w3, NEW w5, NEW w7,
         NEW t, Shaped(t, ids, query, n, w3, w5, w7), NEW handler
  PROVE  Taken(t, ids, n, query, handler)
<1>1. /\ n \in 1..7 /\ Len(t.path) = n /\ DOMAIN t.path = 1..n /\ t.query = query
      /\ n >= 2 => t.path[2] = ids.c
      /\ n >= 4 => t.path[4] = ids.f
      /\ n >= 6 => t.path[6] = ids.x
  BY DEF Shaped
<1>2. Size(t) = 1 + n + (IF query = "slash" THEN 1 ELSE 0)
  BY <1>1 DEF Size
<1>3. /\ n >= 3 \/ (n = 2 /\ query = "none") => Part(t, 2) = Plain(ids.c)
      /\ n >= 5 \/ (n = 4 /\ query = "none") => Part(t, 4) = Plain(ids.f)
      /\ n >= 7 \/ (n = 6 /\ query = "none") => Part(t, 6) = Plain(ids.x)
  <2>1. ASSUME NEW k \in 1..n, k < n \/ query = "none"
        PROVE  Part(t, k) = Plain(t.path[k])
    <3>1. (k = Len(t.path) /\ t.query # "none") = FALSE
      BY <1>1, <2>1
    <3>2. Part(t, k) = [text |-> t.path[k], query |-> k = Len(t.path) /\ t.query # "none"]
      BY <1>1 DEF Part
    <3>3. QED
      BY <3>1, <3>2 DEF Plain
  <2>2. /\ n >= 2 => 2 \in 1..n
        /\ n >= 4 => 4 \in 1..n
        /\ n >= 6 => 6 \in 1..n
    OBVIOUS
  <2>3. /\ n >= 3 => 2 < n /\ n >= 2
        /\ n >= 5 => 4 < n /\ n >= 4
        /\ n >= 7 => 6 < n /\ n >= 6
        /\ n = 2 => n >= 2
        /\ n = 4 => n >= 4
        /\ n = 6 => n >= 6
    OBVIOUS
  <2>4. QED
    BY <1>1, <2>1, <2>2, <2>3
<1>4. DOMAIN <<2>> = 1..1 /\ DOMAIN <<2, 4>> = 1..2 /\ DOMAIN <<2, 4, 6>> = 1..3
  OBVIOUS
<1>5. /\ Args(1, ids) = [k \in 1..1 |-> Plain(<<ids.c, ids.f, ids.x>>[k])]
      /\ Args(2, ids) = [k \in 1..2 |-> Plain(<<ids.c, ids.f, ids.x>>[k])]
      /\ Args(3, ids) = [k \in 1..3 |-> Plain(<<ids.c, ids.f, ids.x>>[k])]
  BY DEF Args
<1>6. ASSUME n >= 3 \/ (n = 2 /\ query = "none")
      PROVE  Take(handler, t, <<2>>) = Reach(handler, Args(1, ids))
  <2>1. Size(t) > 2 /\ Part(t, 2) = Plain(ids.c)
    BY <1>2, <1>3, <1>6
  <2>2. \A k \in 1..1 : Part(t, <<2>>[k]) = Plain(<<ids.c, ids.f, ids.x>>[k])
    BY <2>1
  <2>3. [k \in DOMAIN <<2>> |-> Part(t, <<2>>[k])] = Args(1, ids)
    BY <1>4, <1>5, <2>2
  <2>4. ~\E k \in DOMAIN <<2>> : <<2>>[k] >= Size(t)
    BY <1>2, <1>4, <2>1
  <2>5. QED
    BY <2>3, <2>4 DEF Take
<1>7. ASSUME n >= 5 \/ (n = 4 /\ query = "none")
      PROVE  /\ Take(handler, t, <<2, 4>>) = Reach(handler, Args(2, ids))
             /\ TakeInTry(handler, t, <<2, 4>>) = Reach(handler, Args(2, ids))
  <2>1. Size(t) > 4 /\ Part(t, 2) = Plain(ids.c)
                    /\ Part(t, 4) = Plain(ids.f)
    BY <1>2, <1>3, <1>7
  <2>2. [k \in DOMAIN <<2, 4>> |-> Part(t, <<2, 4>>[k])] = Args(2, ids)
    <3>1. \A k \in 1..2 : Part(t, <<2, 4>>[k]) = Plain(<<ids.c, ids.f, ids.x>>[k])
      BY <2>1
    <3>2. QED
      BY <1>4, <1>5, <3>1
  <2>3. ~\E k \in DOMAIN <<2, 4>> : <<2, 4>>[k] >= Size(t)
    BY <1>2, <1>4, <2>1
  <2>4. QED
    BY <2>2, <2>3 DEF Take, TakeInTry
<1>8. ASSUME n >= 7 \/ (n = 6 /\ query = "none")
      PROVE  Take(handler, t, <<2, 4, 6>>) = Reach(handler, Args(3, ids))
  <2>1. Size(t) > 6 /\ Part(t, 2) = Plain(ids.c)
                    /\ Part(t, 4) = Plain(ids.f)
                    /\ Part(t, 6) = Plain(ids.x)
    BY <1>2, <1>3, <1>8
  <2>2. [k \in DOMAIN <<2, 4, 6>> |-> Part(t, <<2, 4, 6>>[k])] = Args(3, ids)
    <3>1. \A k \in 1..3 : Part(t, <<2, 4, 6>>[k]) = Plain(<<ids.c, ids.f, ids.x>>[k])
      BY <2>1
    <3>2. QED
      BY <1>4, <1>5, <3>1
  <2>3. ~\E k \in DOMAIN <<2, 4, 6>> : <<2, 4, 6>>[k] >= Size(t)
    BY <1>2, <1>4, <2>1
  <2>4. QED
    BY <2>2, <2>3 DEF Take
<1>9. ASSUME n < 4, query = "none"
      PROVE  TakeInTry(handler, t, <<2, 4>>) = Reach("error 500", <<>>)
  <2>1. 2 \in DOMAIN <<2, 4>> /\ <<2, 4>>[2] >= Size(t)
    BY <1>2, <1>9
  <2>2. QED
    BY <2>1 DEF TakeInTry
<1>10. ASSUME n < 6, query = "none"
       PROVE  Take(handler, t, <<2, 4, 6>>) = NoAnswer
  <2>1. 3 \in DOMAIN <<2, 4, 6>> /\ <<2, 4, 6>>[3] >= Size(t)
    BY <1>2, <1>10
  <2>2. QED
    BY <2>1 DEF Take
<1>11. ASSUME n = 2, query = "none"
       PROVE  Reach(handler, <<LastPart(t)>>) = Reach(handler, Args(1, ids))
  <2>1. LastPart(t) = Plain(ids.c)
    BY <1>2, <1>3, <1>11 DEF LastPart
  <2>2. <<LastPart(t)>> = Args(1, ids)
    BY <1>5, <2>1
  <2>3. QED
    BY <2>2
<1>12. QED
  BY <1>6, <1>7, <1>8, <1>9, <1>10, <1>11
  DEF Taken, TakesOne, TakesTwo, TakesThree, TakesLast, TooShortForTwo, TooShortForThree

\* Without its query string a path has the same shape.
LEMMA WithoutQueryShaped ==
  ASSUME NEW ids, NEW query, NEW n, NEW w3, NEW w5, NEW w7,
         NEW t, Shaped(t, ids, query, n, w3, w5, w7)
  PROVE  Shaped(WithoutQuery(t), ids, "none", n, w3, w5, w7)
<1>1. t = [path |-> t.path, query |-> t.query]
  BY DEF Shaped
<1>2. /\ WithoutQuery(t).path = t.path /\ WithoutQuery(t).query = "none"
      /\ WithoutQuery(t) = [path |-> t.path, query |-> "none"]
  BY <1>1 DEF WithoutQuery
<1>3. QED
  BY <1>2 DEF Shaped

\* The shape of each documented request; "health" stands where there is nothing.
LEMMA Fittings ==
  /\ Routes["get_collections"].method = "GET" /\ Fits("get_collections", 1, "health", "health", "health")
  /\ Routes["post_collections"].method = "POST" /\ Fits("post_collections", 1, "health", "health", "health")
  /\ Routes["get_collection_id"].method = "GET" /\ Fits("get_collection_id", 2, "health", "health", "health")
  /\ Routes["put_collection"].method = "PUT" /\ Fits("put_collection", 2, "health", "health", "health")
  /\ Routes["delete_collection"].method = "DELETE" /\ Fits("delete_collection", 2, "health", "health", "health")
  /\ Routes["export_collection"].method = "GET" /\ Fits("export_collection", 3, "export", "health", "health")
  /\ Routes["post_bulk"].method = "POST" /\ Fits("post_bulk", 3, "bulk", "health", "health")
  /\ Routes["get_collection_items"].method = "GET" /\ Fits("get_collection_items", 3, "items", "health", "health")
  /\ Routes["post_collection_items"].method = "POST" /\ Fits("post_collection_items", 3, "items", "health", "health")
  /\ Routes["get_movement_single_moving_feature"].method = "GET" /\ Fits("get_movement_single_moving_feature", 4, "items", "health", "health")
  /\ Routes["put_single_moving_feature"].method = "PUT" /\ Fits("put_single_moving_feature", 4, "items", "health", "health")
  /\ Routes["delete_single_moving_feature"].method = "DELETE" /\ Fits("delete_single_moving_feature", 4, "items", "health", "health")
  /\ Routes["get_tgsequence"].method = "GET" /\ Fits("get_tgsequence", 5, "items", "tgsequence", "health")
  /\ Routes["post_tgsequence"].method = "POST" /\ Fits("post_tgsequence", 5, "items", "tgsequence", "health")
  /\ Routes["delete_single_temporal_primitive_geo"].method = "DELETE" /\ Fits("delete_single_temporal_primitive_geo", 6, "items", "tgsequence", "health")
  /\ Routes["get_distance"].method = "GET" /\ Fits("get_distance", 7, "items", "tgsequence", "distance")
  /\ Routes["get_velocity"].method = "GET" /\ Fits("get_velocity", 7, "items", "tgsequence", "velocity")
  /\ Routes["get_acceleration"].method = "GET" /\ Fits("get_acceleration", 7, "items", "tgsequence", "acceleration")
  /\ Routes["get_tproperties"].method = "GET" /\ Fits("get_tproperties", 5, "items", "tproperties", "health")
  /\ Routes["post_tproperties"].method = "POST" /\ Fits("post_tproperties", 5, "items", "tproperties", "health")
  /\ Routes["get_temporal_property"].method = "GET" /\ Fits("get_temporal_property", 6, "items", "tproperties", "health")
  /\ Routes["post_temporal_property"].method = "POST" /\ Fits("post_temporal_property", 6, "items", "tproperties", "health")
  /\ Routes["delete_temporal_property"].method = "DELETE" /\ Fits("delete_temporal_property", 6, "items", "tproperties", "health")
<1>1. Routes["get_collections"].method = "GET" /\ Fits("get_collections", 1, "health", "health", "health")
  <2>1. Routes["get_collections"] = Route("GET", 1, <<>>)
    BY DEF Routes
  <2>2. QED
    BY <2>1 DEF Fits, Fixed, Route
<1>2. Routes["post_collections"].method = "POST" /\ Fits("post_collections", 1, "health", "health", "health")
  <2>1. Routes["post_collections"] = Route("POST", 1, <<>>)
    BY DEF Routes
  <2>2. QED
    BY <2>1 DEF Fits, Fixed, Route
<1>3. Routes["get_collection_id"].method = "GET" /\ Fits("get_collection_id", 2, "health", "health", "health")
  <2>1. Routes["get_collection_id"] = Route("GET", 2, <<>>)
    BY DEF Routes
  <2>2. QED
    BY <2>1 DEF Fits, Fixed, Route
<1>4. Routes["put_collection"].method = "PUT" /\ Fits("put_collection", 2, "health", "health", "health")
  <2>1. Routes["put_collection"] = Route("PUT", 2, <<>>)
    BY DEF Routes
  <2>2. QED
    BY <2>1 DEF Fits, Fixed, Route
<1>5. Routes["delete_collection"].method = "DELETE" /\ Fits("delete_collection", 2, "health", "health", "health")
  <2>1. Routes["delete_collection"] = Route("DELETE", 2, <<>>)
    BY DEF Routes
  <2>2. QED
    BY <2>1 DEF Fits, Fixed, Route
<1>6. Routes["export_collection"].method = "GET" /\ Fits("export_collection", 3, "export", "health", "health")
  <2>1. Routes["export_collection"] = Route("GET", 2, <<"export">>)
    BY DEF Routes
  <2>2. QED
    BY <2>1 DEF Fits, Fixed, Route
<1>7. Routes["post_bulk"].method = "POST" /\ Fits("post_bulk", 3, "bulk", "health", "health")
  <2>1. Routes["post_bulk"] = Route("POST", 2, <<"bulk">>)
    BY DEF Routes
  <2>2. QED
    BY <2>1 DEF Fits, Fixed, Route
<1>8. Routes["get_collection_items"].method = "GET" /\ Fits("get_collection_items", 3, "items", "health", "health")
  <2>1. Routes["get_collection_items"] = Route("GET", 3, <<>>)
    BY DEF Routes
  <2>2. QED
    BY <2>1 DEF Fits, Fixed, Route
<1>9. Routes["post_collection_items"].method = "POST" /\ Fits("post_collection_items", 3, "items", "health", "health")
  <2>1. Routes["post_collection_items"] = Route("POST", 3, <<>>)
    BY DEF Routes
  <2>2. QED
    BY <2>1 DEF Fits, Fixed, Route
<1>10. Routes["get_movement_single_moving_feature"].method = "GET" /\ Fits("get_movement_single_moving_feature", 4, "items", "health", "health")
  <2>1. Routes["get_movement_single_moving_feature"] = Route("GET", 4, <<>>)
    BY DEF Routes
  <2>2. QED
    BY <2>1 DEF Fits, Fixed, Route
<1>11. Routes["put_single_moving_feature"].method = "PUT" /\ Fits("put_single_moving_feature", 4, "items", "health", "health")
  <2>1. Routes["put_single_moving_feature"] = Route("PUT", 4, <<>>)
    BY DEF Routes
  <2>2. QED
    BY <2>1 DEF Fits, Fixed, Route
<1>12. Routes["delete_single_moving_feature"].method = "DELETE" /\ Fits("delete_single_moving_feature", 4, "items", "health", "health")
  <2>1. Routes["delete_single_moving_feature"] = Route("DELETE", 4, <<>>)
    BY DEF Routes
  <2>2. QED
    BY <2>1 DEF Fits, Fixed, Route
<1>13. Routes["get_tgsequence"].method = "GET" /\ Fits("get_tgsequence", 5, "items", "tgsequence", "health")
  <2>1. Routes["get_tgsequence"] = Route("GET", 4, <<"tgsequence">>)
    BY DEF Routes
  <2>2. QED
    BY <2>1 DEF Fits, Fixed, Route
<1>14. Routes["post_tgsequence"].method = "POST" /\ Fits("post_tgsequence", 5, "items", "tgsequence", "health")
  <2>1. Routes["post_tgsequence"] = Route("POST", 4, <<"tgsequence">>)
    BY DEF Routes
  <2>2. QED
    BY <2>1 DEF Fits, Fixed, Route
<1>15. Routes["delete_single_temporal_primitive_geo"].method = "DELETE" /\ Fits("delete_single_temporal_primitive_geo", 6, "items", "tgsequence", "health")
  <2>1. Routes["delete_single_temporal_primitive_geo"] = Route("DELETE", 4, <<"tgsequence", "x">>)
    BY DEF Routes
  <2>2. QED
    BY <2>1 DEF Fits, Fixed, Route
<1>16. Routes["get_distance"].method = "GET" /\ Fits("get_distance", 7, "items", "tgsequence", "distance")
  <2>1. Routes["get_distance"] = Route("GET", 4, <<"tgsequence", "x", "distance">>)
    BY DEF Routes
  <2>2. QED
    BY <2>1 DEF Fits, Fixed, Route
<1>17. Routes["get_velocity"].method = "GET" /\ Fits("get_velocity", 7, "items", "tgsequence", "velocity")
  <2>1. Routes["get_velocity"] = Route("GET", 4, <<"tgsequence", "x", "velocity">>)
    BY DEF Routes
  <2>2. QED
    BY <2>1 DEF Fits, Fixed, Route
<1>18. Routes["get_acceleration"].method = "GET" /\ Fits("get_acceleration", 7, "items", "tgsequence", "acceleration")
  <2>1. Routes["get_acceleration"] = Route("GET", 4, <<"tgsequence", "x", "acceleration">>)
    BY DEF Routes
  <2>2. QED
    BY <2>1 DEF Fits, Fixed, Route
<1>19. Routes["get_tproperties"].method = "GET" /\ Fits("get_tproperties", 5, "items", "tproperties", "health")
  <2>1. Routes["get_tproperties"] = Route("GET", 4, <<"tproperties">>)
    BY DEF Routes
  <2>2. QED
    BY <2>1 DEF Fits, Fixed, Route
<1>20. Routes["post_tproperties"].method = "POST" /\ Fits("post_tproperties", 5, "items", "tproperties", "health")
  <2>1. Routes["post_tproperties"] = Route("POST", 4, <<"tproperties">>)
    BY DEF Routes
  <2>2. QED
    BY <2>1 DEF Fits, Fixed, Route
<1>21. Routes["get_temporal_property"].method = "GET" /\ Fits("get_temporal_property", 6, "items", "tproperties", "health")
  <2>1. Routes["get_temporal_property"] = Route("GET", 4, <<"tproperties", "x">>)
    BY DEF Routes
  <2>2. QED
    BY <2>1 DEF Fits, Fixed, Route
<1>22. Routes["post_temporal_property"].method = "POST" /\ Fits("post_temporal_property", 6, "items", "tproperties", "health")
  <2>1. Routes["post_temporal_property"] = Route("POST", 4, <<"tproperties", "x">>)
    BY DEF Routes
  <2>2. QED
    BY <2>1 DEF Fits, Fixed, Route
<1>23. Routes["delete_temporal_property"].method = "DELETE" /\ Fits("delete_temporal_property", 6, "items", "tproperties", "health")
  <2>1. Routes["delete_temporal_property"] = Route("DELETE", 4, <<"tproperties", "x">>)
    BY DEF Routes
  <2>2. QED
    BY <2>1 DEF Fits, Fixed, Route
<1>24. QED
  BY <1>1, <1>2, <1>3, <1>4, <1>5, <1>6, <1>7, <1>8, <1>9, <1>10, <1>11, <1>12, <1>13, <1>14, <1>15, <1>16, <1>17, <1>18, <1>19, <1>20, <1>21, <1>22, <1>23

\* Identifiers that hold none of the words the tests look for.
PlainParts(n, ids) == \A s \in IdParts(n, ids) : WordsIn[s] = {} /\ WordsAtStart[s] = {}

\* What is known of the documented request of an endpoint: its shape, what it
\* should reach, and what each test finds in it.
Asked(h, ids, query, t, n, w3, w5, w7) ==
  /\ Shaped(t, ids, query, n, w3, w5, w7)
  /\ Documented(h, ids) = Reach(h, Args(Arity(n), ids))
  /\ \A word \in Fixed : Found(t, ids, n, w3, w5, w7, word)
  /\ \A handler \in Endpoints : /\ Taken(t, ids, n, query, handler)
                                  /\ Taken(WithoutQuery(t), ids, n, "none", handler)
  /\ InCollections(t) <=> n >= 2
  /\ t.query = query /\ Size(t) = 1 + n + (IF query = "slash" THEN 1 ELSE 0)
  /\ t.path = <<"collections">> <=> n = 1

\* All of that holds of a request line that fits.
LEMMA RequestAsked ==
  ASSUME NEW h, NEW ids \in Ids, NEW query \in Queries,
         NEW n, NEW w3, NEW w5, NEW w7, Fits(h, n, w3, w5, w7),
         NEW t, t = Request(h, ids, query).target
  PROVE  Asked(h, ids, query, t, n, w3, w5, w7)
<1>1. Shaped(t, ids, query, n, w3, w5, w7)
  BY RequestShaped
<1>2. Documented(h, ids) = Reach(h, Args(Arity(n), ids))
  BY DocumentedArgs
<1>3. n \in 1..7 /\ w3 \in Fixed /\ w5 \in Fixed /\ w7 \in Fixed
  BY DEF Fits
<1>4. t.query = query /\ Size(t) = 1 + n + (IF query = "slash" THEN 1 ELSE 0)
  BY <1>1 DEF Shaped, Size
<1>5. t.path = <<"collections">> <=> n = 1
  <2>1. t.path \in Seq(Segments \cup Fixed) /\ Len(t.path) = n /\ t.path[1] = "collections"
    BY <1>1 DEF Shaped
  <2>2. <<"collections">> \in Seq(Segments \cup Fixed) /\ Len(<<"collections">>) = 1
        /\ <<"collections">>[1] = "collections"
    BY DEF Fixed
  <2>3. n = 1 => t.path = <<"collections">>
    BY <1>3, <2>1, <2>2, SeqEqual
  <2>4. QED
    BY <2>1, <2>2, <2>3
<1>6. \A word \in Fixed : Found(t, ids, n, w3, w5, w7, word)
  BY <1>1, <1>3, Tests
<1>7. InCollections(t) <=> n >= 2
  BY <1>1 DEF Shaped, InCollections
<1>8. ASSUME NEW handler \in Endpoints
      PROVE  Taken(t, ids, n, query, handler) /\ Taken(WithoutQuery(t), ids, n, "none", handler)
  <2>1. "none" \in Queries
    BY DEF Queries
  <2>2. Shaped(WithoutQuery(t), ids, "none", n, w3, w5, w7)
    BY <1>1, WithoutQueryShaped
  <2>3. QED
    BY <1>1, <1>3, <2>1, <2>2, TakenArgs
<1>9. QED
  BY <1>1, <1>2, <1>4, <1>5, <1>6, <1>7, <1>8 DEF Asked


-----------------------------------------------------------------------------
(* The methods that write.  These requests carry no query string.          *)

\* What the router may call without an endpoint.
LEMMA NoEndpoint ==
  /\ "no answer" \notin Endpoints /\ "error 500" \notin Endpoints
  /\ NoAnswer.handler = "no answer" /\ Reach("error 500", <<>>).handler = "error 500"
  BY DEF Endpoints, Routes, NoAnswer, Reach

\* The words the router looks for are fixed segments.
LEMMA FixedWords ==
  {"collections", "items", "tgsequence", "tproperties", "export", "bulk", "distance",
   "velocity", "acceleration"} \subseteq Fixed
  BY DEF Fixed

\* The endpoints.
LEMMA EndpointNames ==
  {"get_collections", "post_collections", "get_collection_id", "put_collection",
   "delete_collection", "export_collection", "post_bulk", "get_collection_items",
   "post_collection_items", "get_movement_single_moving_feature", "put_single_moving_feature",
   "delete_single_moving_feature", "get_tgsequence", "post_tgsequence",
   "delete_single_temporal_primitive_geo", "get_distance", "get_velocity", "get_acceleration",
   "get_tproperties", "post_tproperties", "get_temporal_property", "post_temporal_property",
   "delete_temporal_property"} = Endpoints
  BY DEF Endpoints, Routes

\* A documented POST reaches its handler with its identifiers, or no endpoint, and
\* that only if the identifiers hold a word: creating collections,
LEMMA PostCollectionsRouted ==
  ASSUME NEW ids, NEW t,
         Asked("post_collections", ids, "none", t, 1, "health", "health", "health")
  PROVE  do_POST(t) = Documented("post_collections", ids)
<1>1. /\ ~EndsWith(t, "tproperties") /\ ~Inside(t, "tproperties")
      /\ ~Mentions(t, "tgsequence")
  <2>1. /\ Found(t, ids, 1, "health", "health", "health", "tproperties")
        /\ Found(t, ids, 1, "health", "health", "health", "tgsequence")
    BY FixedWords DEF Asked
  <2>2. QED
    BY <2>1 DEF Found, FixedParts, IdParts
<1>2. t.path = <<"collections">> /\ t.query = "none"
  BY DEF Asked
<1>3. Documented("post_collections", ids) = Reach("post_collections", <<>>)
  <2>1. Args(0, ids) = <<>>
    BY DEF Args
  <2>2. QED
    BY <2>1 DEF Asked, Arity
<1>4. QED
  BY <1>1, <1>2, <1>3 DEF do_POST, EndsPlainly

\* a batch,
LEMMA PostBulkRouted ==
  ASSUME NEW ids, NEW t,
         Asked("post_bulk", ids, "none", t, 3, "bulk", "health", "health")
  PROVE  \/ do_POST(t) = Documented("post_bulk", ids)
         \/ ~PlainParts(3, ids) /\ do_POST(t).handler \notin Endpoints
<1>1. /\ ~EndsWith(t, "tproperties") /\ ~Inside(t, "tproperties")
      /\ EndsWith(t, "bulk")
      /\ Mentions(t, "tgsequence") <=> \E s \in IdParts(3, ids) : "tgsequence" \in WordsIn[s]
  <2>1. /\ Found(t, ids, 3, "bulk", "health", "health", "tproperties")
        /\ Found(t, ids, 3, "bulk", "health", "health", "bulk")
        /\ Found(t, ids, 3, "bulk", "health", "health", "tgsequence")
    BY FixedWords DEF Asked
  <2>2. QED
    BY <2>1 DEF Found, FixedParts
<1>2. /\ t.query = "none" /\ Size(t) = 4 /\ InCollections(t)
      /\ t.path # <<"collections">>
  BY DEF Asked
<1>3. Documented("post_bulk", ids) = Reach("post_bulk", Args(1, ids))
  BY DEF Asked, Arity
<1>4. TakesOne(t, ids, "post_bulk") /\ TooShortForTwo(t, "post_tgsequence")
  <2>1. "post_bulk" \in Endpoints /\ "post_tgsequence" \in Endpoints
    BY EndpointNames
  <2>2. /\ Taken(t, ids, 3, "none", "post_bulk")
        /\ Taken(t, ids, 3, "none", "post_tgsequence")
    BY <2>1 DEF Asked
  <2>3. QED
    BY <2>2 DEF Taken
<1>5. CASE Mentions(t, "tgsequence")
  <2>1. do_POST(t) = Reach("error 500", <<>>)
    BY <1>1, <1>4, <1>5 DEF do_POST, EndsPlainly, TooShortForTwo
  <2>2. ~PlainParts(3, ids)
    BY <1>1, <1>5 DEF PlainParts
  <2>3. QED
    BY <2>1, <2>2, NoEndpoint
<1>6. CASE ~Mentions(t, "tgsequence")
  BY <1>1, <1>2, <1>3, <1>4, <1>6 DEF do_POST, EndsPlainly, TakesOne
<1>7. QED
  BY <1>5, <1>6

\* features,
LEMMA PostFeaturesRouted ==
  ASSUME NEW ids, NEW t,
         Asked("post_collection_items", ids, "none", t, 3, "items", "health", "health")
  PROVE  \/ do_POST(t) = Documented("post_collection_items", ids)
         \/ ~PlainParts(3, ids) /\ do_POST(t).handler \notin Endpoints
<1>1. /\ ~EndsWith(t, "tproperties") /\ ~Inside(t, "tproperties")
      /\ ~EndsWith(t, "bulk") /\ Opens(t, "items")
      /\ Mentions(t, "tgsequence") <=> \E s \in IdParts(3, ids) : "tgsequence" \in WordsIn[s]
  <2>1. /\ Found(t, ids, 3, "items", "health", "health", "tproperties")
        /\ Found(t, ids, 3, "items", "health", "health", "bulk")
        /\ Found(t, ids, 3, "items", "health", "health", "items")
        /\ Found(t, ids, 3, "items", "health", "health", "tgsequence")
    BY FixedWords DEF Asked
  <2>2. QED
    BY <2>1 DEF Found, FixedParts
<1>2. /\ t.query = "none" /\ Size(t) = 4 /\ InCollections(t)
      /\ t.path # <<"collections">>
  BY DEF Asked
<1>3. Documented("post_collection_items", ids) = Reach("post_collection_items", Args(1, ids))
  BY DEF Asked, Arity
<1>4. TakesOne(t, ids, "post_collection_items") /\ TooShortForTwo(t, "post_tgsequence")
  <2>1. "post_collection_items" \in Endpoints /\ "post_tgsequence" \in Endpoints
    BY EndpointNames
  <2>2. /\ Taken(t, ids, 3, "none", "post_collection_items")
        /\ Taken(t, ids, 3, "none", "post_tgsequence")
    BY <2>1 DEF Asked
  <2>3. QED
    BY <2>2 DEF Taken
<1>5. CASE Mentions(t, "tgsequence")
  <2>1. do_POST(t) = Reach("error 500", <<>>)
    BY <1>1, <1>4, <1>5 DEF do_POST, EndsPlainly, TooShortForTwo
  <2>2. ~PlainParts(3, ids)
    BY <1>1, <1>5 DEF PlainParts
  <2>3. QED
    BY <2>1, <2>2, NoEndpoint
<1>6. CASE ~Mentions(t, "tgsequence")
  BY <1>1, <1>2, <1>3, <1>4, <1>6 DEF do_POST, EndsPlainly, TakesOne
<1>7. QED
  BY <1>5, <1>6

\* a geometry,
LEMMA PostGeometryRouted ==
  ASSUME NEW ids, NEW t,
         Asked("post_tgsequence", ids, "none", t, 5, "items", "tgsequence", "health")
  PROVE  do_POST(t) = Documented("post_tgsequence", ids)
<1>1. /\ ~EndsWith(t, "tproperties") /\ ~Inside(t, "tproperties")
      /\ Mentions(t, "tgsequence")
  <2>1. /\ Found(t, ids, 5, "items", "tgsequence", "health", "tproperties")
        /\ Found(t, ids, 5, "items", "tgsequence", "health", "tgsequence")
    BY FixedWords DEF Asked
  <2>2. QED
    BY <2>1 DEF Found, FixedParts
<1>2. /\ t.query = "none" /\ Size(t) = 6 /\ InCollections(t)
      /\ t.path # <<"collections">>
  BY DEF Asked
<1>3. Documented("post_tgsequence", ids) = Reach("post_tgsequence", Args(2, ids))
  BY DEF Asked, Arity
<1>4. TakesTwo(t, ids, "post_tgsequence")
  <2>1. "post_tgsequence" \in Endpoints
    BY EndpointNames
  <2>2. /\ Taken(t, ids, 5, "none", "post_tgsequence")
    BY <2>1 DEF Asked
  <2>3. QED
    BY <2>2 DEF Taken
<1>5. QED
  BY <1>1, <1>2, <1>3, <1>4 DEF do_POST, EndsPlainly, TakesTwo

\* properties,
LEMMA PostPropertiesRouted ==
  ASSUME NEW ids, NEW t,
         Asked("post_tproperties", ids, "none", t, 5, "items", "tproperties", "health")
  PROVE  do_POST(t) = Documented("post_tproperties", ids)
<1>1. /\ EndsWith(t, "tproperties")
  <2>1. /\ Found(t, ids, 5, "items", "tproperties", "health", "tproperties")
    BY FixedWords DEF Asked
  <2>2. QED
    BY <2>1 DEF Found, FixedParts
<1>2. /\ t.query = "none" /\ Size(t) = 6 /\ InCollections(t)
      /\ t.path # <<"collections">>
  BY DEF Asked
<1>3. Documented("post_tproperties", ids) = Reach("post_tproperties", Args(2, ids))
  BY DEF Asked, Arity
<1>4. TakesTwo(t, ids, "post_tproperties")
  <2>1. "post_tproperties" \in Endpoints
    BY EndpointNames
  <2>2. /\ Taken(t, ids, 5, "none", "post_tproperties")
    BY <2>1 DEF Asked
  <2>3. QED
    BY <2>2 DEF Taken
<1>5. QED
  BY <1>1, <1>2, <1>3, <1>4 DEF do_POST, EndsPlainly, TakesTwo

\* and values of one.
LEMMA PostValuesRouted ==
  ASSUME NEW ids, NEW t,
         Asked("post_temporal_property", ids, "none", t, 6, "items", "tproperties", "health")
  PROVE  do_POST(t) = Documented("post_temporal_property", ids)
<1>1. /\ ~EndsWith(t, "tproperties") /\ Inside(t, "tproperties")
  <2>1. /\ Found(t, ids, 6, "items", "tproperties", "health", "tproperties")
    BY FixedWords DEF Asked
  <2>2. QED
    BY <2>1 DEF Found, FixedParts
<1>2. /\ t.query = "none" /\ Size(t) = 7 /\ InCollections(t)
      /\ t.path # <<"collections">>
  BY DEF Asked
<1>3. Documented("post_temporal_property", ids) = Reach("post_temporal_property", Args(3, ids))
  BY DEF Asked, Arity
<1>4. TakesThree(t, ids, "post_temporal_property")
  <2>1. "post_temporal_property" \in Endpoints
    BY EndpointNames
  <2>2. /\ Taken(t, ids, 6, "none", "post_temporal_property")
    BY <2>1 DEF Asked
  <2>3. QED
    BY <2>2 DEF Taken
<1>5. QED
  BY <1>1, <1>2, <1>3, <1>4 DEF do_POST, EndsPlainly, TakesThree

\* So does a documented DELETE of a collection,
LEMMA DeleteCollectionRouted ==
  ASSUME NEW ids, NEW t,
         Asked("delete_collection", ids, "none", t, 2, "health", "health", "health")
  PROVE  \/ do_DELETE(t) = Documented("delete_collection", ids)
         \/ ~PlainParts(2, ids) /\ do_DELETE(t).handler \notin Endpoints
<1>1. /\ ~Inside(t, "items") /\ ~Inside(t, "tproperties")
      /\ Mentions(t, "tgsequence") <=> \E s \in IdParts(2, ids) : "tgsequence" \in WordsIn[s]
      /\ Mentions(t, "items") <=> \E s \in IdParts(2, ids) : "items" \in WordsIn[s]
  <2>1. /\ Found(t, ids, 2, "health", "health", "health", "items")
        /\ Found(t, ids, 2, "health", "health", "health", "tproperties")
        /\ Found(t, ids, 2, "health", "health", "health", "tgsequence")
    BY FixedWords DEF Asked
  <2>2. QED
    BY <2>1 DEF Found, FixedParts
<1>2. /\ t.query = "none" /\ Size(t) = 3 /\ InCollections(t)
      /\ t.path # <<"collections">>
  BY DEF Asked
<1>3. Documented("delete_collection", ids) = Reach("delete_collection", Args(1, ids))
  BY DEF Asked, Arity
<1>4. TakesLast(t, ids, "delete_collection") /\ TooShortForThree(t, "delete_single_temporal_primitive_geo")
  <2>1. "delete_collection" \in Endpoints /\ "delete_single_temporal_primitive_geo" \in Endpoints
    BY EndpointNames
  <2>2. /\ Taken(t, ids, 2, "none", "delete_collection")
        /\ Taken(t, ids, 2, "none", "delete_single_temporal_primitive_geo")
    BY <2>1 DEF Asked
  <2>3. QED
    BY <2>2 DEF Taken
<1>5. CASE Mentions(t, "tgsequence")
  <2>1. do_DELETE(t) = NoAnswer
    BY <1>1, <1>4, <1>5 DEF do_DELETE, TooShortForThree
  <2>2. ~PlainParts(2, ids)
    BY <1>1, <1>5 DEF PlainParts
  <2>3. QED
    BY <2>1, <2>2, NoEndpoint
<1>6. CASE ~Mentions(t, "tgsequence") /\ Mentions(t, "items")
  <2>1. do_DELETE(t) = NoAnswer
    BY <1>1, <1>2, <1>6 DEF do_DELETE
  <2>2. ~PlainParts(2, ids)
    BY <1>1, <1>6 DEF PlainParts
  <2>3. QED
    BY <2>1, <2>2, NoEndpoint
<1>7. CASE ~Mentions(t, "tgsequence") /\ ~Mentions(t, "items")
  BY <1>1, <1>2, <1>3, <1>4, <1>7 DEF do_DELETE, TakesLast
<1>8. QED
  BY <1>5, <1>6, <1>7

\* of a feature,
LEMMA DeleteFeatureRouted ==
  ASSUME NEW ids, NEW t,
         Asked("delete_single_moving_feature", ids, "none", t, 4, "items", "health", "health")
  PROVE  \/ do_DELETE(t) = Documented("delete_single_moving_feature", ids)
         \/ ~PlainParts(4, ids) /\ do_DELETE(t).handler \notin Endpoints
<1>1. /\ Mentions(t, "items") /\ Inside(t, "items")
      /\ Mentions(t, "tgsequence") <=> \E s \in IdParts(4, ids) : "tgsequence" \in WordsIn[s]
  <2>1. /\ Found(t, ids, 4, "items", "health", "health", "items")
        /\ Found(t, ids, 4, "items", "health", "health", "tgsequence")
    BY FixedWords DEF Asked
  <2>2. QED
    BY <2>1 DEF Found, FixedParts
<1>2. /\ t.query = "none" /\ Size(t) = 5 /\ InCollections(t)
      /\ t.path # <<"collections">>
  BY DEF Asked
<1>3. Documented("delete_single_moving_feature", ids) = Reach("delete_single_moving_feature", Args(2, ids))
  BY DEF Asked, Arity
<1>4. TakesTwo(t, ids, "delete_single_moving_feature") /\ TooShortForThree(t, "delete_single_temporal_primitive_geo")
  <2>1. "delete_single_moving_feature" \in Endpoints /\ "delete_single_temporal_primitive_geo" \in Endpoints
    BY EndpointNames
  <2>2. /\ Taken(t, ids, 4, "none", "delete_single_moving_feature")
        /\ Taken(t, ids, 4, "none", "delete_single_temporal_primitive_geo")
    BY <2>1 DEF Asked
  <2>3. QED
    BY <2>2 DEF Taken
<1>5. CASE Mentions(t, "tgsequence")
  <2>1. do_DELETE(t) = NoAnswer
    BY <1>1, <1>4, <1>5 DEF do_DELETE, TooShortForThree
  <2>2. ~PlainParts(4, ids)
    BY <1>1, <1>5 DEF PlainParts
  <2>3. QED
    BY <2>1, <2>2, NoEndpoint
<1>6. CASE ~Mentions(t, "tgsequence")
  BY <1>1, <1>2, <1>3, <1>4, <1>6 DEF do_DELETE, TakesTwo
<1>7. QED
  BY <1>5, <1>6

\* and of a member of its geometries.
LEMMA DeleteGeometryRouted ==
  ASSUME NEW ids, NEW t,
         Asked("delete_single_temporal_primitive_geo", ids, "none", t, 6, "items", "tgsequence", "health")
  PROVE  do_DELETE(t) = Documented("delete_single_temporal_primitive_geo", ids)
<1>1. /\ Mentions(t, "tgsequence")
  <2>1. /\ Found(t, ids, 6, "items", "tgsequence", "health", "tgsequence")
    BY FixedWords DEF Asked
  <2>2. QED
    BY <2>1 DEF Found, FixedParts
<1>2. /\ t.query = "none" /\ Size(t) = 7 /\ InCollections(t)
      /\ t.path # <<"collections">>
  BY DEF Asked
<1>3. Documented("delete_single_temporal_primitive_geo", ids) = Reach("delete_single_temporal_primitive_geo", Args(3, ids))
  BY DEF Asked, Arity
<1>4. TakesThree(t, ids, "delete_single_temporal_primitive_geo")
  <2>1. "delete_single_temporal_primitive_geo" \in Endpoints
    BY EndpointNames
  <2>2. /\ Taken(t, ids, 6, "none", "delete_single_temporal_primitive_geo")
    BY <2>1 DEF Asked
  <2>3. QED
    BY <2>2 DEF Taken
<1>5. QED
  BY <1>1, <1>2, <1>3, <1>4 DEF do_DELETE, TakesThree

\* So does a documented PUT of a collection,
LEMMA PutCollectionRouted ==
  ASSUME NEW ids, NEW t,
         Asked("put_collection", ids, "none", t, 2, "health", "health", "health")
  PROVE  do_PUT(t) = Documented("put_collection", ids)
<1>1. /\ ~Inside(t, "items")
  <2>1. /\ Found(t, ids, 2, "health", "health", "health", "items")
    BY FixedWords DEF Asked
  <2>2. QED
    BY <2>1 DEF Found, FixedParts
<1>2. /\ t.query = "none" /\ Size(t) = 3 /\ InCollections(t)
      /\ t.path # <<"collections">>
  BY DEF Asked
<1>3. Documented("put_collection", ids) = Reach("put_collection", Args(1, ids))
  BY DEF Asked, Arity
<1>4. TakesLast(t, ids, "put_collection")
  <2>1. "put_collection" \in Endpoints
    BY EndpointNames
  <2>2. /\ Taken(t, ids, 2, "none", "put_collection")
    BY <2>1 DEF Asked
  <2>3. QED
    BY <2>2 DEF Taken
<1>5. QED
  BY <1>1, <1>2, <1>3, <1>4 DEF do_PUT, TakesLast

\* and of a feature.
LEMMA PutFeatureRouted ==
  ASSUME NEW ids, NEW t,
         Asked("put_single_moving_feature", ids, "none", t, 4, "items", "health", "health")
  PROVE  do_PUT(t) = Documented("put_single_moving_feature", ids)
<1>1. /\ Inside(t, "items")
  <2>1. /\ Found(t, ids, 4, "items", "health", "health", "items")
    BY FixedWords DEF Asked
  <2>2. QED
    BY <2>1 DEF Found, FixedParts
<1>2. /\ t.query = "none" /\ Size(t) = 5 /\ InCollections(t)
      /\ t.path # <<"collections">>
  BY DEF Asked
<1>3. Documented("put_single_moving_feature", ids) = Reach("put_single_moving_feature", Args(2, ids))
  BY DEF Asked, Arity
<1>4. TakesTwo(t, ids, "put_single_moving_feature")
  <2>1. "put_single_moving_feature" \in Endpoints
    BY EndpointNames
  <2>2. /\ Taken(t, ids, 4, "none", "put_single_moving_feature")
    BY <2>1 DEF Asked
  <2>3. QED
    BY <2>2 DEF Taken
<1>5. QED
  BY <1>1, <1>2, <1>3, <1>4 DEF do_PUT, TakesTwo

\* What a request reaches that should reach means.
Diverted(means) == [means EXCEPT !.handler = "delete_single_temporal_primitive_geo"]

\* The exception: under an identifier that holds "tgsequence" the DELETE of a
\* property reaches the handler that deletes a geometry, with the same arguments.
LEMMA DeletePropertyRouted ==
  ASSUME NEW ids, NEW t,
         Asked("delete_temporal_property", ids, "none", t, 6, "items", "tproperties", "health")
  PROVE  \/ do_DELETE(t) = Documented("delete_temporal_property", ids)
         \/ /\ ~PlainParts(6, ids)
            /\ do_DELETE(t) = Diverted(Documented("delete_temporal_property", ids))
<1>1. /\ Mentions(t, "items") /\ Inside(t, "tproperties")
      /\ Mentions(t, "tgsequence") <=> \E s \in IdParts(6, ids) : "tgsequence" \in WordsIn[s]
  <2>1. /\ Found(t, ids, 6, "items", "tproperties", "health", "items")
        /\ Found(t, ids, 6, "items", "tproperties", "health", "tproperties")
        /\ Found(t, ids, 6, "items", "tproperties", "health", "tgsequence")
    BY FixedWords DEF Asked
  <2>2. QED
    BY <2>1 DEF Found, FixedParts
<1>2. t.query = "none" /\ Size(t) = 7 /\ InCollections(t)
  BY DEF Asked
<1>3. Documented("delete_temporal_property", ids) = Reach("delete_temporal_property", Args(3, ids))
  BY DEF Asked, Arity
<1>4. /\ TakesThree(t, ids, "delete_temporal_property")
      /\ TakesThree(t, ids, "delete_single_temporal_primitive_geo")
  <2>1. /\ "delete_temporal_property" \in Endpoints
        /\ "delete_single_temporal_primitive_geo" \in Endpoints
    BY EndpointNames
  <2>2. /\ Taken(t, ids, 6, "none", "delete_temporal_property")
        /\ Taken(t, ids, 6, "none", "delete_single_temporal_primitive_geo")
    BY <2>1 DEF Asked
  <2>3. QED
    BY <2>2 DEF Taken
<1>5. CASE Mentions(t, "tgsequence")
  <2>1. do_DELETE(t) = Reach("delete_single_temporal_primitive_geo", Args(3, ids))
    BY <1>1, <1>4, <1>5 DEF do_DELETE, TakesThree
  <2>2. ~PlainParts(6, ids)
    BY <1>1, <1>5 DEF PlainParts
  <2>3. [Reach("delete_temporal_property", Args(3, ids))
           EXCEPT !.handler = "delete_single_temporal_primitive_geo"]
          = Reach("delete_single_temporal_primitive_geo", Args(3, ids))
    BY DEF Reach
  <2>4. QED
    BY <1>3, <2>1, <2>2, <2>3 DEF Diverted
<1>6. CASE ~Mentions(t, "tgsequence")
  BY <1>1, <1>2, <1>3, <1>4, <1>6 DEF do_DELETE, TakesThree
<1>7. QED
  BY <1>5, <1>6

-----------------------------------------------------------------------------
(* GET.  Some of these requests carry a query string.                      *)

\* With identifiers that hold no word a documented GET reaches its handler with
\* its identifiers: the list of collections,
LEMMA GetCollectionsRouted ==
  ASSUME NEW ids, NEW t, 
         Asked("get_collections", ids, "none", t, 1, "health", "health", "health"),
         PlainParts(1, ids)
  PROVE  do_GET(t) = Documented("get_collections", ids)
<1>1. /\ ~Inside(t, "tgsequence") /\ ~Inside(t, "tproperties")
      /\ ~EndsWith(t, "tproperties") /\ ~Mentions(t, "tgsequence")
  <2>1. /\ Found(t, ids, 1, "health", "health", "health", "tgsequence")
        /\ Found(t, ids, 1, "health", "health", "health", "tproperties")
    BY FixedWords DEF Asked
  <2>2. \A s \in IdParts(1, ids) : WordsIn[s] = {} /\ WordsAtStart[s] = {}
    BY DEF PlainParts
  <2>3. QED
    BY <2>1, <2>2 DEF Found, FixedParts
<1>2. /\ t.query = "none" /\ Size(t) = 2 /\ ~InCollections(t)
      /\ t.path = <<"collections">>
  BY DEF Asked
<1>3. Documented("get_collections", ids) = Reach("get_collections", Args(0, ids))
  BY DEF Asked, Arity
<1>4. Args(0, ids) = <<>>
  BY DEF Args
<1>5. QED
  BY <1>1, <1>2, <1>3, <1>4 DEF do_GET, Derived

\* a collection,
LEMMA GetCollectionRouted ==
  ASSUME NEW ids, NEW t, 
         Asked("get_collection_id", ids, "none", t, 2, "health", "health", "health"),
         PlainParts(2, ids)
  PROVE  do_GET(t) = Documented("get_collection_id", ids)
<1>1. /\ ~Inside(t, "tgsequence") /\ ~Inside(t, "tproperties")
      /\ ~EndsWith(t, "tproperties") /\ ~Mentions(t, "tgsequence")
      /\ ~Inside(t, "items") /\ ~Opens(t, "items") /\ ~EndsWith(t, "export")
  <2>1. /\ Found(t, ids, 2, "health", "health", "health", "tgsequence")
        /\ Found(t, ids, 2, "health", "health", "health", "tproperties")
        /\ Found(t, ids, 2, "health", "health", "health", "items")
        /\ Found(t, ids, 2, "health", "health", "health", "export")
    BY FixedWords DEF Asked
  <2>2. \A s \in IdParts(2, ids) : WordsIn[s] = {} /\ WordsAtStart[s] = {}
    BY DEF PlainParts
  <2>3. QED
    BY <2>1, <2>2 DEF Found, FixedParts
<1>2. /\ t.query = "none" /\ Size(t) = 3 /\ InCollections(t)
      /\ t.path # <<"collections">>
  BY DEF Asked
<1>3. Documented("get_collection_id", ids) = Reach("get_collection_id", Args(1, ids))
  BY DEF Asked, Arity
<1>4. TakesLast(WithoutQuery(t), ids, "get_collection_id")
  <2>1. "get_collection_id" \in Endpoints
    BY EndpointNames
  <2>2. Taken(WithoutQuery(t), ids, 2, "none", "get_collection_id")
    BY <2>1 DEF Asked
  <2>3. QED
    BY <2>2 DEF Taken
<1>5. QED
  BY <1>1, <1>2, <1>3, <1>4 DEF do_GET, Derived, TakesLast

\* the export feed,
LEMMA GetExportRouted ==
  ASSUME NEW ids, NEW t, NEW query, 
         Asked("export_collection", ids, query, t, 3, "export", "health", "health"),
         PlainParts(3, ids)
  PROVE  do_GET(t) = Documented("export_collection", ids)
<1>1. /\ ~Inside(t, "tgsequence") /\ ~Inside(t, "tproperties")
      /\ ~EndsWith(t, "tproperties") /\ ~Mentions(t, "tgsequence")
      /\ ~Inside(t, "items") /\ ~Opens(t, "items") /\ EndsWith(t, "export")
  <2>1. /\ Found(t, ids, 3, "export", "health", "health", "tgsequence")
        /\ Found(t, ids, 3, "export", "health", "health", "tproperties")
        /\ Found(t, ids, 3, "export", "health", "health", "items")
        /\ Found(t, ids, 3, "export", "health", "health", "export")
    BY FixedWords DEF Asked
  <2>2. \A s \in IdParts(3, ids) : WordsIn[s] = {} /\ WordsAtStart[s] = {}
    BY DEF PlainParts
  <2>3. QED
    BY <2>1, <2>2 DEF Found, FixedParts
<1>2. /\ Size(t) >= 4 /\ InCollections(t)
      /\ t.path # <<"collections">>
  BY DEF Asked
<1>3. Documented("export_collection", ids) = Reach("export_collection", Args(1, ids))
  BY DEF Asked, Arity
<1>4. TakesOne(WithoutQuery(t), ids, "export_collection")
  <2>1. "export_collection" \in Endpoints
    BY EndpointNames
  <2>2. Taken(WithoutQuery(t), ids, 3, "none", "export_collection")
    BY <2>1 DEF Asked
  <2>3. QED
    BY <2>2 DEF Taken
<1>5. QED
  BY <1>1, <1>2, <1>3, <1>4 DEF do_GET, Derived, TakesOne

\* the listing of items,
LEMMA GetItemsRouted ==
  ASSUME NEW ids, NEW t, NEW query, 
         Asked("get_collection_items", ids, query, t, 3, "items", "health", "health"),
         PlainParts(3, ids)
  PROVE  do_GET(t) = Documented("get_collection_items", ids)
<1>1. /\ ~Inside(t, "tgsequence") /\ ~Inside(t, "tproperties")
      /\ ~EndsWith(t, "tproperties") /\ ~Mentions(t, "tgsequence")
      /\ ~Inside(t, "items") /\ Opens(t, "items")
  <2>1. /\ Found(t, ids, 3, "items", "health", "health", "tgsequence")
        /\ Found(t, ids, 3, "items", "health", "health", "tproperties")
        /\ Found(t, ids, 3, "items", "health", "health", "items")
    BY FixedWords DEF Asked
  <2>2. \A s \in IdParts(3, ids) : WordsIn[s] = {} /\ WordsAtStart[s] = {}
    BY DEF PlainParts
  <2>3. QED
    BY <2>1, <2>2 DEF Found, FixedParts
<1>2. /\ Size(t) >= 4 /\ InCollections(t)
      /\ t.path # <<"collections">>
  BY DEF Asked
<1>3. Documented("get_collection_items", ids) = Reach("get_collection_items", Args(1, ids))
  BY DEF Asked, Arity
<1>4. TakesOne(t, ids, "get_collection_items")
  <2>1. "get_collection_items" \in Endpoints
    BY EndpointNames
  <2>2. Taken(t, ids, 3, query, "get_collection_items")
    BY <2>1 DEF Asked
  <2>3. QED
    BY <2>2 DEF Taken
<1>5. QED
  BY <1>1, <1>2, <1>3, <1>4 DEF do_GET, Derived, TakesOne

\* a feature,
LEMMA GetFeatureRouted ==
  ASSUME NEW ids, NEW t, 
         Asked("get_movement_single_moving_feature", ids, "none", t, 4, "items", "health", "health"),
         PlainParts(4, ids)
  PROVE  do_GET(t) = Documented("get_movement_single_moving_feature", ids)
<1>1. /\ ~Inside(t, "tgsequence") /\ ~Inside(t, "tproperties")
      /\ ~EndsWith(t, "tproperties") /\ ~Mentions(t, "tgsequence")
      /\ Inside(t, "items")
  <2>1. /\ Found(t, ids, 4, "items", "health", "health", "tgsequence")
        /\ Found(t, ids, 4, "items", "health", "health", "tproperties")
        /\ Found(t, ids, 4, "items", "health", "health", "items")
    BY FixedWords DEF Asked
  <2>2. \A s \in IdParts(4, ids) : WordsIn[s] = {} /\ WordsAtStart[s] = {}
    BY DEF PlainParts
  <2>3. QED
    BY <2>1, <2>2 DEF Found, FixedParts
<1>2. /\ t.query = "none" /\ Size(t) = 5 /\ InCollections(t)
      /\ t.path # <<"collections">>
  BY DEF Asked
<1>3. Documented("get_movement_single_moving_feature", ids) = Reach("get_movement_single_moving_feature", Args(2, ids))
  BY DEF Asked, Arity
<1>4. TakesTwo(t, ids, "get_movement_single_moving_feature")
  <2>1. "get_movement_single_moving_feature" \in Endpoints
    BY EndpointNames
  <2>2. Taken(t, ids, 4, "none", "get_movement_single_moving_feature")
    BY <2>1 DEF Asked
  <2>3. QED
    BY <2>2 DEF Taken
<1>5. QED
  BY <1>1, <1>2, <1>3, <1>4 DEF do_GET, Derived, TakesTwo

\* its geometries,
LEMMA GetGeometriesRouted ==
  ASSUME NEW ids, NEW t, 
         Asked("get_tgsequence", ids, "none", t, 5, "items", "tgsequence", "health"),
         PlainParts(5, ids)
  PROVE  do_GET(t) = Documented("get_tgsequence", ids)
<1>1. /\ ~Inside(t, "tgsequence") /\ ~Inside(t, "tproperties")
      /\ ~EndsWith(t, "tproperties") /\ Mentions(t, "tgsequence")
  <2>1. /\ Found(t, ids, 5, "items", "tgsequence", "health", "tgsequence")
        /\ Found(t, ids, 5, "items", "tgsequence", "health", "tproperties")
    BY FixedWords DEF Asked
  <2>2. \A s \in IdParts(5, ids) : WordsIn[s] = {} /\ WordsAtStart[s] = {}
    BY DEF PlainParts
  <2>3. QED
    BY <2>1, <2>2 DEF Found, FixedParts
<1>2. /\ t.query = "none" /\ Size(t) = 6 /\ InCollections(t)
      /\ t.path # <<"collections">>
  BY DEF Asked
<1>3. Documented("get_tgsequence", ids) = Reach("get_tgsequence", Args(2, ids))
  BY DEF Asked, Arity
<1>4. TakesTwo(t, ids, "get_tgsequence")
  <2>1. "get_tgsequence" \in Endpoints
    BY EndpointNames
  <2>2. Taken(t, ids, 5, "none", "get_tgsequence")
    BY <2>1 DEF Asked
  <2>3. QED
    BY <2>2 DEF Taken
<1>5. QED
  BY <1>1, <1>2, <1>3, <1>4 DEF do_GET, Derived, TakesTwo

\* its properties,
LEMMA GetPropertiesRouted ==
  ASSUME NEW ids, NEW t, NEW query, 
         Asked("get_tproperties", ids, query, t, 5, "items", "tproperties", "health"),
         PlainParts(5, ids)
  PROVE  do_GET(t) = Documented("get_tproperties", ids)
<1>1. /\ ~Inside(t, "tgsequence") /\ ~Inside(t, "tproperties")
      /\ EndsWith(t, "tproperties")
  <2>1. /\ Found(t, ids, 5, "items", "tproperties", "health", "tgsequence")
        /\ Found(t, ids, 5, "items", "tproperties", "health", "tproperties")
    BY FixedWords DEF Asked
  <2>2. \A s \in IdParts(5, ids) : WordsIn[s] = {} /\ WordsAtStart[s] = {}
    BY DEF PlainParts
  <2>3. QED
    BY <2>1, <2>2 DEF Found, FixedParts
<1>2. /\ Size(t) >= 6 /\ InCollections(t)
      /\ t.path # <<"collections">>
  BY DEF Asked
<1>3. Documented("get_tproperties", ids) = Reach("get_tproperties", Args(2, ids))
  BY DEF Asked, Arity
<1>4. TakesTwo(WithoutQuery(t), ids, "get_tproperties")
  <2>1. "get_tproperties" \in Endpoints
    BY EndpointNames
  <2>2. Taken(WithoutQuery(t), ids, 5, "none", "get_tproperties")
    BY <2>1 DEF Asked
  <2>3. QED
    BY <2>2 DEF Taken
<1>5. QED
  BY <1>1, <1>2, <1>3, <1>4 DEF do_GET, Derived, TakesTwo

\* one of these,
LEMMA GetPropertyRouted ==
  ASSUME NEW ids, NEW t, NEW query, 
         Asked("get_temporal_property", ids, query, t, 6, "items", "tproperties", "health"),
         PlainParts(6, ids)
  PROVE  do_GET(t) = Documented("get_temporal_property", ids)
<1>1. /\ ~Inside(t, "tgsequence") /\ Inside(t, "tproperties")
  <2>1. /\ Found(t, ids, 6, "items", "tproperties", "health", "tgsequence")
        /\ Found(t, ids, 6, "items", "tproperties", "health", "tproperties")
    BY FixedWords DEF Asked
  <2>2. \A s \in IdParts(6, ids) : WordsIn[s] = {} /\ WordsAtStart[s] = {}
    BY DEF PlainParts
  <2>3. QED
    BY <2>1, <2>2 DEF Found, FixedParts
<1>2. /\ Size(t) >= 7 /\ InCollections(t)
      /\ t.path # <<"collections">>
  BY DEF Asked
<1>3. Documented("get_temporal_property", ids) = Reach("get_temporal_property", Args(3, ids))
  BY DEF Asked, Arity
<1>4. TakesThree(WithoutQuery(t), ids, "get_temporal_property")
  <2>1. "get_temporal_property" \in Endpoints
    BY EndpointNames
  <2>2. Taken(WithoutQuery(t), ids, 6, "none", "get_temporal_property")
    BY <2>1 DEF Asked
  <2>3. QED
    BY <2>2 DEF Taken
<1>5. QED
  BY <1>1, <1>2, <1>3, <1>4 DEF do_GET, Derived, TakesThree

\* the distance,
LEMMA GetDistanceRouted ==
  ASSUME NEW ids, NEW t, NEW query, 
         Asked("get_distance", ids, query, t, 7, "items", "tgsequence", "distance"),
         PlainParts(7, ids)
  PROVE  do_GET(t) = Documented("get_distance", ids)
<1>1. /\ Inside(t, "tgsequence") /\ Opens(t, "distance")
  <2>1. /\ Found(t, ids, 7, "items", "tgsequence", "distance", "tgsequence")
        /\ Found(t, ids, 7, "items", "tgsequence", "distance", "distance")
    BY FixedWords DEF Asked
  <2>2. \A s \in IdParts(7, ids) : WordsIn[s] = {} /\ WordsAtStart[s] = {}
    BY DEF PlainParts
  <2>3. QED
    BY <2>1, <2>2 DEF Found, FixedParts
<1>2. /\ Size(t) >= 7 /\ InCollections(t)
      /\ t.path # <<"collections">>
  BY DEF Asked
<1>3. Documented("get_distance", ids) = Reach("get_distance", Args(3, ids))
  BY DEF Asked, Arity
<1>4. TakesThree(t, ids, "get_distance")
  <2>1. "get_distance" \in Endpoints
    BY EndpointNames
  <2>2. Taken(t, ids, 7, query, "get_distance")
    BY <2>1 DEF Asked
  <2>3. QED
    BY <2>2 DEF Taken
<1>5. Derived(t, "distance")
  BY <1>1 DEF Derived
<1>6. QED
  BY <1>2, <1>3, <1>4, <1>5, Zenon DEF do_GET, TakesThree

\* the velocity
LEMMA GetVelocityRouted ==
  ASSUME NEW ids, NEW t, NEW query, 
         Asked("get_velocity", ids, query, t, 7, "items", "tgsequence", "velocity"),
         PlainParts(7, ids)
  PROVE  do_GET(t) = Documented("get_velocity", ids)
<1>1. /\ Inside(t, "tgsequence") /\ ~Opens(t, "distance")
      /\ Opens(t, "velocity")
  <2>1. /\ Found(t, ids, 7, "items", "tgsequence", "velocity", "tgsequence")
        /\ Found(t, ids, 7, "items", "tgsequence", "velocity", "distance")
        /\ Found(t, ids, 7, "items", "tgsequence", "velocity", "velocity")
    BY FixedWords DEF Asked
  <2>2. \A s \in IdParts(7, ids) : WordsIn[s] = {} /\ WordsAtStart[s] = {}
    BY DEF PlainParts
  <2>3. QED
    BY <2>1, <2>2 DEF Found, FixedParts
<1>2. /\ Size(t) >= 7 /\ InCollections(t)
      /\ t.path # <<"collections">>
  BY DEF Asked
<1>3. Documented("get_velocity", ids) = Reach("get_velocity", Args(3, ids))
  BY DEF Asked, Arity
<1>4. TakesThree(t, ids, "get_velocity")
  <2>1. "get_velocity" \in Endpoints
    BY EndpointNames
  <2>2. Taken(t, ids, 7, query, "get_velocity")
    BY <2>1 DEF Asked
  <2>3. QED
    BY <2>2 DEF Taken
<1>5. ~Derived(t, "distance") /\ Derived(t, "velocity")
  BY <1>1 DEF Derived
<1>6. QED
  BY <1>2, <1>3, <1>4, <1>5, Zenon DEF do_GET, TakesThree

\* and the acceleration of a geometry.
LEMMA GetAccelerationRouted ==
  ASSUME NEW ids, NEW t, NEW query, 
         Asked("get_acceleration", ids, query, t, 7, "items", "tgsequence", "acceleration"),
         PlainParts(7, ids)
  PROVE  do_GET(t) = Documented("get_acceleration", ids)
<1>1. /\ Inside(t, "tgsequence") /\ ~Opens(t, "distance")
      /\ ~Opens(t, "velocity") /\ Opens(t, "acceleration")
  <2>1. /\ Found(t, ids, 7, "items", "tgsequence", "acceleration", "tgsequence")
        /\ Found(t, ids, 7, "items", "tgsequence", "acceleration", "distance")
        /\ Found(t, ids, 7, "items", "tgsequence", "acceleration", "velocity")
        /\ Found(t, ids, 7, "items", "tgsequence", "acceleration", "acceleration")
    BY FixedWords DEF Asked
  <2>2. \A s \in IdParts(7, ids) : WordsIn[s] = {} /\ WordsAtStart[s] = {}
    BY DEF PlainParts
  <2>3. QED
    BY <2>1, <2>2 DEF Found, FixedParts
<1>2. /\ Size(t) >= 7 /\ InCollections(t)
      /\ t.path # <<"collections">>
  BY DEF Asked
<1>3. Documented("get_acceleration", ids) = Reach("get_acceleration", Args(3, ids))
  BY DEF Asked, Arity
<1>4. TakesThree(t, ids, "get_acceleration")
  <2>1. "get_acceleration" \in Endpoints
    BY EndpointNames
  <2>2. Taken(t, ids, 7, query, "get_acceleration")
    BY <2>1 DEF Asked
  <2>3. QED
    BY <2>2 DEF Taken
<1>5. ~Derived(t, "distance") /\ ~Derived(t, "velocity") /\ Derived(t, "acceleration")
  BY <1>1 DEF Derived
<1>6. QED
  BY <1>2, <1>3, <1>4, <1>5, Zenon DEF do_GET, TakesThree

-----------------------------------------------------------------------------
(* All documented requests.                                                *)

\* Names that hold no word are plain parts of the path.
HoldNoWord(means) == \A n \in DOMAIN means.args : WordsIn[means.args[n].text] = {}

\* The names of a request are the identifiers in its path.
LEMMA NamesArePlain ==
  ASSUME NEW h, NEW ids \in Ids, NEW n, NEW w3, NEW w5, NEW w7, Fits(h, n, w3, w5, w7),
         HoldNoWord(Documented(h, ids))
  PROVE  PlainParts(n, ids)
<1>1. Documented(h, ids).args = Args(Arity(n), ids)
  BY DocumentedArgs DEF Reach
<1>2. \A k \in 1..Arity(n) : WordsIn[<<ids.c, ids.f, ids.x>>[k]] = {}
  BY <1>1 DEF HoldNoWord, Args, Plain
<1>3. n \in 1..7
  BY DEF Fits
<1>4. /\ n >= 2 => 1 \in 1..Arity(n)
      /\ n >= 4 => 2 \in 1..Arity(n)
      /\ n >= 6 => 3 \in 1..Arity(n)
  BY <1>3 DEF Arity
<1>5. \A s \in IdParts(n, ids) : WordsIn[s] = {}
  BY <1>2, <1>4 DEF IdParts
<1>6. \A s \in IdParts(n, ids) : s \in Segments
  BY IdsType DEF IdParts
<1>7. QED
  BY <1>5, <1>6, SegmentsAssumption DEF PlainParts

\* The method of a request line is that of its endpoint.
LEMMA RequestMethod ==
  ASSUME NEW h, NEW ids, NEW query
  PROVE  Request(h, ids, query).method = Routes[h].method
  BY DEF Request

\* Of the writing requests.
LEMMA WritesRouted ==
  ASSUME NEW h \in Endpoints, Routes[h].method # "GET", NEW ids \in Ids,
         NEW line, line = Request(h, ids, "none"),
         NEW got, got = Dispatch(line.method, line.target)
  PROVE  \/ got = Documented(h, ids)
         \/ /\ ~HoldNoWord(Documented(h, ids))
            /\ \/ got.handler \notin Endpoints
               \/ /\ h = "delete_temporal_property"
                  /\ got = Diverted(Documented(h, ids))
<1> DEFINE t == line.target
<1>1. "none" \in Queries
  BY DEF Queries
<1>2. h \in {"post_collections", "post_bulk", "post_collection_items", "post_tgsequence",
             "post_tproperties", "post_temporal_property", "delete_collection",
             "delete_single_moving_feature", "delete_single_temporal_primitive_geo",
             "delete_temporal_property", "put_collection", "put_single_moving_feature"}
  BY EndpointNames, Fittings
<1>3. CASE h = "post_collections"
  <2>1. Routes[h].method = "POST" /\ Fits(h, 1, "health", "health", "health")
    BY <1>3, Fittings
  <2>2. /\ Asked(h, ids, "none", t, 1, "health", "health", "health")
        /\ HoldNoWord(Documented(h, ids)) => PlainParts(1, ids)
    BY <1>1, <2>1, RequestAsked, NamesArePlain
  <2>3. got = do_POST(t)
    BY <2>1, RequestMethod DEF Dispatch
  <2>4. QED
    BY <1>3, <2>2, <2>3, PostCollectionsRouted
<1>4. CASE h = "post_bulk"
  <2>1. Routes[h].method = "POST" /\ Fits(h, 3, "bulk", "health", "health")
    BY <1>4, Fittings
  <2>2. /\ Asked(h, ids, "none", t, 3, "bulk", "health", "health")
        /\ HoldNoWord(Documented(h, ids)) => PlainParts(3, ids)
    BY <1>1, <2>1, RequestAsked, NamesArePlain
  <2>3. got = do_POST(t)
    BY <2>1, RequestMethod DEF Dispatch
  <2>4. QED
    BY <1>4, <2>2, <2>3, PostBulkRouted
<1>5. CASE h = "post_collection_items"
  <2>1. Routes[h].method = "POST" /\ Fits(h, 3, "items", "health", "health")
    BY <1>5, Fittings
  <2>2. /\ Asked(h, ids, "none", t, 3, "items", "health", "health")
        /\ HoldNoWord(Documented(h, ids)) => PlainParts(3, ids)
    BY <1>1, <2>1, RequestAsked, NamesArePlain
  <2>3. got = do_POST(t)
    BY <2>1, RequestMethod DEF Dispatch
  <2>4. QED
    BY <1>5, <2>2, <2>3, PostFeaturesRouted
<1>6. CASE h = "post_tgsequence"
  <2>1. Routes[h].method = "POST" /\ Fits(h, 5, "items", "tgsequence", "health")
    BY <1>6, Fittings
  <2>2. /\ Asked(h, ids, "none", t, 5, "items", "tgsequence", "health")
        /\ HoldNoWord(Documented(h, ids)) => PlainParts(5, ids)
    BY <1>1, <2>1, RequestAsked, NamesArePlain
  <2>3. got = do_POST(t)
    BY <2>1, RequestMethod DEF Dispatch
  <2>4. QED
    BY <1>6, <2>2, <2>3, PostGeometryRouted
<1>7. CASE h = "post_tproperties"
  <2>1. Routes[h].method = "POST" /\ Fits(h, 5, "items", "tproperties", "health")
    BY <1>7, Fittings
  <2>2. /\ Asked(h, ids, "none", t, 5, "items", "tproperties", "health")
        /\ HoldNoWord(Documented(h, ids)) => PlainParts(5, ids)
    BY <1>1, <2>1, RequestAsked, NamesArePlain
  <2>3. got = do_POST(t)
    BY <2>1, RequestMethod DEF Dispatch
  <2>4. QED
    BY <1>7, <2>2, <2>3, PostPropertiesRouted
<1>8. CASE h = "post_temporal_property"
  <2>1. Routes[h].method = "POST" /\ Fits(h, 6, "items", "tproperties", "health")
    BY <1>8, Fittings
  <2>2. /\ Asked(h, ids, "none", t, 6, "items", "tproperties", "health")
        /\ HoldNoWord(Documented(h, ids)) => PlainParts(6, ids)
    BY <1>1, <2>1, RequestAsked, NamesArePlain
  <2>3. got = do_POST(t)
    BY <2>1, RequestMethod DEF Dispatch
  <2>4. QED
    BY <1>8, <2>2, <2>3, PostValuesRouted
<1>9. CASE h = "delete_collection"
  <2>1. Routes[h].method = "DELETE" /\ Fits(h, 2, "health", "health", "health")
    BY <1>9, Fittings
  <2>2. /\ Asked(h, ids, "none", t, 2, "health", "health", "health")
        /\ HoldNoWord(Documented(h, ids)) => PlainParts(2, ids)
    BY <1>1, <2>1, RequestAsked, NamesArePlain
  <2>3. got = do_DELETE(t)
    BY <2>1, RequestMethod DEF Dispatch
  <2>4. QED
    BY <1>9, <2>2, <2>3, DeleteCollectionRouted
<1>10. CASE h = "delete_single_moving_feature"
  <2>1. Routes[h].method = "DELETE" /\ Fits(h, 4, "items", "health", "health")
    BY <1>10, Fittings
  <2>2. /\ Asked(h, ids, "none", t, 4, "items", "health", "health")
        /\ HoldNoWord(Documented(h, ids)) => PlainParts(4, ids)
    BY <1>1, <2>1, RequestAsked, NamesArePlain
  <2>3. got = do_DELETE(t)
    BY <2>1, RequestMethod DEF Dispatch
  <2>4. QED
    BY <1>10, <2>2, <2>3, DeleteFeatureRouted
<1>11. CASE h = "delete_single_temporal_primitive_geo"
  <2>1. Routes[h].method = "DELETE" /\ Fits(h, 6, "items", "tgsequence", "health")
    BY <1>11, Fittings
  <2>2. /\ Asked(h, ids, "none", t, 6, "items", "tgsequence", "health")
        /\ HoldNoWord(Documented(h, ids)) => PlainParts(6, ids)
    BY <1>1, <2>1, RequestAsked, NamesArePlain
  <2>3. got = do_DELETE(t)
    BY <2>1, RequestMethod DEF Dispatch
  <2>4. QED
    BY <1>11, <2>2, <2>3, DeleteGeometryRouted
<1>12. CASE h = "delete_temporal_property"
  <2>1. Routes[h].method = "DELETE" /\ Fits(h, 6, "items", "tproperties", "health")
    BY <1>12, Fittings
  <2>2. /\ Asked(h, ids, "none", t, 6, "items", "tproperties", "health")
        /\ HoldNoWord(Documented(h, ids)) => PlainParts(6, ids)
    BY <1>1, <2>1, RequestAsked, NamesArePlain
  <2>3. got = do_DELETE(t)
    BY <2>1, RequestMethod DEF Dispatch
  <2>4. QED
    BY <1>12, <2>2, <2>3, DeletePropertyRouted
<1>13. CASE h = "put_collection"
  <2>1. Routes[h].method = "PUT" /\ Fits(h, 2, "health", "health", "health")
    BY <1>13, Fittings
  <2>2. /\ Asked(h, ids, "none", t, 2, "health", "health", "health")
        /\ HoldNoWord(Documented(h, ids)) => PlainParts(2, ids)
    BY <1>1, <2>1, RequestAsked, NamesArePlain
  <2>3. got = do_PUT(t)
    BY <2>1, RequestMethod DEF Dispatch
  <2>4. QED
    BY <1>13, <2>2, <2>3, PutCollectionRouted
<1>14. CASE h = "put_single_moving_feature"
  <2>1. Routes[h].method = "PUT" /\ Fits(h, 4, "items", "health", "health")
    BY <1>14, Fittings
  <2>2. /\ Asked(h, ids, "none", t, 4, "items", "health", "health")
        /\ HoldNoWord(Documented(h, ids)) => PlainParts(4, ids)
    BY <1>1, <2>1, RequestAsked, NamesArePlain
  <2>3. got = do_PUT(t)
    BY <2>1, RequestMethod DEF Dispatch
  <2>4. QED
    BY <1>14, <2>2, <2>3, PutFeatureRouted
<1>15. QED
  BY <1>2, <1>3, <1>4, <1>5, <1>6, <1>7, <1>8, <1>9, <1>10, <1>11, <1>12, <1>13, <1>14

\* Of the reading requests.
LEMMA ReadsRouted ==
  ASSUME NEW h \in Endpoints, Routes[h].method = "GET", NEW ids \in Ids,
         NEW query \in Queries, query = "none" \/ h \in Querying,
         NEW line, line = Request(h, ids, query),
         NEW got, got = Dispatch(line.method, line.target),
         HoldNoWord(Documented(h, ids))
  PROVE  got = Documented(h, ids)
<1> DEFINE t == line.target
<1>1. got = do_GET(t)
  BY RequestMethod DEF Dispatch
<1>2. h \in {"get_collections", "get_collection_id", "export_collection",
             "get_collection_items", "get_movement_single_moving_feature", "get_tgsequence",
             "get_tproperties", "get_temporal_property", "get_distance", "get_velocity",
             "get_acceleration"}
  BY EndpointNames, Fittings
<1>3. CASE h = "get_collections"
  <2>1. Fits(h, 1, "health", "health", "health")
    BY <1>3, Fittings
  <2>2. Asked(h, ids, "none", t, 1, "health", "health", "health") /\ PlainParts(1, ids)
    <3>1. query = "none"
      BY <1>3 DEF Querying
    <3>2. QED
      BY <2>1, <3>1, RequestAsked, NamesArePlain
  <2>3. QED
    BY <1>1, <1>3, <2>2, GetCollectionsRouted
<1>4. CASE h = "get_collection_id"
  <2>1. Fits(h, 2, "health", "health", "health")
    BY <1>4, Fittings
  <2>2. Asked(h, ids, "none", t, 2, "health", "health", "health") /\ PlainParts(2, ids)
    <3>1. query = "none"
      BY <1>4 DEF Querying
    <3>2. QED
      BY <2>1, <3>1, RequestAsked, NamesArePlain
  <2>3. QED
    BY <1>1, <1>4, <2>2, GetCollectionRouted
<1>5. CASE h = "export_collection"
  <2>1. Fits(h, 3, "export", "health", "health")
    BY <1>5, Fittings
  <2>2. Asked(h, ids, query, t, 3, "export", "health", "health") /\ PlainParts(3, ids)
    BY <2>1, RequestAsked, NamesArePlain
  <2>3. QED
    BY <1>1, <1>5, <2>2, GetExportRouted
<1>6. CASE h = "get_collection_items"
  <2>1. Fits(h, 3, "items", "health", "health")
    BY <1>6, Fittings
  <2>2. Asked(h, ids, query, t, 3, "items", "health", "health") /\ PlainParts(3, ids)
    BY <2>1, RequestAsked, NamesArePlain
  <2>3. QED
    BY <1>1, <1>6, <2>2, GetItemsRouted
<1>7. CASE h = "get_movement_single_moving_feature"
  <2>1. Fits(h, 4, "items", "health", "health")
    BY <1>7, Fittings
  <2>2. Asked(h, ids, "none", t, 4, "items", "health", "health") /\ PlainParts(4, ids)
    <3>1. query = "none"
      BY <1>7 DEF Querying
    <3>2. QED
      BY <2>1, <3>1, RequestAsked, NamesArePlain
  <2>3. QED
    BY <1>1, <1>7, <2>2, GetFeatureRouted
<1>8. CASE h = "get_tgsequence"
  <2>1. Fits(h, 5, "items", "tgsequence", "health")
    BY <1>8, Fittings
  <2>2. Asked(h, ids, "none", t, 5, "items", "tgsequence", "health") /\ PlainParts(5, ids)
    <3>1. query = "none"
      BY <1>8 DEF Querying
    <3>2. QED
      BY <2>1, <3>1, RequestAsked, NamesArePlain
  <2>3. QED
    BY <1>1, <1>8, <2>2, GetGeometriesRouted
<1>9. CASE h = "get_tproperties"
  <2>1. Fits(h, 5, "items", "tproperties", "health")
    BY <1>9, Fittings
  <2>2. Asked(h, ids, query, t, 5, "items", "tproperties", "health") /\ PlainParts(5, ids)
    BY <2>1, RequestAsked, NamesArePlain
  <2>3. QED
    BY <1>1, <1>9, <2>2, GetPropertiesRouted
<1>10. CASE h = "get_temporal_property"
  <2>1. Fits(h, 6, "items", "tproperties", "health")
    BY <1>10, Fittings
  <2>2. Asked(h, ids, query, t, 6, "items", "tproperties", "health") /\ PlainParts(6, ids)
    BY <2>1, RequestAsked, NamesArePlain
  <2>3. QED
    BY <1>1, <1>10, <2>2, GetPropertyRouted
<1>11. CASE h = "get_distance"
  <2>1. Fits(h, 7, "items", "tgsequence", "distance")
    BY <1>11, Fittings
  <2>2. Asked(h, ids, query, t, 7, "items", "tgsequence", "distance") /\ PlainParts(7, ids)
    BY <2>1, RequestAsked, NamesArePlain
  <2>3. QED
    BY <1>1, <1>11, <2>2, GetDistanceRouted
<1>12. CASE h = "get_velocity"
  <2>1. Fits(h, 7, "items", "tgsequence", "velocity")
    BY <1>12, Fittings
  <2>2. Asked(h, ids, query, t, 7, "items", "tgsequence", "velocity") /\ PlainParts(7, ids)
    BY <2>1, RequestAsked, NamesArePlain
  <2>3. QED
    BY <1>1, <1>12, <2>2, GetVelocityRouted
<1>13. CASE h = "get_acceleration"
  <2>1. Fits(h, 7, "items", "tgsequence", "acceleration")
    BY <1>13, Fittings
  <2>2. Asked(h, ids, query, t, 7, "items", "tgsequence", "acceleration") /\ PlainParts(7, ids)
    BY <2>1, RequestAsked, NamesArePlain
  <2>3. QED
    BY <1>1, <1>13, <2>2, GetAccelerationRouted
<1>14. QED
  BY <1>2, <1>3, <1>4, <1>5, <1>6, <1>7, <1>8, <1>9, <1>10, <1>11, <1>12, <1>13

\* No GET reaches a handler that writes,
LEMMA GetsReachReads ==
  ASSUME NEW t, NEW handler, handler = do_GET(t).handler, handler \in Endpoints
  PROVE  Routes[handler].method = "GET"
<1> DEFINE Reads == {"get_distance", "get_velocity", "get_acceleration", "get_temporal_property",
                     "get_tproperties", "get_tgsequence", "get_movement_single_moving_feature",
                     "get_collection_items", "get_collections", "export_collection",
                     "get_collection_id", "health", "conformance", "api", "home", "no answer",
                     "error 500"}
<1>1. handler \in Reads
  <2>1. /\ "get_distance" \in Reads /\ "get_velocity" \in Reads /\ "get_acceleration" \in Reads
        /\ "get_temporal_property" \in Reads /\ "get_tproperties" \in Reads
        /\ "get_tgsequence" \in Reads /\ "get_movement_single_moving_feature" \in Reads
        /\ "get_collection_items" \in Reads /\ "get_collections" \in Reads
        /\ "export_collection" \in Reads /\ "get_collection_id" \in Reads /\ "home" \in Reads
        /\ {"health", "conformance", "api"} \subseteq Reads
        /\ "no answer" \in Reads /\ "error 500" \in Reads
    OBVIOUS
  <2> HIDE DEF Reads
  <2>2. \A args : \A h \in Reads : Reach(h, args).handler \in Reads
    BY DEF Reach
  <2>3. NoAnswer.handler \in Reads
    BY <2>1, <2>2 DEF NoAnswer
  <2>4. \A u, places : \A h \in Reads : Take(h, u, places).handler \in Reads
    BY <2>2, <2>3, Zenon DEF Take
  <2>5. \A u, places : \A h \in Reads : TakeInTry(h, u, places).handler \in Reads
    BY <2>1, <2>2, <2>4, Zenon DEF TakeInTry
  <2>6. QED
    BY <2>1, <2>2, <2>3, <2>4, <2>5, ZenonT(60) DEF do_GET
<1>2. /\ "health" \notin Endpoints /\ "conformance" \notin Endpoints /\ "api" \notin Endpoints
      /\ "home" \notin Endpoints
  BY DEF Endpoints, Routes
<1>3. QED
  BY <1>1, <1>2, NoEndpoint, Fittings

\* and only a GET reaches the listing.
LEMMA OthersReachNoListing ==
  ASSUME NEW t
  PROVE  /\ do_POST(t).handler # "get_collection_items"
         /\ do_DELETE(t).handler # "get_collection_items"
         /\ do_PUT(t).handler # "get_collection_items"
<1>1. \A h, places : Take(h, t, places).handler \in {h, "no answer"}
  BY DEF Take, Reach, NoAnswer
<1>2. \A h, places : TakeInTry(h, t, places).handler \in {h, "no answer", "error 500"}
  BY <1>1 DEF TakeInTry, Reach
<1>3. NoAnswer.handler = "no answer" /\ \A h, args : Reach(h, args).handler = h
  BY DEF Reach, NoAnswer
<1>4. do_POST(t).handler # "get_collection_items"
  BY <1>1, <1>2, <1>3 DEF do_POST
<1>5. do_DELETE(t).handler # "get_collection_items"
  BY <1>1, <1>3 DEF do_DELETE
<1>6. do_PUT(t).handler # "get_collection_items"
  BY <1>1, <1>3 DEF do_PUT
<1>7. QED
  BY <1>4, <1>5, <1>6

-----------------------------------------------------------------------------
(* In every reachable state the request being served is a documented one,  *)
(* perhaps with the query string of a next link.  A link can only be       *)
(* followed from a listing; under names that hold words a listing can be   *)
(* reached by other GET requests, and these then carry a query string.     *)

\* The request line asks for this endpoint and these identifiers.
AsksFor(line, h, ids, query) ==
  /\ line.line = Request(h, ids, query) /\ line.handler = h
  /\ line.means = Documented(h, ids)
  /\ line = [handler |-> line.handler, line |-> line.line, search |-> line.search,
             means |-> line.means]
  /\ query = "none" \/ h \in Querying
       \/ (Routes[h].method = "GET" /\ ~HoldNoWord(Documented(h, ids)))

AskedInv ==
  /\ Serving => \E h \in Endpoints, ids \in Ids, query \in Queries :
                  /\ AsksFor(asked, h, ids, query)
                  /\ reached = Dispatch(asked.line.method, asked.line.target)
  /\ page.next.follow => Serving /\ reached.handler = "get_collection_items"

\* Clients send documented requests.
LEMMA LinesAsk ==
  ASSUME NEW line \in Lines
  PROVE  \E h \in Endpoints, ids \in Ids, query \in Queries : AsksFor(line, h, ids, query)
<1>1. "get_collection_items" \in Endpoints /\ Querying \subseteq Endpoints
  BY EndpointNames DEF Querying
<1>2. ASSUME NEW h \in Endpoints, NEW ids \in Ids, NEW query \in Queries, NEW q,
             line = Line(h, ids, query, q), query = "none" \/ h \in Querying
      PROVE  AsksFor(line, h, ids, query)
  BY <1>2 DEF Line, AsksFor
<1>3. \A q : QueryOf(q) \in Queries
  BY DEF QueryOf, Queries
<1>4. "none" \in Queries /\ "get_collection_items" \in Querying
  BY DEF Queries, Querying
<1>5. CASE \E ids \in Ids, q \in Searches : line = Line("get_collection_items", ids, QueryOf(q), q)
  BY <1>1, <1>2, <1>3, <1>4, <1>5
<1>6. CASE \E h \in Endpoints, ids \in Ids : line = Line(h, ids, "none", AllItems)
  BY <1>2, <1>4, <1>6
<1>7. CASE \E h \in Querying \ {"get_collection_items"}, ids \in Ids, query \in Queries :
             line = Line(h, ids, query, AllItems)
  BY <1>1, <1>2, <1>7
<1>8. QED
  BY <1>5, <1>6, <1>7 DEF Lines

\* Only a listing has a link to follow.
LEMMA LinksOfListings ==
  ASSUME NEW line, Send(line)
  PROVE  /\ asked' = line /\ reached' = Dispatch(line.line.method, line.line.target)
         /\ page'.next.follow => reached'.handler = "get_collection_items"
<1>1. NoAnswerYet.next.follow = FALSE
  BY DEF NoAnswerYet, Error, Listed, NoLink
<1>2. \A d, c, format : \A answer \in export_collection(d, c, format) : answer.next.follow = FALSE
  <2>1. \A parts : Feed(parts).next.follow = FALSE
    BY DEF Feed, NoLink
  <2>2. Error(404).next.follow = FALSE
    BY DEF Error, Listed, NoLink
  <2>3. QED
    BY <1>1, <2>1, <2>2, ZenonT(60) DEF export_collection
<1>3. QED
  BY <1>1, <1>2 DEF Send

\* What is known of a request that is served.
LEMMA ServedRequests ==
  ASSUME NEW line, NEW h \in Endpoints, NEW ids \in Ids, NEW query \in Queries,
         AsksFor(line, h, ids, query),
         NEW got, got = Dispatch(line.line.method, line.line.target)
  PROVE  /\ HoldNoWord(Documented(h, ids)) => got = Documented(h, ids)
         /\ got.handler = "get_collection_items" => Routes[h].method = "GET"
<1>1. Routes[h].method \in {"GET", "POST", "DELETE", "PUT"}
  BY EndpointNames, Fittings
<1>2. /\ line.line = Request(h, ids, query) /\ line.line.method = Routes[h].method
      /\ query = "none" \/ h \in Querying
           \/ (Routes[h].method = "GET" /\ ~HoldNoWord(Documented(h, ids)))
  BY RequestMethod DEF AsksFor
<1>3. \A e \in Querying : Routes[e].method = "GET"
  BY Fittings DEF Querying
<1>4. CASE Routes[h].method = "GET"
  <2>1. got = do_GET(line.line.target)
    BY <1>2, <1>4 DEF Dispatch
  <2>2. HoldNoWord(Documented(h, ids)) => got = Documented(h, ids)
    BY <1>2, <1>4, <2>1, ReadsRouted
  <2>3. QED
    BY <1>4, <2>2
<1>5. CASE Routes[h].method # "GET"
  <2>1. query = "none"
    BY <1>2, <1>3, <1>5
  <2>2. \/ got = Documented(h, ids)
        \/ /\ ~HoldNoWord(Documented(h, ids))
           /\ \/ got.handler \notin Endpoints
              \/ /\ h = "delete_temporal_property"
                 /\ got = Diverted(Documented(h, ids))
    BY <1>2, <1>5, <2>1, WritesRouted
  <2>3. got \in {do_POST(line.line.target), do_DELETE(line.line.target), do_PUT(line.line.target)}
    BY <1>1, <1>2, <1>5 DEF Dispatch
  <2>4. got.handler # "get_collection_items"
    BY <2>3, OthersReachNoListing
  <2>5. QED
    BY <2>2, <2>4
<1>6. QED
  BY <1>4, <1>5

\* A request that reaches a handler that writes is the documented one for it, or
\* the exception.
LEMMA ServedWrites ==
  ASSUME NEW line, NEW h \in Endpoints, NEW ids \in Ids, NEW query \in Queries,
         AsksFor(line, h, ids, query),
         NEW got, got = Dispatch(line.line.method, line.line.target),
         got.handler \in Endpoints, Routes[got.handler].method # "GET"
  PROVE  \/ got = Documented(h, ids)
         \/ /\ h = "delete_temporal_property"
            /\ got = Diverted(Documented(h, ids))
<1>1. Routes[h].method \in {"GET", "POST", "DELETE", "PUT"}
  BY EndpointNames, Fittings
<1>2. /\ line.line = Request(h, ids, query) /\ line.line.method = Routes[h].method
      /\ query = "none" \/ h \in Querying \/ Routes[h].method = "GET"
  BY RequestMethod DEF AsksFor
<1>3. Routes[h].method # "GET"
  <2>1. SUFFICES ASSUME Routes[h].method = "GET" PROVE FALSE
    OBVIOUS
  <2>2. got = do_GET(line.line.target)
    BY <1>2, <2>1 DEF Dispatch
  <2>3. QED
    BY <2>2, GetsReachReads
<1>4. \A e \in Querying : Routes[e].method = "GET"
  BY Fittings DEF Querying
<1>5. query = "none"
  BY <1>2, <1>3, <1>4
<1>6. QED
  BY <1>2, <1>3, <1>5, WritesRouted

\* Following a link asks for the same again, with a query string.
LEMMA LinkAsks ==
  ASSUME AskedInv, page.next.follow, NEW q, NEW x \in {"plain", "slash"},
         NEW line, line = [asked EXCEPT !.search = q, !.line.target.query = x]
  PROVE  \E h \in Endpoints, ids \in Ids, query \in Queries : AsksFor(line, h, ids, query)
<1>1. PICK h \in Endpoints, ids \in Ids, query \in Queries :
        AsksFor(asked, h, ids, query) /\ reached = Dispatch(asked.line.method, asked.line.target)
  BY DEF AskedInv
<1>2. reached.handler = "get_collection_items"
  BY DEF AskedInv
<1>3. Routes[h].method = "GET"
  BY <1>1, <1>2, ServedRequests
<1>4. \/ h \in Querying
      \/ Routes[h].method = "GET" /\ ~HoldNoWord(Documented(h, ids))
  <2>1. CASE HoldNoWord(Documented(h, ids))
    <3>1. reached = Documented(h, ids)
      BY <1>1, <2>1, ServedRequests
    <3>2. h = "get_collection_items"
      BY <1>2, <3>1 DEF Documented, Reach
    <3>3. QED
      BY <3>2 DEF Querying
  <2>2. QED
    BY <1>3, <2>1
<1>5. /\ line.line = [asked.line EXCEPT !.target.query = x]
      /\ line.handler = asked.handler /\ line.means = asked.means
      /\ line = [handler |-> line.handler, line |-> line.line, search |-> line.search,
                 means |-> line.means]
  BY <1>1 DEF AsksFor
<1>6. [Request(h, ids, query) EXCEPT !.target.query = x] = Request(h, ids, x)
  <2>1. PICK path : \A any : Request(h, ids, any) =
          [method |-> Routes[h].method, target |-> [path |-> path, query |-> any]]
    <3>1. \A any : Request(h, ids, any) =
            [method |-> Routes[h].method,
             target |-> [path |-> Beginning(ids, Routes[h].depth) \o Filled(Routes[h].rest, ids.x),
                         query |-> any]]
      BY DEF Request, Beginning, Filled
    <3>2. QED
      BY <3>1
  <2>2. QED
    BY <2>1
<1>7. x \in Queries
  BY DEF Queries
<1>8. AsksFor(line, h, ids, x)
  BY <1>1, <1>4, <1>5, <1>6 DEF AsksFor
<1>9. QED
  BY <1>7, <1>8

\* The invariant is one.
LEMMA AskedAlways == Spec => []AskedInv
<1>1. Init => AskedInv
  BY DEF Init, AskedInv, Serving, NoAnswerYet, Error, Listed, NoLink
<1>2. AskedInv /\ [Next]_vars => AskedInv'
  <2> SUFFICES ASSUME AskedInv, [Next]_vars PROVE AskedInv'
    OBVIOUS
  <2>1. ASSUME NEW line, Send(line),
               \E h \in Endpoints, ids \in Ids, query \in Queries : AsksFor(line, h, ids, query)
        PROVE  AskedInv'
    <3>1. /\ asked' = line /\ reached' = Dispatch(line.line.method, line.line.target)
          /\ page'.next.follow => reached'.handler = "get_collection_items"
      BY <2>1, LinksOfListings
    <3>2. PICK h \in Endpoints, ids \in Ids, query \in Queries : AsksFor(line, h, ids, query)
      BY <2>1
    <3>3. h # "none"
      BY EndpointNames
    <3>4. asked' # NothingAsked
      BY <3>1, <3>2, <3>3 DEF AsksFor, NothingAsked
    <3>5. QED
      BY <3>1, <3>2, <3>4 DEF AskedInv, Serving
  <2>2. CASE Change
    BY <2>2 DEF Change, PostFeature, LoadBatch, PostGeometry, RemoveFeature, Transaction,
                AskedInv, Serving
  <2>3. CASE Ask
    <3>1. PICK line \in Lines : Send(line)
      BY <2>3 DEF Ask
    <3>2. QED
      BY <2>1, <3>1, LinesAsk
  <2>4. CASE Follow
    <3> DEFINE q == page.next.search
               x == IF q.to = NoTime THEN "plain" ELSE "slash"
               line == [asked EXCEPT !.search = q, !.line.target.query = x]
    <3>1. page.next.follow /\ Send(line)
      BY <2>4 DEF Follow
    <3>2. x \in {"plain", "slash"}
      OBVIOUS
    <3> HIDE DEF q, x
    <3>3. \E h \in Endpoints, ids \in Ids, query \in Queries : AsksFor(line, h, ids, query)
      BY <3>1, <3>2, LinkAsks
    <3> HIDE DEF line
    <3>4. QED
      BY <2>1, <3>1, <3>3
  <2>5. CASE Read
    BY <2>5 DEF Read, AskedInv, Serving, NoAnswerYet, Error, Listed, NoLink
  <2>6. CASE UNCHANGED vars
    BY <2>6 DEF vars, AskedInv, Serving
  <2>7. QED
    BY <2>2, <2>3, <2>4, <2>5, <2>6 DEF Next
<1>3. QED
  BY <1>1, <1>2, PTL DEF Spec

\* A documented request whose identifiers hold none of the words the router looks
\* for reaches the documented handler with those identifiers, whatever query
\* string it carries: what do_GET and its like promise, for all identifiers.
THEOREM RequestsAreRouted == Spec => []RoutedAsDocumented
<1>1. AskedInv => RoutedAsDocumented
  <2> SUFFICES ASSUME AskedInv, Serving, PlainNames PROVE reached = asked.means
    BY DEF RoutedAsDocumented
  <2>1. PICK h \in Endpoints, ids \in Ids, query \in Queries :
          AsksFor(asked, h, ids, query) /\ reached = Dispatch(asked.line.method, asked.line.target)
    BY DEF AskedInv
  <2>2. asked.means = Documented(h, ids)
    BY <2>1 DEF AsksFor
  <2>3. HoldNoWord(Documented(h, ids))
    BY <2>2 DEF PlainNames, HoldNoWord
  <2>4. reached = Documented(h, ids)
    BY <2>1, <2>3, ServedRequests
  <2>5. QED
    BY <2>2, <2>4
<1>2. QED
  BY <1>1, AskedAlways, PTL

\* Whatever the identifiers hold, a request that reaches a handler that writes is
\* the documented one for it, except that a DELETE of a property may reach the
\* handler that deletes a geometry.
THEOREM WritesAreNamed == Spec => []WritesReachWhatTheyName
<1>1. AskedInv => WritesReachWhatTheyName
  <2> SUFFICES ASSUME AskedInv, Serving, reached.handler \in Endpoints,
                      Routes[reached.handler].method # "GET"
               PROVE  \/ reached = asked.means
                      \/ /\ asked.handler = "delete_temporal_property"
                         /\ reached = [asked.means EXCEPT
                                         !.handler = "delete_single_temporal_primitive_geo"]
    BY DEF WritesReachWhatTheyName
  <2>1. PICK h \in Endpoints, ids \in Ids, query \in Queries :
          AsksFor(asked, h, ids, query) /\ reached = Dispatch(asked.line.method, asked.line.target)
    BY DEF AskedInv
  <2>2. asked.means = Documented(h, ids) /\ asked.handler = h
    BY <2>1 DEF AsksFor
  <2>3. \/ reached = Documented(h, ids)
        \/ /\ h = "delete_temporal_property"
           /\ reached = Diverted(Documented(h, ids))
    <3>1. PICK line : line = asked
      OBVIOUS
    <3>2. PICK got : got = reached
      OBVIOUS
    <3>3. /\ AsksFor(line, h, ids, query) /\ got = Dispatch(line.line.method, line.line.target)
          /\ got.handler \in Endpoints /\ Routes[got.handler].method # "GET"
      BY <2>1, <3>1, <3>2
    <3>4. \/ got = Documented(h, ids)
          \/ /\ h = "delete_temporal_property"
             /\ got = Diverted(Documented(h, ids))
      BY <3>3, ServedWrites
    <3>5. QED
      BY <3>2, <3>4
  <2>4. QED
    BY <2>2, <2>3 DEF Diverted
<1>2. QED
  BY <1>1, AskedAlways, PTL

-----------------------------------------------------------------------------
(* The folds of the library, and the pages of a listing.                   *)

\* A nonempty set of numbers has a least member.
LEMMA LeastNumber ==
  ASSUME NEW T \in SUBSET Nat, T # {}
  PROVE  \E n \in T : \A m \in T : n <= m
<1>1. \E n \in T : \A m \in T : ~(<<m, n>> \in OpToRel(<, Nat))
  BY NatLessThanWellFounded, WFMin
<1>2. PICK n \in T : \A m \in T : ~(<<m, n>> \in OpToRel(<, Nat))
  BY <1>1
<1>3. \A m \in T : ~(m < n)
  BY <1>2 DEF OpToRel
<1>4. QED
  BY <1>3

\* A nonempty set of subsets of a finite set has a smallest member.
LEMMA SmallestSubset ==
  ASSUME NEW S, IsFiniteSet(S), NEW T \in SUBSET (SUBSET S), T # {}
  PROVE  \E x \in T : \A y \in T : y \subseteq x => y = x
<1>1. IsWellFoundedOn(StrictSubsetOrdering(S), SUBSET S)
  BY FS_StrictSubsetOrderingWellFounded, FS_FiniteSubsetsOfFinite
<1>2. PICK x \in T : \A y \in T : ~(<<y, x>> \in StrictSubsetOrdering(S))
  BY <1>1, WFMin
<1>3. QED
  BY <1>2 DEF StrictSubsetOrdering

\* What holds of the empty set, and of every other subset if it holds of it
\* without some member, holds of all subsets of a finite set.
LEMMA SubsetInduction ==
  ASSUME NEW S, IsFiniteSet(S), NEW H, {} \in H,
         \A s \in (SUBSET S) \ {{}} : \E x \in s : s \ {x} \in H => s \in H
  PROVE  SUBSET S \subseteq H
<1> SUFFICES ASSUME ~(SUBSET S \subseteq H) PROVE FALSE
  OBVIOUS
<1> DEFINE T == {s \in SUBSET S : s \notin H}
<1>1. T \in SUBSET (SUBSET S) /\ T # {}
  OBVIOUS
<1>2. PICK s \in T : \A y \in T : y \subseteq s => y = s
  <2> HIDE DEF T
  <2>1. QED
    BY <1>1, SmallestSubset
<1>3. s \in SUBSET S /\ s \notin H
  BY <1>2
<1>4. s # {}
  <2>1. \A z : z = {} => z \in H
    OBVIOUS
  <2>2. QED
    BY <1>3, <2>1
<1>5. PICK x \in s : s \ {x} \in H => s \in H
  BY <1>3, <1>4
<1>6. s \ {x} \in T
  BY <1>3, <1>5
<1>7. QED
  BY <1>2, <1>5, <1>6

\* A fold: the value of a set is made of a member and of the value of the set
\* without that member.
Folds(f, S, base, pick, step) ==
  f = [s \in SUBSET S |-> IF s = {} THEN base ELSE step[<<pick[s], f[s \ {pick[s]}]>>]]

\* A fold has one value on every set.
LEMMA FoldsAgree ==
  ASSUME NEW S, IsFiniteSet(S), NEW base, NEW pick, NEW step,
         \A s \in (SUBSET S) \ {{}} : pick[s] \in s,
         NEW T \in SUBSET S, NEW U \in SUBSET S, NEW f, NEW g,
         Folds(f, T, base, pick, step), Folds(g, U, base, pick, step)
  PROVE  \A s \in SUBSET (T \cap U) : f[s] = g[s]
<1> DEFINE H == {s \in SUBSET (T \cap U) : f[s] = g[s]}
<1>1. IsFiniteSet(T \cap U)
  BY FS_Intersection, FS_Subset
<1>2. \A s \in SUBSET T : f[s] = IF s = {} THEN base ELSE step[<<pick[s], f[s \ {pick[s]}]>>]
  BY DEF Folds
<1>3. \A s \in SUBSET U : g[s] = IF s = {} THEN base ELSE step[<<pick[s], g[s \ {pick[s]}]>>]
  BY DEF Folds
<1>4. {} \in H
  BY <1>2, <1>3
<1>5. \A s \in (SUBSET (T \cap U)) \ {{}} : \E x \in s : s \ {x} \in H => s \in H
  <2> SUFFICES ASSUME NEW s \in (SUBSET (T \cap U)) \ {{}}
               PROVE  pick[s] \in s /\ (s \ {pick[s]} \in H => s \in H)
    OBVIOUS
  <2>1. s \in SUBSET T /\ s \in SUBSET U /\ s # {} /\ s \in (SUBSET S) \ {{}}
    OBVIOUS
  <2>2. pick[s] \in s
    BY <2>1
  <2>3. ASSUME s \ {pick[s]} \in H PROVE s \in H
    <3>1. f[s \ {pick[s]}] = g[s \ {pick[s]}]
      BY <2>3
    <3>2. f[s] = step[<<pick[s], f[s \ {pick[s]}]>>]
      BY <1>2, <2>1
    <3>3. g[s] = step[<<pick[s], g[s \ {pick[s]}]>>]
      BY <1>3, <2>1
    <3>4. QED
      BY <3>1, <3>2, <3>3
  <2>4. QED
    BY <2>2, <2>3
<1> HIDE DEF H
<1>6. SUBSET (T \cap U) \subseteq H
  <2> DEFINE V == T \cap U
  <2>1. IsFiniteSet(V) /\ {} \in H
    BY <1>1, <1>4
  <2>2. \A s \in (SUBSET V) \ {{}} : \E x \in s : s \ {x} \in H => s \in H
    BY <1>5
  <2> HIDE DEF V
  <2>3. SUBSET V \subseteq H
    BY <2>1, <2>2, SubsetInduction
  <2>4. QED
    BY <2>3 DEF V
<1>7. QED
  BY <1>6 DEF H

\* There is one on every finite set.
LEMMA FoldsExist ==
  ASSUME NEW S, IsFiniteSet(S), NEW base, NEW pick, NEW step,
         \A s \in (SUBSET S) \ {{}} : pick[s] \in s
  PROVE  \E f : Folds(f, S, base, pick, step)
<1> DEFINE B == {s \in SUBSET S : ~ \E f : Folds(f, s, base, pick, step)}
<1> SUFFICES ASSUME B # {} PROVE FALSE
  OBVIOUS
<1>1. PICK T \in B : \A y \in B : y \subseteq T => y = T
  <2>1. B \in SUBSET (SUBSET S)
    OBVIOUS
  <2> HIDE DEF B
  <2>2. QED
    BY <2>1, SmallestSubset
<1>2. \A s \in SUBSET T : s # T => \E f : Folds(f, s, base, pick, step)
  BY <1>1
<1>3. T \in SUBSET S /\ ~ \E f : Folds(f, T, base, pick, step)
  BY <1>1
<1> HIDE DEF B
<1> DEFINE F(s) == CHOOSE f : Folds(f, s, base, pick, step)
           before(s) == s \ {pick[s]}
<1>4. \A s \in SUBSET T : s # T => Folds(F(s), s, base, pick, step)
  BY <1>2
<1> HIDE DEF F
<1> DEFINE f == [s \in SUBSET T |-> IF s = {} THEN base ELSE step[<<pick[s], F(before(s))[before(s)]>>]]
<1>5. ASSUME NEW s \in SUBSET T, s # {} PROVE F(before(s))[before(s)] = f[before(s)]
  <2>1. pick[s] \in s
    BY <1>3, <1>5
  <2> DEFINE r == before(s)
  <2>2. r \in SUBSET T /\ r # T /\ r \in SUBSET S
    BY <1>3, <1>5, <2>1
  <2> HIDE DEF r
  <2>3. Folds(F(r), r, base, pick, step)
    BY <1>4, <2>2
  <2>4. F(r)[r] = IF r = {} THEN base ELSE step[<<pick[r], F(r)[before(r)]>>]
    BY <2>3 DEF Folds
  <2>5. CASE r = {}
    <3>1. F(r)[r] = f[r]
      BY <2>2, <2>4, <2>5
    <3>2. QED
      BY <3>1 DEF r
  <2>6. CASE r # {}
    <3>1. pick[r] \in r
      BY <2>2, <2>6
    <3>2. before(r) \in SUBSET T /\ before(r) # T /\ before(r) \in SUBSET S /\ before(r) \in SUBSET (r \cap before(r))
      BY <2>2, <3>1
    <3>3. Folds(F(before(r)), before(r), base, pick, step)
      BY <1>4, <3>2
    <3> HIDE DEF before
    <3>4. F(r)[before(r)] = F(before(r))[before(r)]
      BY <2>2, <2>3, <3>2, <3>3, FoldsAgree
    <3>5. f[r] = step[<<pick[r], F(before(r))[before(r)]>>]
      BY <2>2, <2>6
    <3>6. F(r)[r] = f[r]
      BY <2>4, <2>6, <3>4, <3>5
    <3>7. QED
      BY <3>6 DEF r
  <2>7. QED
    BY <2>5, <2>6
<1>6. f = [s \in SUBSET T |-> IF s = {} THEN base ELSE step[<<pick[s], f[before(s)]>>]]
  <2> DEFINE g == [s \in SUBSET T |-> IF s = {} THEN base ELSE step[<<pick[s], f[before(s)]>>]]
  <2>1. \A s \in SUBSET T : f[s] = g[s]
    <3> SUFFICES ASSUME NEW s \in SUBSET T PROVE f[s] = g[s]
      OBVIOUS
    <3>1. CASE s = {}
      BY <3>1
    <3>2. CASE s # {}
      <4>1. F(before(s))[before(s)] = f[before(s)]
        BY <1>5, <3>2
      <4>2. f[s] = step[<<pick[s], F(before(s))[before(s)]>>]
        BY <3>2
      <4> HIDE DEF f
      <4>3. g[s] = step[<<pick[s], f[before(s)]>>]
        BY <3>2
      <4>4. QED
        BY <4>1, <4>2, <4>3
    <3>3. QED
      BY <3>1, <3>2
  <2>2. QED
    BY <2>1
<1> HIDE DEF f
<1>7. Folds(f, T, base, pick, step)
  BY <1>6 DEF Folds
<1>8. QED
  BY <1>3, <1>7

-----------------------------------------------------------------------------
(* The tables are finite and typed in every reachable state.               *)

FiniteTables(Keys, Row) == UNION {[K -> Row] : K \in {K \in SUBSET Keys : IsFiniteSet(K)}}

\* The databases that differ from d in the features and the geometries.
Like(d) ==
  [collections : {d.collections}, features : FiniteTables(FeatureIds, FeatureRow),
   geometries : FiniteTables(Nat, GeometryRow), properties : {d.properties},
   values : {d.values}, ddl : {d.ddl}]

\* What it is to be a finite table.
LEMMA FiniteTable ==
  ASSUME NEW Keys, NEW Row, NEW t
  PROVE  t \in FiniteTables(Keys, Row) <=>
           t \in [DOMAIN t -> Row] /\ DOMAIN t \subseteq Keys /\ IsFiniteSet(DOMAIN t)
  BY DEF FiniteTables

\* A row more.
LEMMA ExtendFinite ==
  ASSUME NEW Keys, NEW Row, NEW t \in FiniteTables(Keys, Row), NEW k \in Keys, NEW row \in Row
  PROVE  Extend(t, k, row) \in FiniteTables(Keys, Row)
<1>1. t \in [DOMAIN t -> Row] /\ DOMAIN t \subseteq Keys /\ IsFiniteSet(DOMAIN t)
  BY FiniteTable
<1>2. IsFiniteSet(DOMAIN t \cup {k})
  BY <1>1, FS_AddElement
<1>3. Extend(t, k, row) \in [DOMAIN t \cup {k} -> Row]
  BY <1>1 DEF Extend
<1> DEFINE e == Extend(t, k, row)
<1>4. e \in [DOMAIN e -> Row] /\ DOMAIN e \subseteq Keys /\ IsFiniteSet(DOMAIN e)
  BY <1>1, <1>2, <1>3
<1> HIDE DEF e
<1>5. e \in FiniteTables(Keys, Row)
  BY <1>4, FiniteTable
<1>6. QED
  BY <1>5 DEF e

\* Rows less.
LEMMA WithoutFinite ==
  ASSUME NEW Keys, NEW Row, NEW t \in FiniteTables(Keys, Row), NEW Gone
  PROVE  Without(t, Gone) \in FiniteTables(Keys, Row)
<1>1. t \in [DOMAIN t -> Row] /\ DOMAIN t \subseteq Keys /\ IsFiniteSet(DOMAIN t)
  BY FiniteTable
<1>2. IsFiniteSet(DOMAIN t \ Gone)
  BY <1>1, FS_Difference
<1>3. Without(t, Gone) \in [DOMAIN t \ Gone -> Row]
  BY <1>1 DEF Without, Restrict
<1> DEFINE e == Without(t, Gone)
<1>4. e \in [DOMAIN e -> Row] /\ DOMAIN e \subseteq Keys /\ IsFiniteSet(DOMAIN e)
  BY <1>1, <1>2, <1>3
<1> HIDE DEF e
<1>5. e \in FiniteTables(Keys, Row)
  BY <1>4, FiniteTable
<1>6. QED
  BY <1>5 DEF e

\* Other rows under the same keys.
LEMMA SameKeysFinite ==
  ASSUME NEW Keys, NEW Row, NEW t \in FiniteTables(Keys, Row), NEW e \in [DOMAIN t -> Row]
  PROVE  e \in FiniteTables(Keys, Row)
<1>1. DOMAIN t \subseteq Keys /\ IsFiniteSet(DOMAIN t)
  BY FiniteTable
<1>2. e \in [DOMAIN e -> Row] /\ DOMAIN e \subseteq Keys /\ IsFiniteSet(DOMAIN e)
  BY <1>1
<1>3. QED
  BY <1>2, FiniteTable

\* What a database like another is made of.
LEMMA LikeFields ==
  ASSUME NEW d, NEW e \in Like(d)
  PROVE  /\ e = [collections |-> d.collections, features |-> e.features,
                 geometries |-> e.geometries, properties |-> d.properties,
                 values |-> d.values, ddl |-> d.ddl]
         /\ e.collections = d.collections /\ e.properties = d.properties
         /\ e.values = d.values /\ e.ddl = d.ddl
         /\ e.features \in FiniteTables(FeatureIds, FeatureRow)
         /\ e.geometries \in FiniteTables(Nat, GeometryRow)
  BY DEF Like

\* New features, or new geometries, keep it like that.
LEMMA LikeChanged ==
  ASSUME NEW d, NEW e \in Like(d)
  PROVE  /\ \A F \in FiniteTables(FeatureIds, FeatureRow) : [e EXCEPT !.features = F] \in Like(d)
         /\ \A G \in FiniteTables(Nat, GeometryRow) : [e EXCEPT !.geometries = G] \in Like(d)
         /\ \A F : [e EXCEPT !.features = F].geometries = e.geometries
         /\ \A G : [e EXCEPT !.geometries = G].geometries = G
         /\ \A G : [e EXCEPT !.geometries = G].features = e.features
  BY DEF Like

\* A row of a geometry.
LEMMA GeometryFields ==
  ASSUME NEW d, NEW e \in Like(d), NEW g \in DOMAIN e.geometries
  PROVE  /\ g \in Nat /\ e.geometries[g] \in GeometryRow
         /\ e.geometries[g].traj \in Trajectories /\ InstantsOf(e.geometries[g].traj) \subseteq Instants
<1>1. e.geometries \in [DOMAIN e.geometries -> GeometryRow] /\ DOMAIN e.geometries \subseteq Nat
  BY LikeFields, FiniteTable
<1>2. e.geometries[g] \in GeometryRow /\ g \in Nat
  BY <1>1
<1>3. e.geometries[g].traj \in Trajectories
  BY <1>2 DEF GeometryRow
<1>4. \A traj \in Seq(SUBSET Instants) : \A n \in DOMAIN traj : traj[n] \subseteq Instants
  OBVIOUS
<1>5. QED
  BY <1>2, <1>3, <1>4 DEF InstantsOf, Trajectories

\* The trigger.
LEMMA TriggerLike ==
  ASSUME NEW d, NEW e \in Like(d), NEW touched
  PROVE  FireTrigger(e, touched) \in Like(d) /\ FireTrigger(e, touched).geometries = e.geometries
<1> DEFINE F == [f \in DOMAIN e.features |->
                   IF touched \cap GeometriesIn(e, e.features[f].cid, f) # {}
                   THEN [e.features[f] EXCEPT !.extent = ExtentOf(e, f)]
                   ELSE e.features[f]]
<1>1. \A f : ExtentOf(e, f) \subseteq Instants
  <2>1. \A f : \A g \in GeometriesIn(e, e.features[f].cid, f) : g \in DOMAIN e.geometries
    BY DEF GeometriesIn, GeometriesOf
  <2>2. \A g \in DOMAIN e.geometries : InstantsOf(e.geometries[g].traj) \subseteq Instants
    BY GeometryFields
  <2>3. QED
    BY <2>1, <2>2 DEF ExtentOf, Hull
<1>2. e.features \in [DOMAIN e.features -> FeatureRow]
  BY LikeFields, FiniteTable
<1>3. \A row \in FeatureRow : \A E \in SUBSET Instants : [row EXCEPT !.extent = E] \in FeatureRow
  BY DEF FeatureRow
<1>4. \A f \in DOMAIN e.features : [e.features[f] EXCEPT !.extent = ExtentOf(e, f)] \in FeatureRow
  BY <1>1, <1>2, <1>3
<1>5. F \in [DOMAIN e.features -> FeatureRow]
  BY <1>2, <1>4
<1>6. FireTrigger(e, touched) \in {e, [e EXCEPT !.features = F]}
  BY DEF FireTrigger
<1> HIDE DEF F
<1>7. F \in FiniteTables(FeatureIds, FeatureRow)
  BY <1>5, LikeFields, SameKeysFinite
<1>8. [e EXCEPT !.features = F] \in Like(d) /\ [e EXCEPT !.features = F].geometries = e.geometries
  BY <1>7, LikeChanged
<1>9. QED
  BY <1>6, <1>8

\* INSERT of a feature.
LEMMA FeatureRowLike ==
  ASSUME NEW d, NEW e \in Like(d), NEW f \in FeatureIds, NEW c \in CollectionIds
  PROVE  InsertFeatureRow(e, f, c) \in Like(d) /\ InsertFeatureRow(e, f, c).geometries = e.geometries
<1> DEFINE row == [cid |-> c, extent |-> {}]
<1>1. row \in FeatureRow
  BY DEF FeatureRow
<1> HIDE DEF row
<1>2. Extend(e.features, f, row) \in FiniteTables(FeatureIds, FeatureRow)
  BY <1>1, LikeFields, ExtendFinite
<1>3. InsertFeatureRow(e, f, c) = [e EXCEPT !.features = Extend(e.features, f, row)]
  BY DEF InsertFeatureRow, row
<1>4. QED
  BY <1>2, <1>3, LikeChanged

\* INSERT of a geometry.
LEMMA GeometryRowLike ==
  ASSUME NEW d, NEW e \in Like(d), NEW g \in Nat, NEW f \in FeatureIds, NEW c \in CollectionIds,
         NEW traj \in Trajectories, NEW geometry \in BOOLEAN
  PROVE  InsertGeometryRow(e, g, f, c, traj, geometry) \in Like(d)
<1> DEFINE row == [fid |-> f, cid |-> c, traj |-> traj, geometry |-> geometry]
<1>1. row \in GeometryRow
  BY DEF GeometryRow
<1> HIDE DEF row
<1>2. Extend(e.geometries, g, row) \in FiniteTables(Nat, GeometryRow)
  BY <1>1, LikeFields, ExtendFinite
<1>3. [e EXCEPT !.geometries = Extend(e.geometries, g, row)] \in Like(d)
  BY <1>2, LikeChanged
<1>4. InsertGeometryRow(e, g, f, c, traj, geometry) =
        FireTrigger([e EXCEPT !.geometries = Extend(e.geometries, g, row)], {g})
  BY DEF InsertGeometryRow, row
<1>5. QED
  BY <1>3, <1>4, TriggerLike

\* UPDATE of trajectories.
LEMMA TrajectoriesLike ==
  ASSUME NEW d, NEW e \in Like(d), NEW new, \A g \in DOMAIN new : new[g] \in Trajectories
  PROVE  UpdateTrajectories(e, new) \in Like(d)
<1> DEFINE G == [g \in DOMAIN e.geometries |->
                   IF g \in DOMAIN new THEN [e.geometries[g] EXCEPT !.traj = new[g]]
                                       ELSE e.geometries[g]]
<1>1. e.geometries \in [DOMAIN e.geometries -> GeometryRow]
  BY LikeFields, FiniteTable
<1>2. \A row \in GeometryRow : \A t \in Trajectories : [row EXCEPT !.traj = t] \in GeometryRow
  BY DEF GeometryRow
<1>3. G \in [DOMAIN e.geometries -> GeometryRow]
  BY <1>1, <1>2
<1>4. UpdateTrajectories(e, new) = FireTrigger([e EXCEPT !.geometries = G], DOMAIN new)
  BY DEF UpdateTrajectories
<1> HIDE DEF G
<1>5. G \in FiniteTables(Nat, GeometryRow)
  BY <1>3, LikeFields, SameKeysFinite
<1>6. [e EXCEPT !.geometries = G] \in Like(d)
  BY <1>5, LikeChanged
<1>7. QED
  BY <1>4, <1>6, TriggerLike

\* appendInstant.
LEMMA AppendedTrajectory ==
  ASSUME NEW traj \in Trajectories, NEW t \in Instants
  PROVE  AppendInstant(traj, {t}) \in Trajectories
  BY DEF AppendInstant, Trajectories, Null

\* The sequence of the table gives a number.
LEMMA NextGeometryNumber ==
  ASSUME NEW d, NEW e \in Like(d)
  PROVE  NextGeometry(e) \in Nat
<1>1. IsFiniteSet(DOMAIN e.geometries)
  BY LikeFields, FiniteTable
<1> DEFINE n == Cardinality(DOMAIN e.geometries)
<1>2. n \in Nat
  BY <1>1, FS_CardinalityType
<1>3. ~(1..n + 1 \subseteq DOMAIN e.geometries)
  <2>1. Cardinality(1..n + 1) = n + 1
    <3> HIDE DEF n
    <3>1. 1 \in Int /\ n + 1 \in Int /\ (IF 1 > n + 1 THEN 0 ELSE n + 1 - 1 + 1) = n + 1
      BY <1>2
    <3>2. QED
      BY <3>1, FS_Interval
  <2>2. ~(n + 1 <= n)
    BY <1>2
  <2>3. QED
    BY <1>1, <2>1, <2>2, FS_Subset
<1>4. \E g \in 1..n + 1 : g \notin DOMAIN e.geometries
  BY <1>3
<1>5. NextGeometry(e) \in 1..n + 1
  BY <1>4 DEF NextGeometry
<1> HIDE DEF n
<1>6. \A g \in 1..n + 1 : g \in Nat
  BY <1>2
<1>7. QED
  BY <1>5, <1>6

\* One observation of a batch.
LEMMA ObservationLike ==
  ASSUME NEW d, NEW e \in Like(d), NEW c \in CollectionIds, NEW f \in FeatureIds, NEW t \in Instants
  PROVE  AppendObservation(e, c, f, t) \in Like(d)
<1> DEFINE row == IF f \in DOMAIN e.features THEN e ELSE InsertFeatureRow(e, f, c)
           G == GeometriesOf(e, f)
           new == [g \in G |-> AppendInstant(e.geometries[g].traj, {t})]
<1>1. row \in Like(d)
  BY FeatureRowLike
<1>2. <<{t}>> \in Trajectories /\ FALSE \in BOOLEAN
  BY DEF Trajectories
<1>3. NextGeometry(e) \in Nat
  BY NextGeometryNumber
<1>4. \A g \in G : e.geometries[g].traj \in Trajectories
  BY GeometryFields DEF GeometriesOf
<1>5. \A g \in DOMAIN new : new[g] \in Trajectories
  BY <1>4, AppendedTrajectory
<1>6. AppendObservation(e, c, f, t) =
        IF G = {} THEN InsertGeometryRow(row, NextGeometry(e), f, c, <<{t}>>, FALSE)
        ELSE UpdateTrajectories(row, new)
  BY DEF AppendObservation
<1> HIDE DEF row, G, new
<1>7. InsertGeometryRow(row, NextGeometry(e), f, c, <<{t}>>, FALSE) \in Like(d)
  BY <1>1, <1>2, <1>3, GeometryRowLike
<1>8. UpdateTrajectories(row, new) \in Like(d)
  BY <1>1, <1>5, TrajectoriesLike
<1>9. QED
  BY <1>6, <1>7, <1>8

\* A batch.
LEMMA BatchLike ==
  ASSUME NEW d, d \in Like(d), NEW c \in CollectionIds, NEW F \in SUBSET FeatureIds, IsFiniteSet(F),
         NEW t \in Instants
  PROVE  FoldSet(LAMBDA f, e : AppendObservation(e, c, f, t), d, F) \in Like(d)
<1> DEFINE body(g, s) == IF s = {} THEN d
                         ELSE AppendObservation(g[s \ {CHOOSE x \in s : TRUE}], c,
                                                CHOOSE x \in s : TRUE, t)
           folded == CHOOSE g : g = [s \in SUBSET F |-> body(g, s)]
           pick == [s \in (SUBSET F) \ {{}} |-> CHOOSE x \in s : TRUE]
           step == [p \in F \X Like(d) |-> AppendObservation(p[2], c, p[1], t)]
<1>1. FoldSet(LAMBDA f, e : AppendObservation(e, c, f, t), d, F) = folded[F]
  BY DEF FoldSet, MapThenFoldSet
<1>2. \A s \in (SUBSET F) \ {{}} : pick[s] \in s /\ pick[s] = CHOOSE x \in s : TRUE
  OBVIOUS
<1>3. \A x \in F, e \in Like(d) : step[<<x, e>>] = AppendObservation(e, c, x, t) /\ step[<<x, e>>] \in Like(d)
  <2>1. \A x \in F, e \in Like(d) : step[<<x, e>>] = AppendObservation(e, c, x, t)
    OBVIOUS
  <2>2. \A x \in F, e \in Like(d) : AppendObservation(e, c, x, t) \in Like(d)
    BY ObservationLike
  <2> HIDE DEF step
  <2>3. QED
    BY <2>1, <2>2
<1> HIDE DEF pick, step
<1>4. PICK f : Folds(f, F, d, pick, step)
  BY <1>2, FoldsExist
<1>5. \A s \in SUBSET F : f[s] = IF s = {} THEN d ELSE step[<<pick[s], f[s \ {pick[s]}]>>]
  BY <1>4 DEF Folds
<1>6. \A s \in SUBSET F : f[s] \in Like(d)
  <2> DEFINE H == {s \in SUBSET F : f[s] \in Like(d)}
  <2>1. {} \in H
    BY <1>5
  <2>2. \A s \in (SUBSET F) \ {{}} : \E x \in s : s \ {x} \in H => s \in H
    <3> SUFFICES ASSUME NEW s \in (SUBSET F) \ {{}}
                 PROVE  pick[s] \in s /\ (s \ {pick[s]} \in H => s \in H)
      OBVIOUS
    <3>1. pick[s] \in s
      BY <1>2
    <3>2. ASSUME f[s \ {pick[s]}] \in Like(d) PROVE f[s] \in Like(d)
      <4>1. f[s] = step[<<pick[s], f[s \ {pick[s]}]>>]
        BY <1>5
      <4>2. QED
        BY <1>3, <3>1, <3>2, <4>1
    <3>3. QED
      BY <3>1, <3>2
  <2> HIDE DEF H
  <2>3. SUBSET F \subseteq H
    BY <2>1, <2>2, SubsetInduction
  <2>4. QED
    BY <2>3 DEF H
<1>7. \A s \in SUBSET F : f[s] = body(f, s)
  <2> SUFFICES ASSUME NEW s \in SUBSET F, s # {}
               PROVE  step[<<pick[s], f[s \ {pick[s]}]>>] = body(f, s)
    BY <1>5
  <2>1. pick[s] \in F /\ f[s \ {pick[s]}] \in Like(d)
    BY <1>2, <1>6
  <2>2. step[<<pick[s], f[s \ {pick[s]}]>>] = AppendObservation(f[s \ {pick[s]}], c, pick[s], t)
    BY <1>3, <2>1
  <2>3. QED
    BY <1>2, <2>2
<1>8. f = [s \in SUBSET F |-> body(f, s)]
  <2>1. f = [s \in SUBSET F |-> f[s]]
    BY <1>4 DEF Folds
  <2>2. QED
    BY <1>7, <2>1
<1>9. folded = [s \in SUBSET F |-> body(folded, s)]
  BY <1>8
<1>10. \A s \in SUBSET F : folded[s] = body(folded, s)
  <2> HIDE DEF folded
  <2>1. QED
    BY <1>9
<1> HIDE DEF folded
<1>11. \A s \in SUBSET F : folded[s] \in Like(d)
  <2> DEFINE H == {s \in SUBSET F : folded[s] \in Like(d)}
  <2>1. {} \in H
    BY <1>10
  <2>2. \A s \in (SUBSET F) \ {{}} : \E x \in s : s \ {x} \in H => s \in H
    <3> SUFFICES ASSUME NEW s \in (SUBSET F) \ {{}}
                 PROVE  \E x \in s : s \ {x} \in H => s \in H
      OBVIOUS
    <3>1. PICK x \in s : x = CHOOSE y \in s : TRUE
      OBVIOUS
    <3>2. ASSUME folded[s \ {x}] \in Like(d) PROVE folded[s] \in Like(d)
      <4>1. folded[s] = AppendObservation(folded[s \ {x}], c, x, t)
        BY <1>10, <3>1
      <4>2. QED
        BY <3>2, <4>1, ObservationLike
    <3>3. QED
      BY <3>2
  <2> HIDE DEF H
  <2>3. SUBSET F \subseteq H
    BY <2>1, <2>2, SubsetInduction
  <2>4. QED
    BY <2>3 DEF H
<1>12. QED
  BY <1>1, <1>11

\* ON DELETE CASCADE.
LEMMA RemovedLike ==
  ASSUME NEW d, d \in Like(d), NEW F
  PROVE  DeleteFeatures(d, F) \in Like(DeleteFeatures(d, F))
<1> DEFINE P == {p \in DOMAIN d.properties : d.properties[p].fid \in F}
           G == {g \in DOMAIN d.geometries : d.geometries[g].fid \in F}
           V == {v \in DOMAIN d.values : d.values[v].pid \in P}
<1> HIDE DEF P, G, V
<1>1. DeleteFeatures(d, F) =
        [[d EXCEPT !.properties = Without(d.properties, P), !.values = Without(d.values, V)]
           EXCEPT !.features = Without(d.features, F), !.geometries = Without(d.geometries, G)]
  BY DEF DeleteFeatures, DeleteProperties, P, G, V
<1>2. d = [collections |-> d.collections, features |-> d.features,
           geometries |-> d.geometries, properties |-> d.properties,
           values |-> d.values, ddl |-> d.ddl]
  BY LikeFields
<1>3. DeleteFeatures(d, F) =
        [collections |-> d.collections, features |-> Without(d.features, F),
         geometries |-> Without(d.geometries, G), properties |-> Without(d.properties, P),
         values |-> Without(d.values, V), ddl |-> d.ddl]
  BY <1>1, <1>2
<1>4. /\ Without(d.features, F) \in FiniteTables(FeatureIds, FeatureRow)
      /\ Without(d.geometries, G) \in FiniteTables(Nat, GeometryRow)
  BY LikeFields, WithoutFinite
<1>5. QED
  BY <1>3, <1>4 DEF Like

\* Tables like typed tables are typed.
LEMMA LikeItself ==
  ASSUME NEW d, NEW e \in Like(d)
  PROVE  e \in Like(e)
<1>1. /\ e = [collections |-> e.collections, features |-> e.features,
              geometries |-> e.geometries, properties |-> e.properties,
              values |-> e.values, ddl |-> e.ddl]
      /\ e.features \in FiniteTables(FeatureIds, FeatureRow)
      /\ e.geometries \in FiniteTables(Nat, GeometryRow)
  BY LikeFields
<1>2. QED
  BY <1>1 DEF Like

\* What is answered is an answer the handler may give with the tables as they
\* are: nothing changes them while a client has its page.
AnswerInv ==
  /\ db \in Like(db)
  /\ ~Serving => page = NoAnswerYet /\ reached = NoAnswer
  /\ Serving =>
       /\ asked.search \in Search
       /\ reached.handler = "get_collection_items" =>
            page \in get_collection_items(db, created, Browsed, asked.search)
       /\ reached.handler = "export_collection" =>
            page \in export_collection(db, Browsed, FormatOf(asked.line.target.query))

\* The changes keep the tables typed.
LEMMA ChangesKeepTables ==
  ASSUME db \in Like(db), Change
  PROVE  db' \in Like(db')
<1>1. ASSUME NEW c \in CollectionIds, NEW f \in FeatureIds, NEW traj \in Recorded \cup {Null},
             PostFeature(c, f, traj)
      PROVE  db' \in Like(db')
  <2>1. db' = IF traj = Null THEN InsertFeatureRow(db, f, c)
              ELSE InsertGeometryRow(InsertFeatureRow(db, f, c), NextGeometry(db), f, c, traj, TRUE)
    BY <1>1 DEF PostFeature, Transaction
  <2>2. InsertFeatureRow(db, f, c) \in Like(db)
    BY FeatureRowLike
  <2>3. NextGeometry(db) \in Nat /\ TRUE \in BOOLEAN
    BY NextGeometryNumber
  <2>4. ASSUME traj # Null
        PROVE  InsertGeometryRow(InsertFeatureRow(db, f, c), NextGeometry(db), f, c, traj, TRUE) \in Like(db)
    <3>1. traj \in Trajectories
      BY <2>4, SearchesAssumption
    <3>2. QED
      BY <2>2, <2>3, <3>1, GeometryRowLike
  <2>5. db' \in Like(db)
    BY <2>1, <2>2, <2>4
  <2>6. QED
    BY <2>5, LikeItself
<1>2. ASSUME NEW c \in CollectionIds, NEW F \in SUBSET FeatureIds \ {{}}, NEW t \in Instants,
             LoadBatch(c, F, t)
      PROVE  db' \in Like(db')
  <2>1. /\ db' = FoldSet(LAMBDA f, d : AppendObservation(d, c, f, t), db, F)
        /\ IsFiniteSet(F) /\ F \in SUBSET FeatureIds
    BY <1>2 DEF LoadBatch, Transaction
  <2>2. FoldSet(LAMBDA f, d : AppendObservation(d, c, f, t), db, F) \in Like(db)
    BY <2>1, BatchLike
  <2>3. QED
    BY <2>1, <2>2, LikeItself
<1>3. ASSUME NEW f \in DOMAIN db.features, NEW traj \in Recorded, PostGeometry(f, traj)
      PROVE  db' \in Like(db')
  <2>1. db.features \in [DOMAIN db.features -> FeatureRow] /\ DOMAIN db.features \subseteq FeatureIds
    BY LikeFields, FiniteTable
  <2>2. f \in FeatureIds /\ db.features[f].cid \in CollectionIds
    BY <2>1 DEF FeatureRow
  <2>3. db' = InsertGeometryRow(db, NextGeometry(db), f, db.features[f].cid, traj, TRUE)
    BY <1>3 DEF PostGeometry, Transaction
  <2>4. NextGeometry(db) \in Nat /\ TRUE \in BOOLEAN /\ traj \in Trajectories
    BY NextGeometryNumber, SearchesAssumption
  <2>5. db' \in Like(db)
    BY <2>2, <2>3, <2>4, GeometryRowLike
  <2>6. QED
    BY <2>5, LikeItself
<1>4. ASSUME NEW f \in DOMAIN db.features, RemoveFeature(f) PROVE db' \in Like(db')
  BY <1>4, RemovedLike DEF RemoveFeature
<1>5. QED
  BY <1>1, <1>2, <1>3, <1>4 DEF Change

\* A search with the limit that the handler cuts it to.
LEMMA CutSearch ==
  ASSUME NEW search \in Search, NEW q, q = Bounded(search)
  PROVE  /\ q \in Search /\ q.limit = Capped(search.limit) /\ (search.limit > 0 => q.limit > 0)
         /\ q.from = search.from /\ q.to = search.to /\ q.sub = search.sub /\ q.leaf = search.leaf
<1>1. /\ q = [limit |-> Capped(search.limit), from |-> search.from, to |-> search.to,
               sub |-> search.sub, leaf |-> search.leaf]
      /\ search.limit \in Int
  BY DEF Search, Bounded
<1>2. Capped(search.limit) \in Int /\ (search.limit > 0 => Capped(search.limit) > 0)
  BY <1>1 DEF Capped, Smaller
<1>3. QED
  BY <1>1, <1>2 DEF Search

\* A link has a search.
LEMMA LinksHaveSearches ==
  ASSUME NEW d, NEW times, NEW c, NEW search \in Search,
         NEW answer \in get_collection_items(d, times, c, search), answer.next.follow
  PROVE  answer.next.search \in Search
<1> DEFINE q == Bounded(search)
<1>1. (\A code : Error(code).next.follow = FALSE) /\ q \in Search
  BY CutSearch DEF Error, Listed, NoLink
<1>2. PICK rows, P : answer = PageOf(d, P, Cardinality(rows), q)
  BY <1>1 DEF get_collection_items
<1> HIDE DEF q
<1>3. answer.next \in {NoLink, LinkAfter(P, Cardinality(rows), q)}
  BY <1>1, <1>2 DEF PageOf, Listed
<1>4. answer.next = NextLink(q)
  BY <1>3 DEF LinkAfter, NoLink
<1>5. [q EXCEPT !.sub = FALSE, !.leaf = FALSE] \in Search
  BY <1>1 DEF Search
<1>6. answer.next.search = [q EXCEPT !.sub = FALSE, !.leaf = FALSE]
  BY <1>4 DEF NextLink
<1>7. QED
  BY <1>5, <1>6

\* A request that is sent is answered with the tables as they are.
LEMMA SentIsAnswered ==
  ASSUME NEW line, line \in Lines \/ line.search \in Search, line # NothingAsked,
         db \in Like(db), Send(line)
  PROVE  AnswerInv'
<1>1. /\ asked' = line /\ db' = db /\ created' = created
      /\ page' \in IF reached'.handler = "get_collection_items"
                   THEN get_collection_items(db, created, reached'.args[1].text, line.search)
                   ELSE IF reached'.handler = "export_collection"
                   THEN export_collection(db, reached'.args[1].text, FormatOf(line.line.target.query))
                   ELSE {NoAnswerYet}
  BY DEF Send, tables
<1>2. line.search \in Search
  <2>1. AllItems \in Search
    BY DEF AllItems, Search
  <2>2. ASSUME line \in Lines PROVE line.search \in Searches \cup {AllItems}
    BY <2>2 DEF Lines, Line
  <2>3. QED
    BY <2>1, <2>2, SearchesAssumption
<1>3. Serving'
  BY <1>1 DEF Serving
<1>4. db' \in Like(db')
  BY <1>1
<1>5. /\ reached'.handler = "get_collection_items" =>
           page' \in get_collection_items(db', created', Browsed', asked'.search)
      /\ reached'.handler = "export_collection" =>
           page' \in export_collection(db', Browsed', FormatOf(asked'.line.target.query))
  BY <1>1 DEF Browsed
<1>6. QED
  BY <1>1, <1>2, <1>3, <1>4, <1>5 DEF AnswerInv

\* The invariant is one.
LEMMA AnswerAlways == Spec => []AnswerInv
<1>1. Init => AnswerInv
  <2> SUFFICES ASSUME Init PROVE AnswerInv
    OBVIOUS
  <2>1. DOMAIN NoRows = {}
    BY DEF NoRows
  <2>2. /\ db.features = NoRows /\ db.geometries = NoRows
        /\ db = [collections |-> db.collections, features |-> db.features,
                 geometries |-> db.geometries, properties |-> db.properties,
                 values |-> db.values, ddl |-> db.ddl]
    BY DEF Init, EmptyDatabase
  <2>3. \A Keys, Row : NoRows \in FiniteTables(Keys, Row)
    <3>1. \A Row : NoRows \in [{} -> Row]
      BY DEF NoRows
    <3>2. ASSUME NEW Keys, NEW Row PROVE NoRows \in FiniteTables(Keys, Row)
      <4>1. /\ NoRows \in [DOMAIN NoRows -> Row] /\ DOMAIN NoRows \subseteq Keys
            /\ IsFiniteSet(DOMAIN NoRows)
        BY <2>1, <3>1, FS_EmptySet
      <4>2. QED
        BY <4>1, FiniteTable
    <3>3. QED
      BY <3>2
  <2>4. db \in Like(db)
    BY <2>2, <2>3 DEF Like
  <2>5. QED
    BY <2>4 DEF Init, AnswerInv, Serving
<1>2. AskedInv /\ AskedInv' /\ AnswerInv /\ [Next]_vars => AnswerInv'
  <2> SUFFICES ASSUME AskedInv, AskedInv', AnswerInv, [Next]_vars PROVE AnswerInv'
    OBVIOUS
  <2>1. CASE Change
    <3>1. db' \in Like(db')
      BY <2>1, ChangesKeepTables DEF AnswerInv
    <3>2. asked' = asked /\ reached' = reached /\ page' = page /\ ~Serving
      BY <2>1 DEF Change, PostFeature, LoadBatch, PostGeometry, RemoveFeature, Transaction, Serving
    <3>3. QED
      BY <3>1, <3>2 DEF AnswerInv, Serving
  <2>2. CASE Ask
    <3>1. PICK line \in Lines : Send(line)
      BY <2>2 DEF Ask
    <3>2. line # NothingAsked
      <4>1. PICK h \in Endpoints, ids \in Ids, query \in Queries : AsksFor(line, h, ids, query)
        BY LinesAsk
      <4>2. h # "none"
        BY EndpointNames
      <4>3. QED
        BY <4>1, <4>2 DEF AsksFor, NothingAsked
    <3>3. QED
      BY <3>1, <3>2, SentIsAnswered DEF AnswerInv
  <2>3. CASE Follow
    <3> DEFINE q == page.next.search
               x == IF q.to = NoTime THEN "plain" ELSE "slash"
               line == [asked EXCEPT !.search = q, !.line.target.query = x]
    <3>1. page.next.follow /\ Send(line)
      BY <2>3 DEF Follow
    <3>2. Serving /\ reached.handler = "get_collection_items"
      BY <3>1 DEF AskedInv
    <3>3. q \in Search
      BY <3>1, <3>2, LinksHaveSearches DEF AnswerInv
    <3>4. PICK h \in Endpoints, ids \in Ids, query \in Queries : AsksFor(asked, h, ids, query)
      BY <3>2 DEF AskedInv
    <3>5. line.search = q /\ line.handler = h
      <4> HIDE DEF q, x
      <4>1. QED
        BY <3>4 DEF AsksFor
    <3>6. line # NothingAsked
      <4> HIDE DEF line
      <4>1. h # "none"
        BY EndpointNames
      <4>2. QED
        BY <3>5, <4>1 DEF NothingAsked
    <3> HIDE DEF line, q
    <3>7. QED
      BY <3>1, <3>3, <3>5, <3>6, SentIsAnswered DEF AnswerInv
  <2>4. CASE Read
    BY <2>4 DEF Read, AnswerInv, Serving, tables
  <2>5. CASE UNCHANGED vars
    <3>1. UNCHANGED <<db, created, asked, reached, page>>
      BY <2>5 DEF vars, tables
    <3>2. QED
      BY <3>1 DEF AnswerInv, Serving, Browsed
  <2>6. QED
    BY <2>1, <2>2, <2>3, <2>4, <2>5 DEF Next
<1>3. QED
  BY <1>1, <1>2, AskedAlways, PTL DEF Spec

-----------------------------------------------------------------------------
(* The page of a listing.                                                  *)

\* A listing has finitely many rows.
LEMMA ListedFinite ==
  ASSUME NEW d, d \in Like(d), NEW c
  PROVE  IsFiniteSet(ListedRows(d, c))
<1> DEFINE G == DOMAIN d.geometries \cup {NoGeometry}
           S == (DOMAIN d.features) \X G
           M == [p \in S |-> [fid |-> p[1], gid |-> p[2]]]
           T == {M[p] : p \in S}
<1>1. IsFiniteSet(DOMAIN d.features) /\ IsFiniteSet(DOMAIN d.geometries)
  BY LikeFields, FiniteTable
<1>2. IsFiniteSet(G)
  BY <1>1, FS_AddElement
<1>3. IsFiniteSet(S)
  <2>1. \A A, B : IsFiniteSet(A) /\ IsFiniteSet(B) => IsFiniteSet(A \X B)
    BY FS_Product
  <2> HIDE DEF G
  <2>2. QED
    BY <1>1, <1>2, <2>1
<1>4. M \in Surjection(S, T)
  BY DEF Surjection
<1>5. ListedRows(d, c) \subseteq T
  <2> SUFFICES ASSUME NEW row \in ListedRows(d, c) PROVE row \in T
    OBVIOUS
  <2>1. PICK f \in DOMAIN d.features : row \in RowsOf(d, f, GeometriesOf(d, f))
    BY DEF ListedRows, FeaturesOf
  <2>2. PICK g \in G : row = [fid |-> f, gid |-> g]
    BY <2>1 DEF RowsOf, GeometriesOf
  <2>3. <<f, g>> \in S
    OBVIOUS
  <2>4. M[<<f, g>>] = row
    BY <2>2, <2>3
  <2>5. QED
    BY <2>3, <2>4
<1> HIDE DEF T, M, S
<1>6. IsFiniteSet(T)
  BY <1>3, <1>4, FS_Surjection
<1>7. QED
  BY <1>5, <1>6, FS_Subset

\* A page that counts no more rows than its limit has them all.
LEMMA PagesComplete ==
  ASSUME NEW rows, IsFiniteSet(rows), NEW times, NEW limit \in Int, limit > 0,
         NEW P \in Pages(rows, times, limit), P = {} \/ Cardinality(rows) <= limit
  PROVE  P = rows
<1>1. P \in SUBSET rows /\ Cardinality(P) = Smaller(limit, Cardinality(rows))
  BY DEF Pages
<1>2. Cardinality(rows) \in Nat
  BY FS_CardinalityType
<1>3. CASE P = {}
  <2>1. Cardinality(P) = 0
    BY <1>3, FS_EmptySet
  <2>2. Cardinality(rows) = 0
    BY <1>1, <1>2, <2>1 DEF Smaller
  <2>3. QED
    BY <1>3, <2>2, FS_EmptySet
<1>4. CASE Cardinality(rows) <= limit
  <2>1. Cardinality(P) = Cardinality(rows)
    BY <1>1, <1>2, <1>4 DEF Smaller
  <2>2. QED
    BY <1>1, <2>1, FS_Subset
<1>5. QED
  BY <1>3, <1>4

\* What a page with rows is: one of the pages of the rows that match.
LEMMA AnsweredPage ==
  ASSUME NEW d, NEW times, NEW c, NEW search, NEW q, q = Bounded(search),
         NEW answer \in get_collection_items(d, times, c, search), answer.code = 200
  PROVE  /\ ~Contradicts(q) /\ ~Fails(q)
         /\ \E P \in Pages(Matching(d, c, q), times, q.limit) :
              /\ answer.items = {[row |-> r, shown |-> Shown(d, r, q),
                                  datetimes |-> Datetimes(d, r, q)] : r \in P}
              /\ P = {} \/ answer.next = LinkAfter(P, Cardinality(Matching(d, c, q)), q)
<1>1. \A code : Error(code).code = code
  BY DEF Error, Listed
<1>2. ~Contradicts(q) /\ ~Fails(q)
  BY <1>1 DEF get_collection_items
<1> DEFINE rows == Matching(d, c, q)
           n == Cardinality(rows)
<1>3. PICK P \in Pages(rows, times, q.limit) : answer = PageOf(d, P, n, q)
  BY <1>1 DEF get_collection_items
<1> DEFINE items == {[row |-> r, shown |-> Shown(d, r, q), datetimes |-> Datetimes(d, r, q)] : r \in P}
           returned == Cardinality({r.fid : r \in P})
<1>4. answer = IF P = {} THEN Listed(200, {}, 0, 0, NoLink)
               ELSE Listed(200, items, n, returned, LinkAfter(P, n, q))
  BY <1>1, <1>3 DEF PageOf
<1>5. P = {} => items = {}
  OBVIOUS
<1> HIDE DEF items, returned, n, rows
<1>6. answer.items = items /\ (P = {} \/ answer.next = LinkAfter(P, n, q))
  BY <1>4, <1>5 DEF Listed
<1>7. QED
  BY <1>2, <1>3, <1>6 DEF items, rows, n

\* The trajectory of a row that is listed.
LEMMA ListedTrajectory ==
  ASSUME NEW d, d \in Like(d), NEW c, NEW row \in ListedRows(d, c)
  PROVE  Trajectory(d, row) \in Seq(SUBSET Int)
<1>1. row.gid = NoGeometry \/ row.gid \in DOMAIN d.geometries
  <2>1. PICK f : row \in RowsOf(d, f, GeometriesOf(d, f))
    BY DEF ListedRows
  <2>2. QED
    BY <2>1 DEF RowsOf, GeometriesOf
<1>2. Null \in Seq(SUBSET Int)
  BY DEF Null
<1>3. \A g \in DOMAIN d.geometries : d.geometries[g].traj \in Seq(SUBSET Int)
  <2>1. Seq(SUBSET Instants) \subseteq Seq(SUBSET Int)
    <3>1. SUBSET Instants \subseteq SUBSET Int
      BY InstantsAssumption
    <3>2. QED
      BY <3>1, SeqMonotonic
  <2>2. QED
    BY <2>1, GeometryFields DEF Trajectories
<1>4. QED
  BY <1>1, <1>2, <1>3 DEF Trajectory

\* A trajectory that moves within an interval overlaps it.
LEMMA MovesOverlaps ==
  ASSUME NEW d, d \in Like(d), NEW c, NEW row \in ListedRows(d, c),
         NEW lo \in Instants, NEW hi \in Instants, MovesWithin(Trajectory(d, row), lo, hi)
  PROVE  Overlaps(Trajectory(d, row), lo, hi)
<1> DEFINE traj == Trajectory(d, row)
<1>1. InstantsOf(traj) \subseteq Int
  <2>1. traj \in Seq(SUBSET Int)
    BY ListedTrajectory
  <2>2. \A s \in Seq(SUBSET Int) : \A k \in DOMAIN s : s[k] \subseteq Int
    OBVIOUS
  <2>3. QED
    BY <2>1, <2>2 DEF InstantsOf
<1> HIDE DEF traj
<1>2. PICK n \in DOMAIN traj, t \in lo..hi : (\E u \in traj[n] : u <= t) /\ (\E u \in traj[n] : t <= u)
  BY DEF MovesWithin, traj
<1>3. \A u \in traj[n] : u \in InstantsOf(traj) /\ u \in Int
  BY <1>1 DEF InstantsOf
<1>4. lo \in Int /\ hi \in Int
  BY InstantsAssumption
<1>5. PICK u \in InstantsOf(traj) : u \in Int /\ u <= t
  BY <1>2, <1>3
<1>6. PICK v \in InstantsOf(traj) : v \in Int /\ t <= v
  BY <1>2, <1>3
<1>7. u <= hi /\ lo <= v
  BY <1>4, <1>5, <1>6
<1>8. QED
  BY <1>5, <1>6, <1>7 DEF Overlaps, traj

\* A page that is a listing is one of the collection that was browsed.
LEMMA ServedListing ==
  ASSUME AnswerInv, Answered
  PROVE  /\ asked.search \in Search /\ db \in Like(db) /\ page.code = 200
         /\ page \in get_collection_items(db, created, Browsed, asked.search)
<1>1. NoAnswer.handler # "get_collection_items"
  BY Zenon DEF NoAnswer, Reach
<1>2. ~Serving => reached.handler = NoAnswer.handler
  BY Zenon DEF AnswerInv
<1>3. Serving
  BY Zenon, <1>1, <1>2 DEF Answered
<1>4. QED
  BY <1>3 DEF AnswerInv, Answered

\* A client that asks for the items of an interval, or for all, and gets no next
\* link has been told of every feature, and of every trajectory that moves then:
\* total_count > limit decides on the link, for any collection and any limit.
THEOREM ListingsAreComplete == Spec => []CompleteWithoutNext
<1>1. AnswerInv => CompleteWithoutNext
  <2> SUFFICES ASSUME AnswerInv, Answered, ~page.next.follow, asked.search.limit > 0,
                      asked.search.from = NoTime <=> asked.search.to = NoTime,
                      NEW row \in ListedRows(db, Browsed),
                      Filters(asked.search) =>
                        MovesWithin(Trajectory(db, row), asked.search.from, asked.search.to)
               PROVE  \E item \in page.items : item.row = row
    BY DEF CompleteWithoutNext
  <2> DEFINE q == Bounded(asked.search)
             rows == Matching(db, Browsed, q)
  <2>1. /\ asked.search \in Search /\ page.code = 200 /\ db \in Like(db)
        /\ page \in get_collection_items(db, created, Browsed, asked.search)
    BY ServedListing
  <2>2. /\ q \in Search /\ q.limit > 0 /\ q.from = asked.search.from /\ q.to = asked.search.to
        /\ q = Bounded(asked.search)
    BY <2>1, CutSearch
  <2> HIDE DEF q
  <2>3. PICK P \in Pages(rows, created, q.limit) :
          /\ page.items = {[row |-> r, shown |-> Shown(db, r, q),
                            datetimes |-> Datetimes(db, r, q)] : r \in P}
          /\ P = {} \/ page.next = LinkAfter(P, Cardinality(rows), q)
    BY <2>1, <2>2, AnsweredPage
  <2>4. IsFiniteSet(rows)
    <3>1. rows \subseteq ListedRows(db, Browsed)
      BY DEF Matching
    <3>2. QED
      BY <2>1, <3>1, ListedFinite, FS_Subset
  <2>5. q.limit \in Int /\ q.limit > 0
    BY <2>2 DEF Search
  <2>6. P = {} \/ Cardinality(rows) <= q.limit
    <3>1. Cardinality(rows) \in Nat
      BY <2>4, FS_CardinalityType
    <3>2. ~page.next.follow
      OBVIOUS
    <3>3. NextLink(q).follow = TRUE
      BY DEF NextLink
    <3>4. P = {} \/ ~(Cardinality(rows) > q.limit)
      BY <2>3, <3>2, <3>3 DEF LinkAfter
    <3>5. QED
      BY <2>5, <3>1, <3>4
  <2>7. row \in rows
    <3>1. CASE ~Filters(q)
      BY <3>1 DEF Matching
    <3>2. CASE Filters(q)
      <4>1. q.from # NoTime /\ q.to # NoTime
        BY <2>2, <3>2 DEF Filters
      <4>2. q.from \in Instants /\ q.to \in Instants
        BY <2>2, <4>1 DEF Search
      <4>3. MovesWithin(Trajectory(db, row), q.from, q.to)
        BY <2>2, <3>2 DEF Filters
      <4>4. Overlaps(Trajectory(db, row), q.from, q.to)
        BY <2>1, <4>2, <4>3, MovesOverlaps
      <4>5. Lower(q) = q.from /\ Upper(q) = q.to
        BY <4>1 DEF Lower, Upper
      <4>6. QED
        BY <4>4, <4>5 DEF Matching
    <3>3. QED
      BY <3>1, <3>2
  <2> HIDE DEF rows
  <2>8. P = rows
    BY <2>3, <2>4, <2>5, <2>6, PagesComplete
  <2>9. \A r \in P : \E item \in page.items : item.row = r
    <3>1. \A r \in P : [row |-> r, shown |-> Shown(db, r, q), datetimes |-> Datetimes(db, r, q)]
                         \in page.items
      BY <2>3
    <3>2. QED
      BY <3>1
  <2>10. QED
    BY <2>7, <2>8, <2>9
<1>2. QED
  BY <1>1, AnswerAlways, PTL

-----------------------------------------------------------------------------
(* The trajectories a listing shows.                                       *)

\* A sequence with one more member.
LEMMA AppendStays ==
  ASSUME NEW X
  PROVE  \A s \in Seq(X), x \in X : Append(s, x) \in Seq(X)
  OBVIOUS

\* The steps of a fold, between values of a set.
StepsWithin(S, D, base, pick, step) ==
  /\ IsFiniteSet(S) /\ base \in D
  /\ \A s \in (SUBSET S) \ {{}} : pick[s] \in s
  /\ \A x \in S, e \in D : step[<<x, e>>] \in D

\* The values of such a fold.
LEMMA FoldsStay ==
  ASSUME NEW S, NEW D, NEW base, NEW pick, NEW step, StepsWithin(S, D, base, pick, step)
  PROVE  \E f : Folds(f, S, base, pick, step) /\ \A s \in SUBSET S : f[s] \in D
<1>0. /\ IsFiniteSet(S) /\ base \in D
      /\ \A s \in (SUBSET S) \ {{}} : pick[s] \in s
      /\ \A x \in S, e \in D : step[<<x, e>>] \in D
  BY DEF StepsWithin
<1>1. PICK f : Folds(f, S, base, pick, step)
  BY <1>0, FoldsExist
<1>2. f = [s \in SUBSET S |-> IF s = {} THEN base ELSE step[<<pick[s], f[s \ {pick[s]}]>>]]
  BY <1>1 DEF Folds
<1>3. \A s \in SUBSET S : f[s] = IF s = {} THEN base ELSE step[<<pick[s], f[s \ {pick[s]}]>>]
  BY <1>2
<1> DEFINE H == {s \in SUBSET S : f[s] \in D}
<1>4. {} \in H
  BY <1>0, <1>3
<1>5. \A s \in (SUBSET S) \ {{}} : \E x \in s : s \ {x} \in H => s \in H
  <2> SUFFICES ASSUME NEW s \in (SUBSET S) \ {{}}
               PROVE  pick[s] \in s /\ (s \ {pick[s]} \in H => s \in H)
    OBVIOUS
  <2>1. pick[s] \in s /\ pick[s] \in S
    BY <1>0
  <2>2. ASSUME f[s \ {pick[s]}] \in D PROVE f[s] \in D
    <3>1. f[s] = step[<<pick[s], f[s \ {pick[s]}]>>]
      BY <1>3
    <3>2. QED
      BY <1>0, <2>1, <2>2, <3>1
  <2>3. QED
    BY <2>1, <2>2
<1> HIDE DEF H
<1>6. SUBSET S \subseteq H
  BY <1>0, <1>4, <1>5, SubsetInduction
<1>7. \A s \in SUBSET S : f[s] \in D
  BY <1>6 DEF H
<1>8. QED
  BY <1>1, <1>7

\* The last of some places of a sequence.
LEMMA MaxPlace ==
  ASSUME NEW n \in Nat, NEW s \in SUBSET (1..n), s # {}
  PROVE  Max(s) \in s /\ \A k \in s : k <= Max(s)
<1> DEFINE T == {n - k : k \in s}
<1>1. T \in SUBSET Nat /\ T # {}
  <2>1. \A k \in s : n - k \in Nat
    OBVIOUS
  <2>2. PICK k : k \in s
    OBVIOUS
  <2>3. n - k \in T
    BY <2>2
  <2>4. QED
    BY <2>1, <2>3
<1>2. PICK l \in T : \A m \in T : l <= m
  <2> HIDE DEF T
  <2>1. QED
    BY <1>1, LeastNumber
<1>3. PICK k \in s : l = n - k
  OBVIOUS
<1>4. \A j \in s : n - k <= n - j
  BY <1>2, <1>3
<1>5. \A j \in s : k >= j
  BY <1>4
<1>6. QED
  <2>1. \E x \in s : \A y \in s : x >= y
    BY <1>5
  <2>2. Max(s) \in s /\ \A y \in s : Max(s) >= y
    BY <2>1 DEF Max
  <2>3. QED
    BY <2>2

\* The first k places, and the last of them.
LEMMA FirstPlaces ==
  ASSUME NEW n \in Nat, NEW k \in 1..n
  PROVE  /\ 1..k \in (SUBSET (1..n)) \ {{}} /\ Max(1..k) = k
         /\ (1..k) \ {k} = 1..k - 1
<1>1. 1..k \in SUBSET (1..n) /\ 1..k # {} /\ k \in 1..k
  OBVIOUS
<1>2. Max(1..k) \in 1..k /\ k <= Max(1..k)
  BY <1>1, MaxPlace
<1>3. QED
  BY <1>1, <1>2

\* What holds of the beginning, and of every place if it holds of the place
\* before, holds up to the end.
LEMMA UpToInduction ==
  ASSUME NEW n \in Nat, NEW H, 0 \in H, \A k \in 1..n : k - 1 \in H => k \in H
  PROVE  0..n \subseteq H
<1> SUFFICES ASSUME ~(0..n \subseteq H) PROVE FALSE
  OBVIOUS
<1> DEFINE T == {k \in 0..n : k \notin H}
<1>1. T \in SUBSET Nat /\ T # {}
  OBVIOUS
<1>2. PICK k \in T : \A m \in T : k <= m
  <2> HIDE DEF T
  <2>1. QED
    BY <1>1, LeastNumber
<1>3. k \in 1..n /\ k \notin H
  BY <1>2
<1>4. k - 1 \in T
  BY <1>3
<1>5. QED
  BY <1>2, <1>3, <1>4

\* atTime, step by step: nothing of no member, and each member adds its part.
LEMMA AtTimeSteps ==
  ASSUME NEW traj \in Seq(SUBSET Int), NEW lo \in Int, NEW hi \in Int
  PROVE  \E parts :
           /\ parts[0] = <<>> /\ AtTime(traj, lo, hi) = parts[Len(traj)]
           /\ \A k \in 1..Len(traj) : parts[k] = KeepPart(parts[k - 1], Cut(traj[k], lo, hi))
<1> DEFINE n == Len(traj)
           S == 1..n
           D == Seq(SUBSET Int)
           body(g, s) == IF s = {} THEN <<>>
                         ELSE KeepPart(g[s \ {Max(s)}], Cut(traj[Max(s)], lo, hi))
           folded == CHOOSE g : g = [s \in SUBSET S |-> body(g, s)]
           pick == [s \in (SUBSET S) \ {{}} |-> Max(s)]
           step == [p \in S \X D |-> KeepPart(p[2], Cut(traj[p[1]], lo, hi))]
<1>1. n \in Nat /\ DOMAIN traj = S
  OBVIOUS
<1>2. AtTime(traj, lo, hi) = folded[S]
  BY <1>1 DEF AtTime, FoldLeft, MapThenFoldSet
<1>3. IsFiniteSet(S)
  <2> HIDE DEF n
  <2>1. QED
    BY <1>1, FS_Interval
<1>4. \A s \in (SUBSET S) \ {{}} : pick[s] = Max(s) /\ pick[s] \in s
  <2>1. \A s \in (SUBSET S) \ {{}} : pick[s] = Max(s)
    OBVIOUS
  <2> HIDE DEF pick, n
  <2>2. QED
    BY <1>1, <2>1, MaxPlace
<1>5. \A x \in S, e \in D :
        step[<<x, e>>] = KeepPart(e, Cut(traj[x], lo, hi)) /\ step[<<x, e>>] \in D
  <2>1. \A x \in S, e \in D : step[<<x, e>>] = KeepPart(e, Cut(traj[x], lo, hi))
    OBVIOUS
  <2>2. \A x \in S : traj[x] \subseteq Int
    BY <1>1
  <2>3. \A member \in SUBSET Int : Cut(member, lo, hi) \in SUBSET Int
    BY DEF Cut
  <2>4. \A e \in D, part \in SUBSET Int : KeepPart(e, part) \in D
    <3>1. \A e \in D, part \in SUBSET Int : Append(e, part) \in D
      BY AppendStays
    <3>2. QED
      BY <3>1 DEF KeepPart
  <2> HIDE DEF step, S, D
  <2>5. QED
    BY <2>1, <2>2, <2>3, <2>4
<1>6. <<>> \in D
  OBVIOUS
<1> HIDE DEF pick, step, D, n
<1>7. PICK f : Folds(f, S, <<>>, pick, step) /\ \A s \in SUBSET S : f[s] \in D
  <2> HIDE DEF S
  <2>1. \A s \in (SUBSET S) \ {{}} : pick[s] \in s
    BY <1>4
  <2>2. \A x \in S, e \in D : step[<<x, e>>] \in D
    BY <1>5
  <2>3. StepsWithin(S, D, <<>>, pick, step)
    BY <1>3, <1>6, <2>1, <2>2 DEF StepsWithin
  <2>4. QED
    BY <2>3, FoldsStay
<1>8. \A s \in SUBSET S : f[s] = body(f, s)
  <2> SUFFICES ASSUME NEW s \in SUBSET S PROVE f[s] = body(f, s)
    OBVIOUS
  <2>1. f[s] = IF s = {} THEN <<>> ELSE step[<<pick[s], f[s \ {pick[s]}]>>]
    BY <1>7 DEF Folds
  <2>2. CASE s = {}
    BY <2>1, <2>2
  <2>3. CASE s # {}
    <3>1. pick[s] = Max(s) /\ pick[s] \in S
      BY <1>4, <2>3
    <3>2. f[s \ {pick[s]}] \in D
      BY <1>7
    <3>3. f[s] = KeepPart(f[s \ {pick[s]}], Cut(traj[pick[s]], lo, hi))
      BY <1>5, <2>1, <2>3, <3>1, <3>2
    <3>4. QED
      BY <2>3, <3>1, <3>3
  <2>4. QED
    BY <2>2, <2>3
<1>9. f = [s \in SUBSET S |-> body(f, s)]
  <2>1. f = [s \in SUBSET S |-> f[s]]
    BY <1>7 DEF Folds
  <2>2. QED
    BY <1>8, <2>1
<1>10. folded = [s \in SUBSET S |-> body(folded, s)]
  BY <1>9
<1>11. \A s \in SUBSET S : folded[s] = body(folded, s)
  <2> HIDE DEF folded
  <2>1. QED
    BY <1>10
<1> HIDE DEF folded
<1> DEFINE parts == [k \in 0..n |-> folded[1..k]]
<1>12. parts[0] = <<>> /\ parts[n] = folded[S]
  <2>1. 1..0 = {} /\ 0 \in 0..n /\ n \in 0..n
    BY <1>1
  <2>2. QED
    BY <1>11, <2>1
<1>13. ASSUME NEW k \in 1..n PROVE parts[k] = KeepPart(parts[k - 1], Cut(traj[k], lo, hi))
  <2>1. 1..k \in SUBSET S /\ 1..k # {} /\ Max(1..k) = k /\ (1..k) \ {k} = 1..k - 1
    BY <1>1, FirstPlaces
  <2>2. folded[1..k] = KeepPart(folded[1..k - 1], Cut(traj[k], lo, hi))
    BY <1>11, <2>1
  <2>3. parts[k] = folded[1..k] /\ parts[k - 1] = folded[1..k - 1]
    BY <1>1
  <2>4. QED
    BY <2>2, <2>3
<1>14. QED
  BY <1>2, <1>12, <1>13 DEF n

\* A member that is not empty makes a sequence that is not empty.
LEMMA AppendNotEmpty ==
  ASSUME NEW X, NEW s \in Seq(X), NEW x \in X
  PROVE  Append(s, x) # <<>>
<1>1. Len(s) \in Nat /\ Len(Append(s, x)) = Len(s) + 1
  OBVIOUS
<1>2. Len(<<>>) = 0
  OBVIOUS
<1>3. Len(Append(s, x)) # Len(<<>>)
  BY <1>1, <1>2
<1>4. QED
  BY Zenon, <1>3

\* The part of a member in an interval: there is one if it moves then.
LEMMA CutMember ==
  ASSUME NEW member \in SUBSET Int, NEW lo \in Int, NEW hi \in Int
  PROVE  /\ Cut(member, lo, hi) \subseteq lo..hi
         /\ Cut(member, lo, hi) # {} <=>
              \E t \in lo..hi : (\E u \in member : u <= t) /\ (\E u \in member : t <= u)
<1>1. Cut(member, lo, hi) \subseteq lo..hi
  BY DEF Cut
<1>2. ASSUME Cut(member, lo, hi) # {}
      PROVE  \E t \in lo..hi : (\E u \in member : u <= t) /\ (\E u \in member : t <= u)
  BY <1>2 DEF Cut
<1>3. ASSUME NEW t \in lo..hi, NEW u \in member, u <= t, NEW v \in member, t <= v
      PROVE  Cut(member, lo, hi) # {}
  <2>1. u \in Int /\ v \in Int
    OBVIOUS
  <2>2. CASE lo <= u
    <3>1. u \in lo..hi /\ u <= u
      BY <1>3, <2>1, <2>2
    <3>2. u \in Cut(member, lo, hi)
      BY <3>1 DEF Cut
    <3>3. QED
      BY <3>2
  <2>3. CASE ~(lo <= u)
    <3>1. lo \in lo..hi /\ u <= lo /\ lo <= v
      BY <1>3, <2>1, <2>3
    <3>2. lo \in Cut(member, lo, hi)
      BY <3>1 DEF Cut
    <3>3. QED
      BY <3>2
  <2>4. QED
    BY <2>2, <2>3
<1>4. QED
  BY <1>1, <1>2, <1>3

\* atTime gives instants of the interval, and something if the trajectory moves
\* then.
LEMMA AtTimeWithin ==
  ASSUME NEW traj \in Seq(SUBSET Int), NEW lo \in Int, NEW hi \in Int
  PROVE  /\ AtTime(traj, lo, hi) \in Seq((SUBSET (lo..hi)) \ {{}})
         /\ AtTime(traj, lo, hi) # <<>> <=> MovesWithin(traj, lo, hi)
<1> DEFINE n == Len(traj)
           X == (SUBSET (lo..hi)) \ {{}}
           Moves(k) == Cut(traj[k], lo, hi) # {}
<1>1. PICK parts :
        /\ parts[0] = <<>> /\ AtTime(traj, lo, hi) = parts[n]
        /\ \A k \in 1..n : parts[k] = KeepPart(parts[k - 1], Cut(traj[k], lo, hi))
  BY AtTimeSteps
<1>2. n \in Nat /\ DOMAIN traj = 1..n /\ \A k \in 1..n : traj[k] \in SUBSET Int
  OBVIOUS
<1> HIDE DEF n
<1>3. \A k \in 1..n : Cut(traj[k], lo, hi) \in X \cup {{}}
  <2>1. \A k \in 1..n : Cut(traj[k], lo, hi) \subseteq lo..hi
    BY <1>2, CutMember
  <2>2. QED
    BY <2>1
<1> HIDE DEF X
<1> DEFINE H == {k \in 0..n : parts[k] \in Seq(X) /\ (parts[k] # <<>> <=> \E j \in 1..k : Moves(j))}
<1>4. 0 \in H
  <2>1. 0 \in 0..n /\ 1..0 = {}
    BY <1>2
  <2>2. parts[0] = <<>> /\ <<>> \in Seq(X)
    BY <1>1, EmptySeq
  <2>3. QED
    BY <2>1, <2>2
<1>5. ASSUME NEW k \in 1..n, k - 1 \in H PROVE k \in H
  <2>1. k \in 0..n /\ k - 1 \in 0..n /\ 1..k = (1..k - 1) \cup {k}
    BY <1>2
  <2>2. parts[k] = IF Moves(k) THEN Append(parts[k - 1], Cut(traj[k], lo, hi)) ELSE parts[k - 1]
    BY <1>1 DEF KeepPart
  <2>3. /\ parts[k - 1] \in Seq(X)
        /\ parts[k - 1] # <<>> <=> \E j \in 1..k - 1 : Moves(j)
    BY <1>5
  <2>4. CASE Moves(k)
    <3>1. Cut(traj[k], lo, hi) \in X
      BY <1>3, <2>4
    <3>2. parts[k] \in Seq(X) /\ parts[k] # <<>>
      BY <2>2, <2>3, <2>4, <3>1, AppendStays, AppendNotEmpty
    <3>3. \E j \in 1..k : Moves(j)
      BY <2>1, <2>4
    <3>4. QED
      BY <2>1, <3>2, <3>3
  <2>5. CASE ~Moves(k)
    <3>1. parts[k] = parts[k - 1]
      BY <2>2, <2>5
    <3> HIDE DEF Moves
    <3>2. (\E j \in 1..k : Moves(j)) <=> (\E j \in 1..k - 1 : Moves(j))
      BY <2>1, <2>5
    <3>3. QED
      BY <2>1, <2>3, <3>1, <3>2
  <2>6. QED
    BY <2>4, <2>5
<1> HIDE DEF H
<1>6. n \in H
  <2>1. 0..n \subseteq H
    BY <1>2, <1>4, <1>5, UpToInduction
  <2>2. QED
    BY <1>2, <2>1
<1>7. parts[n] \in Seq(X) /\ (parts[n] # <<>> <=> \E j \in 1..n : Moves(j))
  BY <1>6 DEF H
<1>8. (\E j \in 1..n : Moves(j)) <=> MovesWithin(traj, lo, hi)
  <2>1. \A j \in 1..n : Moves(j) <=>
          \E t \in lo..hi : (\E u \in traj[j] : u <= t) /\ (\E u \in traj[j] : t <= u)
    BY <1>2, CutMember
  <2> HIDE DEF Moves
  <2>2. QED
    BY <1>2, <2>1 DEF MovesWithin
<1>9. QED
  BY <1>1, <1>7, <1>8 DEF X

\* A trajectory without empty members has instants.
LEMMA SomeInstants ==
  ASSUME NEW X, NEW part \in Seq((SUBSET X) \ {{}}), part # <<>>
  PROVE  InstantsOf(part) # {} /\ InstantsOf(part) \subseteq X
<1>1. DOMAIN part # {} /\ \A n \in DOMAIN part : part[n] \in (SUBSET X) \ {{}}
  <2>1. Len(part) \in Nat \ {0}
    BY EmptySeq
  <2>2. DOMAIN part = 1..Len(part) /\ \A n \in 1..Len(part) : part[n] \in (SUBSET X) \ {{}}
    BY LenProperties, ElementOfSeq
  <2>3. 1 \in 1..Len(part)
    BY <2>1
  <2>4. QED
    BY <2>2, <2>3
<1>2. PICK n \in DOMAIN part : part[n] # {} /\ part[n] \subseteq X
  BY <1>1
<1>3. InstantsOf(part) # {}
  BY <1>2 DEF InstantsOf
<1>4. InstantsOf(part) \subseteq X
  BY <1>1 DEF InstantsOf
<1>5. QED
  BY <1>3, <1>4

\* subTrajectory shows nothing outside the interval, and something of every
\* trajectory that moves then; one that does not is shown whole: for any
\* trajectory, with any gaps.
THEOREM ListingsShowTheInterval == Spec => []NothingOutsideTheInterval
<1>1. AnswerInv => NothingOutsideTheInterval
  <2> DEFINE q == Bounded(asked.search)
             lo == asked.search.from
             hi == asked.search.to
  <2> SUFFICES ASSUME AnswerInv, Answered, asked.search.sub, NEW item \in page.items
               PROVE  IF MovesWithin(Trajectory(db, item.row), lo, hi)
                      THEN InstantsOf(item.shown) # {} /\ InstantsOf(item.shown) \subseteq lo..hi
                      ELSE item.shown = Trajectory(db, item.row)
    BY DEF NothingOutsideTheInterval
  <2>1. /\ asked.search \in Search /\ page.code = 200 /\ db \in Like(db)
        /\ page \in get_collection_items(db, created, Browsed, asked.search)
    BY ServedListing
  <2>a. /\ q \in Search /\ q.sub /\ q.from = lo /\ q.to = hi
        /\ q = Bounded(asked.search)
    BY <2>1, CutSearch
  <2> HIDE DEF q
  <2>2. PICK P \in Pages(Matching(db, Browsed, q), created, q.limit) :
          page.items = {[row |-> r, shown |-> Shown(db, r, q),
                         datetimes |-> Datetimes(db, r, q)] : r \in P}
    BY <2>1, <2>a, AnsweredPage
  <2>3. PICK r \in P : item = [row |-> r, shown |-> Shown(db, r, q), datetimes |-> Datetimes(db, r, q)]
    BY <2>2
  <2> DEFINE traj == Trajectory(db, r)
             part == AtTime(traj, lo, hi)
  <2>4. item.row = r /\ item.shown = IF traj # Null /\ part # Null THEN part ELSE traj
    <3>1. Shown(db, r, q) = IF traj # Null /\ part # Null THEN part ELSE traj
      BY <2>a DEF Shown
    <3> HIDE DEF traj, part
    <3>2. QED
      BY <2>3, <3>1
  <2>5. lo \in Int /\ hi \in Int
    <3>1. lo # NoTime /\ hi # NoTime
      BY <2>1, <2>a, AnsweredPage DEF Contradicts
    <3>2. QED
      BY <2>1, <3>1, InstantsAssumption DEF Search
  <2>6. traj \in Seq(SUBSET Int)
    <3>1. r \in ListedRows(db, Browsed)
      BY DEF Pages, Matching
    <3>2. QED
      BY <2>1, <3>1, ListedTrajectory
  <2>7. /\ part \in Seq((SUBSET (lo..hi)) \ {{}})
        /\ part # <<>> <=> MovesWithin(traj, lo, hi)
    BY <2>5, <2>6, AtTimeWithin
  <2> HIDE DEF traj, part, lo, hi
  <2>8. CASE MovesWithin(traj, lo, hi)
    <3>1. traj # Null
      BY <2>8 DEF MovesWithin, Null
    <3>2. item.shown = part /\ part # <<>>
      BY <2>4, <2>7, <2>8, <3>1 DEF Null
    <3>3. InstantsOf(part) # {} /\ InstantsOf(part) \subseteq lo..hi
      BY <2>7, <3>2, SomeInstants
    <3>4. QED
      BY <2>4, <2>8, <3>2, <3>3 DEF traj
  <2>9. CASE ~MovesWithin(traj, lo, hi)
    <3>1. item.shown = traj
      BY <2>4, <2>7, <2>9 DEF Null
    <3>2. QED
      BY <2>4, <2>9, <3>1 DEF traj
  <2>10. QED
    BY <2>8, <2>9
<1>2. QED
  BY <1>1, AnswerAlways, PTL

-----------------------------------------------------------------------------
(* The export feed.                                                        *)

\* The steps up to n, between values of a set.
StepsUpTo(n, D, base, step) ==
  n \in Nat /\ base \in D /\ \A k \in 1..n, e \in D : step[<<k, e>>] \in D

\* A value for every place up to n, each made from the one before.
LEMMA StepsExist ==
  ASSUME NEW n, NEW D, NEW base, NEW step, StepsUpTo(n, D, base, step)
  PROVE  \E g \in [0..n -> D] : g[0] = base /\ \A k \in 1..n : g[k] = step[<<k, g[k - 1]>>]
<1> DEFINE S == 1..n
           pick == [s \in (SUBSET S) \ {{}} |-> Max(s)]
<1>0. n \in Nat /\ base \in D /\ \A k \in 1..n, e \in D : step[<<k, e>>] \in D
  BY DEF StepsUpTo
<1>1. \A s \in (SUBSET S) \ {{}} : pick[s] = Max(s) /\ pick[s] \in s
  <2>1. \A s \in (SUBSET S) \ {{}} : pick[s] = Max(s)
    OBVIOUS
  <2> HIDE DEF pick
  <2>2. QED
    BY <1>0, <2>1, MaxPlace
<1> HIDE DEF pick
<1>2. StepsWithin(S, D, base, pick, step)
  <2>1. IsFiniteSet(S)
    BY <1>0, FS_Interval
  <2> HIDE DEF S
  <2>2. \A s \in (SUBSET S) \ {{}} : pick[s] \in s
    BY <1>1
  <2>3. \A k \in S, e \in D : step[<<k, e>>] \in D
    BY <1>0 DEF S
  <2>4. QED
    BY <1>0, <2>1, <2>2, <2>3 DEF StepsWithin
<1>3. PICK f : Folds(f, S, base, pick, step) /\ \A s \in SUBSET S : f[s] \in D
  <2> HIDE DEF S
  <2>1. QED
    BY <1>2, FoldsStay
<1>4. \A s \in SUBSET S : f[s] = IF s = {} THEN base ELSE step[<<pick[s], f[s \ {pick[s]}]>>]
  BY <1>3 DEF Folds
<1> DEFINE g == [k \in 0..n |-> f[1..k]]
<1>5. \A k \in 0..n : 1..k \in SUBSET S
  BY <1>0
<1>6. g \in [0..n -> D]
  BY <1>3, <1>5
<1>7. g[0] = base
  <2>1. 1..0 = {} /\ 0 \in 0..n
    BY <1>0
  <2>2. QED
    BY <1>4, <2>1
<1>8. ASSUME NEW k \in 1..n PROVE g[k] = step[<<k, g[k - 1]>>]
  <2>1. 1..k \in (SUBSET S) \ {{}} /\ Max(1..k) = k /\ (1..k) \ {k} = 1..k - 1
    BY <1>0, FirstPlaces
  <2>2. pick[1..k] = k
    BY <1>1, <2>1
  <2>3. f[1..k] = step[<<k, f[1..k - 1]>>]
    BY <1>4, <2>1, <2>2
  <2>4. k \in 0..n /\ k - 1 \in 0..n
    BY <1>0
  <2>5. QED
    BY <2>3, <2>4
<1> HIDE DEF g
<1>9. QED
  BY <1>6, <1>7, <1>8

\* FlattenSeq, member by member.
LEMMA FlattenSteps ==
  ASSUME NEW X, NEW gs \in Seq(Seq(X))
  PROVE  \E flat \in [0..Len(gs) -> Seq(X)] :
           /\ flat[0] = <<>> /\ FlattenSeq(gs) = flat[Len(gs)]
           /\ \A k \in 1..Len(gs) : flat[k] = flat[k - 1] \o gs[k]
<1> DEFINE n == Len(gs)
           D == Seq(X)
           step == [p \in (1..n) \X D |-> p[2] \o gs[p[1]]]
           body(h, i) == IF i = 1 THEN gs[i] ELSE h[i - 1] \o gs[i]
           flatten == CHOOSE h : h = [i \in 1..n |-> body(h, i)]
<1>1. n \in Nat /\ \A k \in 1..n : gs[k] \in D
  BY ElementOfSeq, LenProperties
<1>2. FlattenSeq(gs) = IF n = 0 THEN gs ELSE flatten[n]
  BY DEF FlattenSeq
<1>3. \A k \in 1..n, e \in D : step[<<k, e>>] = e \o gs[k]
  OBVIOUS
<1>4. <<>> \in D /\ \A e \in D : <<>> \o e = e
  BY EmptySeq, ConcatEmptySeq
<1>5. \A k \in 1..n, e \in D : step[<<k, e>>] \in D
  <2>1. \A k \in 1..n, e \in D : e \o gs[k] \in D
    <3> SUFFICES ASSUME NEW k \in 1..n, NEW e \in D PROVE e \o gs[k] \in D
      OBVIOUS
    <3>1. gs[k] \in D
      BY <1>1
    <3>2. QED
      BY <3>1, ConcatProperties
  <2> HIDE DEF step
  <2>2. QED
    BY <1>3, <2>1
<1> HIDE DEF n, D, step
<1>6. PICK flat \in [0..n -> D] : flat[0] = <<>> /\ \A k \in 1..n : flat[k] = step[<<k, flat[k - 1]>>]
  <2>1. StepsUpTo(n, D, <<>>, step)
    BY <1>1, <1>4, <1>5 DEF StepsUpTo
  <2>2. QED
    BY <2>1, StepsExist
<1>7. \A k \in 1..n : flat[k] = flat[k - 1] \o gs[k] /\ flat[k - 1] \in D
  <2> SUFFICES ASSUME NEW k \in 1..n PROVE flat[k] = flat[k - 1] \o gs[k] /\ flat[k - 1] \in D
    OBVIOUS
  <2>1. k - 1 \in 0..n
    BY <1>1
  <2>2. QED
    BY <1>3, <1>6, <2>1
<1> DEFINE h == [i \in 1..n |-> flat[i]]
<1>8. h = [i \in 1..n |-> body(h, i)]
  <2>1. \A i \in 1..n : h[i] = body(h, i)
    <3> SUFFICES ASSUME NEW i \in 1..n PROVE h[i] = body(h, i)
      OBVIOUS
    <3>1. CASE i = 1
      <4>1. 1 \in 1..n /\ 1 - 1 = 0
        BY <3>1
      <4>2. flat[1] = flat[1 - 1] \o gs[1] /\ gs[1] \in D
        BY <1>1, <1>7, <4>1
      <4>3. flat[1] = <<>> \o gs[1]
        BY <1>6, <4>1, <4>2
      <4>4. QED
        BY <1>4, <3>1, <4>2, <4>3
    <3>2. CASE i # 1
      <4>1. i - 1 \in 1..n
        BY <1>1, <3>2
      <4>2. QED
        BY <1>7, <3>2, <4>1
    <3>3. QED
      BY <3>1, <3>2
  <2>2. QED
    BY <2>1
<1> HIDE DEF h
<1>9. flatten = [i \in 1..n |-> body(flatten, i)]
  BY <1>8
<1>10. \A i \in 1..n : flatten[i] = body(flatten, i)
  <2> HIDE DEF flatten
  <2>1. QED
    BY <1>9
<1> HIDE DEF flatten
<1> DEFINE H == {k \in 0..n : k = 0 \/ flatten[k] = flat[k]}
<1>11. n \in H
  <2>1. 0 \in H
    BY <1>1
  <2>2. ASSUME NEW k \in 1..n, k - 1 \in H PROVE k \in H
    <3>1. k \in 0..n
      BY <1>1
    <3>2. CASE k = 1
      <4>1. flatten[1] = gs[1] /\ gs[1] \in D
        BY <1>1, <1>10, <3>2
      <4>2. 1 \in 1..n /\ 1 - 1 = 0
        BY <3>2
      <4>3. flat[1] = flat[1 - 1] \o gs[1]
        BY <1>7, <4>2
      <4>4. flat[1] = <<>> \o gs[1]
        BY <1>6, <4>2, <4>3
      <4>5. QED
        BY <1>4, <3>1, <3>2, <4>1, <4>4
    <3>3. CASE k # 1
      <4>1. flatten[k - 1] = flat[k - 1]
        BY <1>1, <2>2, <3>3
      <4>2. flatten[k] = flatten[k - 1] \o gs[k]
        BY <1>10, <3>3
      <4>3. QED
        BY <1>7, <3>1, <4>1, <4>2
    <3>4. QED
      BY <3>2, <3>3
  <2> HIDE DEF H
  <2>3. 0..n \subseteq H
    BY <1>1, <2>1, <2>2, UpToInduction
  <2>4. QED
    BY <1>1, <2>3
<1>12. FlattenSeq(gs) = flat[n]
  <2>1. CASE n = 0
    <3>1. gs = <<>>
      BY <2>1, EmptySeq DEF n
    <3>2. QED
      BY <1>2, <1>6, <2>1, <3>1
  <2>2. CASE n # 0
    BY <1>2, <1>11, <2>2
  <2>3. QED
    BY <2>1, <2>2
<1>13. QED
  BY <1>6, <1>7, <1>12 DEF n, D

\* One member more.
LEMMA FlattenAppend ==
  ASSUME NEW X, NEW gs \in Seq(Seq(X)), NEW g \in Seq(X)
  PROVE  FlattenSeq(gs) \in Seq(X) /\ FlattenSeq(Append(gs, g)) = FlattenSeq(gs) \o g
<1> DEFINE more == Append(gs, g)
           n == Len(gs)
<1>1. /\ n \in Nat /\ more \in Seq(Seq(X)) /\ Len(more) = n + 1
      /\ more[n + 1] = g /\ \A k \in 1..n : more[k] = gs[k]
  OBVIOUS
<1> HIDE DEF more
<1>2. PICK a \in [0..n -> Seq(X)] :
        /\ a[0] = <<>> /\ FlattenSeq(gs) = a[n]
        /\ \A k \in 1..n : a[k] = a[k - 1] \o gs[k]
  BY FlattenSteps
<1> HIDE DEF n
<1>3. PICK b \in [0..n + 1 -> Seq(X)] :
        /\ b[0] = <<>> /\ FlattenSeq(more) = b[n + 1]
        /\ \A k \in 1..n + 1 : b[k] = b[k - 1] \o more[k]
  <2>1. PICK b \in [0..Len(more) -> Seq(X)] :
          /\ b[0] = <<>> /\ FlattenSeq(more) = b[Len(more)]
          /\ \A k \in 1..Len(more) : b[k] = b[k - 1] \o more[k]
    BY <1>1, FlattenSteps
  <2>2. QED
    BY <1>1, <2>1
<1> DEFINE H == {k \in 0..n : a[k] = b[k]}
<1>4. 0 \in H
  BY <1>1, <1>2, <1>3
<1>5. ASSUME NEW k \in 1..n, k - 1 \in H PROVE k \in H
  <2>1. k \in 0..n /\ k \in 1..n + 1
    BY <1>1
  <2>2. a[k - 1] = b[k - 1]
    BY <1>5
  <2>3. a[k] = a[k - 1] \o gs[k] /\ b[k] = b[k - 1] \o gs[k]
    BY <1>1, <1>2, <1>3, <2>1
  <2>4. QED
    BY <2>1, <2>2, <2>3
<1> HIDE DEF H
<1>6. 0..n \subseteq H
  BY <1>1, <1>4, <1>5, UpToInduction
<1>7. n \in 0..n /\ n + 1 \in 1..n + 1 /\ n + 1 - 1 = n
  BY <1>1
<1>8. a[n] = b[n]
  BY <1>6, <1>7 DEF H
<1>9. b[n + 1] = b[n] \o g
  <2>1. PICK k \in 1..n + 1 : k = n + 1 /\ k - 1 = n
    BY <1>7
  <2>2. b[k] = b[k - 1] \o more[k]
    BY <1>3
  <2>3. QED
    BY <1>1, <2>1, <2>2
<1>10. a[n] \in Seq(X)
  BY <1>2, <1>7
<1>11. QED
  BY <1>2, <1>3, <1>8, <1>9, <1>10 DEF more

\* A batch of rows of X: the groups flushed, and what was collected since.
Batches(X) == [groups : Seq(Seq(X)), cols : Seq(X)]
NoBatch == [groups |-> <<>>, cols |-> <<>>]

\* What the flush and the collection of a row do.
LEMMA CollectOne ==
  ASSUME NEW X, NEW batch \in Batches(X), NEW row \in X
  PROVE  /\ Flush(batch) \in Batches(X) /\ Collect(batch, row) \in Batches(X)
         /\ Flush(batch) = IF batch.cols = <<>> THEN batch
                           ELSE [groups |-> Append(batch.groups, batch.cols), cols |-> <<>>]
         /\ Collect(batch, row) =
              IF Len(Append(batch.cols, row)) >= RowGroup
              THEN [groups |-> Append(batch.groups, Append(batch.cols, row)), cols |-> <<>>]
              ELSE [groups |-> batch.groups, cols |-> Append(batch.cols, row)]
<1>1. batch.groups \in Seq(Seq(X)) /\ batch.cols \in Seq(X)
      /\ batch = [groups |-> batch.groups, cols |-> batch.cols]
  BY DEF Batches
<1> DEFINE cols == Append(batch.cols, row)
<1>2. cols \in Seq(X) /\ cols # <<>>
  BY <1>1, AppendStays, AppendNotEmpty
<1>3. /\ Append(batch.groups, batch.cols) \in Seq(Seq(X))
      /\ Append(batch.groups, cols) \in Seq(Seq(X))
      /\ <<>> \in Seq(X)
  BY <1>1, <1>2, AppendStays, EmptySeq
<1>4. Flush(batch) = IF batch.cols = <<>> THEN batch
                     ELSE [groups |-> Append(batch.groups, batch.cols), cols |-> <<>>]
  BY DEF Flush
<1>5. \A x : [batch EXCEPT !.cols = x] = [groups |-> batch.groups, cols |-> x]
  BY DEF Batches
<1> HIDE DEF cols
<1>6. Flush([groups |-> batch.groups, cols |-> cols]) =
        [groups |-> Append(batch.groups, cols), cols |-> <<>>]
  BY <1>2 DEF Flush
<1>7. Collect(batch, row) =
        IF Len(cols) >= RowGroup
        THEN [groups |-> Append(batch.groups, cols), cols |-> <<>>]
        ELSE [groups |-> batch.groups, cols |-> cols]
  BY <1>5, <1>6 DEF Collect, cols
<1>8. Flush(batch) \in Batches(X) /\ Collect(batch, row) \in Batches(X)
  BY <1>1, <1>2, <1>3, <1>4, <1>7 DEF Batches
<1>9. QED
  BY <1>4, <1>7, <1>8 DEF cols

\* The rows are collected one after the other.
LEMMA CollectSteps ==
  ASSUME NEW X, NEW rows \in Seq(X)
  PROVE  \E b \in [0..Len(rows) -> Batches(X)] :
           /\ b[0] = NoBatch /\ FoldLeft(Collect, NoBatch, rows) = b[Len(rows)]
           /\ \A k \in 1..Len(rows) : b[k] = Collect(b[k - 1], rows[k])
<1> DEFINE n == Len(rows)
           S == 1..n
           D == Batches(X)
           body(g, s) == IF s = {} THEN NoBatch
                         ELSE Collect(g[s \ {Max(s)}], rows[Max(s)])
           folded == CHOOSE g : g = [s \in SUBSET S |-> body(g, s)]
           pick == [s \in (SUBSET S) \ {{}} |-> Max(s)]
           step == [p \in S \X D |-> Collect(p[2], rows[p[1]])]
<1>1. n \in Nat /\ DOMAIN rows = S /\ \A k \in S : rows[k] \in X
  BY LenProperties, ElementOfSeq
<1>2. FoldLeft(Collect, NoBatch, rows) = folded[S]
  BY <1>1 DEF FoldLeft, MapThenFoldSet
<1>3. IsFiniteSet(S)
  <2> HIDE DEF n
  <2>1. QED
    BY <1>1, FS_Interval
<1>4. \A s \in (SUBSET S) \ {{}} : pick[s] = Max(s) /\ pick[s] \in s
  <2>1. \A s \in (SUBSET S) \ {{}} : pick[s] = Max(s)
    OBVIOUS
  <2> HIDE DEF pick, n
  <2>2. QED
    BY <1>1, <2>1, MaxPlace
<1>5. \A x \in S, e \in D : step[<<x, e>>] = Collect(e, rows[x]) /\ step[<<x, e>>] \in D
  <2>1. \A x \in S, e \in D : step[<<x, e>>] = Collect(e, rows[x])
    OBVIOUS
  <2>2. \A e \in D, row \in X : Collect(e, row) \in D
    BY CollectOne
  <2> HIDE DEF step, S, D
  <2>3. QED
    BY <1>1, <2>1, <2>2
<1>6. NoBatch \in D
  BY EmptySeq DEF NoBatch, Batches
<1> HIDE DEF pick, step, D, n
<1>7. PICK f : Folds(f, S, NoBatch, pick, step) /\ \A s \in SUBSET S : f[s] \in D
  <2> HIDE DEF S
  <2>1. \A s \in (SUBSET S) \ {{}} : pick[s] \in s
    BY <1>4
  <2>2. \A x \in S, e \in D : step[<<x, e>>] \in D
    BY <1>5
  <2>3. StepsWithin(S, D, NoBatch, pick, step)
    BY <1>3, <1>6, <2>1, <2>2 DEF StepsWithin
  <2>4. QED
    BY <2>3, FoldsStay
<1>8. \A s \in SUBSET S : f[s] = body(f, s)
  <2> SUFFICES ASSUME NEW s \in SUBSET S PROVE f[s] = body(f, s)
    OBVIOUS
  <2>1. f[s] = IF s = {} THEN NoBatch ELSE step[<<pick[s], f[s \ {pick[s]}]>>]
    BY <1>7 DEF Folds
  <2>2. CASE s = {}
    BY <2>1, <2>2
  <2>3. CASE s # {}
    <3>1. pick[s] = Max(s) /\ pick[s] \in S
      BY <1>4, <2>3
    <3>2. f[s \ {pick[s]}] \in D
      BY <1>7
    <3>3. f[s] = Collect(f[s \ {pick[s]}], rows[pick[s]])
      BY <1>5, <2>1, <2>3, <3>1, <3>2
    <3>4. QED
      BY <2>3, <3>1, <3>3
  <2>4. QED
    BY <2>2, <2>3
<1>9. f = [s \in SUBSET S |-> body(f, s)]
  <2>1. f = [s \in SUBSET S |-> f[s]]
    BY <1>7 DEF Folds
  <2>2. QED
    BY <1>8, <2>1
<1>10. folded = [s \in SUBSET S |-> body(folded, s)]
  BY <1>9
<1>11. \A s \in SUBSET S : folded[s] = body(folded, s)
  <2> HIDE DEF folded
  <2>1. QED
    BY <1>10
<1> HIDE DEF folded
<1> DEFINE b == [k \in 0..n |-> folded[1..k]]
<1>12. b[0] = NoBatch /\ b[n] = folded[S]
  <2>1. 1..0 = {} /\ 0 \in 0..n /\ n \in 0..n
    BY <1>1
  <2>2. QED
    BY <1>11, <2>1
<1>13. ASSUME NEW k \in 1..n PROVE b[k] = Collect(b[k - 1], rows[k])
  <2>1. 1..k \in SUBSET S /\ 1..k # {} /\ Max(1..k) = k /\ (1..k) \ {k} = 1..k - 1
    BY <1>1, FirstPlaces
  <2>2. folded[1..k] = Collect(folded[1..k - 1], rows[k])
    BY <1>11, <2>1
  <2>3. b[k] = folded[1..k] /\ b[k - 1] = folded[1..k - 1]
    BY <1>1
  <2>4. QED
    BY <2>2, <2>3
<1>14. b \in [0..n -> D]
  <2> DEFINE H == {k \in 0..n : b[k] \in D}
  <2>1. 0 \in H
    BY <1>1, <1>6, <1>12
  <2>2. ASSUME NEW k \in 1..n, k - 1 \in H PROVE k \in H
    <3>1. b[k - 1] \in D /\ k \in 0..n /\ rows[k] \in X
      BY <1>1, <2>2
    <3>2. Collect(b[k - 1], rows[k]) \in D
      <4>1. \A e \in D, x \in X : Collect(e, x) \in D
        BY CollectOne DEF D
      <4> HIDE DEF b, D
      <4>2. QED
        BY <3>1, <4>1
    <3>3. b[k] \in D
      BY <1>13, <2>2, <3>2
    <3>4. QED
      BY <3>1, <3>3
  <2> HIDE DEF H
  <2>3. 0..n \subseteq H
    BY <1>1, <2>1, <2>2, UpToInduction
  <2>4. \A k \in 0..n : b[k] \in D
    BY <2>3 DEF H
  <2>5. QED
    BY <2>4
<1> HIDE DEF b
<1>15. QED
  BY <1>2, <1>12, <1>13, <1>14 DEF n, D

\* What was flushed and what was collected are the rows so far, and every group
\* is full.
CollectedInv(batch, rows, k) ==
  /\ FlattenSeq(batch.groups) \o batch.cols = SubSeq(rows, 1, k)
  /\ \A i \in 1..Len(batch.groups) : Len(batch.groups[i]) = RowGroup
  /\ Len(batch.cols) < RowGroup

\* A group more.
LEMMA GroupMore ==
  ASSUME NEW X, NEW gs \in Seq(X), NEW g \in X
  PROVE  /\ Append(gs, g) \in Seq(X) /\ Len(Append(gs, g)) = Len(gs) + 1
         /\ \A i \in 1..Len(gs) + 1 : Append(gs, g)[i] = IF i = Len(gs) + 1 THEN g ELSE gs[i]
  OBVIOUS

\* Every row keeps it.
LEMMA CollectKeeps ==
  ASSUME NEW X, NEW rows \in Seq(X), NEW k \in 1..Len(rows), NEW batch \in Batches(X),
         CollectedInv(batch, rows, k - 1)
  PROVE  CollectedInv(Collect(batch, rows[k]), rows, k)
<1> DEFINE row == rows[k]
           gs == batch.groups
           cols == batch.cols
           more == Append(cols, row)
           fed == FlattenSeq(gs)
<1>1. Len(rows) \in Nat /\ row \in X /\ gs \in Seq(Seq(X)) /\ cols \in Seq(X)
  BY LenProperties, ElementOfSeq DEF Batches
<1>2. /\ more \in Seq(X) /\ Len(more) = Len(cols) + 1 /\ more = cols \o <<row>>
      /\ Len(cols) \in Nat /\ <<row>> \in Seq(X)
  <2> HIDE DEF row, cols
  <2>1. QED
    BY <1>1
<1>3. fed \in Seq(X) /\ FlattenSeq(Append(gs, more)) = fed \o more
  BY <1>1, <1>2, FlattenAppend
<1>4. fed \o more = SubSeq(rows, 1, k)
  <2>1. fed \o cols = SubSeq(rows, 1, k - 1)
    BY DEF CollectedInv
  <2>2. fed \o (cols \o <<row>>) = (fed \o cols) \o <<row>>
    <3> HIDE DEF fed, cols, row
    <3>1. fed \in Seq(X) /\ cols \in Seq(X) /\ <<row>> \in Seq(X)
      BY <1>1, <1>2, <1>3
    <3>2. QED
      BY <3>1, ConcatAssociative
  <2>3. SubSeq(rows, 1, k) = SubSeq(rows, 1, k - 1) \o <<rows[k]>>
    <3>1. 1 \in 1..Len(rows) /\ k \in 1..Len(rows)
      BY <1>1
    <3>2. QED
      BY <3>1, SubSeqRecursiveSecond
  <2>4. QED
    BY <1>2, <2>1, <2>2, <2>3
<1>5. CASE Len(more) >= RowGroup
  <2>1. Collect(batch, row) = [groups |-> Append(gs, more), cols |-> <<>>]
    BY <1>1, <1>5, CollectOne
  <2>2. Len(more) = RowGroup
    BY <1>2, <1>5, RowGroupAssumption DEF CollectedInv
  <2>3. FlattenSeq(Append(gs, more)) \o <<>> = SubSeq(rows, 1, k)
    <3>1. fed \o more \in Seq(X)
      BY <1>2, <1>3, ConcatProperties
    <3>2. QED
      BY <1>3, <1>4, <3>1, ConcatEmptySeq
  <2>4. \A i \in 1..Len(Append(gs, more)) : Len(Append(gs, more)[i]) = RowGroup
    <3> SUFFICES ASSUME NEW i \in 1..Len(Append(gs, more))
                 PROVE  Len(Append(gs, more)[i]) = RowGroup
      OBVIOUS
    <3>1. \A j \in 1..Len(gs) : Len(gs[j]) = RowGroup
      BY DEF CollectedInv
    <3>2. /\ Len(Append(gs, more)) = Len(gs) + 1 /\ Len(gs) \in Nat
          /\ \A j \in 1..Len(gs) + 1 : Append(gs, more)[j] = IF j = Len(gs) + 1 THEN more ELSE gs[j]
      BY <1>1, <1>2, GroupMore, LenProperties
    <3> HIDE DEF gs, more
    <3>3. i \in 1..Len(gs) + 1 /\ (i = Len(gs) + 1 \/ i \in 1..Len(gs))
      BY <3>2
    <3>4. QED
      BY <2>2, <3>1, <3>2, <3>3
  <2>5. Len(<<>>) < RowGroup
    BY RowGroupAssumption
  <2> HIDE DEF gs, more
  <2>6. QED
    BY <2>1, <2>3, <2>4, <2>5 DEF CollectedInv, row
<1>6. CASE ~(Len(more) >= RowGroup)
  <2>1. Collect(batch, row) = [groups |-> gs, cols |-> more]
    BY <1>1, <1>6, CollectOne
  <2>2. Len(more) < RowGroup
    BY <1>2, <1>6, RowGroupAssumption
  <2>3. \A j \in 1..Len(gs) : Len(gs[j]) = RowGroup
    BY DEF CollectedInv
  <2> HIDE DEF gs, more
  <2>4. QED
    BY <1>4, <2>1, <2>2, <2>3 DEF CollectedInv, row
<1>7. QED
  BY <1>5, <1>6

\* A sequence of one member.
LEMMA FlattenOne ==
  ASSUME NEW X, NEW s \in Seq(X)
  PROVE  FlattenSeq(<<s>>) = s
<1>1. <<>> \in Seq(Seq(X)) /\ <<s>> = Append(<<>>, s) /\ Len(<<>>) = 0
  OBVIOUS
<1>2. FlattenSeq(<<>>) = <<>>
  BY <1>1 DEF FlattenSeq
<1>3. FlattenSeq(Append(<<>>, s)) = FlattenSeq(<<>>) \o s
  BY <1>1, FlattenAppend
<1>4. QED
  BY <1>1, <1>2, <1>3, ConcatEmptySeq

\* A Parquet feed holds the rows in groups of which only the last is not full.
LEMMA ParquetFeed ==
  ASSUME NEW X, NEW rows \in Seq(X), NEW feed,
         feed = Flush(FoldLeft(Collect, NoBatch, rows)).groups
  PROVE  /\ FlattenSeq(feed) = rows
         /\ \A n \in DOMAIN feed : Len(feed[n]) = RowGroup \/ n = Len(feed)
<1> DEFINE n == Len(rows)
<1>1. n \in Nat
  BY LenProperties
<1>2. PICK b \in [0..n -> Batches(X)] :
        /\ b[0] = NoBatch /\ FoldLeft(Collect, NoBatch, rows) = b[n]
        /\ \A k \in 1..n : b[k] = Collect(b[k - 1], rows[k])
  BY CollectSteps
<1> DEFINE H == {k \in 0..n : CollectedInv(b[k], rows, k)}
<1>3. 0 \in H
  <2>1. FlattenSeq(<<>>) \o <<>> = <<>>
    <3>1. Len(<<>>) = 0
      OBVIOUS
    <3>2. FlattenSeq(<<>>) = <<>>
      BY <3>1 DEF FlattenSeq
    <3>3. QED
      BY <3>2, EmptySeq, ConcatEmptySeq
  <2>2. SubSeq(rows, 1, 0) = <<>>
    BY SubSeqEmpty
  <2>3. Len(<<>>) = 0 /\ 0 < RowGroup /\ 1..0 = {}
    BY RowGroupAssumption
  <2>4. CollectedInv(NoBatch, rows, 0)
    BY <2>1, <2>2, <2>3 DEF CollectedInv, NoBatch
  <2>5. QED
    BY <1>1, <1>2, <2>4
<1>4. ASSUME NEW k \in 1..n, k - 1 \in H PROVE k \in H
  <2>1. CollectedInv(b[k - 1], rows, k - 1) /\ b[k - 1] \in Batches(X) /\ k \in 0..n
    BY <1>1, <1>2, <1>4
  <2>2. CollectedInv(Collect(b[k - 1], rows[k]), rows, k)
    BY <2>1, CollectKeeps
  <2>3. QED
    BY <1>2, <2>1, <2>2
<1> HIDE DEF H
<1>5. 0..n \subseteq H /\ n \in 0..n
  <2> HIDE DEF n
  <2>1. 0..n \subseteq H
    BY <1>1, <1>3, <1>4, UpToInduction
  <2>2. QED
    BY <1>1, <2>1
<1>6. CollectedInv(b[n], rows, n) /\ b[n] \in Batches(X)
  BY <1>2, <1>5 DEF H
<1> DEFINE gs == b[n].groups
           cols == b[n].cols
<1>7. gs \in Seq(Seq(X)) /\ cols \in Seq(X)
  BY <1>6 DEF Batches
<1>8. FlattenSeq(gs) \in Seq(X) /\ FlattenSeq(gs) \o cols = rows
  <2>1. SubSeq(rows, 1, n) = rows
    BY SubSeqFull
  <2>2. QED
    BY <1>6, <1>7, <2>1, FlattenAppend DEF CollectedInv
<1>9. \A j \in 1..Len(gs) : Len(gs[j]) = RowGroup
  BY <1>6 DEF CollectedInv
<1>10. feed = IF cols = <<>> THEN gs ELSE Append(gs, cols)
  BY <1>2 DEF Flush
<1> HIDE DEF gs, cols
<1>11. CASE cols = <<>>
  <2>1. FlattenSeq(gs) = rows
    BY <1>8, <1>11, ConcatEmptySeq
  <2>2. DOMAIN gs = 1..Len(gs)
    BY <1>7, LenProperties
  <2>3. QED
    BY <1>9, <1>10, <1>11, <2>1, <2>2
<1>12. CASE cols # <<>>
  <2>1. FlattenSeq(Append(gs, cols)) = rows
    BY <1>7, <1>8, FlattenAppend
  <2>2. /\ Append(gs, cols) \in Seq(Seq(X)) /\ Len(Append(gs, cols)) = Len(gs) + 1
        /\ Len(gs) \in Nat
        /\ \A j \in 1..Len(gs) + 1 : Append(gs, cols)[j] = IF j = Len(gs) + 1 THEN cols ELSE gs[j]
    BY <1>7, GroupMore, LenProperties
  <2>3. DOMAIN Append(gs, cols) = 1..Len(gs) + 1
    BY <2>2, LenProperties
  <2>4. feed = Append(gs, cols)
    BY <1>10, <1>12
  <2>5. ASSUME NEW j \in DOMAIN feed PROVE Len(feed[j]) = RowGroup \/ j = Len(feed)
    <3>1. j \in 1..Len(gs) + 1 /\ (j = Len(gs) + 1 \/ j \in 1..Len(gs))
      BY <2>2, <2>3, <2>4
    <3>2. QED
      BY <1>9, <2>2, <2>4, <3>1
  <2>6. QED
    BY <2>1, <2>4, <2>5
<1>13. QED
  BY <1>11, <1>12

\* A finite set as a sequence: every member once.
LEMMA SetAsSeq ==
  ASSUME NEW S, IsFiniteSet(S)
  PROVE  /\ SetToSeq(S) \in Seq(S) /\ IsInjective(SetToSeq(S))
         /\ ToSet(SetToSeq(S)) = S
<1> DEFINE n == Cardinality(S)
           s == SetToSeq(S)
<1>1. n \in Nat /\ ExistsBijection(1..n, S)
  BY FS_CardinalityType
<1>2. \E f \in [1..n -> S] : IsInjective(f)
  BY <1>1 DEF ExistsBijection, Bijection, Injection
<1>3. s \in [1..n -> S] /\ IsInjective(s)
  BY <1>2 DEF SetToSeq
<1>4. s \in Seq(S)
  BY <1>1, <1>3, SeqDef
<1>5. s \in Injection(1..n, S)
  BY <1>3 DEF Injection
<1>6. Cardinality(1..n) = n
  <2> HIDE DEF n
  <2>1. 1 \in Int /\ n \in Int /\ (IF 1 > n THEN 0 ELSE n - 1 + 1) = n
    BY <1>1
  <2>2. QED
    BY <2>1, FS_Interval
<1>7. s \in Surjection(1..n, S)
  <2> HIDE DEF s
  <2>1. QED
    BY <1>5, <1>6, FS_Injection
<1>8. ToSet(s) = S
  BY <1>3, <1>7 DEF ToSet, Surjection
<1>9. QED
  BY <1>3, <1>4, <1>8

\* The rows of the feed are rows of the list.
LEMMA ExportedListed ==
  ASSUME NEW d, d \in Like(d), NEW c
  PROVE  /\ IsFiniteSet(ExportedRows(d, c))
         /\ {row.fid : row \in ExportedRows(d, c)} = FeaturesOf(d, c)
         /\ \A row \in ListedRows(d, c) \ ExportedRows(d, c) : d.geometries[row.gid].cid # c
<1>1. \A f \in FeaturesOf(d, c) : GeometriesIn(d, c, f) \subseteq DOMAIN d.geometries
  BY DEF GeometriesIn, GeometriesOf
<1>2. IsFiniteSet(ExportedRows(d, c))
  <2>1. \A f, geometries : IsFiniteSet(geometries) => IsFiniteSet(RowsOf(d, f, geometries))
    <3> SUFFICES ASSUME NEW f, NEW geometries, IsFiniteSet(geometries)
                 PROVE  IsFiniteSet(RowsOf(d, f, geometries))
      OBVIOUS
    <3> DEFINE G == IF geometries = {} THEN {NoGeometry} ELSE geometries
               R == RowsOf(d, f, geometries)
               M == [g \in G |-> [fid |-> f, gid |-> g]]
    <3>1. IsFiniteSet(G)
      BY FS_Singleton
    <3>2. M \in Surjection(G, R)
      BY DEF Surjection, RowsOf
    <3> HIDE DEF G, M, R
    <3>3. IsFiniteSet(R)
      BY <3>1, <3>2, FS_Surjection
    <3>4. QED
      BY <3>3 DEF R
  <2>2. IsFiniteSet(DOMAIN d.features) /\ IsFiniteSet(DOMAIN d.geometries)
    BY LikeFields, FiniteTable
  <2> DEFINE F == FeaturesOf(d, c)
             M == [f \in F |-> RowsOf(d, f, GeometriesIn(d, c, f))]
             T == {M[f] : f \in F}
  <2>3. IsFiniteSet(F)
    <3>1. F \subseteq DOMAIN d.features
      BY DEF FeaturesOf
    <3>2. QED
      BY <2>2, <3>1, FS_Subset
  <2>4. \A f \in F : IsFiniteSet(M[f])
    <3> SUFFICES ASSUME NEW f \in F PROVE IsFiniteSet(RowsOf(d, f, GeometriesIn(d, c, f)))
      OBVIOUS
    <3>1. IsFiniteSet(GeometriesIn(d, c, f))
      BY <1>1, <2>2, FS_Subset
    <3>2. QED
      BY <2>1, <3>1
  <2>5. M \in Surjection(F, T)
    BY DEF Surjection
  <2>6. ExportedRows(d, c) = UNION T
    BY DEF ExportedRows
  <2> HIDE DEF F, M
  <2>7. \A t \in T : IsFiniteSet(t)
    BY <2>4
  <2> HIDE DEF T
  <2>8. IsFiniteSet(T)
    BY <2>3, <2>5, FS_Surjection
  <2>9. QED
    BY <2>6, <2>7, <2>8, FS_UNION
<1>3. {row.fid : row \in ExportedRows(d, c)} = FeaturesOf(d, c)
  <2>1. ASSUME NEW row \in ExportedRows(d, c) PROVE row.fid \in FeaturesOf(d, c)
    BY DEF ExportedRows, RowsOf
  <2>2. ASSUME NEW f \in FeaturesOf(d, c) PROVE \E row \in ExportedRows(d, c) : row.fid = f
    <3> DEFINE G == GeometriesIn(d, c, f)
               listed == IF G = {} THEN {NoGeometry} ELSE G
    <3>1. PICK g : g \in listed
      OBVIOUS
    <3>2. [fid |-> f, gid |-> g] \in RowsOf(d, f, G)
      BY <3>1 DEF RowsOf
    <3>3. [fid |-> f, gid |-> g] \in ExportedRows(d, c)
      BY <3>2 DEF ExportedRows
    <3>4. QED
      BY <3>3
  <2>3. QED
    BY <2>1, <2>2
<1>4. ASSUME NEW row \in ListedRows(d, c), row \notin ExportedRows(d, c)
      PROVE  d.geometries[row.gid].cid # c
  <2>1. PICK f \in FeaturesOf(d, c) : row \in RowsOf(d, f, GeometriesOf(d, f))
    BY DEF ListedRows
  <2>2. row \notin RowsOf(d, f, GeometriesIn(d, c, f))
    BY <1>4 DEF ExportedRows
  <2>3. GeometriesOf(d, f) # {}
    BY <2>1, <2>2 DEF GeometriesIn
  <2>4. row.gid \in GeometriesOf(d, f) /\ row = [fid |-> f, gid |-> row.gid]
    BY <2>1, <2>3 DEF RowsOf
  <2>5. row.gid \notin GeometriesIn(d, c, f)
    BY <2>2, <2>4 DEF RowsOf
  <2>6. QED
    BY <2>4, <2>5 DEF GeometriesIn
<1>5. QED
  BY <1>2, <1>3, <1>4

\* The export feed of a collection has every row once, in groups that are full
\* except the last, for any number of rows and any size of the groups.
THEOREM FeedsHoldTheList == Spec => []ExportHoldsTheList
<1>1. AnswerInv => ExportHoldsTheList
  <2> DEFINE fed == FlattenSeq(page.feed)
             format == FormatOf(asked.line.target.query)
             X == ExportedRows(db, Browsed)
             rows == SetToSeq(X)
             features == {fed[n].fid : n \in DOMAIN fed}
             parquet == Flush(FoldLeft(Collect, NoBatch, rows)).groups
  <2> SUFFICES ASSUME AnswerInv, Exported
               PROVE  /\ IsInjective(fed) /\ features \subseteq FeaturesOf(db, Browsed)
                      /\ format = "parquet" =>
                           /\ features = FeaturesOf(db, Browsed)
                           /\ \A r \in ListedRows(db, Browsed) \ ToSet(fed) :
                                db.geometries[r.gid].cid # Browsed
                           /\ \A n \in DOMAIN page.feed :
                                Len(page.feed[n]) = RowGroup \/ n = Len(page.feed)
    BY DEF ExportHoldsTheList
  <2>1. page \in export_collection(db, Browsed, format) /\ page.code = 200 /\ db \in Like(db)
    <3>1. NoAnswer.handler # "export_collection"
      BY Zenon DEF NoAnswer, Reach
    <3>2. ~Serving => reached.handler = NoAnswer.handler
      BY Zenon DEF AnswerInv
    <3>3. Serving
      BY Zenon, <3>1, <3>2 DEF Exported
    <3>4. QED
      BY <3>3 DEF AnswerInv, Exported
  <2>2. \A code : Error(code).code = code
    BY DEF Error, Listed
  <2>3. \/ format = "parquet" /\ page = Feed(parquet)
        \/ format # "parquet" /\ \E n \in 0..Len(rows) : page = Feed(<<SubSeq(rows, 1, n)>>)
    <3>1. NoAnswerYet.code # 200 /\ Error(404).code # 200
      BY <2>2 DEF NoAnswerYet
    <3>2. export_collection(db, Browsed, format) =
            IF ~HasCollection(db, Browsed) THEN {Error(404)}
            ELSE IF format = "parquet" THEN {Feed(parquet), NoAnswerYet}
            ELSE {Feed(<<SubSeq(rows, 1, n)>>) : n \in 0..Len(rows)}
      BY DEF export_collection, NoBatch
    <3> HIDE DEF parquet, rows, format
    <3>3. QED
      BY <2>1, <3>1, <3>2
  <2>4. \A parts : Feed(parts).feed = parts
    BY DEF Feed
  <2>5. /\ IsFiniteSet(X) /\ {row.fid : row \in X} = FeaturesOf(db, Browsed)
        /\ \A row \in ListedRows(db, Browsed) \ X : db.geometries[row.gid].cid # Browsed
    BY <2>1, ExportedListed
  <2> HIDE DEF X
  <2>6. rows \in Seq(X) /\ IsInjective(rows) /\ ToSet(rows) = X
    BY <2>5, SetAsSeq
  <2> HIDE DEF rows, format
  <2>7. CASE format = "parquet"
    <3>1. page.feed = parquet
      BY <2>3, <2>4, <2>7
    <3>2. /\ FlattenSeq(parquet) = rows
          /\ \A n \in DOMAIN parquet : Len(parquet[n]) = RowGroup \/ n = Len(parquet)
      BY <2>6, ParquetFeed
    <3> HIDE DEF parquet
    <3>3. fed = rows
      BY <3>1, <3>2
    <3> HIDE DEF fed
    <3>4. features = {row.fid : row \in X}
      BY <2>6, <3>3 DEF ToSet
    <3>5. QED
      BY <2>5, <2>6, <3>1, <3>2, <3>3, <3>4
  <2>8. CASE format # "parquet"
    <3>1. PICK n \in 0..Len(rows) : page.feed = <<SubSeq(rows, 1, n)>>
      BY <2>3, <2>4, <2>8
    <3> DEFINE s == SubSeq(rows, 1, n)
    <3>2. Len(rows) \in Nat /\ \A i \in 1..n : rows[i] \in X
      BY <2>6, LenProperties, ElementOfSeq
    <3>3. s \in Seq(X) /\ DOMAIN s = 1..n /\ \A i \in 1..n : s[i] = rows[i] /\ i \in DOMAIN rows
      BY <2>6, <3>2
    <3> HIDE DEF s
    <3>4. fed = s
      BY <3>1, <3>3, FlattenOne DEF s
    <3> HIDE DEF fed
    <3>5. IsInjective(s)
      BY <2>6, <3>3 DEF IsInjective
    <3>6. \A i \in 1..n : s[i].fid \in FeaturesOf(db, Browsed)
      BY <2>5, <3>2, <3>3
    <3>7. QED
      BY <2>8, <3>3, <3>4, <3>5, <3>6
  <2>9. QED
    BY <2>7, <2>8
<1>2. QED
  BY <1>1, AnswerAlways, PTL
=============================================================================
