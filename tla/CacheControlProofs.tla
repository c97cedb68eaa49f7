------------------------- MODULE CacheControlProofs -------------------------
(***************************************************************************)
(* Proofs about CacheControl, for header fields of any length: the pass    *)
(* over the directives comes to what Contract says of the set of them, and *)
(* strong_etag accepts exactly the entity-tags of the grammar.             *)
(***************************************************************************)
EXTENDS CacheControl, SequenceTheorems, FiniteSetTheorems, WellFoundedInduction,
        NaturalsInduction, TLAPS

-----------------------------------------------------------------------------
(***************************************************************************)
(* The first and the last place of a line that pass a test.                *)
(***************************************************************************)
LEMMA MinOfPlaces ==
    ASSUME NEW S, S \subseteq Nat, S # {}
    PROVE  Min(S) \in S /\ \A k \in S : Min(S) <= k
<1>1. \E x \in S : \A y \in S : ~(<<y, x>> \in OpToRel(<, Nat))
  BY NatLessThanWellFounded, WFMin
<1>2. PICK x \in S : \A y \in S : ~(<<y, x>> \in OpToRel(<, Nat))
  BY <1>1
<1>3. \A y \in S : x <= y
  <2> TAKE y \in S
  <2>1. ~(y < x) => x <= y
    OBVIOUS
  <2>2. y < x => <<y, x>> \in OpToRel(<, Nat)
    BY Zenon DEF OpToRel
  <2> QED BY <1>2, <2>1, <2>2
<1> QED BY <1>3 DEF Min

LEMMA MaxOfPlaces ==
    ASSUME NEW n \in Nat, NEW S, S \subseteq 1..n, S # {}
    PROVE  Max(S) \in S /\ \A k \in S : k <= Max(S)
<1> DEFINE T == {m \in Nat : n - m \in S}
<1>1. T # {} /\ T \subseteq Nat
  <2>1. PICK k \in S : TRUE
    OBVIOUS
  <2>2. n - k \in Nat /\ n - (n - k) = k
    BY <2>1
  <2> QED BY <2>2
<1>2. Min(T) \in T /\ \A k \in T : Min(T) <= k
  <2> HIDE DEF T
  <2> QED BY <1>1, MinOfPlaces
<1>3. n - Min(T) \in S /\ Min(T) \in Nat
  BY <1>2
<1>4. \A k \in S : k <= n - Min(T)
  <2> TAKE k \in S
  <2>1. n - k \in Nat /\ n - (n - k) = k
    OBVIOUS
  <2>2. n - k \in T
    BY <2>1
  <2> QED BY <2>2, <1>2, <1>3
<1>5. \E x \in S : \A y \in S : x >= y
  BY <1>3, <1>4
<1> QED BY <1>5 DEF Max

(* What is left of a line without the blanks around it: nothing, or the line
   from its first visible character to its last. *)
LEMMA Trimmed ==
    ASSUME NEW line \in Seq(Char)
    PROVE  \/ Trim(line) = <<>> /\ \A k \in 1..Len(line) : line[k] = "sp"
           \/ \E i \in 1..Len(line), j \in 1..Len(line) :
                /\ i <= j /\ Trim(line) = SubSeq(line, i, j)
                /\ line[i] # "sp" /\ line[j] # "sp"
                /\ \A k \in 1..Len(line) : k < i \/ k > j => line[k] = "sp"
<1> DEFINE I == {k \in 1..Len(line) : line[k] # "sp"}
<1>1. Trim(line) = IF (IF I # {} THEN Min(I) ELSE 0) = 0 THEN <<>>
                   ELSE SubSeq(line, IF I # {} THEN Min(I) ELSE 0,
                               IF I # {} THEN Max(I) ELSE 0)
  BY DEF Trim, SelectInSeq, SelectLastInSeq
<1>2. CASE I = {}
  BY <1>1, <1>2
<1>3. CASE I # {}
  <2>1. Min(I) \in I /\ \A k \in I : Min(I) <= k
    <3>1. I \subseteq Nat
      OBVIOUS
    <3> HIDE DEF I
    <3> QED BY <3>1, <1>3, MinOfPlaces
  <2>2. Max(I) \in I /\ \A k \in I : k <= Max(I)
    <3>1. I \subseteq 1..Len(line) /\ Len(line) \in Nat
      OBVIOUS
    <3> HIDE DEF I
    <3> QED BY <3>1, <1>3, MaxOfPlaces
  <2>3. Trim(line) = SubSeq(line, Min(I), Max(I))
    <3>1. Min(I) # 0
      BY <2>1
    <3> HIDE DEF I
    <3> QED BY <1>1, <1>3, <3>1
  <2>4. \A k \in 1..Len(line) : k < Min(I) \/ k > Max(I) => line[k] = "sp"
    BY <2>1, <2>2
  <2> QED BY <2>1, <2>2, <2>3, <2>4
<1> QED BY <1>2, <1>3

LEMMA TrimOfNothing == Trim(<<>>) = <<>>
<1>1. Len(<<>>) = 0
  OBVIOUS
<1> QED BY <1>1 DEF Trim, SelectInSeq

(* The closing quote: the first one. *)
Close(body) ==
    LET Quote(c) == c = "dq"
    IN  SelectInSeq(body, Quote)

LEMMA Closing ==
    ASSUME NEW body \in Seq(Char)
    PROVE  \/ Close(body) = 0 /\ \A k \in 1..Len(body) : body[k] # "dq"
           \/ /\ Close(body) \in 1..Len(body) /\ body[Close(body)] = "dq"
              /\ \A k \in 1..Len(body) : k < Close(body) => body[k] # "dq"
<1> DEFINE I == {k \in 1..Len(body) : body[k] = "dq"}
           close == IF I # {} THEN Min(I) ELSE 0
<1>1. CASE I = {}
  BY <1>1 DEF SelectInSeq, Close
<1>2. CASE I # {}
  <2>1. Min(I) \in I /\ \A k \in I : Min(I) <= k
    <3>1. I \subseteq Nat
      OBVIOUS
    <3> HIDE DEF I
    <3> QED BY <3>1, <1>2, MinOfPlaces
  <2>2. /\ Min(I) \in 1..Len(body) /\ body[Min(I)] = "dq"
        /\ \A k \in 1..Len(body) : k < Min(I) => body[k] # "dq"
    <3>1. Min(I) \in 1..Len(body) /\ body[Min(I)] = "dq"
      BY <2>1, Zenon
    <3>2. ASSUME NEW k \in 1..Len(body), k < Min(I), body[k] = "dq"
          PROVE  FALSE
      <4>1. k \in I
        BY <3>2
      <4>2. Min(I) <= k
        BY <4>1, <2>1, Zenon
      <4> HIDE DEF I
      <4> QED BY <3>1, <3>2, <4>2
    <3> QED BY <3>1, <3>2
  <2> HIDE DEF I
  <2>3. close = Min(I)
    BY <1>2
  <2> QED BY <2>2, <2>3 DEF SelectInSeq, Close, I
<1> QED BY <1>1, <1>2

-----------------------------------------------------------------------------
(***************************************************************************)
(* strong_etag and the grammar.                                            *)
(***************************************************************************)
StrongEtagOf(value) ==
    LET body  == Tail(value)
        close == Close(body)
    IN  IF \/ value = <<>> \/ Head(value) # "dq" \/ close = 0
           \/ Trim(SubSeq(body, close + 1, Len(body))) # <<>>
           \/ Contains(SubSeq(body, 1, close), "sp")
        THEN <<>> ELSE value

LEMMA StrongEtagTrims ==
    ASSUME NEW line PROVE StrongEtag(line) = StrongEtagOf(Trim(line))
BY DEF StrongEtag, StrongEtagOf, Close, SelectInSeq

LEMMA Suffix ==
    ASSUME NEW s \in Seq(Char), NEW m \in 1..Len(s)
    PROVE  /\ SubSeq(s, m, Len(s)) \in Seq(Char)
           /\ Len(SubSeq(s, m, Len(s))) = Len(s) - m + 1
           /\ \A k \in 1..(Len(s) - m + 1) : SubSeq(s, m, Len(s))[k] = s[m + k - 1]
<1>1. \A k \in m..Len(s) : s[k] \in Char
  OBVIOUS
<1>2. m \in Int /\ Len(s) \in Int /\ m <= Len(s)
  OBVIOUS
<1> QED BY <1>1, <1>2, SubSeqProperties

(* What strong_etag makes of a line whose visible part is from i to j: a tag
   from i to j is accepted, anything else refused. *)
LEMMA StrongEtagAccepts ==
    ASSUME NEW line \in Seq(Char),
           NEW i \in 1..Len(line), NEW j \in 1..Len(line), i <= j,
           Trim(line) = SubSeq(line, i, j),
           line[i] # "sp", line[j] # "sp",
           \A k \in 1..Len(line) : k < i \/ k > j => line[k] = "sp"
    PROVE  StrongEtag(line) = IF IsTagAt(line, i, j) THEN SubSeq(line, i, j)
                              ELSE <<>>
<1> DEFINE value == SubSeq(line, i, j)
           body == Tail(value)
           close == Close(body)
<1>1. /\ value \in Seq(Char) /\ Len(value) = j - i + 1
      /\ \A k \in 1..(j - i + 1) : value[k] = line[i + k - 1]
      /\ \A k \in 1..Len(line) : line[k] \in Char
      /\ Len(line) \in Nat /\ DOMAIN line = 1..Len(line)
  <2>1. \A k \in i..j : line[k] \in Char
    OBVIOUS
  <2> QED BY <2>1, SubSeqProperties
<1>2. value # <<>> /\ Head(value) = line[i]
  BY <1>1
<1>3. /\ body \in Seq(Char) /\ Len(body) = j - i
      /\ \A k \in 1..(j - i) : body[k] = line[i + k]
  <2>1. /\ body \in Seq(Char) /\ Len(body) = Len(value) - 1
        /\ \A k \in 1..Len(body) : body[k] = value[k + 1]
    <3> HIDE DEF value
    <3> QED BY <1>1, <1>2, HeadTailProperties
  <2>2. \A k \in 1..(j - i) : k + 1 \in 1..(j - i + 1) /\ i + (k + 1) - 1 = i + k
    OBVIOUS
  <2> HIDE DEF value, body
  <2> QED BY <1>1, <2>1, <2>2
<1>4. \/ close = 0 /\ \A k \in 1..Len(body) : body[k] # "dq"
      \/ /\ close \in 1..Len(body) /\ body[close] = "dq"
         /\ \A k \in 1..Len(body) : k < close => body[k] # "dq"
  <2> HIDE DEF body
  <2> QED BY <1>3, Closing
<1>5. StrongEtag(line) = StrongEtagOf(value)
  BY StrongEtagTrims
<1> HIDE DEF value, body, close
<1>6. CASE IsTagAt(line, i, j)
  <2>1. /\ i < j /\ line[i] = "dq" /\ line[j] = "dq"
        /\ \A k \in 1..Len(line) : i < k /\ k < j => line[k] \in {"c", "star", "weak"}
    BY <1>1, <1>6 DEF IsTagAt
  <2>2. close = j - i
    <3>1. body[j - i] = "dq" /\ j - i \in 1..Len(body)
      BY <1>3, <2>1
    <3>2. ASSUME NEW k \in 1..Len(body), k < j - i PROVE body[k] # "dq"
      <4>1. i + k \in 1..Len(line) /\ i < i + k /\ i + k < j
        BY <1>1, <1>3, <3>2
      <4>2. line[i + k] \in {"c", "star", "weak"}
        BY <2>1, <4>1
      <4> QED BY <1>3, <4>2
    <3>3. close \in 1..Len(body) /\ body[close] = "dq"
      BY <1>4, <3>1
    <3>4. ~(j - i < close)
      BY <1>4, <3>1, <3>3
    <3>5. ~(close < j - i)
      BY <3>2, <3>3
    <3> QED BY <1>3, <3>3, <3>4, <3>5
  <2>3. Trim(SubSeq(body, close + 1, Len(body))) = <<>>
    <3>1. SubSeq(body, close + 1, Len(body)) = <<>>
      BY <1>3, <2>2, SubSeqEmpty
    <3> QED BY <3>1, TrimOfNothing
  <2>4. ~Contains(SubSeq(body, 1, close), "sp")
    <3>1. \A k \in 1..close : body[k] \in Char
      BY <1>3, <2>2
    <3>2. /\ Len(SubSeq(body, 1, close)) = close
          /\ \A k \in 1..close : SubSeq(body, 1, close)[k] = body[k]
      BY <1>3, <2>1, <2>2
    <3>3. ASSUME NEW k \in 1..close PROVE body[k] # "sp"
      <4>1. body[k] = line[i + k] /\ i + k \in 1..Len(line)
        BY <1>1, <1>3, <2>2
      <4>2. CASE i + k = j
        BY <4>1, <4>2, <2>1
      <4>3. CASE i < i + k /\ i + k < j
        BY <4>1, <4>3, <2>1
      <4> QED BY <1>1, <2>2, <4>2, <4>3
    <3> QED BY <3>2, <3>3 DEF Contains
  <2>5. close # 0 /\ Head(value) = "dq"
    BY <1>2, <2>1, <2>2
  <2>6. StrongEtagOf(value) = value
    BY <1>2, <2>3, <2>4, <2>5 DEF StrongEtagOf, body, close
  <2> QED BY <1>5, <1>6, <2>6 DEF value
<1>7. CASE ~IsTagAt(line, i, j)
  <2> SUFFICES ASSUME Head(value) = "dq", close # 0,
                      Trim(SubSeq(body, close + 1, Len(body))) = <<>>,
                      ~Contains(SubSeq(body, 1, close), "sp")
               PROVE  FALSE
    BY <1>5, <1>7 DEF StrongEtagOf, body, close
  <2> DEFINE rest == SubSeq(body, close + 1, Len(body))
  <2>1. /\ close \in 1..(j - i) /\ line[i + close] = "dq"
        /\ \A k \in 1..(j - i) : k < close => line[i + k] # "dq"
    BY <1>3, <1>4
  <2>2. close = j - i
    <3> SUFFICES ASSUME close < j - i PROVE FALSE
      BY <2>1
    <3>1. /\ rest \in Seq(Char) /\ Len(rest) = j - i - close
          /\ rest[j - i - close] = line[j]
      <4>1. /\ rest \in Seq(Char) /\ Len(rest) = j - i - close
            /\ rest[j - i - close] = body[j - i]
        <5>1. close + 1 \in 1..Len(body)
          BY <1>3, <2>1
        <5>2. /\ close + 1 \in Int /\ Len(body) \in Int
              /\ Len(body) - (close + 1) + 1 = j - i - close
              /\ j - i - close \in 1..(j - i - close)
              /\ close + 1 + (j - i - close) - 1 = j - i
              /\ close + 1 <= Len(body)
          BY <1>3, <2>1
        <5>3. /\ rest \in Seq(Char) /\ Len(rest) = Len(body) - (close + 1) + 1
              /\ \A k \in 1..(Len(body) - (close + 1) + 1) :
                     rest[k] = body[(close + 1) + k - 1]
          BY <1>3, <5>1, Suffix
        <5> HIDE DEF rest
        <5> QED BY <5>2, <5>3
      <4>2. body[j - i] = line[j]
        <5>1. j - i \in 1..(j - i) /\ i + (j - i) = j
          BY <2>1
        <5> QED BY <5>1, <1>3
      <4> QED BY <4>1, <4>2
    <3>2. j - i - close \in 1..Len(rest)
      BY <3>1, <2>1
    <3>3. rest[j - i - close] = "sp"
      <4> HIDE DEF rest
      <4>1. Trim(rest) = <<>>
        BY DEF rest
      <4>2. CASE \A k \in 1..Len(rest) : rest[k] = "sp"
        BY <4>2, <3>2
      <4>3. CASE \E m \in 1..Len(rest), n \in 1..Len(rest) :
                   m <= n /\ Trim(rest) = SubSeq(rest, m, n)
        <5>1. PICK m \in 1..Len(rest), n \in 1..Len(rest) :
                     m <= n /\ <<>> = SubSeq(rest, m, n)
          BY <4>1, <4>3
        <5>2. \A k \in m..n : rest[k] \in Char
          BY <3>1
        <5>3. Len(SubSeq(rest, m, n)) = n - m + 1 /\ n - m + 1 > 0
          BY <5>1, <5>2, SubSeqProperties
        <5>4. Len(<<>>) = 0
          OBVIOUS
        <5>5. Len(SubSeq(rest, m, n)) = 0
          BY <5>1, <5>4
        <5> QED BY <5>3, <5>5
      <4> QED BY <3>1, <4>2, <4>3, Trimmed
    <3> QED BY <3>1, <3>3
  <2>3. i < j /\ line[i] = "dq" /\ line[j] = "dq"
    BY <1>2, <2>1, <2>2
  <2>4. ASSUME NEW k \in 1..Len(line), i < k, k < j
        PROVE  line[k] \in {"c", "star", "weak"}
    <3>1. /\ k - i \in 1..(j - i) /\ k - i < close /\ k - i \in 1..close
          /\ i + (k - i) = k
      BY <2>2, <2>4
    <3>2. line[k] # "dq"
      BY <2>1, <3>1
    <3>3. /\ Len(SubSeq(body, 1, close)) = close
          /\ SubSeq(body, 1, close)[k - i] = body[k - i]
      BY <1>3, <2>1, <2>2, <3>1
    <3>4. body[k - i] # "sp"
      BY <3>1, <3>3 DEF Contains
    <3> QED BY <1>1, <1>3, <3>1, <3>2, <3>4 DEF Char
  <2> QED BY <1>1, <1>7, <2>3, <2>4 DEF IsTagAt
<1> QED BY <1>6, <1>7 DEF value

(* A line holds the tag that strong_etag returns, and no other. *)
LEMMA StrongEtagIsTheTag ==
    ASSUME NEW line \in Seq(Char)
    PROVE  TagsOf(line) = IF StrongEtag(line) = <<>> THEN {} ELSE {StrongEtag(line)}
<1>1. ObsText \notin Seq(Char) /\ DOMAIN line = 1..Len(line) /\ Len(line) \in Nat
  BY CacheControlAssumption
<1>2. TagsOf(line) = {SubSeq(line, p[1], p[2]) :
                        p \in {q \in (1..Len(line)) \X (1..Len(line)) :
                                 IsTagAt(line, q[1], q[2])}}
  BY <1>1 DEF TagsOf
<1>3. CASE Trim(line) = <<>> /\ \A k \in 1..Len(line) : line[k] = "sp"
  <2>1. StrongEtag(line) = <<>>
    BY <1>3, StrongEtagTrims DEF StrongEtagOf
  <2>2. \A p, q \in 1..Len(line) : ~IsTagAt(line, p, q)
    BY <1>3 DEF IsTagAt
  <2> QED BY <1>2, <2>1, <2>2
<1>4. CASE \E i \in 1..Len(line), j \in 1..Len(line) :
             /\ i <= j /\ Trim(line) = SubSeq(line, i, j)
             /\ line[i] # "sp" /\ line[j] # "sp"
             /\ \A k \in 1..Len(line) : k < i \/ k > j => line[k] = "sp"
  <2>1. PICK i \in 1..Len(line), j \in 1..Len(line) :
             /\ i <= j /\ Trim(line) = SubSeq(line, i, j)
             /\ line[i] # "sp" /\ line[j] # "sp"
             /\ \A k \in 1..Len(line) : k < i \/ k > j => line[k] = "sp"
    BY <1>4
  <2>2. StrongEtag(line) = IF IsTagAt(line, i, j) THEN SubSeq(line, i, j) ELSE <<>>
    BY <2>1, StrongEtagAccepts
  <2>3. SubSeq(line, i, j) # <<>>
    <3>1. Len(SubSeq(line, i, j)) = j - i + 1
      BY <1>1, <2>1
    <3> QED BY <2>1, <3>1
  <2>4. ASSUME NEW p \in 1..Len(line), NEW q \in 1..Len(line), IsTagAt(line, p, q)
        PROVE  p = i /\ q = j
    <3>1. /\ p < q /\ line[p] = "dq" /\ line[q] = "dq"
          /\ \A k \in 1..Len(line) : k < p \/ k > q => line[k] = "sp"
      BY <2>4, <1>1 DEF IsTagAt
    <3>2. ~(p < i) /\ ~(p > j) /\ ~(q < i) /\ ~(q > j)
      BY <2>1, <3>1
    <3>3. ~(i < p) /\ ~(j > q)
      BY <2>1, <3>1
    <3> QED BY <3>2, <3>3
  <2>5. CASE IsTagAt(line, i, j)
    <3>1. <<i, j>> \in {q \in (1..Len(line)) \X (1..Len(line)) :
                                 IsTagAt(line, q[1], q[2])}
      BY <2>5
    <3>2. \A p \in {q \in (1..Len(line)) \X (1..Len(line)) :
                                 IsTagAt(line, q[1], q[2])} : p = <<i, j>>
      BY <2>4
    <3> DEFINE Pairs == {q \in (1..Len(line)) \X (1..Len(line)) :
                                 IsTagAt(line, q[1], q[2])}
    <3>3. Pairs = {<<i, j>>}
      BY <3>1, <3>2
    <3>4. TagsOf(line) = {SubSeq(line, p[1], p[2]) : p \in Pairs}
      BY <1>2
    <3> HIDE DEF Pairs
    <3>5. TagsOf(line) = {SubSeq(line, i, j)}
      BY <3>3, <3>4
    <3> QED BY <2>2, <2>3, <2>5, <3>5
  <2>6. CASE ~IsTagAt(line, i, j)
    <3>1. \A p, q \in 1..Len(line) : ~IsTagAt(line, p, q)
      BY <2>4, <2>6
    <3> QED BY <1>2, <2>2, <2>6, <3>1
  <2> QED BY <2>5, <2>6
<1> QED BY <1>3, <1>4, Trimmed

(* The key of a request is the one tag it holds. *)
LEMMA KeyIsTheTag ==
    ASSUME NEW h \in Headers
    PROVE  /\ (IF Len(h.tags) = 1 THEN TagsOf(h.tags[1]) ELSE {})
                = (IF KeyOf(h.tags) = <<>> THEN {} ELSE {KeyOf(h.tags)})
           /\ KeyOf(h.tags) # <<>> => KeyOf(h.tags) \in Etag
<1>1. h.tags \in Seq(Seq(Char) \cup {ObsText}) /\ DOMAIN h.tags = 1..Len(h.tags)
  BY CacheControlAssumption DEF AnyHeaders
<1>2. CASE Len(h.tags) # 1
  BY <1>2 DEF KeyOf
<1>3. CASE Len(h.tags) = 1
  <2>1. h.tags[1] \in Seq(Char) \cup {ObsText} /\ TagsOf(h.tags[1]) \subseteq Etag
    BY <1>1, <1>3, CacheControlAssumption
  <2>2. CASE h.tags[1] = ObsText
    BY <1>3, <2>2 DEF KeyOf, TagsOf
  <2>3. CASE h.tags[1] # ObsText
    <3>1. KeyOf(h.tags) = StrongEtag(h.tags[1])
      BY <1>3, <2>3 DEF KeyOf
    <3>2. TagsOf(h.tags[1]) = IF StrongEtag(h.tags[1]) = <<>> THEN {}
                              ELSE {StrongEtag(h.tags[1])}
      BY <2>1, <2>3, StrongEtagIsTheTag
    <3> QED BY <1>3, <2>1, <3>1, <3>2
  <2> QED BY <2>2, <2>3
<1> QED BY <1>2, <1>3

-----------------------------------------------------------------------------
(***************************************************************************)
(* The pass over the directives.                                           *)
(***************************************************************************)
Here == Len(headers.directives) - Len(todo)

(* The places read that hold a directive of a name. *)
ReadSoFar(name) == {i \in Given(headers, name) : i <= Here}

Progress ==
    /\ headers \in Headers
    /\ todo \in Seq(AnyDirective) /\ Len(todo) <= Len(headers.directives)
    /\ \A k \in 1..Len(todo) : todo[k] = headers.directives[Here + k]

(* The flags are those of the set of directives read, whatever their order;
   a second max-age, a malformed one, or a line that is no text has not been
   read. *)
Flags ==
    outcome = Reading =>
      /\ noStore = (ReadSoFar("no-store") # {})
      /\ noCache = (ReadSoFar("no-cache") # {})
      /\ ReadSoFar(ObsText) = {}
      /\ \/ maxAge = <<>> /\ ReadSoFar("max-age") = {}
         \/ \E i \in 1..Here :
              /\ ReadSoFar("max-age") = {i}
              /\ headers.directives[i].secs # NaN
              /\ maxAge = <<headers.directives[i].secs>>

Inv == Progress /\ Flags /\ MeetsContract /\ YieldsControl

LEMMA HeadersTyped ==
    ASSUME headers \in Headers
    PROVE  /\ headers.directives \in Seq(AnyDirective)
           /\ Len(headers.directives) \in Nat
           /\ DOMAIN headers.directives = 1..Len(headers.directives)
           /\ \A i \in 1..Len(headers.directives) :
                 headers.directives[i].secs \in Nat \cup {NaN}
<1>1. headers.directives \in Seq(AnyDirective)
  BY CacheControlAssumption DEF AnyHeaders
<1>2. /\ Len(headers.directives) \in Nat
      /\ DOMAIN headers.directives = 1..Len(headers.directives)
      /\ \A i \in 1..Len(headers.directives) :
            headers.directives[i] \in AnyDirective
  BY <1>1
<1> QED BY <1>1, <1>2 DEF AnyDirective

LEMMA InitInv == Init => Inv
<1> SUFFICES ASSUME Init PROVE Inv
  OBVIOUS
<1>1. headers \in Headers /\ todo = headers.directives
  BY DEF Init
<1>2. Here = 0
  BY <1>1, HeadersTyped DEF Here
<1>3. Progress
  BY <1>1, <1>2, HeadersTyped DEF Progress
<1>4. \A name : ReadSoFar(name) = {}
  BY <1>1, <1>2, HeadersTyped DEF ReadSoFar, Given
<1> QED BY <1>3, <1>4 DEF Init, Inv, Flags, MeetsContract, YieldsControl, Reading

(* Taking a directive reads one more place. *)
LEMMA TakeReads ==
    ASSUME Progress, NEW name, Take(name)
    PROVE  /\ Progress' /\ headers' = headers /\ Here' = Here + 1
           /\ Here + 1 \in Given(headers, name)
           /\ Head(todo) = headers.directives[Here + 1]
           /\ \A other : ReadSoFar(other)' =
                 IF other = name THEN ReadSoFar(other) \cup {Here + 1}
                 ELSE ReadSoFar(other)
           /\ \A other : Here + 1 \notin ReadSoFar(other)
<1>1. /\ todo # <<>> /\ Head(todo).name = name
      /\ todo' = Tail(todo) /\ headers' = headers
  BY DEF Take
<1>2. /\ headers \in Headers /\ todo \in Seq(AnyDirective)
      /\ Len(todo) <= Len(headers.directives)
      /\ \A k \in 1..Len(todo) : todo[k] = headers.directives[Here + k]
  BY DEF Progress
<1>3. /\ Len(headers.directives) \in Nat
      /\ DOMAIN headers.directives = 1..Len(headers.directives)
  BY <1>2, HeadersTyped
<1>4. /\ todo' \in Seq(AnyDirective) /\ Len(todo') = Len(todo) - 1
      /\ \A k \in 1..Len(todo') : todo'[k] = todo[k + 1]
      /\ Len(todo) \in Nat /\ Len(todo) >= 1 /\ Head(todo) = todo[1]
  <2>1. Len(todo) \in Nat /\ Len(todo) # 0
    BY <1>1, <1>2
  <2> QED BY <1>1, <1>2, <2>1
<1>5. Here' = Here + 1 /\ Here \in Nat /\ Here + 1 \in 1..Len(headers.directives)
  BY <1>1, <1>2, <1>3, <1>4 DEF Here
<1>6. Head(todo) = headers.directives[Here + 1]
  BY <1>2, <1>4
<1>7. Here + 1 \in Given(headers, name)
  BY <1>1, <1>3, <1>5, <1>6 DEF Given
<1>8. Progress'
  <2>1. ASSUME NEW k \in 1..Len(todo')
        PROVE  todo'[k] = headers'.directives[Here' + k]
    <3>1. k + 1 \in 1..Len(todo) /\ Here + (k + 1) = Here' + k
      BY <1>4, <1>5
    <3> QED BY <1>1, <1>2, <1>4, <3>1
  <2> QED BY <1>1, <1>2, <1>4, <2>1 DEF Progress
<1>9. ASSUME NEW other
      PROVE  /\ Here + 1 \notin ReadSoFar(other)
             /\ ReadSoFar(other)' = IF other = name THEN ReadSoFar(other) \cup {Here + 1}
                                    ELSE ReadSoFar(other)
  <2>1. Given(headers, other)' = Given(headers, other)
    BY <1>1 DEF Given
  <2>2. \A i \in Given(headers, other) : i \in Nat /\ (i <= Here + 1 <=> i <= Here \/ i = Here + 1)
    BY <1>3, <1>5 DEF Given
  <2>3. Here + 1 \in Given(headers, other) <=> other = name
    BY <1>1, <1>3, <1>5, <1>6 DEF Given
  <2>4. ~(Here + 1 <= Here)
    BY <1>5
  <2>5. ReadSoFar(other)' = {i \in Given(headers, other) : i <= Here + 1}
    BY <1>5, <2>1 DEF ReadSoFar
  <2> QED BY <2>2, <2>3, <2>4, <2>5 DEF ReadSoFar
<1> QED BY <1>1, <1>5, <1>6, <1>7, <1>8, <1>9

(* A directive that is no max-age and no broken line keeps the pass going. *)
LEMMA ReadOn ==
    ASSUME Inv, NEW name \in {"no-store", "no-cache", "other"}, Take(name),
           noStore' = IF name = "no-store" THEN TRUE ELSE noStore,
           noCache' = IF name = "no-cache" THEN TRUE ELSE noCache,
           maxAge' = maxAge, outcome' = outcome
    PROVE  Inv'
<1>1. /\ Progress' /\ Here' = Here + 1 /\ headers' = headers
      /\ \A other : ReadSoFar(other)' =
            IF other = name THEN ReadSoFar(other) \cup {Here + 1}
            ELSE ReadSoFar(other)
  BY TakeReads DEF Inv
<1>2. outcome = Reading /\ Flags /\ Here \in Nat
  BY HeadersTyped DEF Inv, Take, Here, Progress
<1>3. ObsText \notin {"no-store", "no-cache", "max-age", "other"}
  BY CacheControlAssumption
<1>4. Flags'
  <2>1. noStore' = (ReadSoFar("no-store")' # {})
    BY <1>1, <1>2 DEF Flags
  <2>2. noCache' = (ReadSoFar("no-cache")' # {})
    BY <1>1, <1>2 DEF Flags
  <2>3. ReadSoFar(ObsText)' = {}
    BY <1>1, <1>2, <1>3 DEF Flags
  <2>4. ReadSoFar("max-age")' = ReadSoFar("max-age")
    BY <1>1
  <2>5. \A i \in 1..Here : i \in 1..Here'
    BY <1>1, <1>2
  <2>6. \/ maxAge' = <<>> /\ ReadSoFar("max-age")' = {}
        \/ \E i \in 1..Here' :
              /\ ReadSoFar("max-age")' = {i}
              /\ headers'.directives[i].secs # NaN
              /\ maxAge' = <<headers'.directives[i].secs>>
    BY <1>1, <1>2, <2>4, <2>5 DEF Flags
  <2> QED BY <2>1, <2>2, <2>3, <2>6 DEF Flags
<1> QED BY <1>1, <1>2, <1>4 DEF Inv, MeetsContract, YieldsControl, Reading

LEMMA TwoPlaces ==
    ASSUME NEW n \in Nat, NEW S \in SUBSET (1..n),
           NEW i \in S, NEW j \in S, i # j
    PROVE  Cardinality(S) > 1
<1>1. IsFiniteSet(S)
  <2>1. IsFiniteSet(1..n)
    BY FS_Interval
  <2> QED BY <2>1, FS_Subset
<1>2. Cardinality(S) \in Nat
  BY <1>1, FS_CardinalityType
<1>3. Cardinality(S) # 0
  BY <1>1, FS_EmptySet
<1>4. Cardinality(S) # 1
  BY <1>1, FS_Singleton
<1> QED BY <1>2, <1>3, <1>4

(* A refusal in the middle of the pass is the verdict on the whole. *)
LEMMA RefuseKeeps ==
    ASSUME Inv, NEW name, Take(name), outcome' = Refused,
           Contract(headers) = Refused
    PROVE  Inv'
<1>1. Progress' /\ headers' = headers
  BY TakeReads DEF Inv
<1> QED BY <1>1 DEF Inv, Flags, MeetsContract, YieldsControl, Refused, Reading

LEMMA ReadMaxAgeKeeps == ASSUME Inv, ReadMaxAge PROVE Inv'
<1>1. Take("max-age")
  BY DEF ReadMaxAge
<1>2. /\ Progress' /\ headers' = headers /\ Here' = Here + 1
      /\ Here + 1 \in Given(headers, "max-age")
      /\ Head(todo) = headers.directives[Here + 1]
      /\ \A other : ReadSoFar(other)' =
            IF other = "max-age" THEN ReadSoFar(other) \cup {Here + 1}
            ELSE ReadSoFar(other)
      /\ Here + 1 \notin ReadSoFar("max-age")
  BY <1>1, TakeReads DEF Inv
<1>3. /\ outcome = Reading /\ Flags /\ Here \in Nat
      /\ Len(headers.directives) \in Nat
      /\ DOMAIN headers.directives = 1..Len(headers.directives)
  BY HeadersTyped, <1>1 DEF Inv, Take, Here, Progress
<1>4. CASE maxAge # <<>>
  <2>1. PICK i \in 1..Here : ReadSoFar("max-age") = {i}
    BY <1>3, <1>4 DEF Flags
  <2>2. i \in Given(headers, "max-age") /\ i # Here + 1
    BY <1>2, <2>1 DEF ReadSoFar
  <2>3. Cardinality(Given(headers, "max-age")) > 1
    <3>1. Given(headers, "max-age") \in SUBSET (1..Len(headers.directives))
      BY <1>3 DEF Given
    <3> QED BY <1>2, <1>3, <2>2, <3>1, TwoPlaces
  <2>4. Contract(headers) = Refused
    BY <2>3 DEF Contract
  <2>5. outcome' = Refused
    BY <1>4 DEF ReadMaxAge
  <2> QED BY <1>1, <2>4, <2>5, RefuseKeeps
<1>5. CASE Head(todo).secs = NaN
  <2>1. \E i \in Given(headers, "max-age") : headers.directives[i].secs = NaN
    BY <1>2, <1>5
  <2>2. Contract(headers) = Refused
    BY <2>1 DEF Contract
  <2>3. outcome' = Refused
    BY <1>5 DEF ReadMaxAge
  <2> QED BY <1>1, <2>2, <2>3, RefuseKeeps
<1>6. CASE maxAge = <<>> /\ Head(todo).secs # NaN
  <2>1. /\ maxAge' = <<Head(todo).secs>> /\ outcome' = outcome
        /\ noStore' = noStore /\ noCache' = noCache
    BY <1>6 DEF ReadMaxAge
  <2>2. ReadSoFar("max-age")' = {Here + 1}
    BY <1>2, <1>3, <1>6 DEF Flags
  <2>3. /\ ReadSoFar("no-store")' = ReadSoFar("no-store")
        /\ ReadSoFar("no-cache")' = ReadSoFar("no-cache")
        /\ ReadSoFar(ObsText)' = ReadSoFar(ObsText)
    BY <1>2, CacheControlAssumption
  <2>4. Here + 1 \in 1..Here'
    BY <1>2, <1>3
  <2>5. Flags'
    BY <1>2, <1>3, <1>6, <2>1, <2>2, <2>3, <2>4 DEF Flags
  <2> QED BY <1>2, <1>3, <2>1, <2>5
          DEF Inv, MeetsContract, YieldsControl, Reading
<1> QED BY <1>4, <1>5, <1>6

LEMMA ReadObsTextKeeps == ASSUME Inv, ReadObsText PROVE Inv'
<1>1. Take(ObsText) /\ outcome' = Refused
  BY DEF ReadObsText
<1>2. Given(headers, ObsText) # {}
  BY <1>1, TakeReads DEF Inv
<1>3. Contract(headers) = Refused
  BY <1>2 DEF Contract
<1> QED BY <1>1, <1>3, RefuseKeeps

-----------------------------------------------------------------------------
(***************************************************************************)
(* The verdict.                                                            *)
(***************************************************************************)
LEMMA ConcludeKeeps == ASSUME Inv, Conclude PROVE Inv'
<1> DEFINE key == KeyOf(headers.tags)
           secs == IF maxAge = <<>> THEN 0 ELSE maxAge[1]
           stores == Given(headers, "no-store")
           caches == Given(headers, "no-cache")
           ages == Given(headers, "max-age")
           tags == IF Len(headers.tags) = 1 THEN TagsOf(headers.tags[1]) ELSE {}
<1>1. /\ outcome = Reading /\ todo = <<>> /\ headers \in Headers
      /\ UNCHANGED <<headers, todo, noStore, noCache, maxAge>>
      /\ Flags /\ Progress
  BY DEF Conclude, Inv, Progress
<1>2. \A name : ReadSoFar(name) = Given(headers, name)
  BY <1>1, HeadersTyped DEF ReadSoFar, Given, Here
<1>3. /\ noStore = (stores # {}) /\ noCache = (caches # {})
      /\ Given(headers, ObsText) = {}
      /\ \/ maxAge = <<>> /\ ages = {}
         \/ \E i \in 1..Len(headers.directives) :
              /\ ages = {i} /\ headers.directives[i].secs # NaN
              /\ maxAge = <<headers.directives[i].secs>>
  <2>1. Here = Len(headers.directives)
    BY <1>1, HeadersTyped DEF Here
  <2> QED BY <1>1, <1>2, <2>1 DEF Flags
<1>4. /\ tags = (IF key = <<>> THEN {} ELSE {key})
      /\ key # <<>> => key \in Etag
  BY <1>1, KeyIsTheTag
<1>5. /\ (maxAge # <<>>) = (ages # {})
      /\ secs \in Nat
      /\ secs = IF ages = {} THEN 0
                ELSE headers.directives[CHOOSE i \in ages : TRUE].secs
      /\ ~(Cardinality(ages) > 1)
      /\ \A i \in ages : headers.directives[i].secs # NaN
  <2>1. CASE maxAge = <<>> /\ ages = {}
    <3>1. Cardinality({}) = 0
      BY FS_EmptySet
    <3>2. secs = 0
      BY <2>1
    <3> HIDE DEF ages, secs
    <3> QED BY <2>1, <3>1, <3>2
  <2>2. CASE maxAge # <<>> \/ ages # {}
    <3>1. PICK i \in 1..Len(headers.directives) :
            /\ ages = {i} /\ headers.directives[i].secs # NaN
            /\ maxAge = <<headers.directives[i].secs>>
      BY <1>3, <2>2
    <3>2. Cardinality({i}) = 1
      BY FS_Singleton
    <3>3. headers.directives[i].secs \in Nat
      BY <1>1, <3>1, HeadersTyped
    <3>4. maxAge # <<>> /\ maxAge[1] = headers.directives[i].secs
      BY <3>1
    <3>5. (CHOOSE k \in ages : TRUE) = i
      BY <3>1
    <3> HIDE DEF ages
    <3> QED BY <3>1, <3>2, <3>3, <3>4, <3>5
  <2> QED BY <2>1, <2>2
<1>6. Contract(headers) =
        IF stores # {} /\ caches \cup ages # {} THEN Refused
        ELSE IF stores \cup caches \cup ages = {} THEN Ignored
        ELSE IF stores # {} THEN Parsed([NoControl EXCEPT !.noStore = TRUE])
        ELSE IF key = <<>> THEN Refused
        ELSE Parsed([noCache |-> caches # {}, noStore |-> FALSE,
                     maxAge |-> secs, etag |-> key])
  <2>1. key # <<>> => (CHOOSE tag \in tags : TRUE) = key
    BY <1>4
  <2>2. (tags = {}) = (key = <<>>)
    BY <1>4
  <2>3. Contract(headers) =
          IF stores # {} /\ caches \cup ages # {} THEN Refused
          ELSE IF stores \cup caches \cup ages = {} THEN Ignored
          ELSE IF stores # {} THEN Parsed([NoControl EXCEPT !.noStore = TRUE])
          ELSE IF tags = {} THEN Refused
          ELSE Parsed([noCache |-> caches # {}, noStore |-> FALSE,
                       maxAge |-> IF ages = {} THEN 0
                                  ELSE headers.directives[CHOOSE i \in ages : TRUE].secs,
                       etag |-> CHOOSE tag \in tags : TRUE])
    BY <1>3, <1>5 DEF Contract
  <2> HIDE DEF key, secs, stores, caches, ages, tags
  <2> QED BY <1>5, <2>1, <2>2, <2>3
<1> HIDE DEF key, secs, stores, caches, ages, tags
<1>7. outcome' = Contract(headers)
  <2>1. LET acts == noStore \/ noCache \/ maxAge # <<>>
            conflict == noStore /\ (noCache \/ maxAge # <<>>)
        IN  \/ ~acts /\ outcome' = Ignored
            \/ acts /\ conflict /\ outcome' = Refused
            \/ /\ acts /\ ~conflict /\ noStore
               /\ outcome' = Parsed([NoControl EXCEPT !.noStore = TRUE])
            \/ acts /\ ~noStore /\ key = <<>> /\ outcome' = Refused
            \/ /\ acts /\ ~noStore /\ key # <<>>
               /\ outcome' = Parsed([noCache |-> noCache, noStore |-> FALSE,
                                     maxAge |-> secs, etag |-> key])
    BY DEF Conclude, key, secs
  <2>2. /\ noStore = (stores # {}) /\ noCache = (caches # {})
        /\ (maxAge # <<>>) = (ages # {})
    BY <1>3, <1>5 DEF stores, caches
  <2>4. CASE noStore /\ (noCache \/ maxAge # <<>>)
    BY <1>6, <2>1, <2>2, <2>4
  <2>5. CASE noStore /\ ~noCache /\ maxAge = <<>>
    BY <1>6, <2>1, <2>2, <2>5
  <2>6. CASE ~noStore /\ ~noCache /\ maxAge = <<>>
    BY <1>6, <2>1, <2>2, <2>6
  <2>7. CASE ~noStore /\ (noCache \/ maxAge # <<>>) /\ key = <<>>
    BY <1>6, <2>1, <2>2, <2>7
  <2>8. CASE ~noStore /\ (noCache \/ maxAge # <<>>) /\ key # <<>>
    <3>1. outcome' = Parsed([noCache |-> noCache, noStore |-> FALSE,
                             maxAge |-> secs, etag |-> key])
      BY <2>1, <2>8
    <3>2. outcome' = Parsed([noCache |-> caches # {}, noStore |-> FALSE,
                             maxAge |-> secs, etag |-> key])
      BY <2>2, <3>1
    <3>3. Contract(headers) = Parsed([noCache |-> caches # {}, noStore |-> FALSE,
                                      maxAge |-> secs, etag |-> key])
      BY <1>6, <2>2, <2>8
    <3> QED BY <3>2, <3>3
  <2> QED BY <2>4, <2>5, <2>6, <2>7, <2>8
<1>8. YieldsControl'
  <2>1. outcome'.kind = "control" =>
          \/ outcome'.control = [NoControl EXCEPT !.noStore = TRUE]
          \/ /\ key # <<>>
             /\ outcome'.control = [noCache |-> caches # {}, noStore |-> FALSE,
                                    maxAge |-> secs, etag |-> key]
    BY <1>6, <1>7 DEF Parsed, Refused, Ignored
  <2>2. NoEtag \notin Etag /\ secs \in Nat /\ (key # <<>> => key \in Etag)
    BY <1>4, <1>5, ControlAssumption
  <2>3. CASE outcome'.control = [NoControl EXCEPT !.noStore = TRUE]
    <3>1. outcome'.control = [noCache |-> FALSE, noStore |-> TRUE, maxAge |-> 0,
                              etag |-> NoEtag]
      BY <2>3 DEF NoControl
    <3> QED BY <3>1 DEF YieldsControl, IsControl, AnyControl, Reads, Writes
  <2>4. CASE /\ key # <<>>
             /\ outcome'.control = [noCache |-> caches # {}, noStore |-> FALSE,
                                    maxAge |-> secs, etag |-> key]
    <3>1. /\ outcome'.control \in AnyControl /\ outcome'.control.noStore = FALSE
          /\ outcome'.control.etag # NoEtag
      BY <2>2, <2>4 DEF AnyControl
    <3> QED BY <3>1 DEF YieldsControl, IsControl, Reads, Writes
  <2> QED BY <2>1, <2>3, <2>4 DEF YieldsControl
<1>9. outcome' # Reading
  BY <1>6, <1>7 DEF Parsed, Refused, Ignored, Reading
<1>10. Progress' /\ MeetsContract'
  BY <1>1, <1>7 DEF Progress, Here, MeetsContract
<1> QED BY <1>8, <1>9, <1>10 DEF Inv, Flags

LEMMA NextInv == Inv /\ [Next]_vars => Inv'
<1> SUFFICES ASSUME Inv, [Next]_vars PROVE Inv'
  OBVIOUS
<1>1. CASE ReadNoStore
  BY <1>1, ReadOn DEF ReadNoStore
<1>2. CASE ReadNoCache
  BY <1>2, ReadOn DEF ReadNoCache
<1>3. CASE Skip
  BY <1>3, ReadOn DEF Skip
<1>4. CASE UNCHANGED vars
  <2>1. \A name : ReadSoFar(name)' = ReadSoFar(name)
    BY <1>4 DEF vars, ReadSoFar, Given, Here
  <2> QED BY <1>4, <2>1
          DEF vars, Inv, Progress, Flags, Here, MeetsContract, YieldsControl
<1> QED BY <1>1, <1>2, <1>3, <1>4, ReadMaxAgeKeeps, ReadObsTextKeeps,
           ConcludeKeeps DEF Next

THEOREM InvHolds == Spec => []Inv
BY InitInv, NextInv, PTL DEF Spec

(* For header fields of any length: the parser returns what the contract says
   of the set of directives, whatever their order, and takes a key exactly when
   the one If-None-Match line is one strong entity-tag. *)
THEOREM ParserMeetsContract == Spec => []MeetsContract
<1>1. Inv => MeetsContract
  BY DEF Inv
<1> QED BY <1>1, InvHolds, PTL

(* What HttpCache is given is a Control. *)
THEOREM ParserYieldsControls == Spec => []YieldsControl
<1>1. Inv => YieldsControl
  BY DEF Inv
<1> QED BY <1>1, InvHolds, PTL

=============================================================================
