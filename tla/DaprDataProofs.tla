--------------------------- MODULE DaprDataProofs ---------------------------
(***************************************************************************)
(* Proofs about DaprData, for any keys, values, topics and headers, and    *)
(* services of every kind: what was asked for is what is stored, and what  *)
(* is stored is what comes back.                                           *)
(*                                                                         *)
(* First come the encodings: a URL taken apart by a server yields what was *)
(* put into it, and so do the layers around bytes.                         *)
(***************************************************************************)
EXTENDS DaprData, SequenceTheorems, FiniteSetTheorems, WellFoundedInduction,
        NaturalsInduction, TLAPS

Text == Seq(Char)

Token == [c : Char, esc : BOOLEAN]

Url == Seq(Token)

(* A literal character c at place i of a URL, and URLs that have none. *)
LitAt(url, i, c) == url[i] = [c |-> c, esc |-> FALSE]

Lacks(url, c) == \A i \in 1..Len(url) : ~LitAt(url, i, c)

-----------------------------------------------------------------------------
(***************************************************************************)
(* Taking a URL apart.                                                     *)
(***************************************************************************)
LEMMA LitIsUrl ==
    ASSUME NEW c \in Char
    PROVE  Lit(c) \in Url /\ Len(Lit(c)) = 1 /\ Lit(c)[1] = [c |-> c, esc |-> FALSE]
BY DEF Lit, Url, Token

(* The places of a URL put together from two. *)
LEMMA ConcatOf ==
    ASSUME NEW u \in Url, NEW v \in Url
    PROVE  /\ u \o v \in Url /\ Len(u \o v) = Len(u) + Len(v)
           /\ \A i \in 1..Len(u) : (u \o v)[i] = u[i]
           /\ \A i \in 1..Len(v) : (u \o v)[Len(u) + i] = v[i]
           /\ Len(u) \in Nat /\ Len(v) \in Nat
           /\ \A i \in 1..Len(u \o v) :
                 i \in 1..Len(u) \/ \E j \in 1..Len(v) : i = Len(u) + j
<1>1. /\ u \o v \in Url /\ Len(u \o v) = Len(u) + Len(v)
      /\ \A i \in 1 .. Len(u) + Len(v) :
            (u \o v)[i] = IF i <= Len(u) THEN u[i] ELSE v[i - Len(u)]
  BY ConcatProperties, Zenon DEF Url
<1>2. Len(u) \in Nat /\ Len(v) \in Nat
  BY DEF Url
<1>3. \A i \in 1..Len(v) : /\ Len(u) + i \in 1..(Len(u) + Len(v))
                           /\ ~(Len(u) + i <= Len(u)) /\ Len(u) + i - Len(u) = i
  BY <1>2
<1>4. \A i \in 1..Len(v) : (u \o v)[Len(u) + i] = v[i]
  <2> TAKE i \in 1..Len(v)
  <2>1. (u \o v)[Len(u) + i] = IF Len(u) + i <= Len(u) THEN u[Len(u) + i]
                               ELSE v[Len(u) + i - Len(u)]
    BY <1>1, <1>3
  <2> QED BY <1>3, <2>1
<1>5. \A i \in 1..Len(u) : (u \o v)[i] = u[i]
  BY <1>1, <1>2
<1>6. ASSUME NEW i \in 1..Len(u \o v)
      PROVE  i \in 1..Len(u) \/ \E j \in 1..Len(v) : i = Len(u) + j
  <2>1. CASE i <= Len(u)
    BY <1>2, <2>1
  <2>2. CASE ~(i <= Len(u))
    <3>1. i - Len(u) \in 1..Len(v) /\ i = Len(u) + (i - Len(u))
      BY <1>1, <1>2, <2>2
    <3> QED BY <3>1
  <2> QED BY <2>1, <2>2
<1> QED BY <1>1, <1>2, <1>4, <1>5, <1>6

LEMMA Regroup ==
    ASSUME NEW u \in Url, NEW v \in Url, NEW w \in Url
    PROVE  (u \o v) \o w = u \o (v \o w)
  BY ConcatAssociative DEF Url

LEMMA MinOfPlaces ==
    ASSUME NEW S, S \subseteq Nat, S # {}
    PROVE  Min(S) \in S /\ \A k \in S : Min(S) <= k
<1>1. \E x \in S : \A y \in S : ~(<<y, x>> \in OpToRel(<, Nat))
  BY NatLessThanWellFounded, WFMin
<1>2. PICK x \in S : \A y \in S : ~(<<y, x>> \in OpToRel(<, Nat))
  BY <1>1
<1>3. \A y \in S : x <= y
  <2> TAKE y \in S
  <2>1. ~(y < x) => x <= y
    OBVIOUS
  <2>2. y < x => <<y, x>> \in OpToRel(<, Nat)
    BY Zenon DEF OpToRel
  <2> QED BY <1>2, <2>1, <2>2
<1> QED BY <1>3 DEF Min

(* The cut is at the first literal c, if there is one. *)
LEMMA CutIsFirst ==
    ASSUME NEW url \in Url, NEW c \in Char
    PROVE  \/ Cut(url, c) = 0 /\ Lacks(url, c)
           \/ /\ Cut(url, c) \in 1..Len(url) /\ LitAt(url, Cut(url, c), c)
              /\ \A k \in 1..Len(url) : k < Cut(url, c) => ~LitAt(url, k, c)
<1> DEFINE I == {k \in 1..Len(url) : LitAt(url, k, c)}
           cut == IF I # {} THEN Min(I) ELSE 0
<1>1. Cut(url, c) = cut
  <2>1. \A k : (Lit(c) = <<url[k]>>) = LitAt(url, k, c)
    BY DEF Lit, LitAt
  <2>2. {k \in 1..Len(url) : Lit(c) = <<url[k]>>} = I
    BY <2>1
  <2> QED BY <2>2 DEF Cut, SelectInSeq
<1>2. CASE I = {}
  BY <1>1, <1>2 DEF Lacks
<1>3. CASE I # {}
  <2>1. Min(I) \in I /\ \A k \in I : Min(I) <= k
    <3>1. Len(url) \in Nat
      BY DEF Url
    <3>2. 1..Len(url) \subseteq Nat
      BY <3>1
    <3>3. I \subseteq Nat
      BY <3>2, Zenon
    <3> HIDE DEF I
    <3> QED BY <3>3, <1>3, MinOfPlaces
  <2>2. Min(I) \in 1..Len(url) /\ LitAt(url, Min(I), c)
    BY <2>1, Zenon
  <2>3. ASSUME NEW k \in 1..Len(url), k < Min(I), LitAt(url, k, c)
        PROVE  FALSE
    <3>1. k \in I
      BY <2>3
    <3>2. Min(I) <= k
      BY <3>1, <2>1, Zenon
    <3> HIDE DEF I
    <3> QED BY <2>2, <2>3, <3>2
  <2> HIDE DEF I
  <2> QED BY <1>1, <1>3, <2>2, <2>3
<1> QED BY <1>2, <1>3

(* What comes before a literal c that nothing before it equals, and behind. *)
LEMMA CutAt ==
    ASSUME NEW head \in Url, NEW tail \in Url, NEW c \in Char, Lacks(head, c)
    PROVE  /\ Before(head \o Lit(c) \o tail, c) = head
           /\ Behind(head \o Lit(c) \o tail, c) = tail
<1> DEFINE url == head \o Lit(c) \o tail
<1>1. /\ head \o Lit(c) \in Url /\ Len(head \o Lit(c)) = Len(head) + 1
      /\ Len(head) \in Nat /\ Len(tail) \in Nat
      /\ \A i \in 1..Len(head) : (head \o Lit(c))[i] = head[i]
      /\ LitAt(head \o Lit(c), Len(head) + 1, c)
  <2>1. Lit(c) \in Url /\ Len(Lit(c)) = 1 /\ Lit(c)[1] = [c |-> c, esc |-> FALSE]
    BY LitIsUrl
  <2>2. 1 \in 1..Len(Lit(c))
    BY <2>1
  <2>3. Len(tail) \in Nat
    BY DEF Url
  <2> DEFINE lit == Lit(c)
  <2> HIDE DEF lit
  <2>4. /\ head \o lit \in Url /\ Len(head \o lit) = Len(head) + Len(lit)
        /\ \A i \in 1..Len(head) : (head \o lit)[i] = head[i]
        /\ \A i \in 1..Len(lit) : (head \o lit)[Len(head) + i] = lit[i]
        /\ Len(head) \in Nat
    BY <2>1, ConcatOf DEF lit
  <2>5. Len(lit) = 1 /\ lit[1] = [c |-> c, esc |-> FALSE]
    BY <2>1 DEF lit
  <2>6. (head \o lit)[Len(head) + 1] = [c |-> c, esc |-> FALSE]
    <3>1. 1 \in 1..1
      OBVIOUS
    <3>2. 1 \in 1..Len(lit)
      BY <2>5, <3>1, Zenon
    <3> QED BY <2>4, <2>5, <3>2
  <2> QED BY <2>3, <2>4, <2>5, <2>6 DEF LitAt, lit
<1>2. /\ url \in Url /\ Len(url) = Len(head) + 1 + Len(tail)
      /\ \A i \in 1..Len(head) : url[i] = head[i]
      /\ LitAt(url, Len(head) + 1, c)
      /\ \A i \in 1..Len(tail) : url[Len(head) + 1 + i] = tail[i]
  <2> DEFINE front == head \o Lit(c)
  <2>1. front \in Url /\ Len(front) = Len(head) + 1
    BY <1>1
  <2>2. \A i \in 1..Len(head) : front[i] = head[i] /\ i \in 1..Len(front)
    BY <1>1
  <2>3. LitAt(front, Len(head) + 1, c) /\ Len(head) + 1 \in 1..Len(front)
    <3>1. Len(head) + 1 \in 1..(Len(head) + 1)
      BY <1>1
    <3> QED BY <1>1, <3>1, Zenon
  <2> HIDE DEF front
  <2>4. /\ front \o tail \in Url /\ Len(front \o tail) = Len(front) + Len(tail)
        /\ \A i \in 1..Len(front) : (front \o tail)[i] = front[i]
        /\ \A i \in 1..Len(tail) : (front \o tail)[Len(front) + i] = tail[i]
    BY <2>1, ConcatOf
  <2>5. \A i \in 1..Len(head) : (front \o tail)[i] = head[i]
    BY <2>2, <2>4
  <2>6. LitAt(front \o tail, Len(head) + 1, c)
    BY <2>3, <2>4 DEF LitAt
  <2>7. url = front \o tail
    BY DEF front
  <2> QED BY <2>1, <2>4, <2>5, <2>6, <2>7
<1> HIDE DEF url
<1>3. Cut(url, c) = Len(head) + 1
  <2>1. ~Lacks(url, c)
    BY <1>1, <1>2 DEF Lacks
  <2>2. \A k \in 1..Len(head) : ~LitAt(url, k, c)
    BY <1>2 DEF Lacks, LitAt
  <2>3. Len(head) + 1 \in 1..Len(url)
    BY <1>1, <1>2
  <2>4. /\ Cut(url, c) \in 1..Len(url) /\ LitAt(url, Cut(url, c), c)
        /\ \A k \in 1..Len(url) : k < Cut(url, c) => ~LitAt(url, k, c)
    BY <1>2, <2>1, CutIsFirst
  <2>5. ~(Len(head) + 1 < Cut(url, c))
    BY <1>2, <2>3, <2>4
  <2> DEFINE cut == Cut(url, c)
  <2>6. cut \in Nat /\ cut >= 1 /\ cut <= Len(url)
    <3>1. cut \in 1..Len(url)
      BY <2>4
    <3>2. Len(url) \in Nat
      BY <1>1, <1>2
    <3> HIDE DEF cut
    <3> QED BY <3>1, <3>2
  <2>7. ~(cut <= Len(head))
    BY <1>1, <2>2, <2>4, <2>6
  <2>8. ~(Len(head) + 1 < cut)
    BY <2>5
  <2> HIDE DEF cut
  <2>9. cut = Len(head) + 1
    BY <1>1, <2>6, <2>7, <2>8
  <2> QED BY <2>9 DEF cut
<1>4. Before(url, c) = head
  <2>1. Before(url, c) = SubSeq(url, 1, Len(head))
    BY <1>1, <1>3 DEF Before
  <2>2. \A i \in 1..Len(head) : url[i] \in Token
    BY <1>1, <1>2 DEF Url
  <2>3. /\ SubSeq(url, 1, Len(head)) \in Seq(Token)
        /\ Len(SubSeq(url, 1, Len(head))) = IF 1 <= Len(head) THEN Len(head) - 1 + 1 ELSE 0
        /\ \A i \in 1..(Len(head) - 1 + 1) :
              SubSeq(url, 1, Len(head))[i] = url[1 + i - 1]
    BY <1>1, <2>2, SubSeqProperties
  <2>4. \A i \in 1..Len(head) : SubSeq(url, 1, Len(head))[i] = head[i]
    BY <1>1, <1>2, <2>3
  <2> QED BY <1>1, <2>1, <2>3, <2>4, SeqEqual DEF Url
<1>5. Behind(url, c) = tail
  <2> DEFINE n == Len(head) + 2
  <2>1. Behind(url, c) = SubSeq(url, n, Len(url))
    BY <1>1, <1>3 DEF Behind
  <2>2. \A i \in n..Len(url) : url[i] \in Token
    BY <1>1, <1>2 DEF Url
  <2>3. n \in Int /\ Len(url) \in Int /\ Len(url) - n + 1 = Len(tail)
    BY <1>1, <1>2
  <2>4. /\ SubSeq(url, n, Len(url)) \in Seq(Token)
        /\ Len(SubSeq(url, n, Len(url))) = IF n <= Len(url) THEN Len(url) - n + 1 ELSE 0
        /\ \A i \in 1..(Len(url) - n + 1) :
              SubSeq(url, n, Len(url))[i] = url[n + i - 1]
    <3> HIDE DEF n
    <3> QED BY <2>2, <2>3, SubSeqProperties
  <2>5. Len(SubSeq(url, n, Len(url))) = Len(tail)
    BY <1>1, <1>2, <2>3, <2>4
  <2>6. \A i \in 1..Len(tail) : SubSeq(url, n, Len(url))[i] = tail[i]
    <3> TAKE i \in 1..Len(tail)
    <3>1. n + i - 1 = Len(head) + 1 + i
      BY <1>1
    <3>2. SubSeq(url, n, Len(url))[i] = url[n + i - 1]
      BY <2>3, <2>4
    <3> QED BY <1>2, <3>1, <3>2
  <2> HIDE DEF n
  <2> QED BY <1>1, <2>1, <2>4, <2>5, <2>6, SeqEqual DEF Url
<1> QED BY <1>4, <1>5 DEF url

LEMMA NoCut ==
    ASSUME NEW url \in Url, NEW c \in Char, Lacks(url, c)
    PROVE  Before(url, c) = url /\ Behind(url, c) = <<>>
<1>1. Cut(url, c) = 0
  BY CutIsFirst DEF Lacks
<1> QED BY <1>1 DEF Before, Behind

(* Where pieces that lack c are put together, nothing else brings one in. *)
LEMMA LacksConcat ==
    ASSUME NEW u \in Url, NEW v \in Url, NEW c \in Char
    PROVE  u \o v \in Url /\ (Lacks(u \o v, c) <=> Lacks(u, c) /\ Lacks(v, c))
<1>1. /\ u \o v \in Url /\ Len(u \o v) = Len(u) + Len(v)
      /\ \A i \in 1..Len(u) : (u \o v)[i] = u[i]
      /\ \A i \in 1..Len(v) : (u \o v)[Len(u) + i] = v[i]
      /\ Len(u) \in Nat /\ Len(v) \in Nat
      /\ \A i \in 1..Len(u \o v) :
            i \in 1..Len(u) \/ \E j \in 1..Len(v) : i = Len(u) + j
  BY ConcatOf
<1>2. ASSUME Lacks(u, c), Lacks(v, c) PROVE Lacks(u \o v, c)
  <2> SUFFICES ASSUME NEW i \in 1..Len(u \o v), LitAt(u \o v, i, c)
               PROVE  FALSE
    BY DEF Lacks
  <2>1. CASE i \in 1..Len(u)
    BY <1>1, <1>2, <2>1 DEF Lacks, LitAt
  <2>2. CASE \E j \in 1..Len(v) : i = Len(u) + j
    BY <1>1, <1>2, <2>2 DEF Lacks, LitAt
  <2> QED BY <1>1, <2>1, <2>2
<1>3. ASSUME Lacks(u \o v, c) PROVE Lacks(u, c)
  <2> SUFFICES ASSUME NEW i \in 1..Len(u), LitAt(u, i, c) PROVE FALSE
    BY DEF Lacks
  <2>1. i \in 1..Len(u \o v) /\ LitAt(u \o v, i, c)
    BY <1>1 DEF LitAt
  <2> QED BY <1>3, <2>1 DEF Lacks
<1>4. ASSUME Lacks(u \o v, c) PROVE Lacks(v, c)
  <2> SUFFICES ASSUME NEW i \in 1..Len(v), LitAt(v, i, c) PROVE FALSE
    BY DEF Lacks
  <2>1. Len(u) + i \in 1..Len(u \o v) /\ LitAt(u \o v, Len(u) + i, c)
    BY <1>1 DEF LitAt
  <2> QED BY <1>4, <2>1 DEF Lacks
<1> QED BY <1>1, <1>2, <1>3, <1>4

LEMMA LitLacks ==
    ASSUME NEW c \in Char, NEW d \in Char
    PROVE  Lit(c) \in Url /\ (Lacks(Lit(c), d) <=> c # d)
<1>1. Lit(c) \in Url /\ Len(Lit(c)) = 1 /\ Lit(c)[1] = [c |-> c, esc |-> FALSE]
  BY LitIsUrl
<1>2. LitAt(Lit(c), 1, d) <=> c = d
  <2>1. \A x, y : [c |-> x, esc |-> FALSE] = [c |-> y, esc |-> FALSE] => x = y
    OBVIOUS
  <2> QED BY <1>1, <2>1, Zenon DEF LitAt
<1> QED BY <1>1, <1>2 DEF Lacks

-----------------------------------------------------------------------------
(***************************************************************************)
(* The pieces of a query.                                                  *)
(***************************************************************************)
Rest(url, i) == SubSeq(url, i + 1, Len(url))

LEMMA RestOf ==
    ASSUME NEW url \in Url, NEW i \in 0..Len(url)
    PROVE  /\ Rest(url, i) \in Url /\ Len(Rest(url, i)) = Len(url) - i
           /\ \A k \in 1..(Len(url) - i) : Rest(url, i)[k] = url[i + k]
<1> DEFINE m == i + 1
           n == Len(url)
<1>1. /\ m \in Int /\ n \in Int /\ n - m + 1 = Len(url) - i
      /\ (IF m <= n THEN n - m + 1 ELSE 0) = Len(url) - i
      /\ \A k \in 1..(Len(url) - i) : m + k - 1 = i + k
  BY DEF Url
<1>2. \A k \in m..n : url[k] \in Token
  BY DEF Url
<1> HIDE DEF m, n
<1>3. /\ SubSeq(url, m, n) \in Seq(Token)
      /\ Len(SubSeq(url, m, n)) = IF m <= n THEN n - m + 1 ELSE 0
      /\ \A k \in 1..(n - m + 1) : SubSeq(url, m, n)[k] = url[m + k - 1]
  BY <1>1, <1>2, SubSeqProperties
<1>4. \A k \in 1..(Len(url) - i) : SubSeq(url, m, n)[k] = url[i + k]
  BY <1>1, <1>3
<1> QED BY <1>1, <1>3, <1>4 DEF Rest, Url, m, n

LEMMA RestOfAll ==
    ASSUME NEW url \in Url PROVE Rest(url, 0) = url
<1>1. 0 + 1 = 1
  OBVIOUS
<1> QED BY <1>1, SubSeqFull DEF Rest, Url

LEMMA RestOfNothing ==
    ASSUME NEW url \in Url PROVE Rest(url, Len(url)) = <<>>
<1>1. Len(url) + 1 \in Int /\ Len(url) \in Int /\ Len(url) < Len(url) + 1
  BY DEF Url
<1> QED BY <1>1, SubSeqEmpty DEF Rest

LEMMA RestOfConcat ==
    ASSUME NEW u \in Url, NEW v \in Url, NEW i \in 0..Len(u)
    PROVE  Rest(u \o v, i) = Rest(u, i) \o v
<1>1. /\ u \o v \in Url /\ Len(u \o v) = Len(u) + Len(v)
      /\ \A k \in 1..Len(u) : (u \o v)[k] = u[k]
      /\ \A k \in 1..Len(v) : (u \o v)[Len(u) + k] = v[k]
      /\ Len(u) \in Nat /\ Len(v) \in Nat
  BY ConcatOf
<1> DEFINE w == u \o v
           tail == Rest(u, i)
<1>2. /\ tail \in Url /\ Len(tail) = Len(u) - i
      /\ \A k \in 1..(Len(u) - i) : tail[k] = u[i + k]
  BY RestOf
<1> HIDE DEF w
<1>3. i \in 0..Len(w) /\ w \in Url
  BY <1>1 DEF w
<1>4. /\ Rest(w, i) \in Url /\ Len(Rest(w, i)) = Len(w) - i
      /\ \A k \in 1..(Len(w) - i) : Rest(w, i)[k] = w[i + k]
  BY <1>3, RestOf
<1> HIDE DEF tail
<1>5. /\ tail \o v \in Url /\ Len(tail \o v) = Len(tail) + Len(v)
      /\ \A k \in 1..Len(tail) : (tail \o v)[k] = tail[k]
      /\ \A k \in 1..Len(v) : (tail \o v)[Len(tail) + k] = v[k]
      /\ \A k \in 1..Len(tail \o v) :
            k \in 1..Len(tail) \/ \E j \in 1..Len(v) : k = Len(tail) + j
  BY <1>2, ConcatOf
<1>6. Len(Rest(w, i)) = Len(tail \o v)
  BY <1>1, <1>2, <1>4, <1>5 DEF w
<1>7. ASSUME NEW k \in 1..Len(tail \o v) PROVE Rest(w, i)[k] = (tail \o v)[k]
  <2>0. Rest(w, i)[k] = w[i + k]
    BY <1>1, <1>2, <1>4, <1>5, <1>6
  <2>1. CASE k \in 1..Len(tail)
    <3>1. i + k \in 1..Len(u)
      BY <1>1, <1>2, <2>1
    <3>2. w[i + k] = u[i + k]
      BY <1>1, <3>1 DEF w
    <3>3. (tail \o v)[k] = u[i + k]
      BY <1>2, <1>5, <2>1
    <3> QED BY <2>0, <3>2, <3>3
  <2>2. CASE \E j \in 1..Len(v) : k = Len(tail) + j
    <3>1. PICK j \in 1..Len(v) : k = Len(tail) + j
      BY <2>2
    <3>2. i + k = Len(u) + j
      BY <1>1, <1>2, <3>1
    <3>3. w[i + k] = v[j]
      BY <1>1, <3>2 DEF w
    <3>4. (tail \o v)[k] = v[j]
      BY <1>5, <3>1
    <3> QED BY <2>0, <3>3, <3>4
  <2> QED BY <1>5, <2>1, <2>2
<1>8. Rest(w, i) = tail \o v
  BY <1>4, <1>5, <1>6, <1>7, SeqEqual DEF Url
<1> QED BY <1>8 DEF w, tail

(* A URL with a literal c, taken apart there. *)
LEMMA SplitAt ==
    ASSUME NEW url \in Url, NEW c \in Char, NEW k \in 1..Len(url), LitAt(url, k, c)
    PROVE  \E head \in Url, tail \in Url :
              /\ url = head \o Lit(c) \o tail
              /\ Len(head) = k - 1 /\ \A i \in 1..(k - 1) : head[i] = url[i]
<1> DEFINE head == SubSeq(url, 1, k - 1)
           tail == SubSeq(url, k + 1, Len(url))
<1>1. /\ Len(url) \in Nat /\ 1 \in 1..Len(url) + 1 /\ k - 1 \in 1-1..Len(url)
      /\ k \in k - 1..Len(url) /\ k \in 1-1..Len(url) /\ Len(url) \in k..Len(url)
      /\ k - 1 + 1 = k /\ k \in 1..Len(url) + 1 /\ k \in k..Len(url)
      /\ 1 \in Int /\ k - 1 \in Int /\ k \in Int /\ k + 1 \in Int /\ Len(url) \in Int
      /\ k - 1 - 1 + 1 = k - 1
  BY DEF Url
<1>2. head \o SubSeq(url, k, k) = SubSeq(url, 1, k)
  BY <1>1, ConcatAdjacentSubSeq DEF Url
<1>3. SubSeq(url, 1, k) \o tail = url
  <2>1. SubSeq(url, 1, k) \o tail = SubSeq(url, 1, Len(url))
    BY <1>1, ConcatAdjacentSubSeq DEF Url
  <2> QED BY <2>1, SubSeqFull DEF Url
<1>4. SubSeq(url, k, k) = Lit(c)
  <2>1. \A i \in k..k : url[i] \in Token
    BY <1>1 DEF Url
  <2>2. /\ SubSeq(url, k, k) \in Seq(Token)
        /\ Len(SubSeq(url, k, k)) = IF k <= k THEN k - k + 1 ELSE 0
        /\ \A i \in 1..(k - k + 1) : SubSeq(url, k, k)[i] = url[k + i - 1]
    BY <1>1, <2>1, SubSeqProperties
  <2>3. Len(SubSeq(url, k, k)) = 1 /\ SubSeq(url, k, k)[1] = url[k]
    BY <1>1, <2>2
  <2>4. Lit(c) \in Url /\ Len(Lit(c)) = 1 /\ Lit(c)[1] = url[k]
    BY LitIsUrl DEF LitAt
  <2>5. \A i \in 1..Len(Lit(c)) : SubSeq(url, k, k)[i] = Lit(c)[i]
    BY <2>3, <2>4
  <2> QED BY <2>2, <2>3, <2>4, <2>5, SeqEqual DEF Url
<1>5. /\ head \in Url /\ Len(head) = k - 1
      /\ \A i \in 1..(k - 1) : head[i] = url[i]
  <2>1. \A i \in 1..(k - 1) : url[i] \in Token
    BY <1>1 DEF Url
  <2>2. /\ head \in Seq(Token)
        /\ Len(head) = IF 1 <= k - 1 THEN k - 1 - 1 + 1 ELSE 0
        /\ \A i \in 1..(k - 1 - 1 + 1) : head[i] = url[1 + i - 1]
    BY <1>1, <2>1, SubSeqProperties
  <2>3. \A i \in 1..(k - 1) : 1 + i - 1 = i
    OBVIOUS
  <2> HIDE DEF head
  <2> QED BY <1>1, <2>2, <2>3 DEF Url
<1>6. tail \in Url
  <2>1. \A i \in k + 1..Len(url) : url[i] \in Token
    BY <1>1 DEF Url
  <2> QED BY <1>1, <2>1, SubSeqProperties DEF Url
<1> HIDE DEF head, tail
<1> QED BY <1>2, <1>3, <1>4, <1>5, <1>6

(* What follows a literal c is not seen before it. *)
LEMMA BeforeFront ==
    ASSUME NEW url \in Url, NEW p \in Url, NEW c \in Char
    PROVE  Before(url \o (Lit(c) \o p), c) = Before(url, c)
<1>0. Lit(c) \in Url /\ Lit(c) \o p \in Url
  BY LitIsUrl, ConcatOf
<1>1. CASE Lacks(url, c)
  <2>1. url \o (Lit(c) \o p) = url \o Lit(c) \o p
    BY <1>0, Regroup
  <2> QED BY <1>1, <2>1, CutAt, NoCut
<1>2. CASE ~Lacks(url, c)
  <2> DEFINE k == Cut(url, c)
  <2>1. /\ k \in 1..Len(url) /\ LitAt(url, k, c)
        /\ \A i \in 1..Len(url) : i < k => ~LitAt(url, i, c)
    BY <1>2, CutIsFirst
  <2> HIDE DEF k
  <2>2. PICK head \in Url, tail \in Url :
              /\ url = head \o Lit(c) \o tail
              /\ Len(head) = k - 1 /\ \A i \in 1..(k - 1) : head[i] = url[i]
    BY <2>1, SplitAt
  <2>3. Lacks(head, c)
    <3>1. Len(url) \in Nat
      BY DEF Url
    <3>2. \A i \in 1..(k - 1) : i \in 1..Len(url) /\ i < k
      BY <2>1, <3>1
    <3> QED BY <2>1, <2>2, <3>2 DEF Lacks, LitAt
  <2>4. Before(url, c) = head
    BY <2>2, <2>3, CutAt
  <2> DEFINE more == Lit(c) \o p
             front == head \o Lit(c)
  <2>5. front \in Url /\ more \in Url /\ tail \o more \in Url
    BY <1>0, ConcatOf
  <2>6. url \o more = head \o Lit(c) \o (tail \o more)
    <3>1. ASSUME NEW f \in Url, NEW m \in Url
          PROVE  (f \o tail) \o m = f \o (tail \o m)
      BY Regroup
    <3>2. (front \o tail) \o more = front \o (tail \o more)
      <4> HIDE DEF front, more
      <4> QED BY <2>5, <3>1, Zenon
    <3> QED BY <2>2, <3>2
  <2> HIDE DEF more, front
  <2>7. Before(head \o Lit(c) \o (tail \o more), c) = head
    BY <2>3, <2>5, CutAt
  <2> QED BY <2>4, <2>6, <2>7 DEF more
<1> QED BY <1>1, <1>2

Places(url, c) == {i \in 1..Len(url) : LitAt(url, i, c)} \cup {0}

LEMMA PiecesAre ==
    ASSUME NEW url \in Url, NEW c \in Char
    PROVE  Pieces(url, c) = {Before(Rest(url, i), c) : i \in Places(url, c)}
<1>1. \A k : (Lit(c) = <<url[k]>>) = LitAt(url, k, c)
  BY DEF Lit, LitAt
<1>2. DOMAIN url = 1..Len(url)
  BY DEF Url
<1>3. {i \in DOMAIN url : Lit(c) = <<url[i]>>} \cup {0} = Places(url, c)
  BY <1>1, <1>2 DEF Places
<1> QED BY <1>3, Zenon DEF Pieces, Rest

LEMMA OnePiece ==
    ASSUME NEW url \in Url, NEW c \in Char, Lacks(url, c)
    PROVE  Pieces(url, c) = {url}
<1>1. Places(url, c) = {0}
  BY DEF Places, Lacks
<1>2. Before(Rest(url, 0), c) = url
  BY RestOfAll, NoCut
<1> QED BY <1>1, <1>2, PiecesAre

(* Another piece behind a literal c. *)
LEMMA PiecesAppend ==
    ASSUME NEW url \in Url, NEW p \in Url, NEW c \in Char, Lacks(p, c)
    PROVE  Pieces(url \o (Lit(c) \o p), c) = Pieces(url, c) \cup {p}
<1> DEFINE more == Lit(c) \o p
           all == url \o more
           front == url \o Lit(c)
           n == Len(url)
<1>1. /\ more \in Url /\ Len(more) = 1 + Len(p) /\ LitAt(more, 1, c)
      /\ \A i \in 1..Len(p) : ~LitAt(more, 1 + i, c)
      /\ Len(p) \in Nat
      /\ \A i \in 1..Len(more) : i = 1 \/ \E j \in 1..Len(p) : i = 1 + j
  <2>1. Lit(c) \in Url /\ Len(Lit(c)) = 1 /\ Lit(c)[1] = [c |-> c, esc |-> FALSE]
    BY LitIsUrl
  <2> DEFINE lit == Lit(c)
  <2> HIDE DEF lit
  <2>2. /\ lit \o p \in Url /\ Len(lit \o p) = Len(lit) + Len(p)
        /\ \A i \in 1..Len(lit) : (lit \o p)[i] = lit[i]
        /\ \A i \in 1..Len(p) : (lit \o p)[Len(lit) + i] = p[i]
        /\ Len(p) \in Nat
        /\ \A i \in 1..Len(lit \o p) :
              i \in 1..Len(lit) \/ \E j \in 1..Len(p) : i = Len(lit) + j
    BY <2>1, ConcatOf DEF lit
  <2>3. Len(lit) = 1 /\ lit[1] = [c |-> c, esc |-> FALSE]
    BY <2>1 DEF lit
  <2>4. LitAt(lit \o p, 1, c)
    <3>1. 1 \in 1..Len(lit)
      BY <2>3
    <3> QED BY <2>2, <2>3, <3>1 DEF LitAt
  <2>5. \A i \in 1..Len(p) : ~LitAt(lit \o p, 1 + i, c)
    <3> TAKE i \in 1..Len(p)
    <3>1. (lit \o p)[Len(lit) + i] = p[i]
      BY <2>2
    <3>2. (lit \o p)[1 + i] = p[i]
      BY <2>3, <3>1
    <3>3. ~LitAt(p, i, c)
      BY DEF Lacks
    <3> QED BY <3>2, <3>3 DEF LitAt
  <2>6. \A i \in 1..Len(lit \o p) : i = 1 \/ \E j \in 1..Len(p) : i = 1 + j
    BY <2>2, <2>3
  <2> QED BY <2>2, <2>3, <2>4, <2>5, <2>6 DEF lit
<1> HIDE DEF more
<1>2. /\ all \in Url /\ Len(all) = n + Len(more)
      /\ \A i \in 1..n : all[i] = url[i]
      /\ \A i \in 1..Len(more) : all[n + i] = more[i]
      /\ n \in Nat /\ Len(more) \in Nat
      /\ \A i \in 1..Len(all) : i \in 1..n \/ \E j \in 1..Len(more) : i = n + j
  BY <1>1, ConcatOf
<1> HIDE DEF all
<1>3. Places(all, c) = Places(url, c) \cup {n + 1}
  <2>1. ASSUME NEW i \in 1..Len(all), LitAt(all, i, c)
        PROVE  i \in Places(url, c) \cup {n + 1}
    <3>1. CASE i \in 1..n
      BY <1>2, <2>1, <3>1 DEF LitAt, Places
    <3>2. CASE \E j \in 1..Len(more) : i = n + j
      <4>1. PICK j \in 1..Len(more) : i = n + j
        BY <3>2
      <4>2. LitAt(more, j, c)
        BY <1>2, <2>1, <4>1 DEF LitAt
      <4>3. j = 1
        BY <1>1, <4>2
      <4> QED BY <4>1, <4>3
    <3> QED BY <1>2, <3>1, <3>2
  <2>2. ASSUME NEW i \in 1..n, LitAt(url, i, c)
        PROVE  i \in 1..Len(all) /\ LitAt(all, i, c)
    BY <1>2, <2>2 DEF LitAt
  <2>3. n + 1 \in 1..Len(all) /\ LitAt(all, n + 1, c)
    <3>1. 1 \in 1..Len(more)
      BY <1>1
    <3>2. all[n + 1] = more[1]
      BY <1>2, <3>1
    <3>3. n + 1 \in 1..Len(all)
      BY <1>2, <3>1
    <3> QED BY <1>1, <3>2, <3>3 DEF LitAt
  <2> QED BY <2>1, <2>2, <2>3 DEF Places
<1>4. ASSUME NEW i \in Places(url, c)
      PROVE  Before(Rest(all, i), c) = Before(Rest(url, i), c)
  <2>1. i \in 0..Len(url)
    BY <1>2 DEF Places
  <2>2. Rest(all, i) = Rest(url, i) \o more
    BY <1>1, <2>1, RestOfConcat DEF all
  <2>3. Rest(url, i) \in Url
    BY <2>1, RestOf
  <2> QED BY <2>2, <2>3, BeforeFront DEF more
<1>5. Before(Rest(all, n + 1), c) = p
  <2>1. Lit(c) \in Url /\ Len(Lit(c)) = 1
    BY LitIsUrl
  <2>2. front \in Url /\ Len(front) = n + 1
    <3>1. /\ url \o Lit(c) \in Url
          /\ Len(url \o Lit(c)) = Len(url) + Len(Lit(c))
      BY <2>1, ConcatOf, Zenon
    <3> QED BY <2>1, <3>1, Zenon
  <2>3. all = front \o p
    BY <2>1, Regroup DEF all, more
  <2> HIDE DEF front
  <2>4. n + 1 \in 0..Len(front)
    BY <1>2, <2>2
  <2>5. Rest(front \o p, n + 1) = Rest(front, n + 1) \o p
    BY <2>2, <2>4, RestOfConcat
  <2>6. Rest(front, n + 1) = <<>>
    BY <2>2, RestOfNothing
  <2>7. <<>> \o p = p
    BY ConcatEmptySeq DEF Url
  <2>8. Rest(all, n + 1) = p
    BY <2>3, <2>5, <2>6, <2>7
  <2> QED BY <2>8, NoCut
<1>6. Pieces(all, c) = {Before(Rest(all, i), c) : i \in Places(url, c) \cup {n + 1}}
  BY <1>2, <1>3, PiecesAre
<1>7. Pieces(url, c) = {Before(Rest(url, i), c) : i \in Places(url, c)}
  BY PiecesAre
<1>8. {Before(Rest(all, i), c) : i \in Places(url, c) \cup {n + 1}}
        = {Before(Rest(url, i), c) : i \in Places(url, c)} \cup {p}
  <2> HIDE DEF n
  <2> QED BY <1>4, <1>5
<1> QED BY <1>6, <1>7, <1>8 DEF all, more

LEMMA FcnIsSeq ==
    ASSUME NEW S, NEW n \in Nat, NEW f \in [1..n -> S]
    PROVE  f \in Seq(S) /\ Len(f) = n
OBVIOUS

(* The sequences that FlattenSeq builds, one by one. *)
Flattens(f, seqs, n) ==
    f = [i \in 1..n |-> IF i = 1 THEN seqs[i] ELSE f[i - 1] \o seqs[i]]

LEMMA FlattensExists ==
    ASSUME NEW seqs, NEW n \in Nat
    PROVE  \E f : Flattens(f, seqs, n)
<1> DEFINE T == {m \in Nat : ~\E f : Flattens(f, seqs, m)}
<1> SUFFICES ASSUME T # {} PROVE FALSE
  OBVIOUS
<1>1. Min(T) \in T /\ \A k \in T : Min(T) <= k
  <2>1. T \subseteq Nat
    OBVIOUS
  <2> HIDE DEF T
  <2> QED BY <2>1, MinOfPlaces
<1> DEFINE m == Min(T)
<1>2. m \in Nat /\ ~\E f : Flattens(f, seqs, m)
  BY <1>1
<1>3. \A k \in Nat : k < m => \E f : Flattens(f, seqs, k)
  <2> TAKE k \in Nat
  <2>1. k \in T => m <= k
    BY <1>1
  <2>2. ~(k < m /\ m <= k)
    BY <1>2
  <2> QED BY <2>1, <2>2
<1> HIDE DEF T, m
<1>4. CASE m = 0
  <2> DEFINE f == [i \in 1..0 |-> seqs]
  <2>1. Flattens(f, seqs, 0)
    BY DEF Flattens
  <2> HIDE DEF f
  <2> QED BY <1>2, <1>4, <2>1
<1>5. CASE m # 0
  <2>1. m - 1 \in Nat /\ m - 1 < m
    BY <1>2, <1>5
  <2>2. PICK g : Flattens(g, seqs, m - 1)
    BY <1>3, <2>1
  <2> DEFINE f == [i \in 1..m |-> IF i < m THEN g[i]
                                  ELSE IF i = 1 THEN seqs[i] ELSE g[i - 1] \o seqs[i]]
  <2>3. ASSUME NEW i \in 1..m
        PROVE  f[i] = IF i = 1 THEN seqs[i] ELSE f[i - 1] \o seqs[i]
    <3>1. CASE i < m
      <4>1. f[i] = g[i] /\ i \in 1..(m - 1)
        BY <1>2, <3>1
      <4>2. g[i] = IF i = 1 THEN seqs[i] ELSE g[i - 1] \o seqs[i]
        BY <2>2, <4>1 DEF Flattens
      <4>3. i # 1 => i - 1 \in 1..m /\ i - 1 < m
        BY <1>2, <3>1
      <4>4. i # 1 => f[i - 1] = g[i - 1]
        BY <4>3
      <4> QED BY <4>1, <4>2, <4>4
    <3>2. CASE i = m
      <4>1. ~(i < m)
        BY <1>2, <3>2
      <4>2. f[i] = IF i = 1 THEN seqs[i] ELSE g[i - 1] \o seqs[i]
        BY <4>1
      <4>3. i # 1 => i - 1 \in 1..m /\ i - 1 < m
        BY <1>2, <3>2
      <4>4. i # 1 => f[i - 1] = g[i - 1]
        BY <4>3
      <4> QED BY <4>2, <4>4
    <3> QED BY <1>2, <3>1, <3>2
  <2>4. f = [i \in 1..m |-> f[i]]
    OBVIOUS
  <2> HIDE DEF f
  <2>5. Flattens(f, seqs, m)
    BY <2>3, <2>4 DEF Flattens
  <2> QED BY <1>2, <2>5
<1> QED BY <1>4, <1>5

LEMMA FlattenedIs ==
    ASSUME NEW seqs, NEW n \in Nat \ {0}, Len(seqs) = n
    PROVE  \E f : Flattens(f, seqs, n) /\ FlattenSeq(seqs) = f[n]
<1> DEFINE f == CHOOSE g : Flattens(g, seqs, n)
<1>1. Flattens(f, seqs, n)
  BY FlattensExists
<1>2. FlattenSeq(seqs) = f[n]
  BY DEF FlattenSeq, Flattens
<1> QED BY <1>1, <1>2

(* A server reads from a query the parts it was joined from. *)
LEMMA JoinedPieces ==
    ASSUME NEW n \in Nat \ {0}, NEW parts \in [1..n -> Url], NEW c \in Char,
           \A i \in 1..n : Lacks(parts[i], c)
    PROVE  /\ Joined(parts, c) \in Url
           /\ Pieces(Joined(parts, c), c) = {parts[i] : i \in 1..n}
<1> DEFINE seqs == [i \in DOMAIN parts |-> Lit(c) \o parts[i]]
<1>1. /\ DOMAIN seqs = 1..n /\ Len(seqs) = n
      /\ \A i \in 1..n : seqs[i] = Lit(c) \o parts[i] /\ seqs[i] \in Url
  <2>1. Lit(c) \in Url
    BY LitIsUrl
  <2>2. \A i \in 1..n : Lit(c) \o parts[i] \in Url
    BY <2>1, ConcatOf
  <2>3. seqs \in [1..n -> Url]
    BY <2>2
  <2>4. Len(seqs) = n
    <3> HIDE DEF seqs
    <3> QED BY <2>3, FcnIsSeq
  <2> QED BY <2>2, <2>4
<1>2. Joined(parts, c) = SubSeq(FlattenSeq(seqs), 2, Len(FlattenSeq(seqs)))
  BY DEF Joined
<1> HIDE DEF seqs
<1>3. PICK f : Flattens(f, seqs, n) /\ FlattenSeq(seqs) = f[n]
  BY <1>1, FlattenedIs
<1>4. \A i \in 1..n : f[i] = IF i = 1 THEN seqs[i] ELSE f[i - 1] \o seqs[i]
  BY <1>3 DEF Flattens
<1>5. Lit(c) \in Url /\ Len(Lit(c)) = 1
  BY LitIsUrl
<1> DEFINE Good(i) == /\ f[i] \in Url /\ 1 \in 0..Len(f[i]) /\ Rest(f[i], 1) \in Url
                      /\ Pieces(Rest(f[i], 1), c) = {parts[j] : j \in 1..i}
           T == {i \in 1..n : ~Good(i)}
<1>6. Good(1)
  <2>1. f[1] = Lit(c) \o parts[1] /\ f[1] \in Url /\ 1 \in 1..n
    BY <1>1, <1>4
  <2>2. Len(f[1]) = 1 + Len(parts[1]) /\ Len(parts[1]) \in Nat
    <3>1. parts[1] \in Url
      BY <2>1
    <3>2. /\ Len(Lit(c) \o parts[1]) = Len(Lit(c)) + Len(parts[1])
          /\ Len(parts[1]) \in Nat
      BY <1>5, <3>1, ConcatOf, Zenon
    <3> QED BY <1>5, <2>1, <3>2
  <2>3. 1 \in 0..Len(f[1]) /\ 1 \in 0..Len(Lit(c))
    BY <1>5, <2>2
  <2>4. Rest(f[1], 1) = Rest(Lit(c), 1) \o parts[1]
    BY <1>5, <2>1, <2>3, RestOfConcat
  <2>5. Rest(Lit(c), 1) = <<>>
    BY <1>5, RestOfNothing
  <2>6. Rest(f[1], 1) = parts[1]
    BY <2>1, <2>4, <2>5, ConcatEmptySeq DEF Url
  <2>7. Pieces(parts[1], c) = {parts[1]}
    BY <2>1, OnePiece
  <2>8. {parts[j] : j \in 1..1} = {parts[1]}
    OBVIOUS
  <2> QED BY <2>1, <2>3, <2>6, <2>7, <2>8
<1>7. ASSUME NEW i \in 1..n, i # 1, Good(i - 1) PROVE Good(i)
  <2> DEFINE u == f[i - 1]
             p == parts[i]
  <2>1. /\ u \in Url /\ 1 \in 0..Len(u) /\ Rest(u, 1) \in Url
        /\ Pieces(Rest(u, 1), c) = {parts[j] : j \in 1..(i - 1)}
    BY <1>7
  <2>2. f[i] = u \o (Lit(c) \o p) /\ p \in Url /\ Lacks(p, c)
    BY <1>1, <1>4, <1>7
  <2>3. {parts[j] : j \in 1..(i - 1)} \cup {p} = {parts[j] : j \in 1..i}
    <3>1. 1..i = 1..(i - 1) \cup {i}
      OBVIOUS
    <3> QED BY <3>1
  <2> DEFINE more == Lit(c) \o p
  <2>4. more \in Url
    BY <1>5, <2>2, ConcatOf
  <2> HIDE DEF more, u, p
  <2>5. /\ u \o more \in Url /\ Len(u \o more) = Len(u) + Len(more)
        /\ Len(u) \in Nat /\ Len(more) \in Nat
    BY <2>1, <2>4, ConcatOf
  <2>6. 1 \in 0..Len(u \o more)
    BY <2>1, <2>5
  <2>7. Rest(u \o more, 1) = Rest(u, 1) \o more
    BY <2>1, <2>4, RestOfConcat
  <2>8. Rest(u, 1) \o more \in Url
    BY <2>1, <2>4, ConcatOf
  <2>9. Pieces(Rest(u, 1) \o more, c) = Pieces(Rest(u, 1), c) \cup {p}
    BY <2>1, <2>2, PiecesAppend DEF more
  <2>10. f[i] = u \o more
    BY <2>2 DEF more
  <2> QED BY <2>1, <2>3, <2>5, <2>6, <2>7, <2>8, <2>9, <2>10
<1>8. T = {}
  <2> SUFFICES ASSUME T # {} PROVE FALSE
    OBVIOUS
  <2>1. Min(T) \in T /\ \A k \in T : Min(T) <= k
    <3>1. T \subseteq 1..n
      OBVIOUS
    <3>2. T \subseteq Nat
      <4> HIDE DEF T
      <4> QED BY <3>1
    <3> HIDE DEF T
    <3> QED BY <3>2, MinOfPlaces
  <2> DEFINE m == Min(T)
  <2>2. m \in 1..n /\ ~Good(m) /\ (m - 1 \in 1..n => Good(m - 1))
    <3>1. m \in 1..n /\ ~Good(m)
      BY <2>1, Zenon
    <3>2. m - 1 \in 1..n /\ ~Good(m - 1) => m - 1 \in T
      BY Zenon
    <3>3. m - 1 \in T => m <= m - 1
      BY <2>1, Zenon
    <3> HIDE DEF m, T, Good
    <3> QED BY <3>1, <3>2, <3>3
  <2> HIDE DEF m, T, Good
  <2>3. m # 1 => m - 1 \in 1..n
    BY <2>2
  <2> QED BY <1>6, <1>7, <2>2, <2>3
<1>9. Good(n)
  <2>1. n \in 1..n
    OBVIOUS
  <2> HIDE DEF Good
  <2>2. T = {} => \A i \in 1..n : Good(i)
    BY Zenon
  <2> QED BY <1>8, <2>1, <2>2
<1>10. Joined(parts, c) = Rest(f[n], 1)
  <2>1. 1 + 1 = 2
    OBVIOUS
  <2> QED BY <1>2, <1>3, <2>1 DEF Rest
<1> QED BY <1>9, <1>10

-----------------------------------------------------------------------------
(***************************************************************************)
(* Names in URLs.                                                          *)
(***************************************************************************)
(* The words that the requests use are characters too. *)
LEMMA Words ==
    /\ {"store", "key", "metadata.", "base64", "json", "blank"} \subseteq Char
    /\ Reserved \subseteq Char /\ Reserved \cap Unreserved = {}
BY EncodingAssumption, DataAssumption

LEMMA Encoded ==
    ASSUME NEW name \in Text
    PROVE  /\ Encode(name) \in Url /\ Len(Encode(name)) = Len(name)
           /\ \A i \in 1..Len(name) :
                 Encode(name)[i] = [c |-> name[i], esc |-> name[i] \notin Unreserved]
           /\ Len(name) \in Nat
<1>1. /\ Len(name) \in Nat /\ DOMAIN name = 1..Len(name)
      /\ \A i \in 1..Len(name) : name[i] \in Char
  BY DEF Text
<1>2. Encode(name) \in [1..Len(name) -> Token]
  BY <1>1 DEF Encode, Token
<1>3. \A i \in 1..Len(name) :
         Encode(name)[i] = [c |-> name[i], esc |-> name[i] \notin Unreserved]
  BY <1>1 DEF Encode
<1>4. Encode(name) \in Url /\ Len(Encode(name)) = Len(name)
  BY <1>1, <1>2, FcnIsSeq DEF Url
<1> QED BY <1>1, <1>3, <1>4

LEMMA EncodedLacks ==
    ASSUME NEW name \in Text, NEW c \in Reserved
    PROVE  Encode(name) \in Url /\ c \in Char /\ Lacks(Encode(name), c)
<1> SUFFICES ASSUME NEW i \in 1..Len(name), LitAt(Encode(name), i, c)
             PROVE  FALSE
  BY Encoded, Words DEF Lacks
<1>1. [c |-> name[i], esc |-> name[i] \notin Unreserved] = [c |-> c, esc |-> FALSE]
  BY Encoded DEF LitAt
<1>2. \A x, y, b : [c |-> x, esc |-> b] = [c |-> y, esc |-> FALSE] => x = y /\ b = FALSE
  OBVIOUS
<1>3. name[i] = c /\ (name[i] \notin Unreserved) = FALSE
  BY <1>1, <1>2, Zenon
<1> QED BY <1>3, Words

(* A server reads the name that was encoded. *)
LEMMA UnescapedIsName ==
    ASSUME NEW name \in Text
    PROVE  Unescaped(Encode(name)) = name
<1>1. /\ Encode(name) \in Url /\ Len(Encode(name)) = Len(name)
      /\ \A i \in 1..Len(name) :
            Encode(name)[i] = [c |-> name[i], esc |-> name[i] \notin Unreserved]
      /\ Lacks(Encode(name), "%")
  BY Encoded, EncodedLacks DEF Reserved
<1>2. DOMAIN Encode(name) = 1..Len(name) /\ name \in [1..Len(name) -> Char]
  BY <1>1 DEF Url, Text
<1>3. ASSUME NEW i \in 1..Len(name)
      PROVE  Lit("%") # <<Encode(name)[i]>> /\ Encode(name)[i].c = name[i]
  <2>1. ~LitAt(Encode(name), i, "%")
    BY <1>1 DEF Lacks
  <2>2. Encode(name)[i].c = name[i]
    <3>1. Encode(name)[i] = [c |-> name[i], esc |-> name[i] \notin Unreserved]
      BY <1>1
    <3> QED BY <3>1
  <2> QED BY <2>1, <2>2 DEF LitAt, Lit
<1>4. Unescaped(Encode(name)) = [i \in 1..Len(name) |-> name[i]]
  BY <1>2, <1>3 DEF Unescaped
<1> QED BY <1>2, <1>4

(* A topic keeps its slashes, which a path can hold. *)
LEMMA TopicEncoded ==
    ASSUME NEW topic \in Text
    PROVE  /\ EncodeTopic(topic) \in Url
           /\ Lacks(EncodeTopic(topic), "?")
           /\ Unescaped(EncodeTopic(topic)) = topic
<1>1. /\ Encode(topic) \in Url
      /\ \A i \in 1..Len(topic) :
            Encode(topic)[i] = [c |-> topic[i], esc |-> topic[i] \notin Unreserved]
      /\ Len(topic) \in Nat
  BY Encoded
<1>2. Len(Encode(topic)) = Len(topic)
  BY Encoded
<1>3. \A i \in 1..Len(topic) : /\ ~LitAt(Encode(topic), i, "?")
                              /\ ~LitAt(Encode(topic), i, "%")
  BY <1>2, EncodedLacks DEF Lacks, Reserved
<1>4. DOMAIN topic = 1..Len(topic) /\ topic \in [1..Len(topic) -> Char]
  BY DEF Text
<1>5. \A i \in 1..Len(topic) : Encode(topic)[i] \in Token
  <2> TAKE i \in 1..Len(topic)
  <2>1. Encode(topic)[i] = [c |-> topic[i], esc |-> topic[i] \notin Unreserved]
    BY <1>1
  <2> QED BY <1>4, <2>1 DEF Token
<1> DEFINE url == EncodeTopic(topic)
<1>6. \A i \in 1..Len(topic) :
         url[i] = IF topic[i] = "/" THEN [c |-> "/", esc |-> FALSE] ELSE Encode(topic)[i]
  BY <1>4 DEF EncodeTopic
<1>7. url \in Url /\ Len(url) = Len(topic) /\ DOMAIN url = 1..Len(topic)
  <2>1. [c |-> "/", esc |-> FALSE] \in Token
    BY Words DEF Token, Reserved
  <2>2. url \in [1..Len(topic) -> Token]
    BY <1>4, <1>5, <2>1 DEF EncodeTopic
  <2> HIDE DEF url
  <2> QED BY <1>1, <2>2, FcnIsSeq DEF Url
<1> HIDE DEF url
<1>8. ASSUME NEW i \in 1..Len(topic)
      PROVE  /\ ~LitAt(url, i, "?") /\ Lit("%") # <<url[i]>>
             /\ url[i].c = topic[i]
  <2>1. [c |-> "/", esc |-> FALSE] # [c |-> "?", esc |-> FALSE]
    <3>1. [c |-> "/", esc |-> FALSE].c # [c |-> "?", esc |-> FALSE].c
      OBVIOUS
    <3> QED BY <3>1
  <2>2. [c |-> "/", esc |-> FALSE] # [c |-> "%", esc |-> FALSE]
    <3>1. [c |-> "/", esc |-> FALSE].c # [c |-> "%", esc |-> FALSE].c
      OBVIOUS
    <3> QED BY <3>1
  <2>3. CASE topic[i] = "/"
    <3>1. url[i] = [c |-> "/", esc |-> FALSE]
      BY <1>6, <2>3
    <3> QED BY <2>1, <2>2, <2>3, <3>1 DEF LitAt, Lit
  <2>4. CASE topic[i] # "/"
    <3>1. url[i] = Encode(topic)[i]
      BY <1>6, <2>4
    <3>2. url[i].c = topic[i]
      <4>1. url[i] = [c |-> topic[i], esc |-> topic[i] \notin Unreserved]
        BY <1>1, <3>1
      <4> QED BY <4>1
    <3>3. ~LitAt(Encode(topic), i, "?") /\ ~LitAt(Encode(topic), i, "%")
      BY <1>3
    <3> QED BY <3>1, <3>2, <3>3 DEF LitAt, Lit
  <2> QED BY <2>3, <2>4
<1>9. Lacks(url, "?")
  BY <1>7, <1>8 DEF Lacks
<1>10. Unescaped(url) = topic
  <2>1. Unescaped(url) = [i \in 1..Len(topic) |-> topic[i]]
    BY <1>7, <1>8 DEF Unescaped
  <2> QED BY <1>4, <2>1
<1> QED BY <1>7, <1>9, <1>10 DEF url

(* A word in front of a name, and a word by itself. *)
LEMMA UnescapedWord ==
    ASSUME NEW word \in Char, word # "%"
    PROVE  Unescaped(Lit(word)) = <<word>>
<1>1. DOMAIN Lit(word) = 1..1 /\ Lit(word)[1] = [c |-> word, esc |-> FALSE]
  BY DEF Lit
<1>2. Lit("%") # <<Lit(word)[1]>> /\ Lit(word)[1].c = word
  BY <1>1 DEF Lit
<1>3. Unescaped(Lit(word)) = [i \in 1..1 |-> word]
  BY <1>1, <1>2 DEF Unescaped
<1> QED BY <1>3

LEMMA UnescapedPrefixed ==
    ASSUME NEW word \in Char, word # "%", NEW name \in Text
    PROVE  Unescaped(Lit(word) \o Encode(name)) = <<word>> \o name
<1> DEFINE lit == Lit(word)
           rest == Encode(name)
           url == lit \o rest
<1>1. lit \in Url /\ Len(lit) = 1 /\ lit[1] = [c |-> word, esc |-> FALSE]
  BY LitIsUrl
<1>2. /\ rest \in Url /\ Len(rest) = Len(name)
      /\ \A i \in 1..Len(name) : rest[i].c = name[i] /\ Lit("%") # <<rest[i]>>
      /\ Len(name) \in Nat
  <2>1. /\ rest \in Url /\ Len(rest) = Len(name)
        /\ \A i \in 1..Len(name) :
              rest[i] = [c |-> name[i], esc |-> name[i] \notin Unreserved]
        /\ Len(name) \in Nat
    BY Encoded
  <2>2. \A i \in 1..Len(name) : ~LitAt(rest, i, "%")
    BY <2>1, EncodedLacks DEF Lacks, Reserved
  <2> HIDE DEF rest
  <2>3. ASSUME NEW i \in 1..Len(name) PROVE rest[i].c = name[i]
    <3>1. rest[i] = [c |-> name[i], esc |-> name[i] \notin Unreserved]
      BY <2>1
    <3> QED BY <3>1
  <2>4. \A i \in 1..Len(name) : Lit("%") # <<rest[i]>>
    BY <2>2 DEF LitAt, Lit
  <2> QED BY <2>1, <2>3, <2>4
<1> HIDE DEF lit, rest
<1>3. /\ url \in Url /\ Len(url) = Len(lit) + Len(rest)
      /\ \A i \in 1..Len(lit) : url[i] = lit[i]
      /\ \A i \in 1..Len(rest) : url[Len(lit) + i] = rest[i]
      /\ \A i \in 1..Len(url) :
            i \in 1..Len(lit) \/ \E j \in 1..Len(rest) : i = Len(lit) + j
  BY <1>1, <1>2, ConcatOf
<1> HIDE DEF url
<1>4. Lit("%") # <<lit[1]>> /\ lit[1].c = word
  BY <1>1 DEF Lit
<1> DEFINE read == <<word>> \o name
<1>5. /\ read \in Seq(Char) /\ Len(read) = 1 + Len(name) /\ read[1] = word
      /\ \A i \in 1..Len(name) : read[1 + i] = name[i]
  BY DEF Text
<1>6. DOMAIN url = 1..Len(url) /\ Len(url) = 1 + Len(name)
  BY <1>1, <1>2, <1>3 DEF Url
<1> HIDE DEF read
<1>7. \A i \in 1..Len(url) : Lit("%") # <<url[i]>> /\ url[i].c = read[i]
  <2> TAKE i \in 1..Len(url)
  <2>1. CASE i \in 1..Len(lit)
    <3>1. i = 1 /\ url[i] = lit[1]
      BY <1>1, <1>3, <2>1
    <3> QED BY <1>4, <1>5, <3>1
  <2>2. CASE \E j \in 1..Len(rest) : i = Len(lit) + j
    <3>1. PICK j \in 1..Len(name) : i = 1 + j
      BY <1>1, <1>2, <2>2
    <3>2. url[i] = rest[j]
      BY <1>1, <1>2, <1>3, <3>1
    <3> QED BY <1>2, <1>5, <3>1, <3>2
  <2> QED BY <1>3, <2>1, <2>2
<1>8. Unescaped(url) = [i \in 1..Len(url) |-> read[i]]
  BY <1>6, <1>7 DEF Unescaped
<1>9. read = [i \in 1..Len(url) |-> read[i]]
  BY <1>5, <1>6
<1> QED BY <1>8, <1>9 DEF url, lit, rest, read

-----------------------------------------------------------------------------
(***************************************************************************)
(* The requests, and what the services read from them.                     *)
(***************************************************************************)
LEMMA SetToSeqLists ==
    ASSUME NEW S, IsFiniteSet(S)
    PROVE  /\ SetToSeq(S) \in [1..Cardinality(S) -> S]
           /\ Len(SetToSeq(S)) = Cardinality(S) /\ Cardinality(S) \in Nat
           /\ {SetToSeq(S)[i] : i \in 1..Cardinality(S)} = S
<1> DEFINE n == Cardinality(S)
           f == SetToSeq(S)
<1>1. n \in Nat /\ ExistsBijection(1..n, S)
  BY FS_CardinalityType
<1>2. \E g \in [1..n -> S] : IsInjective(g)
  BY <1>1 DEF ExistsBijection, Bijection, Injection
<1>3. f \in [1..n -> S] /\ IsInjective(f)
  BY <1>2 DEF SetToSeq
<1> HIDE DEF f
<1>4. f \in Injection(1..n, S)
  BY <1>3 DEF Injection
<1>5. Cardinality(1..n) = n
  <2>1. 1 \in Int /\ n \in Int /\ (IF 1 > n THEN 0 ELSE n - 1 + 1) = n
    BY <1>1
  <2> HIDE DEF n
  <2> QED BY <2>1, FS_Interval
<1>6. f \in Surjection(1..n, S)
  BY <1>4, <1>5, FS_Injection
<1>7. \A x \in S : \E i \in 1..n : f[i] = x
  BY <1>6 DEF Surjection
<1>8. Len(f) = n
  BY <1>1, <1>3, FcnIsSeq
<1> QED BY <1>1, <1>3, <1>7, <1>8 DEF f

LEMMA StateUrl ==
    ASSUME NEW name \in Text
    PROVE  Unescaped(Behind(Path(Store \o Lit("/") \o Encode(name)), "/")) = name
<1>1. /\ Lit("store") \in Url /\ Lit("/") \in Url /\ Encode(name) \in Url
      /\ "?" \in Char /\ "/" \in Char /\ "store" \in Char
      /\ Lacks(Lit("store"), "?") /\ Lacks(Lit("/"), "?") /\ Lacks(Encode(name), "?")
      /\ Lacks(Lit("store"), "/")
  <2>1. "?" \in Char /\ "/" \in Char /\ "store" \in Char /\ "?" \in Reserved
    BY Words DEF Reserved
  <2>2. "store" # "?" /\ "/" # "?" /\ "store" # "/"
    OBVIOUS
  <2> QED BY <2>1, <2>2, LitLacks, EncodedLacks
<1>2. Store \o Lit("/") \in Url /\ Lacks(Store \o Lit("/"), "?")
  BY <1>1, LacksConcat DEF Store
<1> DEFINE url == Store \o Lit("/") \o Encode(name)
<1>3. url \in Url /\ Lacks(url, "?")
  BY <1>1, <1>2, LacksConcat
<1>4. Path(url) = url
  <2> HIDE DEF url
  <2> QED BY <1>1, <1>3, NoCut DEF Path
<1>5. Behind(url, "/") = Encode(name)
  BY <1>1, CutAt DEF Store
<1> QED BY <1>4, <1>5, UnescapedIsName

(* The path of a publication, and its query, if it has one. *)
LEMMA QueryUrl ==
    ASSUME NEW path \in Url, NEW query \in Url, Lacks(path, "?")
    PROVE  /\ Path(path \o (Lit("?") \o query)) = path
           /\ Query(path \o (Lit("?") \o query)) = query
           /\ Path(path \o <<>>) = path
           /\ Query(path \o <<>>) = <<>>
<1>1. "?" \in Char /\ Lit("?") \in Url
  BY Words, LitIsUrl DEF Reserved
<1>2. path \o (Lit("?") \o query) = path \o Lit("?") \o query
  BY <1>1, Regroup
<1>3. path \o <<>> = path
  BY ConcatEmptySeq DEF Url
<1>4. /\ Before(path \o Lit("?") \o query, "?") = path
      /\ Behind(path \o Lit("?") \o query, "?") = query
  BY <1>1, CutAt
<1>5. Before(path, "?") = path /\ Behind(path, "?") = <<>>
  BY <1>1, NoCut
<1> QED BY <1>2, <1>3, <1>4, <1>5, Zenon DEF Path, Query

(* A header, as a parameter of the query. *)
LEMMA HeaderRead ==
    ASSUME NEW h \in Text \X Text
    PROVE  /\ MetadataOf(h) \in Url /\ Lacks(MetadataOf(h), "&")
           /\ MetadataOf(h) # <<>>
           /\ Unescaped(Before(MetadataOf(h), "=")) = <<"metadata.">> \o h[1]
           /\ Unescaped(Behind(MetadataOf(h), "=")) = h[2]
<1> DEFINE name == Encode(h[1])
           value == Encode(h[2])
           front == Lit("metadata.") \o name
<1>1. h[1] \in Text /\ h[2] \in Text
  OBVIOUS
<1>2. /\ "&" \in Reserved /\ "=" \in Reserved
      /\ "=" \in Char /\ "&" \in Char /\ "metadata." \in Char
  BY Words DEF Reserved
<1>3. /\ name \in Url /\ Lacks(name, "&") /\ Lacks(name, "=")
      /\ value \in Url /\ Lacks(value, "&")
  BY <1>1, <1>2, EncodedLacks
<1>4. /\ Lit("metadata.") \in Url
      /\ Lacks(Lit("metadata."), "&") /\ Lacks(Lit("metadata."), "=")
      /\ Lit("=") \in Url /\ Lacks(Lit("="), "&")
  <2>1. "metadata." # "&" /\ "metadata." # "=" /\ "=" # "&"
    OBVIOUS
  <2> QED BY <1>2, <2>1, LitLacks
<1>5. front \in Url /\ Lacks(front, "&") /\ Lacks(front, "=")
  <2> HIDE DEF name
  <2> QED BY <1>2, <1>3, <1>4, LacksConcat
<1>6. MetadataOf(h) = front \o Lit("=") \o value
  BY DEF MetadataOf
<1>7. Unescaped(front) = <<"metadata.">> \o h[1]
  <2>1. "metadata." # "%"
    OBVIOUS
  <2> QED BY <1>1, <1>2, <2>1, UnescapedPrefixed
<1>8. Unescaped(value) = h[2]
  BY <1>1, UnescapedIsName
<1> HIDE DEF name, value, front
<1>9. /\ Before(front \o Lit("=") \o value, "=") = front
      /\ Behind(front \o Lit("=") \o value, "=") = value
  BY <1>2, <1>3, <1>5, CutAt
<1>10. front \o Lit("=") \in Url /\ Lacks(front \o Lit("="), "&")
  BY <1>2, <1>4, <1>5, LacksConcat
<1>11. /\ front \o Lit("=") \o value \in Url
       /\ Lacks(front \o Lit("=") \o value, "&")
  BY <1>2, <1>3, <1>10, LacksConcat
<1>12. front \o Lit("=") \o value # <<>>
  <2>1. front \o Lit("=") # <<>> /\ Lit("=") # <<>>
    <3>1. Lit("=") # <<>>
      BY DEF Lit
    <3> QED BY <1>4, <1>5, <3>1, ConcatEqualIffEmpty DEF Url
  <2> QED BY <1>3, <1>10, <2>1, ConcatEqualIffEmpty DEF Url
<1> QED BY <1>6, <1>7, <1>8, <1>9, <1>11, <1>12

(* The message that the broker reads is the one that was sent. *)
LEMMA MessageRead ==
    ASSUME NEW topic \in Text, NEW headers, IsFiniteSet(headers),
           headers \subseteq Text \X Text,
           NEW c, c.topic = topic, c.headers = headers
    PROVE  Message(PublishRequest(c)) =
             [topic |-> topic,
              headers |-> {<<<<"metadata.">> \o h[1], h[2]>> : h \in headers}]
<1> DEFINE pairs == SetToSeq(headers)
           n == Cardinality(headers)
           parts == [i \in DOMAIN pairs |-> MetadataOf(pairs[i])]
           query == Joined(parts, "&")
           path == Store \o Lit("/") \o EncodeTopic(topic)
           url == PublishRequest(c).url
<1>1. /\ pairs \in [1..n -> headers] /\ Len(pairs) = n /\ n \in Nat
      /\ {pairs[i] : i \in 1..n} = headers
  BY SetToSeqLists
<1>2. url = path \o (IF pairs = <<>> THEN <<>> ELSE Lit("?") \o query)
  BY DEF PublishRequest
<1>3. /\ path \in Url /\ Lacks(path, "?")
      /\ Unescaped(Behind(path, "/")) = topic
  <2>1. "?" \in Char /\ "/" \in Char /\ "store" \in Char
    BY Words DEF Reserved
  <2>2. "store" # "?" /\ "/" # "?" /\ "store" # "/"
    OBVIOUS
  <2>3. /\ Lit("store") \in Url /\ Lit("/") \in Url
        /\ Lacks(Lit("store"), "?") /\ Lacks(Lit("/"), "?") /\ Lacks(Lit("store"), "/")
    BY <2>1, <2>2, LitLacks
  <2>4. /\ EncodeTopic(topic) \in Url /\ Lacks(EncodeTopic(topic), "?")
        /\ Unescaped(EncodeTopic(topic)) = topic
    BY TopicEncoded
  <2>5. Store \o Lit("/") \in Url /\ Lacks(Store \o Lit("/"), "?")
    BY <2>1, <2>3, LacksConcat DEF Store
  <2>6. path \in Url /\ Lacks(path, "?")
    BY <2>1, <2>4, <2>5, LacksConcat
  <2>7. Behind(path, "/") = EncodeTopic(topic)
    BY <2>1, <2>3, <2>4, CutAt DEF Store
  <2> QED BY <2>4, <2>6, <2>7
<1> DEFINE read == {<<<<"metadata.">> \o h[1], h[2]>> : h \in headers}
<1>4. Path(url) = path /\ Parameters(url) = read
  <2>1. CASE headers = {}
    <3>1. n = 0 /\ pairs = <<>>
      <4>1. n = 0
        BY <2>1, FS_EmptySet
      <4> QED BY <1>1, <4>1
    <3>2. url = path \o <<>>
      BY <1>2, <3>1
    <3> HIDE DEF path, url
    <3>3. <<>> \in Url
      BY DEF Url
    <3>4. Path(url) = path /\ Query(url) = <<>>
      BY <1>3, <3>2, <3>3, QueryUrl
    <3>5. Parameters(url) = {}
      BY <3>4 DEF Parameters
    <3> QED BY <2>1, <3>4, <3>5
  <2>2. CASE headers # {}
    <3>1. n \in Nat \ {0} /\ pairs # <<>>
      <4>1. n # 0
        BY <2>2, FS_EmptySet
      <4> HIDE DEF pairs, n
      <4>2. Len(<<>>) = 0
        OBVIOUS
      <4> QED BY <1>1, <4>1, <4>2
    <3>2. \A h \in headers : h \in Text \X Text
      OBVIOUS
    <3>3. \A i \in 1..n : /\ parts[i] = MetadataOf(pairs[i]) /\ pairs[i] \in headers
                          /\ parts[i] \in Url /\ Lacks(parts[i], "&") /\ parts[i] # <<>>
      <4> HIDE DEF pairs
      <4> QED BY <1>1, <3>2, HeaderRead
    <3>4. parts \in [1..n -> Url]
      <4> HIDE DEF pairs
      <4> QED BY <1>1, <3>3
    <3>5. "&" \in Char
      BY Words DEF Reserved
    <3>6. query \in Url /\ Pieces(query, "&") = {parts[i] : i \in 1..n}
      <4> HIDE DEF parts, n
      <4> QED BY <3>1, <3>3, <3>4, <3>5, JoinedPieces
    <3>7. Pieces(query, "&") = {MetadataOf(h) : h \in headers}
      <4> HIDE DEF query, pairs, n
      <4>1. {parts[i] : i \in 1..n} = {MetadataOf(pairs[i]) : i \in 1..n}
        BY <3>3
      <4>2. {MetadataOf(pairs[i]) : i \in 1..n}
              = {MetadataOf(h) : h \in {pairs[i] : i \in 1..n}}
        OBVIOUS
      <4> QED BY <1>1, <3>6, <4>1, <4>2
    <3>8. query # <<>>
      <4> HIDE DEF query, parts
      <4> SUFFICES ASSUME query = <<>> PROVE FALSE
        OBVIOUS
      <4>1. Lacks(query, "&")
        BY DEF Lacks
      <4>2. Pieces(query, "&") = {<<>>}
        BY <3>5, <3>6, <4>1, OnePiece
      <4>3. 1 \in 1..n
        BY <3>1
      <4> QED BY <3>3, <3>6, <4>2, <4>3
    <3>9. url = path \o (Lit("?") \o query)
      BY <1>2, <3>1
    <3> HIDE DEF path, url, query
    <3>10. Path(url) = path /\ Query(url) = query
      BY <1>3, <3>6, <3>9, QueryUrl
    <3>11. Parameters(url) =
             {<<Unescaped(Before(p, "=")), Unescaped(Behind(p, "="))>> :
                p \in {MetadataOf(h) : h \in headers}}
      BY <3>7, <3>8, <3>10 DEF Parameters
    <3>12. \A h \in headers :
             /\ Unescaped(Before(MetadataOf(h), "=")) = <<"metadata.">> \o h[1]
             /\ Unescaped(Behind(MetadataOf(h), "=")) = h[2]
      BY <3>2, HeaderRead
    <3>13. Parameters(url) =
             {<<Unescaped(Before(MetadataOf(h), "=")),
                Unescaped(Behind(MetadataOf(h), "="))>> :
                h \in headers}
      BY <3>11
    <3> QED BY <3>10, <3>12, <3>13
  <2> QED BY <2>1, <2>2
<1> HIDE DEF path, url, read
<1> QED BY <1>3, <1>4 DEF Message, url, read

(* The key that a configuration store is asked for. *)
LEMMA ConfigKeyRead ==
    ASSUME NEW key \in Text, NEW c, c.key = key
    PROVE  (CHOOSE p \in Parameters(ConfigGetRequest(c).url) : TRUE)[2] = key
<1> DEFINE query == Lit("key") \o Lit("=") \o Encode(key)
           url == ConfigGetRequest(c).url
<1>1. /\ "key" \in Char /\ "=" \in Char /\ "?" \in Char /\ "&" \in Char /\ "store" \in Char
      /\ "&" \in Reserved
  BY Words DEF Reserved
<1>2. /\ Lit("key") \in Url /\ Lacks(Lit("key"), "=") /\ Lacks(Lit("key"), "&")
      /\ Lit("=") \in Url /\ Lacks(Lit("="), "&")
      /\ Lit("store") \in Url /\ Lacks(Lit("store"), "?") /\ Lit("?") \in Url
  <2>1. "key" # "=" /\ "key" # "&" /\ "=" # "&" /\ "store" # "?"
    OBVIOUS
  <2> QED BY <1>1, <2>1, LitLacks
<1>3. Encode(key) \in Url /\ Lacks(Encode(key), "&")
  BY <1>1, EncodedLacks
<1>4. Lit("key") \o Lit("=") \in Url /\ Lacks(Lit("key") \o Lit("="), "&")
  BY <1>1, <1>2, LacksConcat
<1>5. query \in Url /\ Lacks(query, "&")
  BY <1>1, <1>3, <1>4, LacksConcat
<1>6. url = Lit("store") \o (Lit("?") \o query)
  <2> DEFINE a == Lit("store") \o Lit("?")
             k == Lit("key")
             e == Lit("=")
             v == Encode(key)
  <2>1. url = ((a \o k) \o e) \o v
    BY DEF ConfigGetRequest, Store
  <2>2. a \in Url
    BY <1>2, ConcatOf
  <2>3. (a \o k) \o e = a \o (k \o e)
    <3> HIDE DEF a, k, e
    <3>1. k \in Url /\ e \in Url
      BY <1>2 DEF k, e
    <3> QED BY <2>2, <3>1, Regroup
  <2>4. (a \o (k \o e)) \o v = a \o ((k \o e) \o v)
    <3>1. k \o e \in Url /\ v \in Url
      BY <1>3, <1>4
    <3> DEFINE ke == k \o e
    <3>2. ke \in Url /\ v \in Url
      BY <3>1
    <3> HIDE DEF a, ke, v
    <3>3. (a \o ke) \o v = a \o (ke \o v)
      BY <2>2, <3>2, Regroup
    <3> QED BY <3>3 DEF ke
  <2>5. a \o query = Lit("store") \o (Lit("?") \o query)
    <3> HIDE DEF query
    <3> QED BY <1>2, <1>5, Regroup
  <2> HIDE DEF url
  <2> QED BY <2>1, <2>3, <2>4, <2>5
<1>7. Before(query, "=") = Lit("key") /\ Behind(query, "=") = Encode(key)
  BY <1>1, <1>2, <1>3, CutAt
<1>8. query # <<>>
  <2>1. Lit("key") # <<>>
    BY DEF Lit
  <2>2. Lit("key") \o Lit("=") # <<>>
    BY <1>2, <2>1, ConcatEqualIffEmpty DEF Url
  <2> QED BY <1>3, <1>4, <2>2, ConcatEqualIffEmpty DEF Url
<1> HIDE DEF query, url
<1>9. Query(url) = query
  BY <1>2, <1>5, <1>6, QueryUrl
<1>10. Pieces(query, "&") = {query}
  BY <1>1, <1>5, OnePiece
<1>11. Unescaped(Lit("key")) = <<"key">> /\ Unescaped(Encode(key)) = key
  <2>1. "key" # "%"
    OBVIOUS
  <2> QED BY <1>1, <2>1, UnescapedWord, UnescapedIsName
<1>12. Parameters(url) = {<<<<"key">>, key>>}
  BY <1>7, <1>8, <1>9, <1>10, <1>11 DEF Parameters
<1>13. (CHOOSE p \in Parameters(url) : TRUE) = <<<<"key">>, key>>
  BY <1>12
<1>14. <<<<"key">>, key>>[2] = key
  OBVIOUS
<1>15. (CHOOSE p \in Parameters(url) : TRUE)[2] = key
  BY <1>13, <1>14, Zenon
<1> QED BY <1>15, Zenon DEF url

-----------------------------------------------------------------------------
(***************************************************************************)
(* Bytes, and what a get makes of them.                                    *)
(***************************************************************************)
LEMMA LayerIs ==
    ASSUME NEW kind \in Char, NEW bytes \in Text
    PROVE  /\ Layer(kind, bytes) \in Text /\ Layer(kind, bytes) # <<>>
           /\ Head(Layer(kind, bytes)) = kind /\ Tail(Layer(kind, bytes)) = bytes
<1> DEFINE l == <<kind>>
           s == l \o bytes
<1>1. l \in Text /\ Len(l) = 1 /\ l[1] = kind
  BY DEF Text
<1> HIDE DEF l
<1>2. /\ s \in Text /\ Len(s) = 1 + Len(bytes)
      /\ \A i \in 1..(1 + Len(bytes)) : s[i] = IF i <= 1 THEN l[i] ELSE bytes[i - 1]
      /\ Len(bytes) \in Nat
  <2>1. /\ l \o bytes \in Text /\ Len(l \o bytes) = Len(l) + Len(bytes)
        /\ \A i \in 1..Len(l) + Len(bytes) :
              (l \o bytes)[i] = IF i <= Len(l) THEN l[i] ELSE bytes[i - Len(l)]
    BY <1>1, ConcatProperties, Zenon DEF Text
  <2>2. Len(bytes) \in Nat
    BY DEF Text
  <2> QED BY <1>1, <2>1, <2>2
<1> HIDE DEF s
<1>3. s # <<>> /\ Head(s) = kind
  BY <1>1, <1>2 DEF Text
<1>4. /\ Tail(s) \in Text /\ Len(Tail(s)) = Len(bytes)
      /\ \A i \in 1..Len(bytes) : Tail(s)[i] = bytes[i]
  <2>1. /\ Tail(s) \in Text /\ Len(Tail(s)) = Len(s) - 1
        /\ \A i \in 1..Len(Tail(s)) : Tail(s)[i] = s[i + 1]
    BY <1>2, <1>3, HeadTailProperties DEF Text
  <2>2. \A i \in 1..Len(bytes) : /\ i + 1 \in 1..(1 + Len(bytes))
                                /\ ~(i + 1 <= 1) /\ i + 1 - 1 = i
    BY <1>2
  <2> QED BY <1>2, <2>1, <2>2
<1>5. Tail(s) = bytes
  BY <1>4, SeqEqual DEF Text
<1> QED BY <1>2, <1>3, <1>5 DEF s, l, Layer

LEMMA Encoded64 ==
    ASSUME NEW bytes \in Text
    PROVE  /\ EncodeBytes(bytes) \in Text /\ IsBase64(EncodeBytes(bytes))
           /\ Decode64(EncodeBytes(bytes)) = bytes
           /\ bytes # <<>> => Is("base64", EncodeBytes(bytes)) /\ EncodeBytes(bytes) # <<>>
<1>1. "base64" \in Char
  BY Words
<1>2. CASE bytes = <<>>
  BY <1>2 DEF EncodeBytes, IsBase64, Decode64
<1>3. CASE bytes # <<>>
  BY <1>1, <1>3, LayerIs DEF EncodeBytes, IsBase64, Decode64, Is
<1> QED BY <1>2, <1>3

(* What is decoded: a JSON string of base64, base64 itself, and other text. *)
LEMMA DecodesJson ==
    ASSUME NEW text \in Text
    PROVE  DecodeBytes(Layer("json", text)) =
             IF IsBase64(text) THEN Decoded(Decode64(text)) ELSE Undecodable
<1> DEFINE raw == Layer("json", text)
<1>1. raw # <<>> /\ Head(raw) = "json" /\ Tail(raw) = text
  BY Words, LayerIs
<1> HIDE DEF raw
<1>2. Trim(raw) = raw
  <2>1. "json" # "blank"
    OBVIOUS
  <2> QED BY <1>1, <2>1 DEF Trim, Is
<1>3. Is("json", Trim(raw)) /\ Tail(Trim(raw)) = text
  BY <1>1, <1>2 DEF Is
<1>4. DecodeBytes(raw) = IF IsBase64(text) THEN Decoded(Decode64(text)) ELSE Undecodable
  BY <1>3 DEF DecodeBytes
<1> QED BY <1>4 DEF raw

LEMMA DecodesBase64 ==
    ASSUME NEW text \in Text, Is("base64", text)
    PROVE  DecodeBytes(text) = Decoded(Decode64(text))
<1>1. "base64" # "blank" /\ "base64" # "json"
  OBVIOUS
<1>2. Trim(text) = text
  BY <1>1 DEF Trim, Is
<1>3. ~Is("json", text)
  BY <1>1 DEF Is
<1> QED BY <1>2, <1>3 DEF DecodeBytes, IsBase64

LEMMA DecodesPlain ==
    ASSUME NEW text \in Text, Plain(text)
    PROVE  /\ DecodeBytes(text) = Decoded(text)
           /\ ~IsBase64(text) /\ text # <<>>
<1>1. DecodeBytes(text) = Decoded(text)
  BY DEF DecodeBytes, Plain
<1>2. ~IsBase64(text)
  <2>1. "base64" # "blank"
    OBVIOUS
  <2> SUFFICES ASSUME IsBase64(text) PROVE FALSE
    OBVIOUS
  <2>2. Trim(text) = text
    BY <2>1 DEF IsBase64, Is, Trim
  <2> QED BY <2>2 DEF Plain
<1> QED BY <1>1, <1>2 DEF IsBase64

(* What is stored, where a write asked for value, or somebody else wrote. *)
Written(text, value) ==
    /\ (text = Absent) = (value = Absent)
    /\ value \notin {Absent, Null} => text = EncodeBytes(value)

Marked == Text \cup {Absent, Null}

LEMMA Marks ==
    /\ Absent \notin Text /\ Null \notin Text /\ Absent # Null /\ <<>> \in Text
    /\ Key \subseteq Text /\ Bytes \subseteq Text /\ Foreign \subseteq Text
    /\ Topic \subseteq Text
BY DataAssumption DEF Text

LEMMA GetReturns ==
    ASSUME service \in Services,
           NEW text \in Text \cup {Absent}, NEW value \in Marked,
           Written(text, value)
    PROVE  LET got == ParseGet(ReplyToGet(text))
           IN  /\ value = Absent => got = Ok(Absent)
               /\ value = <<>> => got \in {Ok(<<>>), Ok(Absent)}
               /\ /\ value \notin {Absent, Null, <<>>}
                  /\ service.body = "decoded" => Plain(value)
                  => got = Ok(value)
               /\ value = Null /\ Plain(text) =>
                    got = IF service.body = "json" THEN Failed ELSE Ok(text)
<1> DEFINE got == ParseGet(ReplyToGet(text))
<1>1. /\ service.body \in {"json", "text", "decoded"}
      /\ service.absent \in {"noContent", "notFound", "empty"}
  BY DataAssumption
<1>2. ASSUME value = Absent PROVE got = Ok(Absent)
  <2>1. text = Absent
    BY <1>2 DEF Written
  <2> QED BY <1>1, <2>1 DEF ReplyToGet, Nothing, ParseGet
<1>3. ASSUME value # Absent
      PROVE  /\ text \in Text
             /\ got = IF BodyOf(text) = <<>> THEN Ok(Absent)
                      ELSE IF DecodeBytes(BodyOf(text)).ok
                           THEN Ok(DecodeBytes(BodyOf(text)).bytes) ELSE Failed
  <2>1. text # Absent /\ text \in Text
    BY <1>3 DEF Written
  <2>2. ReplyToGet(text) = [status |-> "ok", body |-> BodyOf(text)]
    BY <2>1 DEF ReplyToGet
  <2> QED BY <2>1, <2>2 DEF ParseGet
<1>4. ASSUME NEW raw \in Text, NEW bytes \in Text, DecodeBytes(raw) = Decoded(bytes)
      PROVE  DecodeBytes(raw).ok /\ DecodeBytes(raw).bytes = bytes
  BY <1>4 DEF Decoded
<1>5. ASSUME value = <<>> PROVE got \in {Ok(<<>>), Ok(Absent)}
  <2>1. value # Absent /\ value # Null
    BY <1>5, Marks
  <2>2. text = <<>>
    BY <1>5, <2>1 DEF Written, EncodeBytes
  <2>3. CASE service.body = "json"
    <3>1. BodyOf(text) = Layer("json", <<>>)
      BY <2>2, <2>3 DEF BodyOf
    <3>2. Layer("json", <<>>) \in Text /\ Layer("json", <<>>) # <<>>
      BY Words, Marks, LayerIs
    <3>3. DecodeBytes(Layer("json", <<>>)) = Decoded(<<>>)
      BY Marks, DecodesJson DEF IsBase64, Decode64
    <3>4. /\ DecodeBytes(Layer("json", <<>>)).ok
          /\ DecodeBytes(Layer("json", <<>>)).bytes = <<>>
      BY <1>4, <3>2, <3>3, Marks
    <3> QED BY <1>3, <2>1, <3>1, <3>2, <3>4
  <2>4. CASE service.body \in {"text", "decoded"}
    <3>1. BodyOf(text) = <<>>
      BY <2>2, <2>4 DEF BodyOf, IsBase64, Decode64
    <3> QED BY <1>3, <2>1, <3>1
  <2> QED BY <1>1, <2>3, <2>4
<1>6. ASSUME value \notin {Absent, Null, <<>>},
             service.body = "decoded" => Plain(value)
      PROVE  got = Ok(value)
  <2>1. /\ value \in Text /\ value # <<>> /\ text = EncodeBytes(value)
        /\ text \in Text /\ text # <<>> /\ Is("base64", text) /\ IsBase64(text)
        /\ Decode64(text) = value
    BY <1>6, Encoded64 DEF Written, Marked
  <2>2. CASE service.body = "json"
    <3>1. BodyOf(text) = Layer("json", text)
      BY <2>2 DEF BodyOf
    <3>2. Layer("json", text) \in Text /\ Layer("json", text) # <<>>
      BY <2>1, Words, LayerIs
    <3>3. DecodeBytes(Layer("json", text)) = Decoded(value)
      BY <2>1, DecodesJson
    <3>4. /\ DecodeBytes(Layer("json", text)).ok
          /\ DecodeBytes(Layer("json", text)).bytes = value
      BY <1>4, <2>1, <3>2, <3>3
    <3> QED BY <1>3, <1>6, <3>1, <3>2, <3>4
  <2>3. CASE service.body = "text"
    <3>1. BodyOf(text) = text
      BY <2>3 DEF BodyOf
    <3>2. DecodeBytes(text).ok /\ DecodeBytes(text).bytes = value
      BY <1>4, <2>1, DecodesBase64
    <3> QED BY <1>3, <1>6, <2>1, <3>1, <3>2
  <2>4. CASE service.body = "decoded"
    <3>1. BodyOf(text) = value
      BY <2>1, <2>4 DEF BodyOf
    <3>2. DecodeBytes(value).ok /\ DecodeBytes(value).bytes = value
      BY <1>4, <1>6, <2>1, <2>4, DecodesPlain
    <3> QED BY <1>3, <1>6, <2>1, <3>1, <3>2
  <2> QED BY <1>1, <2>2, <2>3, <2>4
<1>7. ASSUME value = Null, Plain(text)
      PROVE  got = IF service.body = "json" THEN Failed ELSE Ok(text)
  <2>1. value # Absent /\ text \in Text
    BY <1>3, <1>7, Marks
  <2>2. DecodeBytes(text) = Decoded(text) /\ ~IsBase64(text) /\ text # <<>>
    BY <1>7, <2>1, DecodesPlain
  <2>3. CASE service.body = "json"
    <3>1. BodyOf(text) = Layer("json", text)
      BY <2>3 DEF BodyOf
    <3>2. Layer("json", text) # <<>>
      BY <2>1, Words, LayerIs
    <3>3. DecodeBytes(Layer("json", text)) = Undecodable
      BY <2>1, <2>2, DecodesJson
    <3>4. Undecodable.ok = FALSE
      BY DEF Undecodable
    <3> QED BY <1>3, <2>1, <2>3, <3>1, <3>2, <3>3, <3>4
  <2>4. CASE service.body \in {"text", "decoded"}
    <3>1. BodyOf(text) = text
      BY <2>2, <2>4 DEF BodyOf
    <3>2. DecodeBytes(text).ok /\ DecodeBytes(text).bytes = text
      BY <1>4, <2>1, <2>2
    <3>3. service.body # "json"
      BY <2>4
    <3> QED BY <1>3, <2>1, <2>2, <3>1, <3>2, <3>3
  <2> QED BY <1>1, <2>3, <2>4
<1> QED BY <1>2, <1>5, <1>6, <1>7

-----------------------------------------------------------------------------
(***************************************************************************)
(* The invariant: the types, what is stored and was published, and what    *)
(* the call at hand returns or would return.                               *)
(***************************************************************************)
Types ==
    /\ service \in Services /\ config \in Configs /\ fallback \in BOOLEAN
    /\ stored \in [Api -> [Key -> Text \cup {Absent}]]
    /\ meant \in [Api -> [Key -> Marked]]
    /\ call \in Ops \cup {Absent} /\ late \subseteq Ops

Faithful ==
    /\ published = sent
    /\ \A api \in Api, key \in Key : Written(stored[api][key], meant[api][key])

Replied(a) == a.status \notin {"none", "error", "env"}

RightGet(a) ==
    a.call.op = "get" /\ a.call.api \in Api /\ Replied(a) =>
      /\ seen.meant = Absent => a.result = Ok(Absent)
      /\ seen.meant = <<>> => a.result \in {Ok(<<>>), Ok(Absent)}
      /\ /\ seen.meant \notin {Absent, Null, <<>>}
         /\ service.body = "decoded" => Plain(seen.meant)
         => a.result = Ok(seen.meant)
      /\ seen.meant = Null /\ Plain(seen.text) =>
           a.result = IF service.body = "json" THEN Failed ELSE Ok(seen.text)

RightList(a) ==
    a.call.op = "list" /\ Replied(a) =>
      a.result = IF service.items = "odd" /\ seen.names # {} THEN Failed
                 ELSE Ok(seen.names)

Known(c) == fallback /\ Env[c.key] # Absent

RightConfig(a) ==
    a.call.op = "get" /\ a.call.api = "config" =>
      /\ Known(a.call) => a.result = Ok(Env[a.call.key])
      /\ ~Known(a.call) /\ Replied(a) =>
           a.result = IF config[a.call.key] \in {Absent, Null} \/ service.shape = "other"
                      THEN Failed ELSE Ok(config[a.call.key])

Right(a) == RightGet(a) /\ RightList(a) /\ RightConfig(a)

(* What the call at hand will return, if its reply is not lost. *)
Returned == [call |-> call, status |-> reply.status, result |-> Parse(call, reply)]

Calling ==
    /\ call = Absent => reply = NoReply
    /\ call # Absent => answer = NoAnswer /\ (call.api = "config" => ~Known(call))
    /\ answer # NoAnswer => Right(answer)
    /\ reply # NoReply => Right(Returned)

Inv == Types /\ Faithful /\ Calling

LEMMA Kinds ==
    ASSUME NEW c \in Ops
    PROVE  \/ c.api \in Api /\ c.op \in {"get", "delete"} /\ c.key \in Key
           \/ c.api \in Api /\ c.op = "put" /\ c.key \in Key /\ c.value \in Bytes
           \/ c.api = "blob" /\ c.op = "list"
           \/ c.api = "config" /\ c.op = "get" /\ c.key \in Key
           \/ /\ c.api = "publish" /\ c.op = "send"
              /\ c.topic \in Topic /\ c.headers \in Headers
BY DEF Ops

LEMMA KeyRead ==
    ASSUME NEW c \in Ops, c.api \in Api, c.op # "list"
    PROVE  /\ c.key \in Key /\ KeyIn(RequestOf(c)) = c.key
           /\ c.op = "put" => RequestOf(c).body.value = EncodeBytes(c.value)
<1>1. /\ c.op \in {"get", "delete", "put"} /\ c.key \in Key
      /\ c.api \in {"state", "blob"}
  BY Kinds DEF Api
<1>2. c.key \in Text /\ c.key # Absent
  BY <1>1, Marks
<1>3. CASE c.api = "state" /\ c.op = "put"
  <2>1. RequestOf(c) = [url |-> Store,
                        body |-> [key |-> c.key, value |-> EncodeBytes(c.value)]]
    BY <1>3 DEF RequestOf, StateRequest
  <2> QED BY <1>1, <1>2, <2>1 DEF KeyIn
<1>4. CASE c.api = "state" /\ c.op # "put"
  <2>1. RequestOf(c) = [url |-> Store \o Lit("/") \o Encode(c.key), body |-> NoData]
    BY <1>4 DEF RequestOf, StateRequest
  <2>2. NoData.key = Absent
    BY DEF NoData
  <2>3. KeyIn(RequestOf(c))
          = Unescaped(Behind(Path(Store \o Lit("/") \o Encode(c.key)), "/"))
    BY <2>1, <2>2 DEF KeyIn
  <2> QED BY <1>1, <1>2, <1>4, <2>3, StateUrl
<1>5. CASE c.api = "blob"
  <2>1. RequestOf(c) = BindingRequest(c)
    BY <1>5 DEF RequestOf
  <2>2. CASE c.op = "put"
    <3>1. RequestOf(c).body = [key |-> c.key, value |-> EncodeBytes(c.value)]
      BY <2>1, <2>2 DEF BindingRequest
    <3> QED BY <1>1, <1>2, <3>1 DEF KeyIn
  <2>3. CASE c.op \in {"get", "delete"}
    <3>1. c.op # "put" /\ c.op # "list"
      BY <2>3
    <3>2. RequestOf(c).body = [NoData EXCEPT !.key = c.key]
      BY <2>1, <3>1 DEF BindingRequest
    <3>3. RequestOf(c).body.key = c.key
      BY <3>2 DEF NoData
    <3> QED BY <1>1, <1>2, <3>1, <3>3 DEF KeyIn
  <2> QED BY <1>1, <2>2, <2>3
<1> QED BY <1>1, <1>3, <1>4, <1>5

(* A write leaves under its key what it was asked to, and nothing elsewhere. *)
LEMMA WriteKeeps ==
    ASSUME Types, Faithful, NEW api \in Api, NEW key \in Key,
           NEW text \in Text \cup {Absent}, NEW value \in Marked,
           Written(text, value),
           stored' = [stored EXCEPT ![api][key] = text],
           meant' = [meant EXCEPT ![api][key] = value]
    PROVE  /\ stored' \in [Api -> [Key -> Text \cup {Absent}]]
           /\ meant' \in [Api -> [Key -> Marked]]
           /\ \A a \in Api, k \in Key : Written(stored'[a][k], meant'[a][k])
<1>1. stored' \in [Api -> [Key -> Text \cup {Absent}]]
  BY DEF Types
<1>2. meant' \in [Api -> [Key -> Marked]]
  BY DEF Types
<1>3. ASSUME NEW a \in Api, NEW k \in Key
      PROVE  Written(stored'[a][k], meant'[a][k])
  <2>1. CASE a = api /\ k = key
    <3>1. stored'[a][k] = text /\ meant'[a][k] = value
      BY <2>1 DEF Types
    <3> QED BY <3>1
  <2>2. CASE ~(a = api /\ k = key)
    <3>1. stored'[a][k] = stored[a][k] /\ meant'[a][k] = meant[a][k]
      BY <2>2 DEF Types
    <3> QED BY <3>1 DEF Faithful
  <2> QED BY <2>1, <2>2
<1> QED BY <1>1, <1>2, <1>3

LEMMA ServedAsAsked ==
    ASSUME Types, Faithful, NEW c \in Ops, ServeRequest(c, RequestOf(c))
    PROVE  /\ stored' \in [Api -> [Key -> Text \cup {Absent}]]
           /\ meant' \in [Api -> [Key -> Marked]]
           /\ Faithful'
<1>1. CASE c.op = "put"
  <2>1. /\ c.api \in Api /\ c.key \in Key /\ c.value \in Text
        /\ KeyIn(RequestOf(c)) = c.key
        /\ RequestOf(c).body.value = EncodeBytes(c.value)
    BY <1>1, Kinds, KeyRead, Marks
  <2>2. /\ stored' = [stored EXCEPT ![c.api][c.key] = EncodeBytes(c.value)]
        /\ meant' = [meant EXCEPT ![c.api][c.key] = c.value]
        /\ published' = published /\ sent' = sent
    BY <1>1, <2>1 DEF ServeRequest, PutText, Means
  <2>3. EncodeBytes(c.value) \in Text
    BY <2>1, Encoded64
  <2>4. c.value \in Marked /\ EncodeBytes(c.value) \in Text \cup {Absent}
    BY <2>1, <2>3 DEF Marked
  <2>5. Written(EncodeBytes(c.value), c.value)
    BY <2>1, <2>3, Marks DEF Written
  <2> HIDE DEF EncodeBytes
  <2>6. /\ stored' \in [Api -> [Key -> Text \cup {Absent}]]
        /\ meant' \in [Api -> [Key -> Marked]]
        /\ \A a \in Api, k \in Key : Written(stored'[a][k], meant'[a][k])
    BY <2>1, <2>2, <2>4, <2>5, WriteKeeps
  <2> QED BY <2>2, <2>6 DEF Faithful
<1>2. CASE c.op = "delete"
  <2>1. c.api \in Api /\ c.key \in Key /\ KeyIn(RequestOf(c)) = c.key
    BY <1>2, Kinds, KeyRead
  <2>2. /\ stored' = [stored EXCEPT ![c.api][c.key] = Absent]
        /\ meant' = [meant EXCEPT ![c.api][c.key] = Absent]
        /\ published' = published /\ sent' = sent
    BY <1>2, <2>1 DEF ServeRequest, PutText, Means
  <2>3. Absent \in Marked /\ Absent \in Text \cup {Absent} /\ Written(Absent, Absent)
    BY DEF Marked, Written
  <2>4. /\ stored' \in [Api -> [Key -> Text \cup {Absent}]]
        /\ meant' \in [Api -> [Key -> Marked]]
        /\ \A a \in Api, k \in Key : Written(stored'[a][k], meant'[a][k])
    BY <2>1, <2>2, <2>3, WriteKeeps
  <2> QED BY <2>2, <2>4 DEF Faithful
<1>3. CASE c.op = "send"
  <2>1. c.topic \in Text /\ c.headers \in Headers /\ c.api = "publish"
    BY <1>3, Kinds, Marks DEF Api
  <2>2. IsFiniteSet(c.headers) /\ c.headers \subseteq Text \X Text
    BY <2>1, DataAssumption DEF Text
  <2>3. RequestOf(c) = PublishRequest(c)
    BY <2>1 DEF RequestOf
  <2>4. Message(RequestOf(c)) =
          [topic |-> c.topic,
           headers |-> {<<<<"metadata.">> \o h[1], h[2]>> : h \in c.headers}]
    BY <2>1, <2>2, <2>3, MessageRead
  <2>5. /\ published' = published \cup {Message(RequestOf(c))}
        /\ sent' = sent \cup {[topic |-> c.topic, headers |->
                                 {<<<<"metadata.">> \o h[1], h[2]>> : h \in c.headers}]}
        /\ stored' = stored /\ meant' = meant
    BY <1>3 DEF ServeRequest
  <2>6. published' = sent'
    BY <2>4, <2>5 DEF Faithful
  <2> QED BY <2>5, <2>6 DEF Faithful, Types
<1>4. CASE c.op \in {"get", "list"}
  <2>1. /\ stored' = stored /\ meant' = meant
        /\ published' = published /\ sent' = sent
    BY <1>4 DEF ServeRequest, data, ghosts
  <2> QED BY <2>1 DEF Faithful, Types
<1> QED BY <1>1, <1>2, <1>3, <1>4, Kinds

-----------------------------------------------------------------------------
(***************************************************************************)
(* The replies.                                                            *)
(***************************************************************************)
LEMMA ListReturns ==
    ASSUME Types, Faithful
    PROVE  LET names == {k \in Key : meant["blob"][k] # Absent}
           IN  ParseBindingList(ReplyToList) =
                 IF service.items = "odd" /\ names # {} THEN Failed ELSE Ok(names)
<1> DEFINE names == {k \in Key : meant["blob"][k] # Absent}
           Item(k) == [form |-> service.items, name |-> k]
           S == {Item(k) : k \in names}
           n == Cardinality(S)
           body == SetToSeq(S)
<1>1. Present = names
  <2>1. "blob" \in Api
    BY DEF Api
  <2>2. \A k \in Key : (stored["blob"][k] = Absent) = (meant["blob"][k] = Absent)
    BY <2>1 DEF Faithful, Written
  <2> QED BY <2>2 DEF Present
<1>2. IsFiniteSet(S)
  <2>1. IsFiniteSet(names)
    BY DataAssumption, FS_Subset
  <2> DEFINE f == [k \in names |-> Item(k)]
  <2>2. f \in Surjection(names, S)
    <3>1. f \in [names -> S]
      OBVIOUS
    <3>2. \A x \in S : \E k \in names : f[k] = x
      OBVIOUS
    <3> HIDE DEF f, names, S
    <3> QED BY <3>1, <3>2 DEF Surjection
  <2> HIDE DEF f, names, S
  <2> QED BY <2>1, <2>2, FS_Surjection
<1>3. ReplyToList = [status |-> "ok", body |-> body]
  BY <1>1 DEF ReplyToList
<1> HIDE DEF names
<1>4. /\ body \in [1..n -> S] /\ n \in Nat /\ DOMAIN body = 1..n
      /\ {body[i] : i \in 1..n} = S
  <2> HIDE DEF S
  <2> QED BY <1>2, SetToSeqLists
<1> HIDE DEF body
<1>5. \A i \in 1..n : body[i].form = service.items
  BY <1>4
<1>6. {body[i].name : i \in 1..n} = names
  <2>1. ASSUME NEW i \in 1..n PROVE body[i].name \in names
    <3>1. PICK k \in names : body[i] = Item(k)
      BY <1>4
    <3> QED BY <3>1
  <2>2. ASSUME NEW k \in names PROVE \E i \in 1..n : body[i].name = k
    <3>1. Item(k) \in {body[i] : i \in 1..n}
      <4>1. Item(k) \in S
        OBVIOUS
      <4> HIDE DEF S, n
      <4> QED BY <1>4, <4>1
    <3>2. Item(k).name = k
      OBVIOUS
    <3> HIDE DEF S, n
    <3> QED BY <3>1, <3>2
  <2> HIDE DEF n
  <2> QED BY <2>1, <2>2
<1>7. CASE service.items # "odd"
  <2>1. \A i \in DOMAIN body : body[i].form # "odd"
    BY <1>4, <1>5, <1>7
  <2> HIDE DEF n, S
  <2> QED BY <1>3, <1>4, <1>6, <1>7, <2>1 DEF ParseBindingList, names
<1>8. CASE service.items = "odd" /\ names # {}
  <2>1. PICK i \in 1..n : TRUE
    <3> HIDE DEF n
    <3> QED BY <1>6, <1>8
  <2>2. i \in DOMAIN body /\ body[i].form = "odd"
    BY <1>4, <1>5, <1>8, <2>1
  <2>3. ~\A j \in DOMAIN body : body[j].form # "odd"
    BY <2>2, Zenon
  <2> HIDE DEF n, S
  <2> QED BY <1>3, <1>8, <2>3 DEF ParseBindingList, names
<1>9. CASE service.items = "odd" /\ names = {}
  <2> HIDE DEF n, S
  <2>1. \A i \in 1..n : FALSE
    BY <1>6, <1>9
  <2>2. \A i \in DOMAIN body : body[i].form # "odd"
    BY <1>4, <2>1
  <2> QED BY <1>3, <1>4, <1>6, <1>9, <2>2 DEF ParseBindingList, names
<1> QED BY <1>7, <1>8, <1>9

LEMMA ConfigReturns ==
    ASSUME Types, NEW c, c.key \in Key
    PROVE  /\ ConfigReply(ConfigGetRequest(c)).status = "ok"
           /\ ParseConfigGet(ConfigReply(ConfigGetRequest(c)), c.key) =
                IF config[c.key] \in {Absent, Null} \/ service.shape = "other"
                THEN Failed ELSE Ok(config[c.key])
<1> DEFINE key == c.key
           value == config[key]
           r == ConfigReply(ConfigGetRequest(c))
           items == IF value = Absent THEN {} ELSE {[key |-> key, value |-> value]}
           held == {item.value : item \in {i \in items : i.key = key}} \ {Null}
<1>1. key \in Key /\ key \in Text
  BY Marks
<1>2. (CHOOSE p \in Parameters(ConfigGetRequest(c).url) : TRUE)[2] = key
  BY <1>1, ConfigKeyRead
<1>3. r = [status |-> "ok", body |-> [shape |-> service.shape, items |-> items]]
  BY <1>1, <1>2 DEF ConfigReply
<1>4. service.shape \in {"map", "array", "other"}
  BY DataAssumption DEF Types
<1> HIDE DEF r
<1>5. held = IF value \in {Absent, Null} THEN {} ELSE {value}
  <2>1. CASE value = Absent
    BY <2>1
  <2>2. CASE value # Absent
    <3> DEFINE item == [key |-> key, value |-> value]
    <3>1. items = {item} /\ item.key = key /\ item.value = value
      BY <2>2
    <3> HIDE DEF item, items
    <3>2. {i \in items : i.key = key} = {item}
      BY <3>1
    <3>3. {i.value : i \in {item}} = {value}
      BY <3>1
    <3> QED BY <2>2, <3>2, <3>3
  <2> QED BY <2>1, <2>2
<1>6. r.status = "ok" /\ r.body.shape = service.shape /\ r.body.items = items
  BY <1>3
<1>7. ParseConfigGet(r, key) =
        IF service.shape \in {"map", "array"} /\ held # {}
        THEN Ok(CHOOSE v \in held : TRUE) ELSE Failed
  <2> HIDE DEF items
  <2> QED BY <1>6 DEF ParseConfigGet
<1> HIDE DEF held, items
<1>8. CASE value \in {Absent, Null} \/ service.shape = "other"
  BY <1>5, <1>6, <1>7, <1>8 DEF r
<1>9. CASE ~(value \in {Absent, Null} \/ service.shape = "other")
  <2>1. held = {value} /\ service.shape \in {"map", "array"}
    BY <1>4, <1>5, <1>9
  <2>2. (CHOOSE v \in {value} : TRUE) = value
    OBVIOUS
  <2>3. ParseConfigGet(r, key) = Ok(value)
    BY <1>7, <2>1, <2>2
  <2> QED BY <1>6, <1>9, <2>3 DEF r
<1> QED BY <1>8, <1>9

LEMMA ServedRight ==
    ASSUME Types, Faithful, Calling, Serve
    PROVE  Right(Returned)'
<1> DEFINE r == ReplyTo(call, RequestOf(call))
           s == SeenBy(call)
<1>1. call \in Ops /\ call # Absent
  BY DEF Serve, Types
<1>2. /\ call' = call /\ reply' = r /\ seen' = s
      /\ service' = service /\ config' = config /\ fallback' = fallback
  BY DEF Serve
<1>3. call.api = "config" => ~Known(call)
  BY <1>1 DEF Calling
<1>4. PICK a : a = (Returned)'
  OBVIOUS
<1>5. a.call = call /\ a.status = r.status /\ a.result = Parse(call, r)
  BY <1>2, <1>4 DEF Returned
<1> DEFINE Correct ==
       /\ a.call.op = "get" /\ a.call.api \in Api =>
            /\ s.meant = Absent => a.result = Ok(Absent)
            /\ s.meant = <<>> => a.result \in {Ok(<<>>), Ok(Absent)}
            /\ /\ s.meant \notin {Absent, Null, <<>>}
               /\ service.body = "decoded" => Plain(s.meant)
               => a.result = Ok(s.meant)
            /\ s.meant = Null /\ Plain(s.text) =>
                 a.result = IF service.body = "json" THEN Failed ELSE Ok(s.text)
       /\ a.call.op = "list" =>
            a.result = IF service.items = "odd" /\ s.names # {} THEN Failed
                       ELSE Ok(s.names)
       /\ a.call.op = "get" /\ a.call.api = "config" =>
            a.result = IF config[a.call.key] \in {Absent, Null} \/ service.shape = "other"
                       THEN Failed ELSE Ok(config[a.call.key])
<1>6. SUFFICES Correct
  <2>1. a.call.api = "config" => ~Known(call)'
    BY <1>2, <1>3, <1>5 DEF Known
  <2> HIDE DEF s, r
  <2> SUFFICES ASSUME Correct PROVE Right(Returned)'
    OBVIOUS
  <2>2. RightGet(Returned)'
    BY <1>2, <1>4 DEF RightGet
  <2>3. RightList(Returned)'
    BY <1>2, <1>4 DEF RightList
  <2>4. RightConfig(Returned)'
    BY <1>2, <1>3, <1>4, <1>5 DEF RightConfig, Known
  <2> QED BY <2>2, <2>3, <2>4 DEF Right
<1>7. CASE call.op = "get" /\ call.api \in Api
  <2>1. call.key \in Key /\ KeyIn(RequestOf(call)) = call.key /\ call.api # "config"
    BY <1>1, <1>7, KeyRead DEF Api
  <2>2. s = [text |-> stored[call.api][call.key], meant |-> meant[call.api][call.key]]
    BY <1>7 DEF SeenBy
  <2>3. r = ReplyToGet(stored[call.api][call.key])
    BY <1>7, <2>1 DEF ReplyTo, Held
  <2>4. Parse(call, r) = ParseGet(r)
    BY <1>7, <2>1 DEF Parse
  <2>5. PICK text \in Text \cup {Absent}, value \in Marked :
          /\ text = stored[call.api][call.key] /\ value = meant[call.api][call.key]
          /\ Written(text, value)
    <3>1. stored[call.api][call.key] \in Text \cup {Absent}
      BY <1>7, <2>1 DEF Types
    <3>2. meant[call.api][call.key] \in Marked
      BY <1>7, <2>1 DEF Types
    <3>3. Written(stored[call.api][call.key], meant[call.api][call.key])
      BY <1>7, <2>1 DEF Faithful
    <3> QED BY <3>1, <3>2, <3>3
  <2>6. s.text = text /\ s.meant = value /\ a.result = ParseGet(ReplyToGet(text))
    BY <1>5, <2>2, <2>3, <2>4, <2>5
  <2> HIDE DEF s, r
  <2>7. /\ value = Absent => a.result = Ok(Absent)
        /\ value = <<>> => a.result \in {Ok(<<>>), Ok(Absent)}
        /\ /\ value \notin {Absent, Null, <<>>}
           /\ service.body = "decoded" => Plain(value)
           => a.result = Ok(value)
        /\ value = Null /\ Plain(text) =>
             a.result = IF service.body = "json" THEN Failed ELSE Ok(text)
    BY <2>5, <2>6, GetReturns DEF Types
  <2> QED BY <1>5, <1>7, <2>1, <2>6, <2>7
<1>8. CASE call.op = "list"
  <2>1. call.api = "blob" /\ call.api # "config"
    BY <1>1, <1>8, Kinds DEF Api
  <2>2. s = [names |-> {k \in Key : meant["blob"][k] # Absent}]
    BY <1>8 DEF SeenBy
  <2>3. r = ReplyToList
    BY <1>8, <2>1 DEF ReplyTo
  <2>4. Parse(call, r) = ParseBindingList(r)
    BY <1>8, <2>1 DEF Parse
  <2>5. s.names = {k \in Key : meant["blob"][k] # Absent}
    BY <2>2
  <2>6. Parse(call, r) = IF service.items = "odd" /\ s.names # {} THEN Failed
                         ELSE Ok(s.names)
    <3> HIDE DEF r, s
    <3> QED BY <2>3, <2>4, <2>5, ListReturns
  <2> HIDE DEF r, s
  <2> QED BY <1>5, <1>8, <2>6
<1>9. CASE call.op = "get" /\ call.api = "config"
  <2>1. call.key \in Key /\ call.api \notin Api
    BY <1>1, <1>9, Kinds DEF Api
  <2>2. RequestOf(call) = ConfigGetRequest(call)
    BY <1>9 DEF RequestOf
  <2>3. r = ConfigReply(ConfigGetRequest(call))
    BY <1>9, <2>2 DEF ReplyTo
  <2>4. r.status = "ok" /\ Parse(call, r) = ParseConfigGet(r, call.key)
    <3>1. r.status = "ok"
      BY <2>1, <2>3, ConfigReturns
    <3> QED BY <1>9, <2>1, <3>1 DEF Parse
  <2> HIDE DEF r, s
  <2>5. Parse(call, r) = IF config[call.key] \in {Absent, Null} \/ service.shape = "other"
                         THEN Failed ELSE Ok(config[call.key])
    BY <2>1, <2>3, <2>4, ConfigReturns
  <2> QED BY <1>5, <1>9, <2>1, <2>5
<1>10. CASE call.op \in {"put", "send", "delete"}
  BY <1>5, <1>10
<1>11. call.op = "get" => call.api \in Api \/ call.api = "config"
  BY <1>1, Kinds
<1> QED BY <1>1, <1>7, <1>8, <1>9, <1>10, <1>11, Kinds

-----------------------------------------------------------------------------
(***************************************************************************)
(* The invariant holds.                                                    *)
(***************************************************************************)
LEMMA InvInit == ASSUME Init PROVE Inv
<1>1. stored \in [Api -> [Key -> Text \cup {Absent}]] /\ meant = stored
      /\ \A a \in Api, k \in Key : stored[a][k] = Absent
  BY DEF Init
<1>2. meant \in [Api -> [Key -> Marked]]
  BY <1>1 DEF Init, Marked
<1>3. Types
  BY <1>1, <1>2 DEF Init, Types
<1>4. Faithful
  BY <1>1 DEF Init, Faithful, Written
<1>5. Calling
  BY DEF Init, Calling
<1> QED BY <1>3, <1>4, <1>5 DEF Inv

LEMMA StayRight ==
    ASSUME NEW a, Right(a), UNCHANGED <<service, config, fallback, seen>>
    PROVE  Right(a)'
BY DEF Right, RightGet, RightList, RightConfig, Known

(* A call that is lost or refused tells its caller nothing. *)
LEMMA SilentRight ==
    ASSUME NEW a, a.status \in {"none", "error"}, a.call.api = "config" => ~Known(a.call)
    PROVE  Right(a)
BY DEF Right, RightGet, RightList, RightConfig, Replied

LEMMA InvNext == ASSUME Inv, [Next]_vars PROVE Inv'
<1>0. Types /\ Faithful /\ Calling
  BY DEF Inv
<1>1. ASSUME NEW c \in Ops, Begin(c) PROVE Inv'
  <2>1. /\ call = Absent /\ reply = NoReply /\ reply' = NoReply
        /\ UNCHANGED <<service, config, fallback, stored, published, late, meant, sent>>
    BY <1>0, <1>1 DEF Begin, Calling, data, ghosts
  <2>2. Faithful'
    BY <1>0, <2>1 DEF Faithful
  <2>3. CASE /\ c.api = "config" /\ fallback /\ Env[c.key] # Absent
             /\ answer' = [call |-> c, status |-> "env", result |-> Ok(Env[c.key])]
             /\ UNCHANGED call
    <3>1. Types'
      BY <1>0, <2>1, <2>3 DEF Types
    <3> DEFINE a == [call |-> c, status |-> "env", result |-> Ok(Env[c.key])]
    <3>2. a.call = c /\ a.status = "env" /\ a.result = Ok(Env[c.key])
      OBVIOUS
    <3>3. c.op = "get" /\ c.api \notin Api
      BY <2>3, Kinds DEF Api
    <3> HIDE DEF a
    <3>4. PICK b : b = a
      OBVIOUS
    <3>5. Right(b)'
      BY <2>1, <2>3, <3>2, <3>3, <3>4
         DEF Right, RightGet, RightList, RightConfig, Known, Replied
    <3>6. answer' = b
      BY <2>3, <3>4 DEF a
    <3>7. (answer # NoAnswer => Right(answer))'
      BY <3>5, <3>6 DEF Right, RightGet, RightList, RightConfig, Known, Replied
    <3>8. Calling'
      BY <2>1, <2>3, <3>7 DEF Calling
    <3> QED BY <2>2, <3>1, <3>8 DEF Inv
  <2>4. CASE /\ ~(c.api = "config" /\ fallback /\ Env[c.key] # Absent)
             /\ call' = c /\ answer' = NoAnswer
    <3>1. Types'
      BY <1>0, <2>1, <2>4 DEF Types
    <3>2. Calling'
      BY <2>1, <2>4 DEF Calling, Known
    <3> QED BY <2>2, <3>1, <3>2 DEF Inv
  <2> QED BY <1>1, <2>3, <2>4 DEF Begin
<1>2. ASSUME Serve PROVE Inv'
  <2>1. call \in Ops /\ call # Absent /\ ServeRequest(call, RequestOf(call))
    BY <1>0, <1>2 DEF Serve, Types
  <2>2. UNCHANGED <<service, config, fallback, call, late, answer>>
    BY <1>2 DEF Serve
  <2>3. /\ stored' \in [Api -> [Key -> Text \cup {Absent}]]
        /\ meant' \in [Api -> [Key -> Marked]]
        /\ Faithful'
    BY <1>0, <2>1, ServedAsAsked
  <2>4. Types'
    BY <1>0, <2>2, <2>3 DEF Types
  <2>5. Right(Returned)'
    BY <1>0, <1>2, ServedRight
  <2>6. /\ (call = Absent => reply = NoReply)'
        /\ (call # Absent => answer = NoAnswer /\ (call.api = "config" => ~Known(call)))'
        /\ (answer # NoAnswer => Right(answer))'
    <3>1. answer = NoAnswer /\ (call.api = "config" => ~Known(call))
      BY <1>0, <2>1 DEF Calling
    <3> QED BY <2>1, <2>2, <3>1 DEF Known
  <2>7. Calling'
    BY <2>5, <2>6 DEF Calling
  <2> QED BY <2>3, <2>4, <2>7 DEF Inv
<1>3. ASSUME Refuse PROVE Inv'
  <2>1. /\ call # Absent /\ reply' = [status |-> "error", body |-> <<>>]
        /\ UNCHANGED <<service, config, fallback, stored, published, call, late,
                       answer, meant, sent, seen>>
    BY <1>3 DEF Refuse, data, ghosts
  <2>2. Types' /\ Faithful'
    BY <1>0, <2>1 DEF Types, Faithful
  <2>3. answer = NoAnswer /\ (call.api = "config" => ~Known(call))
    BY <1>0, <2>1 DEF Calling
  <2>4. Right(Returned)'
    <3>1. PICK a : a = (Returned)'
      OBVIOUS
    <3>2. a.call = call /\ a.status = "error"
      BY <2>1, <3>1 DEF Returned
    <3>3. Right(a)
      BY <2>3, <3>2, SilentRight
    <3>4. Right(a)'
      BY <2>1, <3>3, StayRight
    <3> QED BY <3>1, <3>4
            DEF Right, RightGet, RightList, RightConfig, Known, Replied
  <2>5. Calling'
    BY <2>1, <2>3, <2>4 DEF Calling, Known
  <2> QED BY <2>2, <2>5 DEF Inv
<1>4. ASSUME Return PROVE Inv'
  <2>1. /\ reply # NoReply /\ answer' = Returned /\ call' = Absent /\ reply' = NoReply
        /\ UNCHANGED <<service, config, fallback, stored, published, late, meant,
                       sent, seen>>
    BY <1>4 DEF Return, Returned, data, ghosts
  <2>2. Types' /\ Faithful'
    BY <1>0, <2>1 DEF Types, Faithful
  <2>3. PICK a : a = Returned
    OBVIOUS
  <2>4. Right(a)
    BY <1>0, <2>1, <2>3 DEF Calling
  <2>5. Right(a)'
    BY <2>1, <2>4, StayRight
  <2>6. (answer # NoAnswer => Right(answer))'
    BY <2>1, <2>3, <2>5
       DEF Right, RightGet, RightList, RightConfig, Known, Replied
  <2>7. Calling'
    BY <2>1, <2>6 DEF Calling
  <2> QED BY <2>2, <2>7 DEF Inv
<1>5. ASSUME Lose PROVE Inv'
  <2>1. /\ call # Absent /\ call' = Absent /\ reply' = NoReply
        /\ late' \subseteq late \cup {call}
        /\ UNCHANGED <<service, config, fallback, stored, published, meant, sent>>
    BY <1>5 DEF Lose, data, ghosts
  <2>2. Types' /\ Faithful'
    BY <1>0, <2>1 DEF Types, Faithful
  <2>3. PICK a : a = [call |-> call, status |-> "none", result |-> Unreached]
    OBVIOUS
  <2>4. a.call = call /\ a.status = "none" /\ answer' = a
    BY <1>5, <2>3 DEF Lose
  <2>5. a.call.api = "config" => ~Known(a.call)'
    BY <1>0, <2>1, <2>4 DEF Calling, Known
  <2>6. Right(a)'
    BY <2>4, <2>5
       DEF Right, RightGet, RightList, RightConfig, Known, Replied
  <2>7. (answer # NoAnswer => Right(answer))'
    BY <2>4, <2>6
       DEF Right, RightGet, RightList, RightConfig, Known, Replied
  <2>8. Calling'
    BY <2>1, <2>7 DEF Calling
  <2> QED BY <2>2, <2>8 DEF Inv
<1>6. ASSUME UNCHANGED <<service, config, fallback, call, reply, answer, seen>>
      PROVE  Calling'
  <2>1. PICK a : a = answer
    OBVIOUS
  <2>2. PICK b : b = Returned
    OBVIOUS
  <2>3. answer' = a /\ (Returned)' = b
    BY <1>6, <2>1, <2>2 DEF Returned
  <2>4. answer # NoAnswer => Right(a)'
    BY <1>0, <1>6, <2>1, StayRight DEF Calling
  <2>5. reply # NoReply => Right(b)'
    BY <1>0, <1>6, <2>2, StayRight DEF Calling
  <2>6. (answer # NoAnswer => Right(answer))'
    BY <1>6, <2>3, <2>4
       DEF Right, RightGet, RightList, RightConfig, Known, Replied
  <2>7. (reply # NoReply => Right(Returned))'
    BY <1>6, <2>3, <2>5
       DEF Right, RightGet, RightList, RightConfig, Known, Replied
  <2> QED BY <1>0, <1>6, <2>6, <2>7 DEF Calling, Known
<1>7. ASSUME NEW c \in late, ServeLate(c) PROVE Inv'
  <2>1. c \in Ops /\ ServeRequest(c, RequestOf(c))
        /\ late' \subseteq late
        /\ UNCHANGED <<service, config, fallback, call, reply, answer, seen>>
    BY <1>0, <1>7 DEF ServeLate, Types
  <2>2. /\ stored' \in [Api -> [Key -> Text \cup {Absent}]]
        /\ meant' \in [Api -> [Key -> Marked]]
        /\ Faithful'
    BY <1>0, <2>1, ServedAsAsked
  <2>3. Types'
    BY <1>0, <2>1, <2>2 DEF Types
  <2> QED BY <1>6, <2>1, <2>2, <2>3 DEF Inv
<1>8. ASSUME NEW api \in Api, NEW key \in Key, NEW text \in Foreign,
             ForeignStore(api, key, text)
      PROVE  Inv'
  <2>1. /\ stored' = [stored EXCEPT ![api][key] = text]
        /\ meant' = [meant EXCEPT ![api][key] = Null]
        /\ published' = published /\ sent' = sent /\ late' = late
        /\ UNCHANGED <<service, config, fallback, call, reply, answer, seen>>
    BY <1>8 DEF ForeignStore
  <2>2. /\ text \in Text \cup {Absent} /\ Null \in Marked /\ Written(text, Null)
    BY Marks DEF Marked, Written
  <2>3. /\ stored' \in [Api -> [Key -> Text \cup {Absent}]]
        /\ meant' \in [Api -> [Key -> Marked]]
        /\ \A a \in Api, k \in Key : Written(stored'[a][k], meant'[a][k])
    BY <1>0, <2>1, <2>2, WriteKeeps
  <2>4. Types'
    BY <1>0, <2>1, <2>3 DEF Types
  <2>5. Faithful'
    BY <1>0, <2>1, <2>3 DEF Faithful
  <2> QED BY <1>6, <2>1, <2>4, <2>5 DEF Inv
<1>9. ASSUME UNCHANGED vars PROVE Inv'
  <2>1. UNCHANGED <<service, config, fallback, stored, published, call, reply, late,
                    answer, meant, sent, seen>>
    BY <1>9 DEF vars, data, ghosts
  <2>2. Types' /\ Faithful'
    BY <1>0, <2>1 DEF Types, Faithful
  <2> QED BY <1>6, <2>1, <2>2 DEF Inv
<1> QED BY <1>1, <1>2, <1>3, <1>4, <1>5, <1>7, <1>8, <1>9 DEF Next

(* The types, what is stored, and what calls return, in every state. *)
THEOREM Invariance == Spec => []Inv
<1>1. Init => Inv
  BY InvInit
<1>2. Inv /\ [Next]_vars => Inv'
  BY InvNext
<1> QED BY <1>1, <1>2, PTL DEF Spec

-----------------------------------------------------------------------------
(* Keys, names, topics and headers arrive as they were given, whichever part
   of a request carries them and whatever characters they hold, and what is
   stored under a key decodes to the bytes that were last written to it. *)
THEOREM ArriveAsGiven == Spec => []StoredAsAsked
<1>1. Inv => StoredAsAsked
  <2> SUFFICES ASSUME Types, Faithful PROVE StoredAsAsked
    BY DEF Inv
  <2>1. ASSUME NEW api \in Api, NEW key \in Key, meant[api][key] # Null
        PROVE  /\ (stored[api][key] = Absent) = (meant[api][key] = Absent)
               /\ stored[api][key] # Absent =>
                    /\ IsBase64(stored[api][key])
                    /\ Decode64(stored[api][key]) = meant[api][key]
    <3>1. Written(stored[api][key], meant[api][key])
      BY DEF Faithful
    <3>2. meant[api][key] \in Marked
      BY DEF Types
    <3>3. CASE meant[api][key] = Absent
      BY <3>1, <3>3 DEF Written
    <3>4. CASE meant[api][key] # Absent
      <4>1. meant[api][key] \in Text /\ stored[api][key] = EncodeBytes(meant[api][key])
        BY <2>1, <3>1, <3>2, <3>4 DEF Written, Marked
      <4> QED BY <3>1, <4>1, Encoded64 DEF Written
    <3> QED BY <3>3, <3>4
  <2> QED BY <2>1 DEF StoredAsAsked, Faithful
<1> QED BY <1>1, Invariance, PTL

(* A get returns the bytes that were stored, whether the service answers JSON,
   text, or the bytes themselves; what another program wrote comes back as it
   is, or fails. *)
THEOREM ComesBack == Spec => []ReadsBack
<1>1. Inv => ReadsBack
  <2> SUFFICES ASSUME Inv, Answers({"get"}), answer.call.api \in Api, Answered
               PROVE  ReadsBack
    BY DEF ReadsBack
  <2>1. RightGet(answer) /\ Replied(answer)
    BY DEF Inv, Calling, Answers, Answered, Replied, Right
  <2> QED BY <2>1 DEF RightGet, ReadsBack, Answers
<1> QED BY <1>1, Invariance, PTL

(* A list names the objects that were put and not deleted, or fails. *)
THEOREM ListsWhatIsThere == Spec => []ListsObjects
<1>1. Inv => ListsObjects
  <2> SUFFICES ASSUME Inv, Answers({"list"}), Answered PROVE ListsObjects
    BY DEF ListsObjects
  <2>1. RightList(answer) /\ Replied(answer)
    BY DEF Inv, Calling, Answers, Answered, Replied, Right
  <2> QED BY <2>1 DEF RightList, ListsObjects, Answers
<1> QED BY <1>1, Invariance, PTL

(* A configuration key has the value the environment or the store gives it, in
   every shape of response, and where there is none a get fails. *)
THEOREM ConfigReadAsSet == Spec => []ConfigAsSet
<1>1. Inv => ConfigAsSet
  <2> SUFFICES ASSUME Inv, Answers({"get"}), answer.call.api = "config"
               PROVE  ConfigAsSet
    BY DEF ConfigAsSet
  <2>1. RightConfig(answer)
    BY DEF Inv, Calling, Answers, Right
  <2> QED BY <2>1 DEF RightConfig, ConfigAsSet, Answers, Answered, Known, Replied
<1> QED BY <1>1, Invariance, PTL

=============================================================================
