-------------------------- MODULE OrmQueriesProofs --------------------------
(***************************************************************************)
(* Theorems about the builders of crates/orm, for any tables, entities,    *)
(* objects, filters, joins and values, and any number of calls: a          *)
(* statement touches the rows its filters mean, a join pairs the rows its  *)
(* condition means, an upsert updates every column that was set, and what  *)
(* was inserted reads back as it was.                                      *)
(*                                                                         *)
(* The argument goes from the tokens up.  What an expression is rendered   *)
(* as has parentheses that balance, so the operators at the top of it are  *)
(* its own: the host splits it there, and reads each part for what the     *)
(* part stands for.  By induction over the nodes of a filter, leaves       *)
(* first, its rendering is read for what Means says.  The invariant then   *)
(* says that the builder has the caller's filters and joins in these       *)
(* terms, and that the tables are what its statement makes of them.        *)
(***************************************************************************)
EXTENDS OrmQueries, SequenceTheorems, FiniteSetTheorems, WellFoundedInduction,
        NaturalsInduction, TLAPS

-----------------------------------------------------------------------------
(***************************************************************************)
(* Smallest and largest places, and functions defined by recursion.        *)
(***************************************************************************)
LEMMA SmallestPlace ==
    ASSUME NEW S, S \subseteq Nat, S # {}
    PROVE  \E x \in S : \A y \in S : x <= y
<1>1. \E x \in S : \A y \in S : ~(<<y, x>> \in OpToRel(<, Nat))
  BY NatLessThanWellFounded, WFMin
<1>2. PICK x \in S : \A y \in S : ~(<<y, x>> \in OpToRel(<, Nat))
  BY <1>1
<1>3. \A y \in S : x <= y
  <2> TAKE y \in S
  <2>1. ~(y < x) => x <= y
    OBVIOUS
  <2>2. y < x => <<y, x>> \in OpToRel(<, Nat)
    BY Zenon DEF OpToRel
  <2> QED BY <1>2, <2>1, <2>2
<1> QED BY <1>3

LEMMA LargestPlace ==
    ASSUME NEW n \in Nat, NEW S, S \subseteq 0 .. n, S # {}
    PROVE  Max(S) \in S /\ \A y \in S : y <= Max(S)
<1> DEFINE B == {b \in 0 .. n : \A y \in S : y <= b}
<1>1. B # {} /\ B \subseteq Nat
  <2>1. n \in B
    OBVIOUS
  <2> QED BY <2>1
<1>2. PICK b \in B : \A c \in B : b <= c
  <2> HIDE DEF B
  <2> QED BY <1>1, SmallestPlace
<1>3. b \in S
  <2> SUFFICES ASSUME b \notin S PROVE FALSE
    OBVIOUS
  <2>1. \A y \in S : y <= b - 1
    BY <1>2
  <2>2. b - 1 \in B
    <3>1. PICK y \in S : TRUE
      OBVIOUS
    <3>2. 0 <= y /\ y <= b - 1 /\ b \in 0 .. n
      BY <1>2, <2>1
    <3> QED BY <2>1, <3>2
  <2>3. b \in Int /\ ~(b <= b - 1)
    BY <1>2
  <2> HIDE DEF B
  <2> QED BY <1>2, <2>2, <2>3
<1>4. \E x \in S : \A y \in S : x >= y
  BY <1>2, <1>3
<1>5. Max(S) \in S /\ \A y \in S : Max(S) >= y
  BY <1>4 DEF Max
<1> HIDE DEF B
<1>6. \A y \in S : y \in Int
  OBVIOUS
<1> QED BY <1>5, <1>6

(* A function that is defined by recursion exists, when its value for an
   argument takes only its values for smaller ones. *)
Descends(D, S, N, size, F) ==
    /\ size \in [D -> 0 .. N]
    /\ F \in [D -> [[D -> S] -> S]]
    /\ \A d \in D : \A g, h \in [D -> S] :
         (\A c \in D : size[c] < size[d] => g[c] = h[c]) => F[d][g] = F[d][h]

LEMMA RecursionExists ==
    ASSUME NEW D, NEW S, S # {}, NEW N \in Nat, NEW size, NEW F,
           Descends(D, S, N, size, F)
    PROVE  \E f \in [D -> S] : f = [d \in D |-> F[d][f]]
<1> USE DEF Descends
<1> DEFINE Upto(m, f) == \A d \in D : size[d] < m => f[d] = F[d][f]
           T == {m \in Nat : ~\E f \in [D -> S] : Upto(m, f)}
<1>1. T = {}
  <2> SUFFICES ASSUME T # {} PROVE FALSE
    OBVIOUS
  <2>1. PICK m \in T : \A k \in T : m <= k
    <3>1. T \subseteq Nat
      OBVIOUS
    <3> HIDE DEF T
    <3> QED BY <3>1, SmallestPlace
  <2>2. m \in Nat /\ \A f \in [D -> S] : ~Upto(m, f)
    BY <2>1
  <2>3. m # 0
    <3> SUFFICES ASSUME m = 0 PROVE FALSE
      OBVIOUS
    <3>1. PICK s \in S : TRUE
      OBVIOUS
    <3>2. [d \in D |-> s] \in [D -> S]
      BY <3>1
    <3>3. Upto(0, [d \in D |-> s])
      <4>1. \A d \in D : ~(size[d] < 0)
        OBVIOUS
      <4> QED BY <4>1
    <3> HIDE DEF Upto
    <3> QED BY <2>2, <3>2, <3>3
  <2>4. m - 1 \in Nat /\ m - 1 \notin T
    <3>1. m - 1 \in Nat /\ ~(m <= m - 1)
      BY <2>2, <2>3
    <3> HIDE DEF T
    <3> QED BY <2>1, <3>1
  <2>5. PICK f \in [D -> S] : Upto(m - 1, f)
    BY <2>4
  <2> DEFINE g == [d \in D |-> IF size[d] = m - 1 THEN F[d][f] ELSE f[d]]
  <2>6. g \in [D -> S]
    OBVIOUS
  <2>7. ASSUME NEW d \in D, size[d] < m PROVE g[d] = F[d][g]
    <3>1. size[d] \in Nat
      OBVIOUS
    <3>2. \A c \in D : size[c] < size[d] => f[c] = g[c]
      <4> TAKE c \in D
      <4> HAVE size[c] < size[d]
      <4>1. size[c] # m - 1
        BY <2>2, <2>7, <3>1
      <4> QED BY <4>1
    <3>3. F[d][f] = F[d][g]
      <4> HIDE DEF g
      <4> QED BY <2>5, <2>6, <3>2
    <3>4. CASE size[d] = m - 1
      <4>1. g[d] = F[d][f]
        BY <3>4
      <4> QED BY <3>3, <4>1
    <3>5. CASE size[d] # m - 1
      <4>1. size[d] < m - 1
        <5>1. m \in Nat
          BY <2>2
        <5>2. \A a, b \in Nat : a < b /\ a # b - 1 => a < b - 1
          OBVIOUS
        <5> QED BY <2>7, <3>1, <3>5, <5>1, <5>2, Zenon
      <4>2. g[d] = f[d]
        BY <3>5
      <4>3. f[d] = F[d][f]
        BY <2>5, <4>1
      <4> HIDE DEF g
      <4> QED BY <3>3, <4>2, <4>3
    <3> QED BY <3>4, <3>5
  <2>8. Upto(m, g)
    BY <2>7
  <2> HIDE DEF Upto, g
  <2> QED BY <2>2, <2>6, <2>8
<1>2. PICK f \in [D -> S] : Upto(N + 1, f)
  <2>1. N + 1 \in Nat /\ N + 1 \notin T
    <3> HIDE DEF T
    <3> QED BY <1>1
  <2> QED BY <2>1
<1>3. \A d \in D : size[d] < N + 1
  OBVIOUS
<1>4. \A d \in D : f[d] = F[d][f]
  BY <1>2, <1>3
<1> QED BY <1>4

-----------------------------------------------------------------------------
(***************************************************************************)
(* Parentheses.  In what an expression is rendered as they balance, so     *)
(* that no operator within them is ever at the top of a condition.         *)
(***************************************************************************)
Weight(x) == (IF x.k = "(" THEN 1 ELSE 0) - (IF x.k = ")" THEN 1 ELSE 0)

Balanced(t) ==
    /\ Depth(t, Len(t)) = 0
    /\ \A i \in 0 .. Len(t) : Depth(t, i) >= 0

Count(s, c, n) == Cardinality({j \in 1 .. n : s[j].k = c})

LEMMA CountStep ==
    ASSUME NEW s, NEW c, NEW i \in Nat
    PROVE  /\ Count(s, c, i) \in Nat
           /\ Count(s, c, i + 1) =
                Count(s, c, i) + IF s[i + 1].k = c THEN 1 ELSE 0
<1> DEFINE A(n) == {j \in 1 .. n : s[j].k = c}
<1>1. IsFiniteSet(1 .. i) /\ A(i) \in SUBSET (1 .. i)
  BY FS_Interval
<1>2. IsFiniteSet(A(i)) /\ Cardinality(A(i)) \in Nat
  <2> HIDE DEF A
  <2> QED BY <1>1, FS_Subset, FS_CardinalityType
<1>3. i + 1 \notin A(i)
  OBVIOUS
<1>4. CASE s[i + 1].k = c
  <2>1. A(i + 1) = A(i) \cup {i + 1}
    BY <1>4
  <2> HIDE DEF A
  <2>2. Cardinality(A(i) \cup {i + 1}) = Cardinality(A(i)) + 1
    BY <1>2, <1>3, FS_AddElement
  <2>3. Cardinality(A(i + 1)) = Cardinality(A(i)) + 1
    BY <2>1, <2>2
  <2> QED BY <1>2, <1>4, <2>3 DEF Count, A
<1>5. CASE s[i + 1].k # c
  <2>1. A(i + 1) = A(i)
    BY <1>5
  <2> HIDE DEF A
  <2>2. Cardinality(A(i + 1)) = Cardinality(A(i)) + 0
    BY <1>2, <2>1
  <2> QED BY <1>2, <1>5, <2>2 DEF Count, A
<1> QED BY <1>4, <1>5

LEMMA DepthStep ==
    ASSUME NEW s, NEW i \in Nat
    PROVE  /\ Depth(s, i) \in Int
           /\ Depth(s, i + 1) = Depth(s, i) + Weight(s[i + 1])
<1>1. \A n : Depth(s, n) = Count(s, "(", n) - Count(s, ")", n)
  BY DEF Depth, Quantify, Count
<1>2. /\ Count(s, "(", i) \in Nat /\ Count(s, ")", i) \in Nat
      /\ Count(s, "(", i + 1) = Count(s, "(", i) + IF s[i + 1].k = "(" THEN 1 ELSE 0
      /\ Count(s, ")", i + 1) = Count(s, ")", i) + IF s[i + 1].k = ")" THEN 1 ELSE 0
  BY CountStep
<1> QED BY <1>1, <1>2 DEF Weight

LEMMA DepthZero == \A s : Depth(s, 0) = 0
<1> TAKE s
<1>1. \A c : {j \in 1 .. 0 : s[j].k = c} = {}
  OBVIOUS
<1> QED BY <1>1, FS_EmptySet DEF Depth, Quantify

(* The m tokens of u follow n tokens of s; they add their own depth to
   theirs. *)
Follows(s, n, u, m) == \A j \in 1 .. m : s[n + j] = u[j]

LEMMA DepthShift ==
    ASSUME NEW s, NEW u, NEW n \in Nat, NEW m \in Nat, Follows(s, n, u, m)
    PROVE  \A i \in 0 .. m : Depth(s, n + i) = Depth(s, n) + Depth(u, i)
<1> DEFINE T == {i \in 0 .. m : Depth(s, n + i) # Depth(s, n) + Depth(u, i)}
<1> SUFFICES ASSUME T # {} PROVE FALSE
  OBVIOUS
<1>1. PICK i \in T : \A j \in T : i <= j
  <2>1. T \subseteq Nat
    OBVIOUS
  <2> HIDE DEF T
  <2> QED BY <2>1, SmallestPlace
<1>2. i \in 0 .. m
  BY <1>1
<1>3. i # 0
  <2>1. Depth(u, 0) = 0 /\ Depth(s, n) \in Int
    BY DepthZero, DepthStep
  <2>2. n + 0 = n
    OBVIOUS
  <2>3. Depth(s, n + 0) = Depth(s, n) + Depth(u, 0)
    BY <2>1, <2>2
  <2> QED BY <1>1, <2>3
<1>4. i - 1 \in 0 .. m /\ i - 1 \notin T
  <2>1. i - 1 \in 0 .. m /\ ~(i <= i - 1)
    BY <1>2, <1>3
  <2> HIDE DEF T
  <2> QED BY <1>1, <2>1
<1>5. Depth(s, n + (i - 1)) = Depth(s, n) + Depth(u, i - 1)
  BY <1>4
<1>6. s[n + i] = u[i]
  BY <1>2, <1>3 DEF Follows
<1> HIDE DEF T
<1>7. /\ n + (i - 1) \in Nat /\ (n + (i - 1)) + 1 = n + i
      /\ i - 1 \in Nat /\ (i - 1) + 1 = i
  BY <1>2, <1>3
<1>8. /\ Depth(s, n + i) = Depth(s, n + (i - 1)) + Weight(s[n + i])
      /\ Depth(u, i) = Depth(u, i - 1) + Weight(u[i])
      /\ Depth(u, i - 1) \in Int /\ Depth(s, n) \in Int
  BY <1>7, DepthStep
<1>9. Weight(u[i]) \in Int
  BY DEF Weight
<1>10. Depth(s, n + i) = Depth(s, n) + Depth(u, i)
  BY <1>5, <1>6, <1>8, <1>9
<1> QED BY <1>1, <1>10 DEF T

LEMMA DepthPrefix ==
    ASSUME NEW s, NEW u, NEW n \in Nat, \A j \in 1 .. n : s[j] = u[j]
    PROVE  \A i \in 0 .. n : Depth(s, i) = Depth(u, i)
<1>1. Follows(s, 0, u, n)
  BY DEF Follows
<1>2. \A i \in 0 .. n : Depth(s, 0 + i) = Depth(s, 0) + Depth(u, i)
  BY <1>1, DepthShift
<1>3. \A i \in 0 .. n : Depth(u, i) \in Int /\ 0 + i = i
  BY DepthStep
<1> QED BY <1>2, <1>3, DepthZero

(* The places of a sequence put together from two. *)
LEMMA ConcatOf ==
    ASSUME NEW S, NEW u \in Seq(S), NEW v \in Seq(S)
    PROVE  /\ u \o v \in Seq(S) /\ Len(u \o v) = Len(u) + Len(v)
           /\ \A i \in 1..Len(u) : (u \o v)[i] = u[i]
           /\ \A i \in 1..Len(v) : (u \o v)[Len(u) + i] = v[i]
           /\ Len(u) \in Nat /\ Len(v) \in Nat
<1>1. /\ u \o v \in Seq(S) /\ Len(u \o v) = Len(u) + Len(v)
      /\ \A i \in 1 .. Len(u) + Len(v) :
            (u \o v)[i] = IF i <= Len(u) THEN u[i] ELSE v[i - Len(u)]
  BY ConcatProperties, Zenon
<1>2. Len(u) \in Nat /\ Len(v) \in Nat
  OBVIOUS
<1>3. \A i \in 1..Len(v) : /\ Len(u) + i \in 1..(Len(u) + Len(v))
                           /\ ~(Len(u) + i <= Len(u)) /\ Len(u) + i - Len(u) = i
  BY <1>2
<1>4. \A i \in 1..Len(v) : (u \o v)[Len(u) + i] = v[i]
  <2> TAKE i \in 1..Len(v)
  <2>1. (u \o v)[Len(u) + i] = IF Len(u) + i <= Len(u) THEN u[Len(u) + i]
                               ELSE v[Len(u) + i - Len(u)]
    BY <1>1, <1>3
  <2> QED BY <1>3, <2>1
<1>5. \A i \in 1..Len(u) : (u \o v)[i] = u[i]
  BY <1>1, <1>2
<1> QED BY <1>1, <1>2, <1>4, <1>5

LEMMA DepthConcat ==
    ASSUME NEW S, NEW u \in Seq(S), NEW v \in Seq(S)
    PROVE  /\ \A i \in 0 .. Len(u) : Depth(u \o v, i) = Depth(u, i)
           /\ \A i \in 0 .. Len(v) :
                Depth(u \o v, Len(u) + i) = Depth(u, Len(u)) + Depth(v, i)
<1> DEFINE w == u \o v
<1>1. /\ \A i \in 1..Len(u) : w[i] = u[i]
      /\ \A i \in 1..Len(v) : w[Len(u) + i] = v[i]
      /\ Len(u) \in Nat /\ Len(v) \in Nat
  BY ConcatOf
<1> HIDE DEF w
<1>2. \A i \in 0 .. Len(u) : Depth(w, i) = Depth(u, i)
  BY <1>1, DepthPrefix
<1>3. \A i \in 0 .. Len(v) : Depth(w, Len(u) + i) = Depth(w, Len(u)) + Depth(v, i)
  <2>1. Follows(w, Len(u), v, Len(v))
    BY <1>1 DEF Follows
  <2> QED BY <1>1, <2>1, DepthShift
<1>4. Len(u) \in 0 .. Len(u)
  BY <1>1
<1>5. Depth(w, Len(u)) = Depth(u, Len(u))
  BY <1>2, <1>4
<1> QED BY <1>2, <1>3, <1>5, Zenon DEF w

LEMMA BalancedConcat ==
    ASSUME NEW S, NEW u \in Seq(S), NEW v \in Seq(S), Balanced(u), Balanced(v)
    PROVE  Balanced(u \o v)
<1> DEFINE w == u \o v
<1>1. /\ Len(w) = Len(u) + Len(v) /\ Len(u) \in Nat /\ Len(v) \in Nat
      /\ \A i \in 0 .. Len(u) : Depth(w, i) = Depth(u, i)
      /\ \A i \in 0 .. Len(v) : Depth(w, Len(u) + i) = Depth(u, Len(u)) + Depth(v, i)
  BY ConcatOf, DepthConcat
<1> HIDE DEF w
<1>2. \A i \in 0 .. Len(v) : Depth(w, Len(u) + i) = Depth(v, i)
  <2>1. \A i \in 0 .. Len(v) : Depth(v, i) \in Int
    BY <1>1, DepthStep
  <2> QED BY <1>1, <2>1 DEF Balanced
<1>3. Depth(w, Len(w)) = 0
  <2>1. Len(v) \in 0 .. Len(v)
    BY <1>1
  <2> QED BY <1>1, <1>2, <2>1 DEF Balanced
<1>4. ASSUME NEW i \in 0 .. Len(w) PROVE Depth(w, i) >= 0
  <2>1. CASE i <= Len(u)
    <3>1. i \in 0 .. Len(u)
      BY <1>1, <2>1
    <3> QED BY <1>1, <3>1 DEF Balanced
  <2>2. CASE ~(i <= Len(u))
    <3>1. i - Len(u) \in 0 .. Len(v) /\ Len(u) + (i - Len(u)) = i
      BY <1>1, <2>2
    <3>2. Depth(w, i) = Depth(v, i - Len(u))
      BY <1>2, <3>1
    <3> QED BY <3>1, <3>2 DEF Balanced
  <2> QED BY <2>1, <2>2
<1> QED BY <1>3, <1>4 DEF Balanced, w

-----------------------------------------------------------------------------
(* The tokens that are no predicates, and what parentheses make of others. *)
Marks == {[k |-> c] : c \in {"(", ")", "NOT", "AND", "OR"}}

Enclosed(t) == Token("(") \o t \o Token(")")

Operators == {"AND", "OR"}

LEMMA TokenOf ==
    ASSUME NEW S, Marks \subseteq S, NEW c \in {"(", ")", "NOT", "AND", "OR"}
    PROVE  /\ Token(c) \in Seq(S) /\ Len(Token(c)) = 1 /\ Token(c)[1] = [k |-> c]
           /\ Depth(Token(c), 0) = 0 /\ Depth(Token(c), 1) = Weight([k |-> c])
<1>1. [k |-> c] \in S
  BY DEF Marks
<1>2. Token(c) \in Seq(S) /\ Len(Token(c)) = 1 /\ Token(c)[1] = [k |-> c]
  BY <1>1 DEF Token
<1>3. Depth(Token(c), 0) = 0
  BY DepthZero
<1>4. Depth(Token(c), 0 + 1) = Depth(Token(c), 0) + Weight(Token(c)[0 + 1])
  BY DepthStep
<1>5. Weight([k |-> c]) \in Int
  BY DEF Weight
<1>6. 0 + 1 = 1
  OBVIOUS
<1>7. Depth(Token(c), 1) = 0 + Weight([k |-> c])
  BY <1>2, <1>3, <1>4, <1>6
<1> QED BY <1>2, <1>3, <1>5, <1>7

LEMMA EnclosedOf ==
    ASSUME NEW S, Marks \subseteq S, NEW t \in Seq(S), Balanced(t)
    PROVE  /\ Enclosed(t) \in Seq(S) /\ Len(Enclosed(t)) = Len(t) + 2
           /\ Enclosed(t)[1] = [k |-> "("]
           /\ Enclosed(t)[Len(t) + 2] = [k |-> ")"]
           /\ \A i \in 1 .. Len(t) : Enclosed(t)[i + 1] = t[i]
           /\ \A i \in 1 .. Len(t) + 1 : Depth(Enclosed(t), i) >= 1
           /\ Balanced(Enclosed(t))
<1> DEFINE a == Token("(")
           b == Token(")")
           at == a \o t
           e == at \o b
<1>1. /\ a \in Seq(S) /\ Len(a) = 1 /\ a[1] = [k |-> "("] /\ Depth(a, 0) = 0
      /\ Depth(a, 1) = Weight([k |-> "("])
      /\ b \in Seq(S) /\ Len(b) = 1 /\ b[1] = [k |-> ")"] /\ Depth(b, 0) = 0
      /\ Depth(b, 1) = Weight([k |-> ")"])
  BY TokenOf
<1>2. Weight([k |-> "("]) = 1 /\ Weight([k |-> ")"]) = -1
  BY DEF Weight
<1> HIDE DEF a, b
<1>3. /\ at \in Seq(S) /\ Len(at) = 1 + Len(t) /\ at[1] = [k |-> "("]
      /\ \A i \in 1 .. Len(t) : at[1 + i] = t[i]
      /\ Len(t) \in Nat
  <2>1. /\ a \o t \in Seq(S) /\ Len(a \o t) = Len(a) + Len(t) /\ Len(t) \in Nat
        /\ \A i \in 1..Len(a) : (a \o t)[i] = a[i]
        /\ \A i \in 1..Len(t) : (a \o t)[Len(a) + i] = t[i]
    BY <1>1, ConcatOf
  <2>2. 1 \in 1 .. Len(a)
    BY <1>1
  <2> QED BY <1>1, <2>1, <2>2
<1>4. /\ Depth(at, 0) = 0
      /\ \A i \in 0 .. Len(t) : Depth(at, 1 + i) = 1 + Depth(t, i)
  <2>1. \A i \in 0 .. Len(t) :
          Depth(a \o t, Len(a) + i) = Depth(a, Len(a)) + Depth(t, i)
    <3>1. a \in Seq(S) /\ t \in Seq(S)
      BY <1>1
    <3> QED BY <3>1, DepthConcat
  <2>2. \A i \in 0 .. Len(t) : Depth(at, 1 + i) = 1 + Depth(t, i)
    BY <1>1, <1>2, <2>1
  <2> QED BY <2>2, DepthZero
<1> HIDE DEF at
<1>5. /\ e \in Seq(S) /\ Len(e) = Len(t) + 2 /\ e[1] = [k |-> "("]
      /\ \A i \in 1 .. Len(t) + 1 : e[i] = at[i]
      /\ e[Len(t) + 2] = [k |-> ")"]
  <2>1. /\ e \in Seq(S) /\ Len(e) = Len(at) + Len(b)
        /\ \A i \in 1 .. Len(at) : e[i] = at[i]
        /\ \A i \in 1 .. Len(b) : e[Len(at) + i] = b[i]
    BY <1>1, <1>3, ConcatOf
  <2>2. 1 \in 1 .. Len(b) /\ 1 \in 1 .. Len(at) /\ Len(at) + 1 = Len(t) + 2
    BY <1>1, <1>3
  <2>3. e[Len(at) + 1] = b[1] /\ e[1] = at[1]
    BY <2>1, <2>2
  <2>4. Len(e) = Len(t) + 2 /\ 1 .. Len(at) = 1 .. Len(t) + 1
    BY <1>1, <1>3, <2>1
  <2> QED BY <1>1, <1>3, <2>1, <2>2, <2>3, <2>4
<1>6. \A i \in 1 .. Len(t) : e[i + 1] = t[i]
  <2> TAKE i \in 1 .. Len(t)
  <2>1. i + 1 \in 1 .. Len(t) + 1 /\ i + 1 = 1 + i
    BY <1>3
  <2> QED BY <1>3, <1>5, <2>1
<1>7. /\ \A i \in 0 .. Len(t) + 1 : Depth(e, i) = Depth(at, i)
      /\ Depth(e, Len(t) + 2) = Depth(at, Len(t) + 1) - 1
  <2>1. /\ \A i \in 0 .. Len(at) : Depth(at \o b, i) = Depth(at, i)
        /\ \A i \in 0 .. Len(b) :
             Depth(at \o b, Len(at) + i) = Depth(at, Len(at)) + Depth(b, i)
    <3>1. at \in Seq(S) /\ b \in Seq(S)
      BY <1>1, <1>3
    <3> QED BY <3>1, DepthConcat
  <2>2. 1 \in 0 .. Len(b) /\ Len(at) + 1 = Len(t) + 2 /\ Len(at) = Len(t) + 1
    BY <1>1, <1>3
  <2>3. Depth(e, Len(at) + 1) = Depth(at, Len(at)) + Depth(b, 1)
    BY <2>1, <2>2
  <2>4. Depth(at, Len(at)) \in Int
    BY <1>3, DepthStep
  <2> QED BY <1>1, <1>2, <2>1, <2>2, <2>3, <2>4
<1>8. \A i \in 0 .. Len(t) : Depth(t, i) >= 0 /\ Depth(t, i) \in Int
  <2>1. \A i \in 0 .. Len(t) : Depth(t, i) \in Int
    BY <1>3, DepthStep
  <2> QED BY <2>1 DEF Balanced
<1>9. \A i \in 1 .. Len(t) + 1 : Depth(e, i) >= 1
  <2> TAKE i \in 1 .. Len(t) + 1
  <2>1. i - 1 \in 0 .. Len(t) /\ 1 + (i - 1) = i /\ i \in 0 .. Len(t) + 1
    BY <1>3
  <2>2. Depth(e, i) = 1 + Depth(t, i - 1)
    BY <1>4, <1>7, <2>1
  <2> QED BY <1>8, <2>1, <2>2
<1>10. Depth(e, Len(e)) = 0
  <2>1. Len(t) \in 0 .. Len(t) /\ 1 + Len(t) = Len(t) + 1
    BY <1>3
  <2>2. Depth(at, Len(t) + 1) = 1 + Depth(t, Len(t))
    BY <1>4, <2>1
  <2> QED BY <1>5, <1>7, <2>2 DEF Balanced
<1>11. \A i \in 0 .. Len(e) : Depth(e, i) >= 0
  <2> TAKE i \in 0 .. Len(e)
  <2>1. i = 0 \/ i \in 1 .. Len(t) + 1 \/ i = Len(e)
    BY <1>3, <1>5
  <2>2. Depth(e, 0) = 0
    BY DepthZero
  <2>3. \A j \in 1 .. Len(t) + 1 : Depth(e, j) \in Int
    BY <1>3, DepthStep
  <2> QED BY <1>9, <1>10, <2>1, <2>2, <2>3
<1>12. Enclosed(t) = e
  BY DEF Enclosed, e, at, a, b
<1> HIDE DEF e
<1>13. Balanced(e)
  BY <1>10, <1>11 DEF Balanced
<1> QED BY <1>5, <1>6, <1>9, <1>12, <1>13

(* No operator is at the top of what is in parentheses. *)
LEMMA EnclosedSplits ==
    ASSUME NEW S, Marks \subseteq S, NEW t \in Seq(S), Balanced(t),
           NEW op \in Operators
    PROVE  Splits(Enclosed(t), op) = {}
<1>1. /\ Enclosed(t) \in Seq(S) /\ Len(Enclosed(t)) = Len(t) + 2
      /\ Enclosed(t)[Len(t) + 2] = [k |-> ")"]
      /\ \A i \in 1 .. Len(t) + 1 : Depth(Enclosed(t), i) >= 1
      /\ Len(t) \in Nat
  BY EnclosedOf
<1>2. DOMAIN Enclosed(t) = 1 .. Len(t) + 2
  BY <1>1
<1>3. ASSUME NEW i \in 1 .. Len(t) + 2,
             Enclosed(t)[i].k = op, Depth(Enclosed(t), i) = 0
      PROVE  FALSE
  <2>1. i # Len(t) + 2
    BY <1>1, <1>3 DEF Operators
  <2>2. i \in 1 .. Len(t) + 1
    BY <1>1, <2>1
  <2> QED BY <1>1, <1>3, <2>2
<1> QED BY <1>2, <1>3 DEF Splits

LEMMA SplitsConcat ==
    ASSUME NEW S, NEW u \in Seq(S), NEW v \in Seq(S), Balanced(u), NEW op
    PROVE  /\ Splits(u \o v, op) \subseteq 1 .. Len(u) + Len(v)
           /\ \A i \in 1 .. Len(u) : i \in Splits(u \o v, op) <=> i \in Splits(u, op)
           /\ \A i \in 1 .. Len(v) :
                Len(u) + i \in Splits(u \o v, op) <=> i \in Splits(v, op)
<1> DEFINE w == u \o v
<1>1. /\ w \in Seq(S) /\ Len(w) = Len(u) + Len(v)
      /\ \A i \in 1..Len(u) : w[i] = u[i]
      /\ \A i \in 1..Len(v) : w[Len(u) + i] = v[i]
      /\ Len(u) \in Nat /\ Len(v) \in Nat
      /\ \A i \in 0 .. Len(u) : Depth(w, i) = Depth(u, i)
      /\ \A i \in 0 .. Len(v) : Depth(w, Len(u) + i) = Depth(u, Len(u)) + Depth(v, i)
  BY ConcatOf, DepthConcat
<1> HIDE DEF w
<1>2. /\ DOMAIN w = 1 .. Len(u) + Len(v)
      /\ DOMAIN u = 1 .. Len(u) /\ DOMAIN v = 1 .. Len(v)
  BY <1>1
<1>3. ASSUME NEW i \in 1 .. Len(u) PROVE i \in Splits(w, op) <=> i \in Splits(u, op)
  <2>1. i \in DOMAIN w /\ i \in 0 .. Len(u)
    BY <1>1, <1>2
  <2> QED BY <1>1, <1>2, <2>1 DEF Splits
<1>4. ASSUME NEW i \in 1 .. Len(v)
      PROVE  Len(u) + i \in Splits(w, op) <=> i \in Splits(v, op)
  <2>1. Len(u) + i \in DOMAIN w /\ i \in 0 .. Len(v)
    BY <1>1, <1>2
  <2>2. Depth(w, Len(u) + i) = Depth(v, i)
    <3>1. Depth(v, i) \in Int /\ Depth(u, Len(u)) = 0
      BY DepthStep DEF Balanced
    <3> QED BY <1>1, <2>1, <3>1
  <2>3. w[Len(u) + i] = v[i]
    BY <1>1
  <2> QED BY <1>2, <2>1, <2>2, <2>3 DEF Splits
<1>5. Splits(w, op) \subseteq 1 .. Len(u) + Len(v)
  BY <1>2 DEF Splits
<1> QED BY <1>3, <1>4, <1>5 DEF w

LEMMA TokenSplits ==
    ASSUME NEW op \in Operators, NEW c \in Operators \cup {"NOT"}
    PROVE  /\ Splits(Token(c), op) = IF c = op THEN {1} ELSE {}
           /\ Balanced(Token(c))
<1>1. /\ Token(c) \in Seq(Marks) /\ Len(Token(c)) = 1 /\ Token(c)[1] = [k |-> c]
      /\ Depth(Token(c), 0) = 0 /\ Depth(Token(c), 1) = Weight([k |-> c])
  BY TokenOf DEF Operators
<1>2. Weight([k |-> c]) = 0
  BY DEF Weight, Operators
<1>3. DOMAIN Token(c) = {1}
  BY <1>1
<1>4. Balanced(Token(c))
  <2>1. 0 .. 1 = {0, 1}
    OBVIOUS
  <2> QED BY <1>1, <1>2, <2>1 DEF Balanced
<1> QED BY <1>1, <1>2, <1>3, <1>4 DEF Splits

-----------------------------------------------------------------------------
(***************************************************************************)
(* How a condition is read: from its parts, which are shorter.             *)
(***************************************************************************)
Truths == 0 .. 2

LEMMA ExtremesOf ==
    ASSUME NEW X, X \subseteq Truths, X # {}
    PROVE  /\ Max(X) \in X /\ \A y \in X : y <= Max(X)
           /\ Min(X) \in X /\ \A y \in X : Min(X) <= y
<1>1. \A y \in X : y \in {0, 1, 2}
  BY DEF Truths
<1>2. \E x \in X : \A y \in X : x >= y
  <2>1. CASE 2 \in X
    BY <1>1, <2>1
  <2>2. CASE 2 \notin X /\ 1 \in X
    BY <1>1, <2>2
  <2>3. CASE 2 \notin X /\ 1 \notin X
    BY <1>1, <2>3
  <2> QED BY <2>1, <2>2, <2>3
<1>3. \E x \in X : \A y \in X : x <= y
  <2>1. CASE 0 \in X
    BY <1>1, <2>1
  <2>2. CASE 0 \notin X /\ 1 \in X
    BY <1>1, <2>2
  <2>3. CASE 0 \notin X /\ 1 \notin X
    BY <1>1, <2>3
  <2> QED BY <2>1, <2>2, <2>3
<1>4. Max(X) \in X /\ \A y \in X : Max(X) >= y
  BY <1>2 DEF Max
<1>5. Min(X) \in X /\ \A y \in X : Min(X) <= y
  BY <1>3 DEF Min
<1> QED BY <1>1, <1>4, <1>5

LEMMA ComparisonIsTruth == \A op, x, y : Comparison(op, x, y) \in Truths
BY DEF Comparison, Truth, Truths, True, Unknown, False

LEMMA PredicateIsTruth == \A p, env : Predicate(p, env) \in Truths
<1> TAKE p, env
<1> DEFINE x == ValueOf(p.left, env)
           arg(i) == ValueOf(p.args[i], env)
           among == {False} \cup {Comparison("=", x, arg(i)) : i \in DOMAIN p.args}
           within == {Comparison(">=", x, arg(1)), Comparison("<=", x, arg(2))}
           truth ==
             CASE p.op = "value" -> Truth(p.left.v)
               [] p.op = "null" -> Truth(x = Null)
               [] p.op = "in" -> Max(among)
               [] p.op = "like" ->
                    IF x = Null THEN Unknown ELSE Truth(arg(1) \in {0, x})
               [] p.op = "between" -> Min(within)
               [] OTHER -> Comparison(p.op, x, arg(1))
<1>1. Max(among) \in Truths
  <2>1. among \subseteq Truths /\ among # {}
    BY ComparisonIsTruth DEF False, Truths
  <2> HIDE DEF among
  <2> QED BY <2>1, ExtremesOf
<1>2. Min(within) \in Truths
  <2>1. within \subseteq Truths /\ within # {}
    BY ComparisonIsTruth
  <2> HIDE DEF within
  <2> QED BY <2>1, ExtremesOf
<1>3. /\ Comparison(p.op, x, arg(1)) \in Truths /\ Unknown \in Truths
      /\ \A b : Truth(b) \in Truths
  BY ComparisonIsTruth DEF Truth, Truths, True, False, Unknown
<1>4. Predicate(p, env) = IF p.neg THEN True - truth ELSE truth
  BY DEF Predicate
<1> HIDE DEF among, within, x, arg
<1>5. truth \in Truths
  BY <1>1, <1>2, <1>3
<1> HIDE DEF truth
<1> QED BY <1>4, <1>5 DEF Truths, True

(* The conditions that a condition s may be split into, and what one of them
   is read as when h has what its parts are. *)
Within(s) == {u \in Seq(Range(s)) : Len(u) <= Len(s)}

Sides(t, h, op) ==
    LET i == Max(Splits(t, op))
    IN  {h[SubSeq(t, 1, i - 1)], h[SubSeq(t, i + 1, Len(t))]}

Reading(t, h, env) ==
    IF t = <<>> THEN Unknown
    ELSE IF Splits(t, "OR") # {} THEN Max(Sides(t, h, "OR"))
    ELSE IF Splits(t, "AND") # {} THEN Min(Sides(t, h, "AND"))
    ELSE IF t[1].k = "NOT" THEN True - h[Tail(t)]
    ELSE IF t[1].k = "(" THEN h[SubSeq(t, 2, Len(t) - 1)]
    ELSE Predicate(t[1], env)

LEMMA SeqIsWithin ==
    ASSUME NEW S, NEW s \in Seq(S)
    PROVE  s \in Within(s) /\ Len(s) \in Nat /\ s \in Seq(Range(s))
<1>1. s \in Seq(Range(s))
  <2>1. \A i \in 1 .. Len(s) : s[i] \in Range(s)
    BY DEF Range
  <2> QED BY <2>1
<1> QED BY <1>1 DEF Within

LEMMA WithinGrows ==
    ASSUME NEW S, NEW s \in Seq(S), NEW u \in Within(s)
    PROVE  /\ Within(u) \subseteq Within(s)
           /\ u \in Seq(Range(s)) /\ u \in Seq(Range(u)) /\ u \in Within(u)
           /\ Len(u) \in 0 .. Len(s)
<1>1. u \in Seq(Range(s)) /\ Len(u) <= Len(s) /\ Len(u) \in Nat /\ Len(s) \in Nat
  BY DEF Within
<1>2. u \in Seq(Range(u)) /\ u \in Within(u)
  BY <1>1, SeqIsWithin
<1>3. Range(u) \subseteq Range(s)
  BY <1>1 DEF Range
<1>4. ASSUME NEW t \in Within(u) PROVE t \in Within(s)
  <2>1. t \in Seq(Range(u)) /\ Len(t) <= Len(u) /\ Len(t) \in Nat
    BY DEF Within
  <2>2. t \in Seq(Range(s))
    BY <1>3, <2>1
  <2> QED BY <1>1, <2>1, <2>2 DEF Within
<1> QED BY <1>1, <1>2, <1>4

(* The parts of a condition. *)
LEMMA PartsWithin ==
    ASSUME NEW S, NEW t \in Seq(S)
    PROVE  /\ \A op : Splits(t, op) # {} =>
                LET i == Max(Splits(t, op))
                IN  /\ i \in 1 .. Len(t)
                    /\ SubSeq(t, 1, i - 1) \in Within(t)
                    /\ SubSeq(t, i + 1, Len(t)) \in Within(t)
                    /\ Len(SubSeq(t, 1, i - 1)) < Len(t)
                    /\ Len(SubSeq(t, i + 1, Len(t))) < Len(t)
           /\ t # <<>> =>
                /\ Tail(t) \in Within(t) /\ Len(Tail(t)) < Len(t)
                /\ SubSeq(t, 2, Len(t) - 1) \in Within(t)
                /\ Len(SubSeq(t, 2, Len(t) - 1)) < Len(t)
<1>1. t \in Seq(Range(t)) /\ Len(t) \in Nat
  BY SeqIsWithin
<1>2. ASSUME NEW i \in 1 .. Len(t) + 1, NEW j \in 0 .. Len(t), j - i + 1 < Len(t)
      PROVE  SubSeq(t, i, j) \in Within(t) /\ Len(SubSeq(t, i, j)) < Len(t)
  <2>1. /\ SubSeq(t, i, j) \in Seq(Range(t))
        /\ Len(SubSeq(t, i, j)) = IF i <= j THEN j - i + 1 ELSE 0
    BY <1>1, <1>2, SubSeqProperties
  <2>2. 0 < Len(t) \/ Len(t) = 0
    BY <1>1
  <2>3. CASE Len(t) = 0
    BY <1>1, <1>2, <2>3
  <2>4. CASE 0 < Len(t)
    <3>1. Len(SubSeq(t, i, j)) < Len(t) /\ Len(SubSeq(t, i, j)) <= Len(t)
      BY <1>1, <1>2, <2>1, <2>4
    <3> QED BY <2>1, <3>1 DEF Within
  <2> QED BY <2>2, <2>3, <2>4
<1>3. ASSUME NEW op, Splits(t, op) # {}
      PROVE  LET i == Max(Splits(t, op))
             IN  /\ i \in 1 .. Len(t)
                 /\ SubSeq(t, 1, i - 1) \in Within(t)
                 /\ SubSeq(t, i + 1, Len(t)) \in Within(t)
                 /\ Len(SubSeq(t, 1, i - 1)) < Len(t)
                 /\ Len(SubSeq(t, i + 1, Len(t))) < Len(t)
  <2> DEFINE i == Max(Splits(t, op))
  <2>1. Splits(t, op) \subseteq 1 .. Len(t)
    BY <1>1 DEF Splits
  <2>2. Splits(t, op) \subseteq 0 .. Len(t)
    BY <1>1, <2>1
  <2>3. i \in Splits(t, op)
    BY <1>1, <1>3, <2>2, LargestPlace
  <2>4. i \in 1 .. Len(t)
    BY <2>1, <2>3
  <2> HIDE DEF i
  <2>5. /\ 1 \in 1 .. Len(t) + 1 /\ i - 1 \in 0 .. Len(t)
        /\ i - 1 - 1 + 1 < Len(t)
        /\ i + 1 \in 1 .. Len(t) + 1 /\ Len(t) \in 0 .. Len(t)
        /\ Len(t) - (i + 1) + 1 < Len(t)
    BY <1>1, <2>4
  <2>6. SubSeq(t, 1, i - 1) \in Within(t) /\ Len(SubSeq(t, 1, i - 1)) < Len(t)
    BY <1>2, <2>5
  <2>7. /\ SubSeq(t, i + 1, Len(t)) \in Within(t)
        /\ Len(SubSeq(t, i + 1, Len(t))) < Len(t)
    BY <1>2, <2>5
  <2> QED BY <2>4, <2>6, <2>7 DEF i
<1>4. ASSUME t # <<>>
      PROVE  /\ Tail(t) \in Within(t) /\ Len(Tail(t)) < Len(t)
             /\ SubSeq(t, 2, Len(t) - 1) \in Within(t)
             /\ Len(SubSeq(t, 2, Len(t) - 1)) < Len(t)
  <2>1. /\ Len(t) # 0 /\ Tail(t) \in Seq(Range(t))
        /\ Len(Tail(t)) = Len(t) - 1
    BY <1>1, <1>4, HeadTailProperties, EmptySeq
  <2>2. Len(Tail(t)) < Len(t) /\ Len(Tail(t)) <= Len(t)
    BY <1>1, <2>1
  <2>3. /\ 2 \in 1 .. Len(t) + 1 /\ Len(t) - 1 \in 0 .. Len(t)
        /\ Len(t) - 1 - 2 + 1 < Len(t)
    BY <1>1, <2>1
  <2>4. SubSeq(t, 2, Len(t) - 1) \in Within(t) /\ Len(SubSeq(t, 2, Len(t) - 1)) < Len(t)
    BY <1>2, <2>3
  <2> QED BY <2>1, <2>2, <2>4 DEF Within
<1> QED BY <1>3, <1>4

LEMMA ReadingAgrees ==
    ASSUME NEW S, NEW t \in Seq(S), NEW g, NEW h, NEW env,
           \A u \in Within(t) : Len(u) < Len(t) => g[u] = h[u]
    PROVE  Reading(t, g, env) = Reading(t, h, env)
<1>1. \A op : Splits(t, op) # {} => Sides(t, g, op) = Sides(t, h, op)
  <2> TAKE op
  <2> HAVE Splits(t, op) # {}
  <2> DEFINE i == Max(Splits(t, op))
  <2>1. /\ SubSeq(t, 1, i - 1) \in Within(t)
        /\ SubSeq(t, i + 1, Len(t)) \in Within(t)
        /\ Len(SubSeq(t, 1, i - 1)) < Len(t)
        /\ Len(SubSeq(t, i + 1, Len(t))) < Len(t)
    BY PartsWithin
  <2> QED BY <2>1 DEF Sides
<1>2. t # <<>> => /\ g[Tail(t)] = h[Tail(t)]
                  /\ g[SubSeq(t, 2, Len(t) - 1)] = h[SubSeq(t, 2, Len(t) - 1)]
  BY PartsWithin
<1> QED BY <1>1, <1>2 DEF Reading

LEMMA ReadingIsTruth ==
    ASSUME NEW S, NEW t \in Seq(S), NEW h, NEW env,
           \A u \in Within(t) : h[u] \in Truths
    PROVE  Reading(t, h, env) \in Truths
<1>1. ASSUME NEW op, Splits(t, op) # {}
      PROVE  Max(Sides(t, h, op)) \in Truths /\ Min(Sides(t, h, op)) \in Truths
  <2> DEFINE i == Max(Splits(t, op))
  <2>1. SubSeq(t, 1, i - 1) \in Within(t) /\ SubSeq(t, i + 1, Len(t)) \in Within(t)
    BY <1>1, PartsWithin
  <2>2. Sides(t, h, op) \subseteq Truths /\ Sides(t, h, op) # {}
    BY <2>1 DEF Sides
  <2> QED BY <2>2, ExtremesOf
<1>2. t # <<>> => h[Tail(t)] \in Truths /\ h[SubSeq(t, 2, Len(t) - 1)] \in Truths
  BY PartsWithin
<1>3. t # <<>> => True - h[Tail(t)] \in Truths
  BY <1>2 DEF True, Truths
<1>4. Unknown \in Truths
  BY DEF Unknown, Truths
<1> QED BY <1>1, <1>2, <1>3, <1>4, PredicateIsTruth DEF Reading

(* The function Condition defines by recursion. *)
IsReading(f, s, env) == f = [t \in Within(s) |-> Reading(t, f, env)]

LEMMA ConditionIs ==
    ASSUME NEW s, NEW env
    PROVE  Condition(s, env) = (CHOOSE f : IsReading(f, s, env))[s]
BY DEF Condition, IsReading, Reading, Within, Sides

LEMMA ReadsExists ==
    ASSUME NEW S, NEW s \in Seq(S), NEW env
    PROVE  \E f : IsReading(f, s, env)
<1> DEFINE D == Within(s)
           size == [t \in D |-> Len(t)]
           F == [t \in D |-> [h \in [D -> Truths] |-> Reading(t, h, env)]]
<1>1. Truths # {} /\ Len(s) \in Nat
  BY DEF Truths
<1>2. ASSUME NEW t \in D
      PROVE  t \in Seq(Range(s)) /\ Len(t) \in 0 .. Len(s) /\ Within(t) \subseteq D
  BY WithinGrows
<1>3. size \in [D -> 0 .. Len(s)]
  BY <1>2
<1>4. F \in [D -> [[D -> Truths] -> Truths]]
  <2> SUFFICES ASSUME NEW t \in D, NEW h \in [D -> Truths]
               PROVE  Reading(t, h, env) \in Truths
    OBVIOUS
  <2>1. \A u \in Within(t) : h[u] \in Truths
    BY <1>2
  <2>2. t \in Seq(Range(s))
    BY <1>2
  <2> HIDE DEF D
  <2> QED BY <2>1, <2>2, ReadingIsTruth
<1>5. ASSUME NEW d \in D, NEW g \in [D -> Truths], NEW h \in [D -> Truths],
             \A c \in D : size[c] < size[d] => g[c] = h[c]
      PROVE  F[d][g] = F[d][h]
  <2>1. d \in Seq(Range(s)) /\ Within(d) \subseteq D
    BY <1>2
  <2>2. \A u \in Within(d) : Len(u) < Len(d) => g[u] = h[u]
    <3> TAKE u \in Within(d)
    <3> HAVE Len(u) < Len(d)
    <3>1. u \in D
      BY <2>1
    <3>2. size[u] = Len(u) /\ size[d] = Len(d)
      BY <3>1
    <3> HIDE DEF size, D
    <3> QED BY <1>5, <3>1, <3>2
  <2>3. Reading(d, g, env) = Reading(d, h, env)
    <3> HIDE DEF D
    <3> QED BY <2>1, <2>2, ReadingAgrees
  <2>4. F[d][g] = Reading(d, g, env) /\ F[d][h] = Reading(d, h, env)
    OBVIOUS
  <2> QED BY <2>3, <2>4
<1>6. \E f \in [D -> Truths] : f = [d \in D |-> F[d][f]]
  <2> HIDE DEF D, size, F, Truths
  <2>1. \A d \in D : \A g, h \in [D -> Truths] :
          (\A c \in D : size[c] < size[d] => g[c] = h[c]) => F[d][g] = F[d][h]
    BY <1>5
  <2> DEFINE N == Len(s)
  <2>2. N \in Nat /\ size \in [D -> 0 .. N]
    BY <1>1, <1>3
  <2>3. Descends(D, Truths, N, size, F)
    BY <1>4, <2>1, <2>2 DEF Descends
  <2> HIDE DEF N
  <2> QED BY <1>1, <2>2, <2>3, RecursionExists
<1>7. PICK f \in [D -> Truths] : f = [d \in D |-> F[d][f]]
  BY <1>6
<1>8. \A d \in D : F[d][f] = Reading(d, f, env)
  OBVIOUS
<1>9. f = [d \in D |-> Reading(d, f, env)]
  <2> HIDE DEF D, F
  <2> QED BY <1>7, <1>8
<1> QED BY <1>9 DEF IsReading

(* A condition is read alike wherever it stands. *)
LEMMA ReadsAlike ==
    ASSUME NEW S, NEW s \in Seq(S), NEW T, NEW t \in Seq(T), NEW env,
           NEW f, IsReading(f, s, env), NEW g, IsReading(g, t, env)
    PROVE  \A u \in Within(s) \cap Within(t) : f[u] = g[u]
<1> DEFINE Differ == {u \in Within(s) \cap Within(t) : f[u] # g[u]}
           L == {Len(u) : u \in Differ}
<1> SUFFICES ASSUME Differ # {} PROVE FALSE
  OBVIOUS
<1>1. L \subseteq Nat /\ L # {}
  <2>1. \A u \in Differ : Len(u) \in Nat
    BY DEF Within
  <2> HIDE DEF Differ
  <2> QED BY <2>1
<1>2. PICK n \in L : \A m \in L : n <= m
  <2> HIDE DEF L
  <2> QED BY <1>1, SmallestPlace
<1>3. PICK u \in Differ : Len(u) = n
  BY <1>2
<1>4. u \in Within(s) /\ u \in Within(t)
  OBVIOUS
<1>5. /\ Within(u) \subseteq Within(s) /\ Within(u) \subseteq Within(t)
      /\ u \in Seq(Range(s)) /\ Len(u) \in Nat
  <2>1. Within(u) \subseteq Within(s) /\ u \in Seq(Range(s)) /\ Len(u) \in 0 .. Len(s)
    BY <1>4, WithinGrows
  <2>2. Within(u) \subseteq Within(t)
    BY <1>4, WithinGrows
  <2> QED BY <2>1, <2>2
<1>6. \A v \in Within(u) : Len(v) < Len(u) => f[v] = g[v]
  <2> TAKE v \in Within(u)
  <2> HAVE Len(v) < Len(u)
  <2>1. Len(v) \notin L
    <3>1. Len(v) \in Nat /\ ~(Len(u) <= Len(v))
      BY <1>5 DEF Within
    <3> HIDE DEF L
    <3> QED BY <1>2, <1>3, <3>1
  <2>2. v \in Within(s) \cap Within(t)
    BY <1>5
  <2> QED BY <2>1, <2>2
<1>7. Reading(u, f, env) = Reading(u, g, env)
  BY <1>5, <1>6, ReadingAgrees
<1>8. f[u] = Reading(u, f, env) /\ g[u] = Reading(u, g, env)
  BY <1>4 DEF IsReading
<1> QED BY <1>3, <1>7, <1>8

(* A condition is read from what its parts are. *)
LEMMA ConditionReads ==
    ASSUME NEW S, NEW t \in Seq(S), NEW env
    PROVE  \E h : /\ \A u \in Within(t) : h[u] = Condition(u, env)
                  /\ Condition(t, env) = Reading(t, h, env)
<1> DEFINE F(s) == CHOOSE f : IsReading(f, s, env)
<1>1. \A s : Condition(s, env) = F(s)[s]
  BY ConditionIs
<1>2. IsReading(F(t), t, env)
  BY ReadsExists
<1>3. ASSUME NEW u \in Within(t) PROVE F(t)[u] = Condition(u, env)
  <2>1. u \in Seq(Range(t)) /\ u \in Within(u)
    BY WithinGrows
  <2>2. IsReading(F(u), u, env)
    BY <2>1, ReadsExists
  <2> HIDE DEF F
  <2>3. \A v \in Within(t) \cap Within(u) : F(t)[v] = F(u)[v]
    BY <1>2, <2>1, <2>2, ReadsAlike
  <2> QED BY <1>1, <2>1, <2>3
<1>4. t \in Within(t)
  BY SeqIsWithin
<1> HIDE DEF F
<1>5. Condition(t, env) = Reading(t, F(t), env)
  BY <1>1, <1>2, <1>4 DEF IsReading
<1> QED BY <1>3, <1>5

(* The conditions that a rendered expression is put together from. *)
LEMMA CutsConcat ==
    ASSUME NEW S, NEW u \in Seq(S), NEW v \in Seq(S)
    PROVE  /\ SubSeq(u \o v, 1, Len(u)) = u
           /\ SubSeq(u \o v, Len(u) + 1, Len(u) + Len(v)) = v
<1> DEFINE w == u \o v
<1>1. /\ w \in Seq(S) /\ Len(w) = Len(u) + Len(v)
      /\ \A i \in 1..Len(u) : w[i] = u[i]
      /\ \A i \in 1..Len(v) : w[Len(u) + i] = v[i]
      /\ Len(u) \in Nat /\ Len(v) \in Nat
  BY ConcatOf
<1> HIDE DEF w
<1>2. \A i \in 1 .. Len(w) : w[i] \in S
  BY <1>1
<1>3. SubSeq(w, 1, Len(u)) = u
  <2> DEFINE c == SubSeq(w, 1, Len(u))
  <2>1. \A i \in 1 .. Len(u) : w[i] \in S
    BY <1>1
  <2>2. /\ c \in Seq(S)
        /\ Len(c) = IF 1 <= Len(u) THEN Len(u) - 1 + 1 ELSE 0
        /\ \A i \in 1 .. Len(u) - 1 + 1 : c[i] = w[1 + i - 1]
    BY <1>1, <2>1, SubSeqProperties
  <2> HIDE DEF c
  <2>3. Len(c) = Len(u)
    BY <1>1, <2>2
  <2>4. \A i \in 1 .. Len(c) : c[i] = u[i]
    <3> TAKE i \in 1 .. Len(c)
    <3>1. i \in 1 .. Len(u) - 1 + 1 /\ 1 + i - 1 = i /\ i \in 1 .. Len(u)
      BY <1>1, <2>3
    <3> QED BY <1>1, <2>2, <3>1
  <2>5. c = u
    BY <2>2, <2>3, <2>4, SeqEqual
  <2> QED BY <2>5 DEF c
<1>4. SubSeq(w, Len(u) + 1, Len(u) + Len(v)) = v
  <2> DEFINE m == Len(u) + 1
             n == Len(u) + Len(v)
             c == SubSeq(w, m, n)
  <2>1. m \in Int /\ n \in Int /\ \A i \in m .. n : w[i] \in S
    BY <1>1, <1>2
  <2>2. /\ c \in Seq(S) /\ Len(c) = IF m <= n THEN n - m + 1 ELSE 0
        /\ \A i \in 1 .. n - m + 1 : c[i] = w[m + i - 1]
    <3> HIDE DEF m, n
    <3> QED BY <2>1, SubSeqProperties
  <2> HIDE DEF c
  <2>3. Len(c) = Len(v)
    BY <1>1, <2>2
  <2>4. \A i \in 1 .. Len(c) : c[i] = v[i]
    <3> TAKE i \in 1 .. Len(c)
    <3>1. i \in 1 .. n - m + 1 /\ m + i - 1 = Len(u) + i /\ i \in 1 .. Len(v)
      BY <1>1, <2>3
    <3> QED BY <1>1, <2>2, <3>1
  <2>5. c = v
    BY <2>2, <2>3, <2>4, SeqEqual
  <2> QED BY <2>5 DEF c
<1> QED BY <1>3, <1>4 DEF w

LEMMA LeafCondition ==
    ASSUME NEW x, x.k = "leaf", NEW env
    PROVE  /\ Condition(<<x>>, env) = Predicate(x, env)
           /\ Balanced(<<x>>)
           /\ \A op \in Operators : Splits(<<x>>, op) = {}
<1> DEFINE s == <<x>>
<1>1. s \in Seq({x}) /\ Len(s) = 1 /\ s[1] = x /\ DOMAIN s = {1} /\ s # <<>>
  OBVIOUS
<1> HIDE DEF s
<1>2. \A op \in Operators : Splits(s, op) = {}
  BY <1>1 DEF Splits, Operators
<1>3. PICK h : Condition(s, env) = Reading(s, h, env)
  BY <1>1, ConditionReads
<1>4. Condition(s, env) = Predicate(x, env)
  BY <1>1, <1>2, <1>3 DEF Reading, Operators
<1>5. Balanced(s)
  <2>1. Depth(s, 0) = 0 /\ Depth(s, 0 + 1) = Depth(s, 0) + Weight(s[0 + 1])
    BY DepthZero, DepthStep
  <2>2. Weight(x) = 0 /\ 0 .. 1 = {0, 1} /\ 0 + 1 = 1
    BY DEF Weight
  <2>3. Depth(s, 1) = 0
    BY <1>1, <2>1, <2>2
  <2> QED BY <1>1, <2>1, <2>2, <2>3 DEF Balanced
<1> QED BY <1>2, <1>4, <1>5 DEF s

LEMMA EnclosedCondition ==
    ASSUME NEW S, Marks \subseteq S, NEW t \in Seq(S), Balanced(t), NEW env
    PROVE  Condition(Enclosed(t), env) = Condition(t, env)
<1> DEFINE e == Enclosed(t)
<1>1. /\ e \in Seq(S) /\ Len(e) = Len(t) + 2 /\ e[1] = [k |-> "("]
      /\ \A i \in 1 .. Len(t) : e[i + 1] = t[i]
      /\ Splits(e, "AND") = {} /\ Splits(e, "OR") = {}
      /\ Len(t) \in Nat
  BY EnclosedOf, EnclosedSplits DEF Operators
<1> HIDE DEF e
<1>2. e # <<>>
  BY <1>1
<1>3. PICK h : /\ \A u \in Within(e) : h[u] = Condition(u, env)
               /\ Condition(e, env) = Reading(e, h, env)
  BY <1>1, ConditionReads
<1>4. Condition(e, env) = h[SubSeq(e, 2, Len(e) - 1)]
  BY <1>1, <1>2, <1>3 DEF Reading
<1>5. SubSeq(e, 2, Len(e) - 1) \in Within(e)
  BY <1>1, <1>2, PartsWithin
<1>6. SubSeq(e, 2, Len(e) - 1) = t
  <2> DEFINE n == Len(t) + 1
             c == SubSeq(e, 2, n)
  <2>1. n \in Int /\ 2 \in Int /\ \A i \in 2 .. n : e[i] \in S
    BY <1>1
  <2>2. /\ c \in Seq(S) /\ Len(c) = IF 2 <= n THEN n - 2 + 1 ELSE 0
        /\ \A i \in 1 .. n - 2 + 1 : c[i] = e[2 + i - 1]
    <3> HIDE DEF n
    <3> QED BY <2>1, SubSeqProperties
  <2> HIDE DEF c
  <2>3. Len(c) = Len(t)
    BY <1>1, <2>2
  <2>4. \A i \in 1 .. Len(c) : c[i] = t[i]
    <3> TAKE i \in 1 .. Len(c)
    <3>1. i \in 1 .. n - 2 + 1 /\ 2 + i - 1 = i + 1 /\ i \in 1 .. Len(t)
      BY <1>1, <2>3
    <3> QED BY <1>1, <2>2, <3>1
  <2>5. c = t
    BY <2>2, <2>3, <2>4, SeqEqual
  <2>6. n = Len(e) - 1
    BY <1>1
  <2> QED BY <2>5, <2>6 DEF c
<1>7. Condition(e, env) = Condition(t, env)
  BY <1>3, <1>4, <1>5, <1>6
<1> QED BY <1>7 DEF e

(* One token put before a sequence. *)
LEMMA ConsOf ==
    ASSUME NEW S, NEW u \in Seq(S), Len(u) = 1, NEW v \in Seq(S)
    PROVE  /\ u \o v \in Seq(S) /\ Len(u \o v) = 1 + Len(v)
           /\ (u \o v)[1] = u[1] /\ Len(v) \in Nat
<1>1. /\ u \o v \in Seq(S) /\ Len(u \o v) = Len(u) + Len(v)
      /\ \A i \in 1 .. Len(u) : (u \o v)[i] = u[i]
      /\ Len(v) \in Nat
  BY ConcatOf, Zenon
<1>2. 1 \in 1 .. Len(u)
  OBVIOUS
<1> QED BY <1>1, <1>2

LEMMA NotCondition ==
    ASSUME NEW S, Marks \subseteq S, NEW v \in Seq(S), Balanced(v),
           \A op \in Operators : Splits(v, op) = {}, NEW env
    PROVE  /\ Condition(Token("NOT") \o v, env) = True - Condition(v, env)
           /\ Balanced(Token("NOT") \o v)
           /\ \A op \in Operators : Splits(Token("NOT") \o v, op) = {}
<1> DEFINE u == Token("NOT")
           w == u \o v
<1>1. /\ u \in Seq(S) /\ Len(u) = 1 /\ u[1] = [k |-> "NOT"]
      /\ Balanced(u) /\ \A op \in Operators : Splits(u, op) = {}
  BY TokenOf, TokenSplits DEF Operators
<1> HIDE DEF u
<1>2. /\ w \in Seq(S) /\ Len(w) = 1 + Len(v) /\ w[1] = u[1] /\ Len(v) \in Nat
  BY <1>1, ConsOf, Zenon
<1>3. Balanced(w)
  BY <1>1, BalancedConcat
<1>4. ASSUME NEW op \in Operators PROVE Splits(w, op) = {}
  <2>1. /\ Splits(u \o v, op) \subseteq 1 .. Len(u) + Len(v)
        /\ \A i \in 1 .. Len(u) : i \in Splits(u \o v, op) <=> i \in Splits(u, op)
        /\ \A i \in 1 .. Len(v) :
             Len(u) + i \in Splits(u \o v, op) <=> i \in Splits(v, op)
    BY <1>1, SplitsConcat
  <2>2. ASSUME NEW i \in Splits(w, op) PROVE FALSE
    <3>1. i \in 1 .. 1 + Len(v)
      BY <1>1, <2>1
    <3>2. i = 1 \/ (i - 1 \in 1 .. Len(v) /\ Len(u) + (i - 1) = i)
      BY <1>1, <1>2, <3>1
    <3>3. 1 \in 1 .. Len(u)
      BY <1>1
    <3> QED BY <1>1, <2>1, <2>2, <3>2, <3>3
  <2> QED BY <2>2
<1>5. Tail(w) = v
  <2>1. w # <<>>
    BY <1>2
  <2>2. Tail(w) = SubSeq(w, 2, Len(w))
    BY <1>2, <2>1, TailIsSubSeq
  <2>3. SubSeq(w, Len(u) + 1, Len(u) + Len(v)) = v
    BY <1>1, CutsConcat
  <2>4. Len(u) + 1 = 2 /\ Len(u) + Len(v) = Len(w)
    BY <1>1, <1>2
  <2> QED BY <2>2, <2>3, <2>4
<1> HIDE DEF w
<1>6. w # <<>> /\ Tail(w) \in Within(w)
  <2>1. w # <<>>
    BY <1>2
  <2> QED BY <1>2, <2>1, PartsWithin
<1>7. PICK h : /\ \A t \in Within(w) : h[t] = Condition(t, env)
               /\ Condition(w, env) = Reading(w, h, env)
  BY <1>2, ConditionReads
<1>8. Condition(w, env) = True - h[Tail(w)]
  BY <1>1, <1>2, <1>4, <1>6, <1>7 DEF Reading, Operators
<1>9. Condition(w, env) = True - Condition(v, env)
  BY <1>5, <1>6, <1>7, <1>8
<1> QED BY <1>3, <1>4, <1>9 DEF w, u

Operands(u, k, v, S) ==
    /\ Marks \subseteq S /\ k \in Operators
    /\ u \in Seq(S) /\ Balanced(u) /\ (k = "AND" => Splits(u, "OR") = {})
    /\ v \in Seq(S) /\ Balanced(v) /\ \A op \in Operators : Splits(v, op) = {}

Ends(u, v, env) == {Condition(u, env), Condition(v, env)}

LEMMA OpCondition ==
    ASSUME NEW S, NEW u, NEW k, NEW v, Operands(u, k, v, S), NEW env
    PROVE  LET w == u \o Token(k) \o v
               both == Ends(u, v, env)
           IN  /\ k = "AND" => Condition(w, env) = Min(both)
               /\ k = "OR" => Condition(w, env) = Max(both)
               /\ Balanced(w) /\ w \in Seq(S) /\ w # <<>>
               /\ k = "AND" => Splits(w, "OR") = {}
<1> DEFINE a == Token(k)
           ua == u \o a
           w == ua \o v
           both == Ends(u, v, env)
<1> USE DEF Operands
<1>1. /\ a \in Seq(S) /\ Len(a) = 1 /\ Balanced(a)
      /\ \A op \in Operators : Splits(a, op) = IF k = op THEN {1} ELSE {}
  <2>1. a \in Seq(S) /\ Len(a) = 1
    BY TokenOf DEF Operators
  <2> QED BY <2>1, TokenSplits
<1> HIDE DEF a
<1>2. /\ ua \in Seq(S) /\ Len(ua) = Len(u) + 1 /\ Len(u) \in Nat /\ Balanced(ua)
      /\ SubSeq(ua, 1, Len(u)) = u
  <2>1. ua \in Seq(S) /\ Len(ua) = Len(u) + Len(a) /\ Len(u) \in Nat
    BY <1>1, ConcatOf
  <2>2. Balanced(ua)
    BY <1>1, BalancedConcat
  <2>3. SubSeq(ua, 1, Len(u)) = u
    BY <1>1, CutsConcat
  <2> HIDE DEF ua
  <2> QED BY <1>1, <2>1, <2>2, <2>3
<1>3. ASSUME NEW op \in Operators
      PROVE  \A i \in 1 .. Len(u) + 1 :
               i \in Splits(ua, op) <=>
                 (IF i = Len(u) + 1 THEN op = k ELSE i \in Splits(u, op))
  <2>1. /\ \A i \in 1 .. Len(u) : i \in Splits(u \o a, op) <=> i \in Splits(u, op)
        /\ \A i \in 1 .. Len(a) :
             Len(u) + i \in Splits(u \o a, op) <=> i \in Splits(a, op)
    BY <1>1, SplitsConcat
  <2>2. 1 \in 1 .. Len(a)
    BY <1>1
  <2>3. Len(u) + 1 \in Splits(ua, op) <=> op = k
    BY <1>1, <2>1, <2>2
  <2> TAKE i \in 1 .. Len(u) + 1
  <2>4. i = Len(u) + 1 \/ (i # Len(u) + 1 /\ i \in 1 .. Len(u))
    BY <1>2
  <2> QED BY <2>1, <2>3, <2>4
<1> HIDE DEF ua
<1>4. /\ w \in Seq(S) /\ Len(w) = Len(u) + 1 + Len(v) /\ Len(v) \in Nat
      /\ Balanced(w)
      /\ SubSeq(w, 1, Len(ua)) = ua
      /\ SubSeq(w, Len(ua) + 1, Len(ua) + Len(v)) = v
      /\ \A i \in 1 .. Len(ua) : w[i] = ua[i]
  <2>1. /\ w \in Seq(S) /\ Len(w) = Len(ua) + Len(v) /\ Len(v) \in Nat
        /\ \A i \in 1 .. Len(ua) : w[i] = ua[i]
    <3>1. ua \in Seq(S) /\ v \in Seq(S)
      BY <1>2
    <3> QED BY <3>1, ConcatOf
  <2>2. Balanced(w)
    BY <1>2, BalancedConcat
  <2>3. /\ SubSeq(w, 1, Len(ua)) = ua
        /\ SubSeq(w, Len(ua) + 1, Len(ua) + Len(v)) = v
    BY <1>2, CutsConcat
  <2> HIDE DEF w
  <2> QED BY <1>2, <2>1, <2>2, <2>3
<1>5. ASSUME NEW op \in Operators
      PROVE  /\ Splits(w, op) \subseteq 1 .. Len(u) + 1
             /\ \A i \in 1 .. Len(u) + 1 : i \in Splits(w, op) <=> i \in Splits(ua, op)
  <2>1. /\ Splits(ua \o v, op) \subseteq 1 .. Len(ua) + Len(v)
        /\ \A i \in 1 .. Len(ua) : i \in Splits(ua \o v, op) <=> i \in Splits(ua, op)
        /\ \A i \in 1 .. Len(v) :
             Len(ua) + i \in Splits(ua \o v, op) <=> i \in Splits(v, op)
    BY <1>2, SplitsConcat
  <2>2. ASSUME NEW i \in Splits(w, op) PROVE i \in 1 .. Len(u) + 1
    <3>1. i \in 1 .. Len(ua) + Len(v)
      BY <2>1, <2>2
    <3>2. i \in 1 .. Len(ua) \/ (i - Len(ua) \in 1 .. Len(v) /\ Len(ua) + (i - Len(ua)) = i)
      BY <1>2, <1>4, <3>1
    <3> QED BY <1>2, <2>1, <2>2, <3>2
  <2> QED BY <1>2, <2>1, <2>2
<1> HIDE DEF w
<1>6. k = "AND" => Splits(w, "OR") = {}
  <2> HAVE k = "AND"
  <2>1. ASSUME NEW i \in Splits(w, "OR") PROVE FALSE
    <3>1. "OR" \in Operators
      BY DEF Operators
    <3>2. i \in 1 .. Len(u) + 1 /\ i \in Splits(ua, "OR")
      BY <1>5, <2>1, <3>1
    <3>3. i \in Splits(u, "OR") \/ "OR" = k
      BY <1>3, <3>1, <3>2
    <3> QED BY <3>3
  <2> QED BY <2>1
<1>7. Max(Splits(w, k)) = Len(u) + 1 /\ Splits(w, k) # {}
  <2>1. Len(u) + 1 \in Splits(w, k)
    <3>1. Len(u) + 1 \in 1 .. Len(u) + 1
      BY <1>2
    <3> QED BY <1>3, <1>5, <3>1
  <2>2. Splits(w, k) \subseteq 0 .. Len(u) + 1 /\ Len(u) + 1 \in Nat
    BY <1>2, <1>5
  <2> DEFINE X == Splits(w, k)
             n == Len(u) + 1
  <2>3. Max(X) \in X /\ \A y \in X : y <= Max(X)
    <3>1. X \subseteq 0 .. n /\ n \in Nat /\ X # {}
      BY <2>1, <2>2
    <3> HIDE DEF X, n
    <3> QED BY <3>1, LargestPlace
  <2>4. Max(X) \in 0 .. Len(u) + 1 /\ Len(u) + 1 <= Max(X)
    BY <2>1, <2>2, <2>3
  <2>5. Max(X) = Len(u) + 1
    BY <1>2, <2>4
  <2> QED BY <2>1, <2>5
<1>8. SubSeq(w, 1, Len(u) + 1 - 1) = u
  <2>1. \A i \in 1 .. Len(u) : w[i] = u[i]
    <3> TAKE i \in 1 .. Len(u)
    <3>1. i \in 1 .. Len(ua)
      BY <1>2
    <3>2. w[i] = ua[i]
      BY <1>4, <3>1
    <3>3. ua[i] = u[i]
      BY <1>1, ConcatOf DEF ua
    <3> QED BY <3>2, <3>3
  <2> DEFINE n == Len(u)
             c == SubSeq(w, 1, n)
  <2>2. n \in Int /\ 1 \in Int /\ \A i \in 1 .. n : w[i] \in S
    BY <1>2, <2>1
  <2>3. /\ c \in Seq(S) /\ Len(c) = IF 1 <= n THEN n - 1 + 1 ELSE 0
        /\ \A i \in 1 .. n - 1 + 1 : c[i] = w[1 + i - 1]
    <3> HIDE DEF n
    <3> QED BY <2>2, SubSeqProperties
  <2> HIDE DEF c
  <2>4. Len(c) = Len(u)
    BY <1>2, <2>3
  <2>5. \A i \in 1 .. Len(c) : c[i] = u[i]
    <3> TAKE i \in 1 .. Len(c)
    <3>1. i \in 1 .. n - 1 + 1 /\ 1 + i - 1 = i /\ i \in 1 .. Len(u)
      BY <1>2, <2>4
    <3> QED BY <2>1, <2>3, <3>1
  <2>6. c = u
    BY <2>3, <2>4, <2>5, SeqEqual
  <2>7. Len(u) + 1 - 1 = n
    BY <1>2
  <2> QED BY <2>6, <2>7 DEF c
<1>9. SubSeq(w, Len(u) + 1 + 1, Len(w)) = v
  <2>1. Len(ua) + 1 = Len(u) + 1 + 1 /\ Len(ua) + Len(v) = Len(w)
    BY <1>2, <1>4
  <2> QED BY <1>4, <2>1
<1>10. PICK h : /\ \A t \in Within(w) : h[t] = Condition(t, env)
                /\ Condition(w, env) = Reading(w, h, env)
  BY <1>4, ConditionReads
<1>11. u \in Within(w) /\ v \in Within(w)
  <2> DEFINE m == Max(Splits(w, k))
  <2>1. /\ SubSeq(w, 1, m - 1) \in Within(w)
        /\ SubSeq(w, m + 1, Len(w)) \in Within(w)
    BY <1>4, <1>7, PartsWithin
  <2>2. m = Len(u) + 1
    BY <1>7
  <2> HIDE DEF m
  <2>3. SubSeq(w, 1, m - 1) = u
    BY <1>8, <2>2
  <2>4. SubSeq(w, m + 1, Len(w)) = v
    BY <1>9, <2>2
  <2> QED BY <2>1, <2>3, <2>4
<1>12. Sides(w, h, k) = both
  <2> DEFINE m == Max(Splits(w, k))
  <2>1. Sides(w, h, k) = {h[u], h[v]}
    <3>1. Sides(w, h, k) = {h[SubSeq(w, 1, m - 1)], h[SubSeq(w, m + 1, Len(w))]}
      BY DEF Sides
    <3>2. m = Len(u) + 1
      BY <1>7
    <3> HIDE DEF m
    <3>3. SubSeq(w, 1, m - 1) = u
      BY <1>8, <3>2
    <3>4. SubSeq(w, m + 1, Len(w)) = v
      BY <1>9, <3>2
    <3> QED BY <3>1, <3>3, <3>4
  <2> QED BY <1>10, <1>11, <2>1 DEF Ends
<1>13. w # <<>>
  BY <1>2, <1>4
<1> HIDE DEF both
<1>14. k = "AND" => Condition(w, env) = Min(both)
  BY <1>6, <1>7, <1>10, <1>12, <1>13 DEF Reading
<1>15. k = "OR" => Condition(w, env) = Max(both)
  BY <1>7, <1>10, <1>12, <1>13 DEF Reading
<1> QED BY <1>4, <1>6, <1>13, <1>14, <1>15 DEF w, ua, a, both

-----------------------------------------------------------------------------
(***************************************************************************)
(* Expressions: the host reads what one is rendered as for what it stands  *)
(* for.                                                                    *)
(***************************************************************************)
Expressions(T) == [k : {"leaf", "NOT", "AND", "OR"}, tokens : Seq(T)]

Constants == {Constant(b).tokens[1] : b \in BOOLEAN}

IsAlphabet(T) == Marks \subseteq T /\ Constants \subseteq T

ReadsAs(x, T, env, v) ==
    /\ x \in Expressions(T)
    /\ x.tokens # <<>> /\ Balanced(x.tokens)
    /\ x.k # "OR" => Splits(x.tokens, "OR") = {}
    /\ Condition(x.tokens, env) = v /\ v \in Truths

Both(k, v, w) == IF k = "AND" THEN Min({v, w}) ELSE Max({v, w})

LEMMA SideIs ==
    ASSUME NEW T, IsAlphabet(T), NEW x, NEW env, NEW v, ReadsAs(x, T, env, v),
           NEW bare \in BOOLEAN
    PROVE  LET s == Side(x, bare)
           IN  /\ s \in Seq(T) /\ Balanced(s) /\ Condition(s, env) = v
               /\ ~bare => \A op \in Operators : Splits(s, op) = {}
               /\ bare => s = x.tokens
<1> DEFINE t == x.tokens
<1>1. t \in Seq(T) /\ Balanced(t) /\ Condition(t, env) = v /\ Marks \subseteq T
  BY DEF ReadsAs, Expressions, IsAlphabet
<1>2. Side(x, bare) = IF bare THEN t ELSE Enclosed(t)
  BY DEF Side, Enclosed
<1> HIDE DEF t
<1>3. Enclosed(t) \in Seq(T) /\ Balanced(Enclosed(t))
  BY <1>1, EnclosedOf
<1>4. \A op \in Operators : Splits(Enclosed(t), op) = {}
  BY <1>1, EnclosedSplits
<1>5. Condition(Enclosed(t), env) = v
  BY <1>1, EnclosedCondition
<1> QED BY <1>1, <1>2, <1>3, <1>4, <1>5 DEF t

LEMMA OpReads ==
    ASSUME NEW T, IsAlphabet(T), NEW env, NEW k \in Operators,
           NEW left, NEW v, ReadsAs(left, T, env, v),
           NEW right, NEW w, ReadsAs(right, T, env, w)
    PROVE  ReadsAs(Op(k, left, right), T, env, Both(k, v, w))
<1> DEFINE bare == left.k = k /\ LeftAssociative(k)
           a == Side(left, bare)
           b == Side(right, FALSE)
           t == a \o Token(k) \o b
<1>1. Op(k, left, right) = [k |-> k, tokens |-> t]
  BY DEF Op, GreaterPrecedence
<1>2. /\ a \in Seq(T) /\ Balanced(a) /\ Condition(a, env) = v
      /\ ~bare => \A op \in Operators : Splits(a, op) = {}
      /\ bare => a = left.tokens
  <2>1. bare \in BOOLEAN
    OBVIOUS
  <2> HIDE DEF bare
  <2> QED BY <2>1, SideIs
<1>3. /\ b \in Seq(T) /\ Balanced(b) /\ Condition(b, env) = w
      /\ \A op \in Operators : Splits(b, op) = {}
  BY SideIs
<1>4. k = "AND" => Splits(a, "OR") = {}
  <2> HAVE k = "AND"
  <2>1. CASE bare
    BY <1>2, <2>1 DEF ReadsAs
  <2>2. CASE ~bare
    <3> HIDE DEF a, bare
    <3> QED BY <1>2, <2>2 DEF Operators
  <2> QED BY <2>1, <2>2
<1> HIDE DEF a, b
<1>5. Marks \subseteq T
  BY DEF IsAlphabet
<1>6. /\ Condition(t, env) = IF k = "AND" THEN Min({v, w}) ELSE Max({v, w})
      /\ Balanced(t) /\ t \in Seq(T) /\ t # <<>>
      /\ k = "AND" => Splits(t, "OR") = {}
  <2> HIDE DEF bare
  <2>1. /\ a \in Seq(T) /\ Balanced(a) /\ b \in Seq(T) /\ Balanced(b)
        /\ \A op \in Operators : Splits(b, op) = {}
    BY <1>2, <1>3
  <2> DEFINE both == Ends(a, b, env)
  <2>2. Operands(a, k, b, T)
    BY <1>4, <1>5, <2>1 DEF Operands
  <2>4. /\ k = "AND" => Condition(a \o Token(k) \o b, env) = Min(both)
        /\ k = "OR" => Condition(a \o Token(k) \o b, env) = Max(both)
    BY <2>2, OpCondition
  <2>5. Balanced(a \o Token(k) \o b)
    BY <2>2, OpCondition
  <2>6. a \o Token(k) \o b \in Seq(T) /\ a \o Token(k) \o b # <<>>
    BY <2>2, OpCondition
  <2>7. k = "AND" => Splits(a \o Token(k) \o b, "OR") = {}
    BY <2>2, OpCondition
  <2>3. both = {v, w}
    BY <1>2, <1>3 DEF Ends
  <2> HIDE DEF t, both
  <2> QED BY <2>3, <2>4, <2>5, <2>6, <2>7 DEF t, Operators
<1>7. Both(k, v, w) \in Truths
  <2>1. {v, w} \subseteq Truths /\ {v, w} # {}
    BY DEF ReadsAs
  <2>2. Max({v, w}) \in Truths /\ Min({v, w}) \in Truths
    BY <2>1, ExtremesOf
  <2> QED BY <2>2 DEF Both
<1> HIDE DEF t
<1> DEFINE x == Op(k, left, right)
<1>8. x.k = k /\ x.tokens = t /\ x \in Expressions(T)
  BY <1>1, <1>6 DEF Expressions, Operators
<1> HIDE DEF x
<1>9. k # "OR" => k = "AND"
  BY DEF Operators
<1>10. ReadsAs(x, T, env, Both(k, v, w))
  BY <1>6, <1>7, <1>8, <1>9 DEF ReadsAs, Both
<1> QED BY <1>10 DEF x

LEMMA NegationReads ==
    ASSUME NEW T, IsAlphabet(T), NEW env, NEW x, NEW v, ReadsAs(x, T, env, v)
    PROVE  ReadsAs(Negation(x), T, env, True - v)
<1> DEFINE b == Side(x, FALSE)
           t == Token("NOT") \o b
<1>1. Negation(x) = [k |-> "NOT", tokens |-> t]
  BY DEF Negation, GreaterPrecedence
<1>2. /\ b \in Seq(T) /\ Balanced(b) /\ Condition(b, env) = v
      /\ \A op \in Operators : Splits(b, op) = {}
  BY SideIs
<1> HIDE DEF b
<1>3. Marks \subseteq T
  BY DEF IsAlphabet
<1>4. /\ Condition(t, env) = True - v /\ Balanced(t)
      /\ \A op \in Operators : Splits(t, op) = {}
  BY <1>2, <1>3, NotCondition
<1>5. t \in Seq(T) /\ t # <<>>
  <2> DEFINE a == Token("NOT")
  <2>1. a \in Seq(T) /\ Len(a) = 1
    BY <1>3, TokenOf
  <2> HIDE DEF a
  <2>2. a \o b \in Seq(T) /\ Len(a \o b) = Len(a) + Len(b) /\ Len(b) \in Nat
    BY <1>2, <2>1, ConcatOf
  <2>3. Len(a \o b) # 0
    BY <2>1, <2>2
  <2>4. a \o b # <<>>
    BY <2>3
  <2> QED BY <2>2, <2>4 DEF a
<1>6. True - v \in Truths
  BY DEF ReadsAs, Truths, True
<1> HIDE DEF t
<1>7. [k |-> "NOT", tokens |-> t] \in Expressions(T)
  BY <1>5 DEF Expressions
<1>8. Splits(t, "OR") = {}
  BY <1>4 DEF Operators
<1> QED BY <1>1, <1>4, <1>5, <1>6, <1>7, <1>8 DEF ReadsAs

LEMMA LeafReads ==
    ASSUME NEW T, NEW env, NEW p \in T, p.k = "leaf"
    PROVE  ReadsAs(Expression(p), T, env, Predicate(p, env))
<1> DEFINE t == <<p>>
           x == Expression(p)
<1>1. /\ Condition(t, env) = Predicate(p, env) /\ Balanced(t)
      /\ Splits(t, "OR") = {}
  BY LeafCondition DEF Operators
<1>2. t \in Seq(T) /\ t # <<>>
  OBVIOUS
<1> HIDE DEF t
<1>3. x = [k |-> "leaf", tokens |-> t]
  BY DEF Expression, t
<1>4. x.k = "leaf" /\ x.tokens = t /\ x \in Expressions(T)
  BY <1>2, <1>3 DEF Expressions
<1> HIDE DEF x
<1>5. ReadsAs(x, T, env, Predicate(p, env))
  BY <1>1, <1>2, <1>4, PredicateIsTruth DEF ReadsAs
<1> QED BY <1>5 DEF x

LEMMA ConstantReads ==
    ASSUME NEW T, IsAlphabet(T), NEW env, NEW b \in BOOLEAN
    PROVE  ReadsAs(Constant(b), T, env, Truth(b))
<1> DEFINE p == [k |-> "leaf", op |-> "value", left |-> Typed("Boolean", b),
                 args |-> <<>>, neg |-> FALSE]
<1>1. Constant(b) = Expression(p) /\ Expression(p).tokens[1] = p
  BY DEF Constant, Expression
<1>2. p \in T
  BY <1>1 DEF IsAlphabet, Constants
<1>3. p.op = "value" /\ p.neg = FALSE /\ p.left.v = b /\ p.k = "leaf"
  BY DEF Typed
<1> HIDE DEF p
<1>4. Predicate(p, env) = Truth(b)
  BY <1>3 DEF Predicate
<1> QED BY <1>1, <1>2, <1>3, <1>4, LeafReads

-----------------------------------------------------------------------------
(* The fold of And and Or, and what it stands for. *)
Upon(k, v, n) == {IF k = "AND" THEN True ELSE False} \cup {v[j] : j \in 1 .. n}

Folded(k, v, n) == IF k = "AND" THEN Min(Upon(k, v, n)) ELSE Max(Upon(k, v, n))

LEMMA FoldedSteps ==
    ASSUME NEW k \in Operators, NEW v, NEW n \in Nat,
           \A j \in 1 .. n : v[j] \in Truths
    PROVE  /\ Folded(k, v, n) \in Truths
           /\ Folded(k, v, 0) = Truth(k = "AND")
           /\ n = 1 => Folded(k, v, n) = v[1]
           /\ n > 0 => Folded(k, v, n) = Both(k, Folded(k, v, n - 1), v[n])
<1>1. \A m \in 0 .. n : Upon(k, v, m) \subseteq Truths /\ Upon(k, v, m) # {}
  BY DEF Upon, Truths, True, False
<1>2. ASSUME NEW m \in 0 .. n
      PROVE  LET X == Upon(k, v, m)
             IN  /\ Max(X) \in X /\ (\A y \in X : y <= Max(X)) /\ Max(X) \in Truths
                 /\ Min(X) \in X /\ (\A y \in X : Min(X) <= y) /\ Min(X) \in Truths
  <2> DEFINE X == Upon(k, v, m)
  <2>1. X \subseteq Truths /\ X # {}
    BY <1>1
  <2> HIDE DEF X
  <2>2. /\ Max(X) \in X /\ \A y \in X : y <= Max(X)
        /\ Min(X) \in X /\ \A y \in X : Min(X) <= y
    BY <2>1, ExtremesOf
  <2> QED BY <2>1, <2>2 DEF X
<1>3. Folded(k, v, n) \in Truths
  <2>1. n \in 0 .. n
    OBVIOUS
  <2> QED BY <1>2, <2>1 DEF Folded
<1>4. Folded(k, v, 0) = Truth(k = "AND")
  <2>1. Upon(k, v, 0) = {IF k = "AND" THEN True ELSE False}
    BY DEF Upon
  <2>2. 0 \in 0 .. n
    OBVIOUS
  <2> QED BY <1>2, <2>1, <2>2 DEF Folded, Truth
<1>5. ASSUME n > 0
      PROVE  Folded(k, v, n) = Both(k, Folded(k, v, n - 1), v[n])
  <2> DEFINE X == Upon(k, v, n - 1)
             Y == Upon(k, v, n)
  <2>1. n - 1 \in 0 .. n /\ n \in 0 .. n /\ n \in 1 .. n
    BY <1>5
  <2>2. Y = X \cup {v[n]}
    <3>1. 1 .. n = (1 .. n - 1) \cup {n}
      BY <1>5
    <3> QED BY <3>1 DEF Upon
  <2>3. /\ Max(X) \in X /\ (\A y \in X : y <= Max(X)) /\ Max(X) \in Truths
        /\ Min(X) \in X /\ (\A y \in X : Min(X) <= y) /\ Min(X) \in Truths
    BY <1>2, <2>1
  <2>4. /\ Max(Y) \in Y /\ (\A y \in Y : y <= Max(Y)) /\ Max(Y) \in Truths
        /\ Min(Y) \in Y /\ (\A y \in Y : Min(Y) <= y) /\ Min(Y) \in Truths
    BY <1>2, <2>1
  <2>5. v[n] \in Truths
    BY <2>1
  <2> DEFINE P == {Max(X), v[n]}
             Q == {Min(X), v[n]}
  <2>6. /\ Max(P) \in P /\ \A y \in P : y <= Max(P)
        /\ Min(Q) \in Q /\ \A y \in Q : Min(Q) <= y
    <3>1. P \subseteq Truths /\ P # {} /\ Q \subseteq Truths /\ Q # {}
      BY <2>3, <2>5
    <3> HIDE DEF P, Q
    <3> QED BY <3>1, ExtremesOf
  <2> HIDE DEF X, Y
  <2>7. Max(Y) = Max(P)
    <3>1. Max(P) \in Y /\ Max(P) \in Truths
      BY <2>2, <2>3, <2>5, <2>6
    <3>2. Max(P) <= Max(Y)
      BY <2>4, <3>1
    <3>3. Max(Y) <= Max(P)
      <4>1. CASE Max(Y) = v[n]
        BY <2>6, <4>1
      <4>2. CASE Max(Y) \in X
        <5>1. Max(Y) <= Max(X) /\ Max(X) <= Max(P)
          BY <2>3, <2>6, <4>2
        <5> QED BY <2>3, <2>4, <3>1, <5>1 DEF Truths
      <4> QED BY <2>2, <2>4, <4>1, <4>2
    <3> QED BY <2>4, <3>1, <3>2, <3>3 DEF Truths
  <2>8. Min(Y) = Min(Q)
    <3>1. Min(Q) \in Y /\ Min(Q) \in Truths
      BY <2>2, <2>3, <2>5, <2>6
    <3>2. Min(Y) <= Min(Q)
      BY <2>4, <3>1
    <3>3. Min(Q) <= Min(Y)
      <4>1. CASE Min(Y) = v[n]
        BY <2>6, <4>1
      <4>2. CASE Min(Y) \in X
        <5>1. Min(X) <= Min(Y) /\ Min(Q) <= Min(X)
          BY <2>3, <2>6, <4>2
        <5> QED BY <2>3, <2>4, <3>1, <5>1 DEF Truths
      <4> QED BY <2>2, <2>4, <4>1, <4>2
    <3> QED BY <2>4, <3>1, <3>2, <3>3 DEF Truths
  <2>9. /\ Folded(k, v, n) = IF k = "AND" THEN Min(Y) ELSE Max(Y)
        /\ Folded(k, v, n - 1) = IF k = "AND" THEN Min(X) ELSE Max(X)
    BY DEF Folded, X, Y
  <2>10. CASE k = "AND"
    BY <2>8, <2>9, <2>10 DEF Both
  <2>11. CASE k # "AND"
    BY <2>7, <2>9, <2>11 DEF Both
  <2> QED BY <2>10, <2>11
<1>6. n = 1 => Folded(k, v, n) = v[1]
  <2> HAVE n = 1
  <2>1. v[1] \in Truths
    OBVIOUS
  <2>2. Folded(k, v, 1) = Both(k, Truth(k = "AND"), v[1])
    BY <1>4, <1>5
  <2> DEFINE P == {Truth(k = "AND"), v[1]}
  <2>3. P \subseteq {0, 1, 2} /\ P # {} /\ P \subseteq Truths
    BY <2>1 DEF Truth, Truths, True, False
  <2>4. /\ Max(P) \in P /\ \A y \in P : y <= Max(P)
        /\ Min(P) \in P /\ \A y \in P : Min(P) <= y
    <3> HIDE DEF P
    <3> QED BY <2>3, ExtremesOf
  <2>5. CASE k = "AND"
    <3>1. Min(P) = v[1]
      BY <2>1, <2>4, <2>5 DEF Truth, Truths, True
    <3> QED BY <2>2, <2>5, <3>1 DEF Both
  <2>6. CASE k # "AND"
    <3>1. Max(P) = v[1]
      BY <2>1, <2>4, <2>6 DEF Truth, Truths, False
    <3> QED BY <2>2, <2>6, <3>1 DEF Both
  <2> QED BY <2>5, <2>6
<1> QED BY <1>3, <1>4, <1>5, <1>6

Chained(c, k, e) ==
    c = [i \in 1 .. Len(e) |-> IF i = 1 THEN e[1] ELSE Op(k, c[i - 1], e[i])]

LEMMA ChainIs ==
    ASSUME NEW k, NEW e, NEW empty
    PROVE  Chain(k, e, empty) =
             IF e = <<>> THEN Constant(empty) ELSE (CHOOSE c : Chained(c, k, e))[Len(e)]
BY DEF Chain, Chained

LEMMA OpIsExpression ==
    ASSUME NEW T, IsAlphabet(T), NEW k \in Operators,
           NEW x \in Expressions(T), NEW y \in Expressions(T)
    PROVE  Op(k, x, y) \in Expressions(T) /\ Negation(x) \in Expressions(T)
<1>1. /\ Token("(") \in Seq(T) /\ Token(")") \in Seq(T)
      /\ Token("NOT") \in Seq(T) /\ Token(k) \in Seq(T)
  BY TokenOf DEF IsAlphabet, Operators
<1>2. x.tokens \in Seq(T) /\ y.tokens \in Seq(T)
  BY DEF Expressions
<1>3. \A t \in Seq(T), u \in Seq(T) : t \o u \in Seq(T)
  BY ConcatProperties
<1>4. \A z \in {x, y}, b \in BOOLEAN : Side(z, b) \in Seq(T)
  BY <1>1, <1>2, <1>3 DEF Side
<1>5. \A b \in BOOLEAN : Side(x, b) \o Token(k) \o Side(y, FALSE) \in Seq(T)
  BY <1>1, <1>3, <1>4
<1>6. Token("NOT") \o Side(x, FALSE) \in Seq(T)
  BY <1>1, <1>3, <1>4
<1>7. Negation(x) \in Expressions(T)
  BY <1>6 DEF Negation, Expressions, GreaterPrecedence
<1> DEFINE bare == x.k = k /\ LeftAssociative(k)
           t == Side(x, bare) \o Token(k) \o Side(y, FALSE)
<1>8. Op(k, x, y) = [k |-> k, tokens |-> t]
  BY DEF Op, GreaterPrecedence
<1>9. t \in Seq(T)
  BY <1>5
<1> HIDE DEF t
<1>10. [k |-> k, tokens |-> t] \in Expressions(T)
  BY <1>9 DEF Expressions, Operators
<1> QED BY <1>7, <1>8, <1>10

LEMMA ChainedExists ==
    ASSUME NEW T, IsAlphabet(T), NEW k \in Operators, NEW e \in Seq(Expressions(T)),
           e # <<>>
    PROVE  \E c \in [1 .. Len(e) -> Expressions(T)] : Chained(c, k, e)
<1> DEFINE D == 1 .. Len(e)
           S == Expressions(T)
           N == Len(e)
           size == [i \in D |-> i]
           F == [i \in D |-> [c \in [D -> S] |->
                  IF i = 1 THEN e[1] ELSE Op(k, c[i - 1], e[i])]]
<1>1. N \in Nat /\ 1 \in D /\ \A i \in D : e[i] \in S
  OBVIOUS
<1>2. S # {}
  BY <1>1
<1>3. Descends(D, S, N, size, F)
  <2>1. size \in [D -> 0 .. N]
    BY <1>1
  <2>2. F \in [D -> [[D -> S] -> S]]
    <3> SUFFICES ASSUME NEW i \in D, NEW c \in [D -> S]
                 PROVE  (IF i = 1 THEN e[1] ELSE Op(k, c[i - 1], e[i])) \in S
      OBVIOUS
    <3>1. i # 1 => i - 1 \in D
      BY <1>1
    <3>2. i # 1 => c[i - 1] \in S
      BY <3>1
    <3>3. i # 1 => Op(k, c[i - 1], e[i]) \in S
      <4> HIDE DEF D
      <4> QED BY <1>1, <3>2, OpIsExpression
    <3> QED BY <1>1, <3>3
  <2>3. ASSUME NEW d \in D, NEW g \in [D -> S], NEW h \in [D -> S],
               \A c \in D : size[c] < size[d] => g[c] = h[c]
        PROVE  F[d][g] = F[d][h]
    <3>1. d # 1 => d - 1 \in D /\ size[d - 1] < size[d]
      BY <1>1
    <3>2. d # 1 => g[d - 1] = h[d - 1]
      BY <2>3, <3>1
    <3> QED BY <3>2
  <2>4. \A d \in D : \A g, h \in [D -> S] :
          (\A c \in D : size[c] < size[d] => g[c] = h[c]) => F[d][g] = F[d][h]
    BY <2>3
  <2> HIDE DEF D, S, N, size, F
  <2> QED BY <2>1, <2>2, <2>4 DEF Descends
<1>4. PICK c \in [D -> S] : c = [i \in D |-> F[i][c]]
  <2> HIDE DEF D, S, N, size, F
  <2> QED BY <1>1, <1>2, <1>3, RecursionExists
<1>5. \A i \in D : F[i][c] = IF i = 1 THEN e[1] ELSE Op(k, c[i - 1], e[i])
  OBVIOUS
<1>6. c = [i \in D |-> IF i = 1 THEN e[1] ELSE Op(k, c[i - 1], e[i])]
  <2> HIDE DEF D, F
  <2> QED BY <1>4, <1>5
<1> QED BY <1>6 DEF Chained

LEMMA ChainIsExpression ==
    ASSUME NEW T, IsAlphabet(T), NEW k \in Operators, NEW e \in Seq(Expressions(T)),
           NEW empty \in BOOLEAN
    PROVE  Chain(k, e, empty) \in Expressions(T)
<1>1. CASE e = <<>>
  <2>1. ReadsAs(Constant(empty), T, empty, Truth(empty))
    BY ConstantReads
  <2> QED BY <1>1, <2>1, ChainIs DEF ReadsAs
<1>2. CASE e # <<>>
  <2> DEFINE c == CHOOSE x : Chained(x, k, e)
  <2>1. PICK g \in [1 .. Len(e) -> Expressions(T)] : Chained(g, k, e)
    BY <1>2, ChainedExists
  <2>2. Chained(c, k, e)
    BY <2>1
  <2>3. Chain(k, e, empty) = c[Len(e)]
    BY <1>2, ChainIs
  <2> HIDE DEF c
  <2> DEFINE T0 == {i \in 1 .. Len(e) : c[i] \notin Expressions(T)}
  <2>4. T0 = {}
    <3> SUFFICES ASSUME T0 # {} PROVE FALSE
      OBVIOUS
    <3>1. PICK i \in T0 : \A j \in T0 : i <= j
      <4>1. T0 \subseteq Nat
        OBVIOUS
      <4> HIDE DEF T0
      <4> QED BY <4>1, SmallestPlace
    <3>2. i \in 1 .. Len(e) /\ c[i] = IF i = 1 THEN e[1] ELSE Op(k, c[i - 1], e[i])
      BY <2>2 DEF Chained
    <3>3. i # 1 => i - 1 \in 1 .. Len(e) /\ ~(i <= i - 1)
      BY <3>2
    <3>4. i # 1 => c[i - 1] \in Expressions(T)
      BY <3>1, <3>3
    <3>5. e[i] \in Expressions(T) /\ (i = 1 => e[1] \in Expressions(T))
      BY <3>2
    <3>6. i # 1 => Op(k, c[i - 1], e[i]) \in Expressions(T)
      BY <3>4, <3>5, OpIsExpression
    <3> QED BY <3>2, <3>5, <3>6
  <2>5. Len(e) \in 1 .. Len(e)
    BY <1>2
  <2> QED BY <2>3, <2>4, <2>5
<1> QED BY <1>1, <1>2

AllRead(e, T, env, v) ==
    e \in Seq(Expressions(T)) /\ \A i \in 1 .. Len(e) : ReadsAs(e[i], T, env, v[i])

LEMMA ChainReads ==
    ASSUME NEW T, IsAlphabet(T), NEW env, NEW k \in Operators, NEW e, NEW v,
           AllRead(e, T, env, v)
    PROVE  ReadsAs(Chain(k, e, k = "AND"), T, env, Folded(k, v, Len(e)))
<1>1. /\ e \in Seq(Expressions(T)) /\ Len(e) \in Nat
      /\ \A i \in 1 .. Len(e) : ReadsAs(e[i], T, env, v[i]) /\ v[i] \in Truths
  <2>1. e \in Seq(Expressions(T)) /\ \A i \in 1 .. Len(e) : ReadsAs(e[i], T, env, v[i])
    BY DEF AllRead
  <2>2. ASSUME NEW s \in Seq(Expressions(T)) PROVE Len(s) \in Nat
    OBVIOUS
  <2>3. ASSUME NEW x, NEW w, ReadsAs(x, T, env, w) PROVE w \in Truths
    BY <2>3 DEF ReadsAs
  <2> QED BY <2>1, <2>2, <2>3
<1>2. ASSUME e = <<>>
      PROVE  ReadsAs(Chain(k, e, k = "AND"), T, env, Folded(k, v, Len(e)))
  <2>1. Len(e) = 0 /\ (k = "AND") \in BOOLEAN
    BY <1>2
  <2>2. Folded(k, v, 0) = Truth(k = "AND")
    BY <1>1, FoldedSteps
  <2>3. Chain(k, e, k = "AND") = Constant(k = "AND")
    BY <1>2, ChainIs
  <2> QED BY <2>1, <2>2, <2>3, ConstantReads
<1>3. ASSUME e # <<>>
      PROVE  ReadsAs(Chain(k, e, k = "AND"), T, env, Folded(k, v, Len(e)))
  <2> DEFINE c == CHOOSE x : Chained(x, k, e)
             T0 == {i \in 1 .. Len(e) : ~ReadsAs(c[i], T, env, Folded(k, v, i))}
  <2>1. Chained(c, k, e)
    BY <1>1, <1>3, ChainedExists
  <2>2. Chain(k, e, k = "AND") = c[Len(e)]
    BY <1>3, ChainIs
  <2> HIDE DEF c
  <2>3. T0 = {}
    <3> SUFFICES ASSUME T0 # {} PROVE FALSE
      OBVIOUS
    <3>1. PICK i \in T0 : \A j \in T0 : i <= j
      <4>1. T0 \subseteq Nat
        OBVIOUS
      <4> HIDE DEF T0
      <4> QED BY <4>1, SmallestPlace
    <3>2. i \in 1 .. Len(e) /\ c[i] = IF i = 1 THEN e[1] ELSE Op(k, c[i - 1], e[i])
      BY <2>1 DEF Chained
    <3>3. \A j \in 1 .. i : v[j] \in Truths
      BY <1>1, <3>2
    <3>4. ReadsAs(e[i], T, env, v[i])
      BY <1>1, <3>2
    <3>5. i \in Nat /\ i > 0
      BY <3>2
    <3>6. CASE i = 1
      <4>1. Folded(k, v, i) = v[1]
        BY <3>3, <3>5, <3>6, FoldedSteps
      <4> QED BY <3>1, <3>2, <3>4, <3>6, <4>1
    <3>7. CASE i # 1
      <4>1. i - 1 \in 1 .. Len(e) /\ ~(i <= i - 1)
        BY <3>2, <3>7
      <4>2. ReadsAs(c[i - 1], T, env, Folded(k, v, i - 1))
        BY <3>1, <4>1
      <4> HIDE DEF T0
      <4>3. ReadsAs(Op(k, c[i - 1], e[i]), T, env, Both(k, Folded(k, v, i - 1), v[i]))
        BY <3>4, <4>2, OpReads
      <4>4. Folded(k, v, i) = Both(k, Folded(k, v, i - 1), v[i])
        BY <3>3, <3>5, FoldedSteps
      <4>5. ReadsAs(c[i], T, env, Folded(k, v, i))
        BY <3>2, <3>7, <4>3, <4>4
      <4> QED BY <3>1, <4>5 DEF T0
    <3> QED BY <3>6, <3>7
  <2>4. Len(e) \in 1 .. Len(e)
    BY <1>1, <1>3
  <2>5. ReadsAs(c[Len(e)], T, env, Folded(k, v, Len(e)))
    BY <2>3, <2>4
  <2> QED BY <2>2, <2>5
<1> QED BY <1>2, <1>3

-----------------------------------------------------------------------------
(***************************************************************************)
(* Filters: filled in, turned into an expression and rendered, one is read *)
(* for what it means.                                                      *)
(***************************************************************************)
Filled(f, in) == IF in = NoTable THEN f ELSE InTable(f, in)

FilledAs(old, new, in) ==
    /\ new.kind = old.kind
    /\ old.kind \in Combinators => new = old
    /\ old.kind \notin Combinators =>
         /\ new.args = old.args /\ new.neg = old.neg
         /\ DOMAIN new.left = {"table", "column"}
         /\ new.left.column = old.left.column
         /\ new.left.table =
              IF in # NoTable /\ old.kind # "columns" THEN in ELSE old.left.table

LEMMA FilledNode ==
    ASSUME NEW f, IsFilter(f), NEW in, NEW p \in DOMAIN f
    PROVE  DOMAIN Filled(f, in) = DOMAIN f /\ FilledAs(f[p], Filled(f, in)[p], in)
<1> DEFINE old == f[p]
           new == Filled(f, in)[p]
<1> USE DEF FilledAs
<1>1. old.kind \notin Combinators =>
        DOMAIN old = {"kind", "left", "args", "neg"} /\ DOMAIN old.left = {"table", "column"}
  BY DEF IsFilter
<1>2. DOMAIN Filled(f, in) = DOMAIN f
  BY DEF Filled, InTable
<1>3. CASE in = NoTable \/ old.kind \in Combinators \cup {"columns"}
  <2>1. new = old
    BY <1>3 DEF Filled, InTable
  <2> HIDE DEF new, old
  <2> QED BY <1>1, <1>2, <1>3, <2>1 DEF Combinators, new, old
<1>4. CASE in # NoTable /\ old.kind \notin Combinators \cup {"columns"}
  <2>1. new = [old EXCEPT !.left.table = in]
    BY <1>4 DEF Filled, InTable
  <2> HIDE DEF new, old
  <2>2. /\ new.kind = old.kind /\ new.args = old.args /\ new.neg = old.neg
        /\ new.left = [old.left EXCEPT !.table = in]
    BY <1>1, <1>4, <2>1
  <2>3. /\ DOMAIN new.left = {"table", "column"}
        /\ new.left.column = old.left.column /\ new.left.table = in
    BY <1>1, <1>4, <2>2
  <2> QED BY <1>2, <1>4, <2>2, <2>3 DEF new, old
<1> QED BY <1>3, <1>4

LEMMA PredicateSame ==
    ASSUME NEW p, NEW q, NEW env, p.op = q.op, p.op # "value", p.neg = q.neg,
           p.args = q.args, ValueOf(p.left, env) = ValueOf(q.left, env)
    PROVE  Predicate(p, env) = Predicate(q, env)
BY DEF Predicate

(* What Means says of a predicate, and its token. *)
MeansTest(node, in, default, env) ==
    LET left == env[Home(node, in, default)][node.left.column]
    IN  Predicate([op |-> IF node.kind = "columns" THEN "=" ELSE node.kind,
                   left |-> [v |-> left.v], args |-> node.args, neg |-> node.neg], env)

LEMMA PredicatedReads ==
    ASSUME NEW f, IsFilter(f), NEW in, NEW default, NEW p \in DOMAIN f,
           f[p].kind \notin Combinators, NEW env
    PROVE  LET q == Predicated(Filled(f, in)[p], default).tokens[1]
           IN  /\ Predicated(Filled(f, in)[p], default) = Expression(q)
               /\ q.k = "leaf" /\ Predicate(q, env) = MeansTest(f[p], in, default, env)
<1> DEFINE old == f[p]
           new == Filled(f, in)[p]
           op == IF new.kind = "columns" THEN "=" ELSE new.kind
           args == [i \in DOMAIN new.args |-> Resolve(new.args[i], default)]
           q == [k |-> "leaf", op |-> op, left |-> Resolve(new.left, default),
                 neg |-> new.neg, args |-> args]
           left == env[Home(old, in, default)][old.left.column]
           r == [op |-> IF old.kind = "columns" THEN "=" ELSE old.kind,
                 left |-> [v |-> left.v], args |-> old.args, neg |-> old.neg]
<1>1. Predicated(new, default) = Expression(q) /\ Expression(q).tokens[1] = q
  BY DEF Predicated, Expression
<1>2. /\ new.kind = old.kind /\ new.args = old.args /\ new.neg = old.neg
      /\ DOMAIN new.left = {"table", "column"}
      /\ new.left.column = old.left.column
      /\ new.left.table = IF in # NoTable /\ old.kind # "columns" THEN in ELSE old.left.table
  <2>1. FilledAs(old, new, in)
    BY FilledNode
  <2> HIDE DEF old, new
  <2> QED BY <2>1 DEF FilledAs, old
<1>3. /\ old.args \in Seq(Range(old.args)) /\ old.kind # "value"
      /\ \A i \in DOMAIN old.args :
           "table" \in DOMAIN old.args[i] => old.args[i].table # NoTable
  BY DEF IsFilter
<1>4. args = old.args
  <2>1. \A i \in DOMAIN old.args : Resolve(old.args[i], default) = old.args[i]
    BY <1>3 DEF Resolve
  <2> DEFINE given == old.args
  <2>2. given = [i \in DOMAIN given |-> given[i]]
    <3>1. given \in [1 .. Len(given) -> Range(given)]
      <4> HIDE DEF given
      <4> QED BY <1>3, LenProperties DEF given
    <3> HIDE DEF given
    <3> QED BY <3>1
  <2> HIDE DEF old, new
  <2> QED BY <1>2, <2>1, <2>2
<1>5. ValueOf(Resolve(new.left, default), env) = left.v
  <2> DEFINE x == new.left
             y == Resolve(x, default)
  <2>1. DOMAIN x = {"table", "column"}
    BY <1>2
  <2>2. /\ y.column = x.column /\ "column" \in DOMAIN y
        /\ y.table = IF x.table = NoTable THEN default ELSE x.table
    <3> HIDE DEF x
    <3> QED BY <2>1 DEF Resolve
  <2>3. y.table = Home(old, in, default) /\ y.column = old.left.column
    <3> HIDE DEF y, old
    <3> QED BY <1>2, <2>2 DEF Home
  <2> HIDE DEF y, old
  <2> QED BY <2>2, <2>3 DEF ValueOf, y
<1>6. ValueOf([v |-> left.v], env) = left.v
  <2> HIDE DEF left
  <2> QED BY DEF ValueOf
<1>7. /\ q.k = "leaf" /\ q.op = r.op /\ q.op # "value" /\ q.neg = r.neg
      /\ q.args = r.args /\ ValueOf(q.left, env) = ValueOf(r.left, env)
  <2> HIDE DEF old, new, left, args
  <2> QED BY <1>2, <1>3, <1>4, <1>5, <1>6
<1>8. MeansTest(old, in, default, env) = Predicate(r, env)
  BY DEF MeansTest
<1> HIDE DEF q, r
<1>9. Predicate(q, env) = Predicate(r, env)
  BY <1>7, PredicateSame
<1> QED BY <1>1, <1>7, <1>8, <1>9

LEMMA FilledIsFilter ==
    ASSUME NEW f, IsFilter(f), NEW in
    PROVE  IsFilter(Filled(f, in)) /\ DOMAIN Filled(f, in) = DOMAIN f
<1> DEFINE g == Filled(f, in)
<1>1. DOMAIN g = DOMAIN f
  BY DEF Filled, InTable
<1>2. ASSUME NEW p \in DOMAIN f, f[p].kind \notin Combinators
      PROVE  DOMAIN g[p] = {"kind", "left", "args", "neg"}
  <2>1. DOMAIN f[p] = {"kind", "left", "args", "neg"}
    BY <1>2 DEF IsFilter
  <2> QED BY <1>2, <2>1 DEF Filled, InTable
<1>3. ASSUME NEW p \in DOMAIN f PROVE FilledAs(f[p], g[p], in)
  BY FilledNode
<1> HIDE DEF g
<1>4. ASSUME NEW p \in DOMAIN g
      PROVE  /\ p \in Seq(Nat) /\ g[p].kind # "value"
             /\ g[p].kind \in Combinators =>
                  /\ g[p].size \in Nat /\ (g[p].kind = "not" => g[p].size = 1)
                  /\ \A i \in 1 .. g[p].size : p \o <<i>> \in DOMAIN g
             /\ g[p].kind \notin Combinators =>
                  /\ DOMAIN g[p] = {"kind", "left", "args", "neg"}
                  /\ DOMAIN g[p].left = {"table", "column"}
                  /\ g[p].args \in Seq(Range(g[p].args))
                  /\ \A i \in DOMAIN g[p].args :
                       "table" \in DOMAIN g[p].args[i] => g[p].args[i].table # NoTable
  <2>1. p \in DOMAIN f /\ FilledAs(f[p], g[p], in)
    BY <1>1, <1>3
  <2>2. CASE f[p].kind \in Combinators
    <3>1. g[p] = f[p]
      BY <2>1, <2>2 DEF FilledAs
    <3> QED BY <1>1, <2>1, <2>2, <3>1 DEF IsFilter
  <2>3. CASE f[p].kind \notin Combinators
    <3>1. /\ g[p].kind = f[p].kind /\ g[p].args = f[p].args
          /\ DOMAIN g[p].left = {"table", "column"}
      BY <2>1, <2>3 DEF FilledAs
    <3>2. DOMAIN g[p] = {"kind", "left", "args", "neg"}
      BY <1>2, <2>1, <2>3
    <3>3. /\ p \in Seq(Nat) /\ f[p].kind # "value"
          /\ f[p].args \in Seq(Range(f[p].args))
          /\ \A i \in DOMAIN f[p].args :
               "table" \in DOMAIN f[p].args[i] => f[p].args[i].table # NoTable
      BY <2>1, <2>3 DEF IsFilter
    <3> QED BY <2>3, <3>1, <3>2, <3>3
  <2> QED BY <2>2, <2>3
<1>5. IsFiniteSet(DOMAIN g) /\ <<>> \in DOMAIN g
  BY <1>1 DEF IsFilter
<1>6. IsFilter(g)
  BY <1>4, <1>5 DEF IsFilter
<1> QED BY <1>1, <1>6 DEF g

LEMMA SmallestSubset ==
    ASSUME NEW S, IsFiniteSet(S), NEW T, T \subseteq SUBSET S, T # {}
    PROVE  \E s \in T : \A u \in T : u \subseteq s => u = s
<1>1. IsWellFoundedOn(StrictSubsetOrdering(S), SUBSET S)
  BY FS_StrictSubsetOrderingWellFounded, FS_FiniteSubsetsOfFinite
<1>2. PICK s \in T : \A u \in T : ~(<<u, s>> \in StrictSubsetOrdering(S))
  BY <1>1, WFMin
<1>3. \A u \in T : u \subseteq s => u = s
  <2> SUFFICES ASSUME NEW u \in T, u \subseteq s, u # s PROVE FALSE
    OBVIOUS
  <2>1. <<u, s>> \in StrictSubsetOrdering(S)
    BY DEF StrictSubsetOrdering
  <2> QED BY <1>2, <2>1
<1> QED BY <1>3

LEMMA FiniteIsBounded ==
    ASSUME NEW S, IsFiniteSet(S), NEW f \in [S -> Nat]
    PROVE  \E m \in Nat : \A x \in S : f[x] <= m
<1> DEFINE T == {s \in SUBSET S : ~\E m \in Nat : \A x \in s : f[x] <= m}
<1>1. T = {}
  <2> SUFFICES ASSUME T # {} PROVE FALSE
    OBVIOUS
  <2>1. PICK s \in T : \A u \in T : u \subseteq s => u = s
    <3>1. T \subseteq SUBSET S
      OBVIOUS
    <3> HIDE DEF T
    <3> QED BY <3>1, SmallestSubset
  <2>2. s # {}
    <3>1. s = {} => \A x \in s : f[x] <= 0
      OBVIOUS
    <3> QED BY <3>1
  <2>3. PICK y \in s : TRUE
    BY <2>2
  <2>4. s \ {y} \notin T /\ s \in SUBSET S
    BY <2>1, <2>3
  <2>5. PICK m \in Nat : \A x \in s \ {y} : f[x] <= m
    BY <2>4
  <2>6. f[y] \in Nat /\ \A x \in s : f[x] \in Nat
    BY <2>3, <2>4
  <2> DEFINE n == IF f[y] <= m THEN m ELSE f[y]
  <2>7. n \in Nat /\ f[y] <= n /\ m <= n
    BY <2>6
  <2> HIDE DEF n
  <2>8. \A x \in s : f[x] <= n
    <3> TAKE x \in s
    <3>1. CASE x = y
      BY <2>7, <3>1
    <3>2. CASE x # y
      <4>1. f[x] <= m /\ f[x] \in Nat
        BY <2>5, <2>6, <3>2
      <4> QED BY <2>7, <4>1
    <3> QED BY <3>1, <3>2
  <2> QED BY <2>1, <2>7, <2>8
<1> QED BY <1>1

LEMMA PathsAreBounded ==
    ASSUME NEW f, IsFilter(f)
    PROVE  \E m \in Nat : \A p \in DOMAIN f : Len(p) \in 0 .. m
<1> DEFINE D == DOMAIN f
           length == [p \in D |-> Len(p)]
<1>1. IsFiniteSet(D) /\ \A p \in D : Len(p) \in Nat
  <2>1. IsFiniteSet(D) /\ \A p \in D : p \in Seq(Nat)
    BY DEF IsFilter
  <2>2. \A p \in Seq(Nat) : Len(p) \in Nat
    OBVIOUS
  <2> QED BY <2>1, <2>2
<1>2. length \in [D -> Nat]
  BY <1>1
<1>3. PICK m \in Nat : \A p \in D : length[p] <= m
  <2> HIDE DEF D, length
  <2> QED BY <1>1, <1>2, FiniteIsBounded
<1>4. \A p \in D : Len(p) \in 0 .. m
  BY <1>1, <1>3
<1> QED BY <1>4

LEMMA PathBelow ==
    ASSUME NEW p \in Seq(Nat), NEW i \in Nat
    PROVE  Len(p \o <<i>>) = Len(p) + 1 /\ Len(p) \in Nat
OBVIOUS

(* A function over the nodes of a filter that is defined by recursion exists,
   when its value for a node takes only those for its own filters. *)
FromBelow(f, S, F) ==
    /\ F \in [DOMAIN f -> [[DOMAIN f -> S] -> S]]
    /\ \A p \in DOMAIN f : \A g, h \in [DOMAIN f -> S] :
         (f[p].kind \in Combinators =>
            \A i \in 1 .. f[p].size : g[p \o <<i>>] = h[p \o <<i>>])
         => F[p][g] = F[p][h]

Defined(f, S, F) ==
    \E g \in [DOMAIN f -> S] : \A p \in DOMAIN f : g[p] = F[p][g]

LEMMA TreeRecursion ==
    ASSUME NEW f, IsFilter(f), NEW S, S # {}, NEW F, FromBelow(f, S, F)
    PROVE  Defined(f, S, F)
<1> DEFINE D == DOMAIN f
<1>1. PICK m \in Nat : \A p \in D : Len(p) \in 0 .. m
  BY PathsAreBounded
<1> DEFINE size == [p \in D |-> m - Len(p)]
<1>2. Descends(D, S, m, size, F)
  <2>1. size \in [D -> 0 .. m]
    BY <1>1
  <2>2. ASSUME NEW d \in D, NEW g \in [D -> S], NEW h \in [D -> S],
               \A c \in D : size[c] < size[d] => g[c] = h[c]
        PROVE  F[d][g] = F[d][h]
    <3>1. ASSUME f[d].kind \in Combinators, NEW i \in 1 .. f[d].size
          PROVE  g[d \o <<i>>] = h[d \o <<i>>]
      <4>1. d \in Seq(Nat) /\ f[d].size \in Nat /\ d \o <<i>> \in D
        BY <3>1 DEF IsFilter
      <4>2. Len(d \o <<i>>) = Len(d) + 1 /\ Len(d) \in Nat
        BY <4>1, PathBelow
      <4>3. size[d \o <<i>>] < size[d]
        BY <4>1, <4>2
      <4> QED BY <2>2, <4>1, <4>3
    <3> QED BY <3>1 DEF FromBelow
  <2>3. F \in [D -> [[D -> S] -> S]]
    BY DEF FromBelow
  <2> HIDE DEF D, size
  <2>4. \A d \in D : \A g, h \in [D -> S] :
          (\A c \in D : size[c] < size[d] => g[c] = h[c]) => F[d][g] = F[d][h]
    BY <2>2
  <2> QED BY <2>1, <2>3, <2>4 DEF Descends
<1> HIDE DEF D, size
<1>3. PICK g \in [D -> S] : g = [p \in D |-> F[p][g]]
  BY <1>1, <1>2, RecursionExists
<1>4. \A p \in D : g[p] = F[p][g]
  BY <1>3
<1> QED BY <1>4 DEF D, Defined

-----------------------------------------------------------------------------
(* What into_expr makes of a node, when h has what it makes of those below. *)
Each(f, p, h) == [i \in 1 .. f[p].size |-> h[p \o <<i>>]]

Made(f, p, h, default) ==
    CASE f[p].kind = "and" -> Chain("AND", Each(f, p, h), TRUE)
      [] f[p].kind = "or"  -> Chain("OR", Each(f, p, h), FALSE)
      [] f[p].kind = "not" -> Negation(Each(f, p, h)[1])
      [] OTHER -> Predicated(f[p], default)

Making(e, f, default) == e = [p \in DOMAIN f |-> Made(f, p, e, default)]

LEMMA IntoExprIs ==
    ASSUME NEW f, NEW default
    PROVE  IntoExpr(f, default) = (CHOOSE e : Making(e, f, default))[<<>>]
BY DEF IntoExpr, Making, Made, Each

(* What a node means, when h has what those below mean. *)
Said(f, p, h, in, default, env) ==
    LET each == {h[p \o <<i>>] : i \in 1 .. f[p].size}
    IN  CASE f[p].kind = "and" -> Min({True} \cup each)
          [] f[p].kind = "or" -> Max({False} \cup each)
          [] f[p].kind = "not" -> True - h[p \o <<1>>]
          [] OTHER -> MeansTest(f[p], in, default, env)

Saying(m, f, in, default, env) ==
    m = [p \in DOMAIN f |-> Said(f, p, m, in, default, env)]

LEMMA MeansIs ==
    ASSUME NEW f, NEW in, NEW default, NEW env
    PROVE  Means(f, in, default, env)
             = (CHOOSE m : Saying(m, f, in, default, env))[<<>>]
BY DEF Means, Saying, Said, MeansTest

Leaves(f, default) == {Predicated(f[p], default).tokens[1] : p \in DOMAIN f}

Below(f, p, h, X) ==
    f[p].kind \in Combinators => \A i \in 1 .. f[p].size : h[p \o <<i>>] \in X

LEMMA AllBelow ==
    ASSUME NEW f, IsFilter(f), NEW X, NEW h \in [DOMAIN f -> X]
    PROVE  \A p \in DOMAIN f : Below(f, p, h, X)
BY DEF Below, IsFilter

LEMMA EachIs ==
    ASSUME NEW f, IsFilter(f), NEW p \in DOMAIN f, f[p].kind \in Combinators,
           NEW X, NEW h, Below(f, p, h, X)
    PROVE  /\ Each(f, p, h) \in Seq(X) /\ Len(Each(f, p, h)) = f[p].size
           /\ f[p].size \in Nat /\ (f[p].kind = "not" => f[p].size = 1)
           /\ \A i \in 1 .. f[p].size :
                /\ p \o <<i>> \in DOMAIN f /\ h[p \o <<i>>] \in X
                /\ Each(f, p, h)[i] = h[p \o <<i>>]
<1>1. /\ f[p].size \in Nat /\ (f[p].kind = "not" => f[p].size = 1)
      /\ \A i \in 1 .. f[p].size : p \o <<i>> \in DOMAIN f
  BY DEF IsFilter
<1> DEFINE n == f[p].size
           s == [i \in 1 .. n |-> h[p \o <<i>>]]
<1>2. \A i \in 1 .. n : h[p \o <<i>>] \in X
  BY DEF Below
<1>3. n \in Nat /\ s \in [1 .. n -> X]
  BY <1>1, <1>2
<1>4. \A i \in 1 .. n : s[i] = h[p \o <<i>>]
  OBVIOUS
<1>5. Each(f, p, h) = s
  BY DEF Each
<1> HIDE DEF n, s
<1>6. s \in Seq(X) /\ Len(s) = n
  BY <1>3
<1> QED BY <1>1, <1>2, <1>4, <1>5, <1>6 DEF n

LEMMA MadeIsExpression ==
    ASSUME NEW f, IsFilter(f), NEW default, NEW T, IsAlphabet(T),
           Leaves(f, default) \subseteq T, NEW p \in DOMAIN f,
           NEW h, Below(f, p, h, Expressions(T))
    PROVE  Made(f, p, h, default) \in Expressions(T)
<1>1. CASE f[p].kind \in Combinators
  <2> DEFINE e == Each(f, p, h)
  <2>1. /\ e \in Seq(Expressions(T)) /\ Len(e) = f[p].size
        /\ f[p].kind = "not" => f[p].size = 1
    BY <1>1, EachIs
  <2> HIDE DEF e
  <2>2. /\ Chain("AND", e, TRUE) \in Expressions(T)
        /\ Chain("OR", e, FALSE) \in Expressions(T)
    BY <2>1, ChainIsExpression DEF Operators
  <2>3. f[p].kind = "not" => e[1] \in Expressions(T)
    BY <2>1
  <2>4. f[p].kind = "not" => Negation(e[1]) \in Expressions(T)
    <3>1. "AND" \in Operators
      BY DEF Operators
    <3> QED BY <2>3, <3>1, OpIsExpression
  <2> QED BY <1>1, <2>2, <2>4 DEF Made, Combinators, e
<1>2. CASE f[p].kind \notin Combinators
  <2>1. Made(f, p, h, default) = Predicated(f[p], default)
    BY <1>2 DEF Made, Combinators
  <2> DEFINE q == Predicated(f[p], default).tokens[1]
  <2>2. q \in T
    BY DEF Leaves
  <2>3. Predicated(f[p], default) = Expression(q)
    BY DEF Predicated, Expression
  <2> HIDE DEF q
  <2>4. <<q>> \in Seq(T)
    BY <2>2
  <2>5. Expression(q) \in Expressions(T)
    BY <2>4 DEF Expression, Expressions
  <2> QED BY <2>1, <2>3, <2>5
<1> QED BY <1>1, <1>2

LEMMA MakingExists ==
    ASSUME NEW f, IsFilter(f), NEW default, NEW T, IsAlphabet(T),
           Leaves(f, default) \subseteq T
    PROVE  \E e \in [DOMAIN f -> Expressions(T)] : Making(e, f, default)
<1> DEFINE D == DOMAIN f
           S == Expressions(T)
           F == [p \in D |-> [h \in [D -> S] |-> Made(f, p, h, default)]]
<1>1. F \in [D -> [[D -> S] -> S]]
  BY AllBelow, MadeIsExpression
<1>2. ASSUME NEW p \in D, NEW g \in [D -> S], NEW h \in [D -> S],
             f[p].kind \in Combinators =>
               \A i \in 1 .. f[p].size : g[p \o <<i>>] = h[p \o <<i>>]
      PROVE  F[p][g] = F[p][h]
  <2>1. Made(f, p, g, default) = Made(f, p, h, default)
    <3>1. CASE f[p].kind \in Combinators
      <4>1. Each(f, p, g) = Each(f, p, h)
        BY <1>2, <3>1 DEF Each
      <4> QED BY <4>1 DEF Made
    <3>2. CASE f[p].kind \notin Combinators
      BY <3>2 DEF Made, Combinators
    <3> QED BY <3>1, <3>2
  <2>2. F[p][g] = Made(f, p, g, default) /\ F[p][h] = Made(f, p, h, default)
    OBVIOUS
  <2> QED BY <2>1, <2>2
<1>3. S # {}
  <2>1. ReadsAs(Constant(TRUE), T, TRUE, Truth(TRUE))
    BY ConstantReads
  <2> QED BY <2>1 DEF ReadsAs
<1>4. FromBelow(f, S, F)
  <2> HIDE DEF F, S
  <2> QED BY <1>1, <1>2 DEF FromBelow
<1>5. PICK e \in [D -> S] : \A p \in D : e[p] = F[p][e]
  <2> HIDE DEF F, S
  <2>1. Defined(f, S, F)
    BY <1>3, <1>4, TreeRecursion
  <2> QED BY <2>1 DEF Defined
<1>6. \A p \in D : F[p][e] = Made(f, p, e, default)
  OBVIOUS
<1>7. e = [p \in D |-> Made(f, p, e, default)]
  <2> HIDE DEF F
  <2> QED BY <1>5, <1>6
<1> QED BY <1>7 DEF Making

LEMMA SaidIs ==
    ASSUME NEW f, IsFilter(f), NEW in, NEW default, NEW env, NEW p \in DOMAIN f,
           NEW h, Below(f, p, h, Truths)
    PROVE  /\ Said(f, p, h, in, default, env) \in Truths
           /\ f[p].kind \in Combinators =>
                /\ \A i \in 1 .. f[p].size : Each(f, p, h)[i] \in Truths
                /\ f[p].kind = "and" =>
                     Said(f, p, h, in, default, env)
                       = Folded("AND", Each(f, p, h), f[p].size)
                /\ f[p].kind = "or" =>
                     Said(f, p, h, in, default, env)
                       = Folded("OR", Each(f, p, h), f[p].size)
                /\ f[p].kind = "not" =>
                     Said(f, p, h, in, default, env) = True - Each(f, p, h)[1]
           /\ f[p].kind \notin Combinators =>
                Said(f, p, h, in, default, env) = MeansTest(f[p], in, default, env)
<1> DEFINE said == Said(f, p, h, in, default, env)
           v == Each(f, p, h)
           n == f[p].size
<1>1. ASSUME f[p].kind \in Combinators
      PROVE  /\ \A i \in 1 .. n : v[i] \in Truths /\ v[i] = h[p \o <<i>>]
             /\ n \in Nat /\ (f[p].kind = "not" => n = 1)
  <2>1. /\ n \in Nat /\ (f[p].kind = "not" => n = 1)
        /\ \A i \in 1 .. n : h[p \o <<i>>] \in Truths /\ v[i] = h[p \o <<i>>]
    BY <1>1, EachIs
  <2> QED BY <2>1
<1>2. ASSUME f[p].kind \in Combinators
      PROVE  /\ said \in Truths
             /\ f[p].kind = "and" => said = Folded("AND", v, n)
             /\ f[p].kind = "or" => said = Folded("OR", v, n)
             /\ f[p].kind = "not" => said = True - v[1]
  <2> DEFINE each == {h[p \o <<i>>] : i \in 1 .. n}
  <2>1. each = {v[i] : i \in 1 .. n}
    BY <1>1, <1>2
  <2> HIDE DEF v
  <2>2. \A k \in Operators : Folded(k, v, n) \in Truths
    <3>1. n \in Nat /\ \A j \in 1 .. n : v[j] \in Truths
      BY <1>1, <1>2
    <3> QED BY <3>1, FoldedSteps
  <2>3. Upon("AND", v, n) = {True} \cup each /\ Upon("OR", v, n) = {False} \cup each
    BY <2>1 DEF Upon
  <2>4. /\ Folded("AND", v, n) = Min({True} \cup each)
        /\ Folded("OR", v, n) = Max({False} \cup each)
    BY <2>3 DEF Folded
  <2>5. f[p].kind = "not" => v[1] \in Truths /\ v[1] = h[p \o <<1>>]
    BY <1>1, <1>2
  <2>6. f[p].kind = "not" => True - v[1] \in Truths
    BY <2>5 DEF Truths, True
  <2> HIDE DEF each
  <2>7. said = CASE f[p].kind = "and" -> Min({True} \cup each)
                 [] f[p].kind = "or" -> Max({False} \cup each)
                 [] f[p].kind = "not" -> True - h[p \o <<1>>]
                 [] OTHER -> MeansTest(f[p], in, default, env)
    BY DEF Said, each
  <2> HIDE DEF n, said
  <2> QED BY <1>2, <2>2, <2>4, <2>5, <2>6, <2>7 DEF Combinators, Operators
<1>3. ASSUME f[p].kind \notin Combinators
      PROVE  said = MeansTest(f[p], in, default, env) /\ said \in Truths
  <2>1. said = MeansTest(f[p], in, default, env)
    BY <1>3 DEF Said, Combinators
  <2>2. MeansTest(f[p], in, default, env) \in Truths
    BY PredicateIsTruth DEF MeansTest
  <2> QED BY <2>1, <2>2
<1> QED BY <1>1, <1>2, <1>3

LEMMA SayingExists ==
    ASSUME NEW f, IsFilter(f), NEW in, NEW default, NEW env
    PROVE  \E m \in [DOMAIN f -> Truths] : Saying(m, f, in, default, env)
<1> DEFINE D == DOMAIN f
           F == [p \in D |-> [h \in [D -> Truths] |-> Said(f, p, h, in, default, env)]]
<1>1. F \in [D -> [[D -> Truths] -> Truths]]
  BY AllBelow, SaidIs
<1>2. ASSUME NEW p \in D, NEW g \in [D -> Truths], NEW h \in [D -> Truths],
             f[p].kind \in Combinators =>
               \A i \in 1 .. f[p].size : g[p \o <<i>>] = h[p \o <<i>>]
      PROVE  F[p][g] = F[p][h]
  <2>1. Said(f, p, g, in, default, env) = Said(f, p, h, in, default, env)
    <3>1. CASE f[p].kind \in Combinators
      <4>1. {g[p \o <<i>>] : i \in 1 .. f[p].size} = {h[p \o <<i>>] : i \in 1 .. f[p].size}
        BY <1>2, <3>1
      <4>2. f[p].kind = "not" => g[p \o <<1>>] = h[p \o <<1>>]
        <5>1. f[p].kind = "not" => f[p].size = 1
          BY <3>1 DEF IsFilter
        <5> QED BY <1>2, <3>1, <5>1
      <4> QED BY <4>1, <4>2 DEF Said
    <3>2. CASE f[p].kind \notin Combinators
      BY <3>2 DEF Said, Combinators
    <3> QED BY <3>1, <3>2
  <2>2. /\ F[p][g] = Said(f, p, g, in, default, env)
        /\ F[p][h] = Said(f, p, h, in, default, env)
    OBVIOUS
  <2> QED BY <2>1, <2>2
<1>3. Truths # {}
  BY DEF Truths
<1>4. FromBelow(f, Truths, F)
  <2> HIDE DEF F, Truths
  <2> QED BY <1>1, <1>2 DEF FromBelow
<1>5. PICK m \in [D -> Truths] : \A p \in D : m[p] = F[p][m]
  <2> HIDE DEF F, Truths
  <2>1. Defined(f, Truths, F)
    BY <1>3, <1>4, TreeRecursion
  <2> QED BY <2>1 DEF Defined
<1>6. \A p \in D : F[p][m] = Said(f, p, m, in, default, env)
  OBVIOUS
<1>7. m = [p \in D |-> Said(f, p, m, in, default, env)]
  <2> HIDE DEF F
  <2> QED BY <1>5, <1>6
<1> QED BY <1>7 DEF Saying

(* Every node is rendered as what it means. *)
LEMMA FilterReads ==
    ASSUME NEW f, IsFilter(f), NEW in, NEW default, NEW env,
           NEW T, IsAlphabet(T), Leaves(Filled(f, in), default) \subseteq T
    PROVE  ReadsAs(IntoExpr(Filled(f, in), default), T, env, Means(f, in, default, env))
<1> DEFINE g == Filled(f, in)
           D == DOMAIN f
           e == CHOOSE x : Making(x, g, default)
           m == CHOOSE x : Saying(x, f, in, default, env)
           Wrong == {p \in D : ~ReadsAs(e[p], T, env, m[p])}
           X == Expressions(T)
<1>1. IsFilter(g) /\ DOMAIN g = D
  BY FilledIsFilter
<1>2. ASSUME NEW p \in D PROVE FilledAs(f[p], g[p], in)
  BY FilledNode
<1>3. /\ IntoExpr(g, default) = e[<<>>] /\ Means(f, in, default, env) = m[<<>>]
      /\ <<>> \in D
  <2>1. <<>> \in D
    BY DEF IsFilter
  <2> HIDE DEF g
  <2> QED BY <2>1, IntoExprIs, MeansIs
<1>4. Making(e, g, default)
  <2>1. \E x \in [DOMAIN g -> X] : Making(x, g, default)
    <3>1. Leaves(g, default) \subseteq T
      OBVIOUS
    <3> HIDE DEF g
    <3> QED BY <1>1, <3>1, MakingExists
  <2> HIDE DEF g
  <2> QED BY <2>1
<1>5. Saying(m, f, in, default, env)
  BY SayingExists
<1>6. ASSUME NEW p \in D
      PROVE  e[p] = Made(g, p, e, default) /\ m[p] = Said(f, p, m, in, default, env)
  <2> HIDE DEF g, e, m
  <2> QED BY <1>1, <1>4, <1>5 DEF Making, Saying
<1>7. Leaves(g, default) \subseteq T
  OBVIOUS
<1> HIDE DEF e, m
<1>8. ASSUME NEW p \in D, f[p].kind \in Combinators,
             \A i \in 1 .. f[p].size : ReadsAs(e[p \o <<i>>], T, env, m[p \o <<i>>])
      PROVE  ReadsAs(e[p], T, env, m[p])
  <2>1. FilledAs(f[p], g[p], in) /\ g[p] = f[p]
    BY <1>2, <1>8 DEF FilledAs
  <2> HIDE DEF g
  <2> DEFINE n == f[p].size
             each == Each(g, p, e)
             v == Each(f, p, m)
  <2>2. Below(g, p, e, X) /\ Below(f, p, m, Truths)
    BY <1>8, <2>1 DEF Below, ReadsAs
  <2>3. /\ each \in Seq(X) /\ Len(each) = n
        /\ n \in Nat /\ (f[p].kind = "not" => n = 1)
        /\ \A i \in 1 .. n : each[i] = e[p \o <<i>>]
    <3>1. p \in DOMAIN g /\ g[p].kind \in Combinators
      BY <1>1, <1>8, <2>1
    <3> HIDE DEF X
    <3> QED BY <1>1, <2>1, <2>2, <3>1, EachIs
  <2>4. \A i \in 1 .. n : v[i] = m[p \o <<i>>]
    BY DEF Each
  <2>5. /\ f[p].kind = "and" => m[p] = Folded("AND", v, n)
        /\ f[p].kind = "or" => m[p] = Folded("OR", v, n)
        /\ f[p].kind = "not" => m[p] = True - v[1]
    <3>1. p \in DOMAIN f /\ f[p].kind \in Combinators /\ Below(f, p, m, Truths)
      BY <1>8, <2>2
    <3>2. m[p] = Said(f, p, m, in, default, env)
      BY <1>6
    <3> HIDE DEF v, D, n
    <3>3. /\ f[p].kind = "and" =>
               Said(f, p, m, in, default, env)
                 = Folded("AND", Each(f, p, m), f[p].size)
          /\ f[p].kind = "or" =>
               Said(f, p, m, in, default, env)
                 = Folded("OR", Each(f, p, m), f[p].size)
          /\ f[p].kind = "not" =>
               Said(f, p, m, in, default, env) = True - Each(f, p, m)[1]
      BY <3>1, SaidIs
    <3> QED BY <3>2, <3>3 DEF v, n
  <2> HIDE DEF each, v
  <2>6. \A i \in 1 .. n : ReadsAs(each[i], T, env, v[i])
    BY <1>8, <2>3, <2>4
  <2>7. AllRead(each, T, env, v)
    BY <2>3, <2>6 DEF AllRead
  <2>8. /\ f[p].kind = "and" => e[p] = Chain("AND", each, TRUE)
        /\ f[p].kind = "or" => e[p] = Chain("OR", each, FALSE)
        /\ f[p].kind = "not" => e[p] = Negation(each[1])
    <3>1. e[p] = Made(g, p, e, default)
      BY <1>6
    <3> QED BY <2>1, <3>1 DEF Made, each
  <2>9. CASE f[p].kind = "and"
    <3>1. "AND" \in Operators /\ ("AND" = "AND") = TRUE
      BY DEF Operators
    <3>2. ReadsAs(Chain("AND", each, "AND" = "AND"), T, env, Folded("AND", v, Len(each)))
      BY <2>7, <3>1, ChainReads
    <3> QED BY <2>3, <2>5, <2>8, <2>9, <3>1, <3>2
  <2>10. CASE f[p].kind = "or"
    <3>1. "OR" \in Operators /\ ("OR" = "AND") = FALSE
      BY DEF Operators
    <3>2. ReadsAs(Chain("OR", each, "OR" = "AND"), T, env, Folded("OR", v, Len(each)))
      BY <2>7, <3>1, ChainReads
    <3> QED BY <2>3, <2>5, <2>8, <2>10, <3>1, <3>2
  <2>11. CASE f[p].kind = "not"
    <3>1. ReadsAs(each[1], T, env, v[1])
      BY <2>3, <2>6, <2>11
    <3>2. ReadsAs(Negation(each[1]), T, env, True - v[1])
      BY <3>1, NegationReads
    <3> QED BY <2>5, <2>8, <2>11, <3>2
  <2> QED BY <1>8, <2>9, <2>10, <2>11 DEF Combinators
<1>9. ASSUME NEW p \in D, f[p].kind \notin Combinators
      PROVE  ReadsAs(e[p], T, env, m[p])
  <2> DEFINE q == Predicated(g[p], default).tokens[1]
  <2>1. /\ Predicated(g[p], default) = Expression(q) /\ q.k = "leaf"
        /\ Predicate(q, env) = MeansTest(f[p], in, default, env)
    BY <1>9, PredicatedReads
  <2>2. q \in T
    <3> HIDE DEF g
    <3> QED BY <1>1, <1>7 DEF Leaves
  <2>3. g[p].kind = f[p].kind
    BY <1>2 DEF FilledAs
  <2> HIDE DEF g
  <2>4. e[p] = Predicated(g[p], default)
    BY <1>6, <1>9, <2>3 DEF Made, Combinators
  <2>5. m[p] = MeansTest(f[p], in, default, env)
    BY <1>6, <1>9 DEF Said, Combinators
  <2> HIDE DEF q
  <2>6. ReadsAs(Expression(q), T, env, Predicate(q, env))
    BY <2>1, <2>2, LeafReads
  <2> QED BY <2>1, <2>4, <2>5, <2>6
<1>10. Wrong = {}
  <2> SUFFICES ASSUME Wrong # {} PROVE FALSE
    OBVIOUS
  <2>1. PICK h \in Nat : \A p \in D : Len(p) \in 0 .. h
    BY PathsAreBounded
  <2> DEFINE Heights == {h - Len(p) : p \in Wrong}
  <2>2. PICK p \in Wrong : \A r \in Wrong : h - Len(p) <= h - Len(r)
    <3>1. Heights \subseteq Nat /\ Heights # {}
      BY <2>1
    <3>2. PICK x \in Heights : \A y \in Heights : x <= y
      <4> HIDE DEF Heights
      <4> QED BY <3>1, SmallestPlace
    <3>3. PICK p \in Wrong : x = h - Len(p)
      BY <3>2
    <3> HIDE DEF Wrong
    <3> QED BY <3>2, <3>3
  <2>3. p \in D
    OBVIOUS
  <2>4. ASSUME f[p].kind \in Combinators, NEW i \in 1 .. f[p].size
        PROVE  ReadsAs(e[p \o <<i>>], T, env, m[p \o <<i>>])
    <3>1. p \in Seq(Nat) /\ f[p].size \in Nat /\ p \o <<i>> \in D
      BY <2>3, <2>4 DEF IsFilter
    <3>2. Len(p \o <<i>>) = Len(p) + 1 /\ Len(p) \in Nat
      BY <3>1, PathBelow
    <3>3. ~(h - Len(p) <= h - Len(p \o <<i>>))
      BY <2>1, <3>2
    <3>4. p \o <<i>> \notin Wrong
      <4> HIDE DEF Wrong
      <4> QED BY <2>2, <3>3
    <3> QED BY <3>1, <3>4
  <2>5. ReadsAs(e[p], T, env, m[p])
    BY <1>8, <1>9, <2>3, <2>4
  <2> QED BY <2>2, <2>5
<1>11. ReadsAs(e[<<>>], T, env, m[<<>>])
  BY <1>3, <1>10
<1> QED BY <1>3, <1>11

-----------------------------------------------------------------------------
(***************************************************************************)
(* The inductive invariant.                                                *)
(***************************************************************************)
IsSeq(s) == s \in Seq(Range(s))

(* The builder's filters and joins are those asked for, in its terms. *)
AskedFilters(b, a) ==
    /\ IsSeq(a.filters) /\ IsSeq(b.filters) /\ Len(b.filters) = Len(a.filters)
    /\ \A i \in 1 .. Len(a.filters) :
         /\ IsFilter(a.filters[i][1])
         /\ b.filters[i] =
              IntoExpr(Filled(a.filters[i][1], a.filters[i][2]), b.entity.table)

AskedJoins(b, a) ==
    /\ IsSeq(a.on) /\ IsSeq(b.joins) /\ Len(b.joins) = Len(a.on)
    /\ \A i \in 1 .. Len(a.on) :
         IsJoin(a.on[i]) /\ b.joins[i] = IntoJoinSpec(a.on[i], b.entity.table)

(* A target and an action; the columns of do_update_all are still those of
   the values. *)
Conflicts(b, a) ==
    /\ b.conflict # <<>> =>
         /\ b.conflict = <<b.conflict[1]>>
         /\ DOMAIN b.conflict[1] = {"target", "update", "columns"}
    /\ a.updateAll =>
         /\ b.conflict # <<>> /\ b.conflict[1].update
         /\ b.conflict[1].columns = UpdateColumns(b)

Inserts(b) ==
    b.kind = "insert" =>
      IsSeq(b.values) /\ Settable(b.entity.table, Values \cup Range(b.values))

Shape(b, a) ==
    /\ DOMAIN b = DOMAIN NoBuilder /\ DOMAIN a = {"filters", "on", "updateAll"}
    /\ b.kind = "none" => b = NoBuilder
    /\ b.kind # "none" => b.entity.table \in DOMAIN Tables
    /\ b.calls \in Nat /\ (b.calls = 0 => b.conflict = <<>>)
    /\ b.offset \in Nat /\ (b.limit = Null \/ b.limit \in Nat)
    /\ IsSeq(b.order)

(* What the statement of a builder makes of the tables. *)
RunOn(d, b) ==
    CASE b.kind = "insert" -> Insert(d, Statement(b))
      [] b.kind = "update" -> Update(d, Statement(b))
      [] b.kind = "delete" -> Delete(d, Statement(b))
      [] b.kind = "select" -> Done(d, Page(d, Statement(b)))

Outcomes ==
    /\ outcome.kind = "none" => db = Tables
    /\ outcome.kind # "none" => builder.kind # "none"
    /\ outcome.kind = "done" =>
         LET run == RunOn(Tables, builder)
         IN  /\ ~Refuses(builder) /\ run.ok /\ outcome.before = Tables
             /\ db = run.db /\ outcome.rows = run.rows

IInv ==
    /\ Shape(builder, asked) /\ AskedFilters(builder, asked)
    /\ AskedJoins(builder, asked) /\ Conflicts(builder, asked)
    /\ Inserts(builder) /\ Outcomes

LEMMA AppendIsSeq ==
    ASSUME NEW s, IsSeq(s), NEW e
    PROVE  /\ IsSeq(Append(s, e)) /\ Len(Append(s, e)) = Len(s) + 1 /\ Len(s) \in Nat
           /\ \A i \in 1 .. Len(s) : Append(s, e)[i] = s[i]
           /\ Append(s, e)[Len(s) + 1] = e
           /\ Range(Append(s, e)) = Range(s) \cup {e}
<1> DEFINE S == Range(s) \cup {e}
           t == Append(s, e)
<1>1. s \in Seq(S) /\ e \in S /\ Len(s) \in Nat
  BY DEF IsSeq
<1>2. /\ t \in Seq(S) /\ Len(t) = Len(s) + 1
      /\ \A i \in 1 .. Len(s) : t[i] = s[i]
      /\ t[Len(s) + 1] = e
  <2> HIDE DEF S
  <2> QED BY <1>1, AppendProperties
<1> HIDE DEF t
<1>3. t \in Seq(Range(t))
  <2> HIDE DEF S
  <2> QED BY <1>2, SeqIsWithin
<1>4. DOMAIN t = 1 .. Len(s) + 1 /\ DOMAIN s = 1 .. Len(s)
  BY <1>1, <1>2
<1>5. Range(t) = Range(s) \cup {e}
  <2>1. \A i \in 1 .. Len(s) + 1 : i \in 1 .. Len(s) \/ i = Len(s) + 1
    BY <1>1
  <2>2. Len(s) + 1 \in 1 .. Len(s) + 1 /\ 1 .. Len(s) \subseteq 1 .. Len(s) + 1
    BY <1>1
  <2>3. ASSUME NEW x \in Range(t) PROVE x \in Range(s) \cup {e}
    BY <1>2, <1>4, <2>1, <2>3 DEF Range
  <2>4. ASSUME NEW x \in Range(s) PROVE x \in Range(t)
    <3>1. PICK i \in DOMAIN s : s[i] = x
      BY <2>4 DEF Range
    <3>2. i \in DOMAIN t /\ t[i] = x
      BY <1>2, <1>4, <2>2, <3>1
    <3> QED BY <3>2 DEF Range
  <2>5. e \in Range(t)
    BY <1>2, <1>4, <2>2 DEF Range
  <2> QED BY <2>3, <2>4, <2>5
<1> QED BY <1>1, <1>2, <1>3, <1>5 DEF IsSeq, t

LEMMA EmptyIsSeq == IsSeq(<<>>) /\ Len(<<>>) = 0 /\ Range(<<>>) = {}
BY DEF IsSeq, Range

LEMMA InitInvariant == Init => IInv
<1> SUFFICES ASSUME Init PROVE IInv
  OBVIOUS
<1>1. /\ db = Tables /\ builder = NoBuilder /\ outcome = Nothing
      /\ asked = [filters |-> <<>>, on |-> <<>>, updateAll |-> FALSE]
  BY DEF Init
<1>2. /\ builder.kind = "none" /\ builder.filters = <<>> /\ builder.conflict = <<>>
      /\ builder.joins = <<>> /\ builder.order = <<>> /\ builder.limit = Null
      /\ builder.offset = 0 /\ builder.calls = 0 /\ DOMAIN builder = DOMAIN NoBuilder
  BY <1>1 DEF NoBuilder, NewBuilder
<1>3. /\ asked.filters = <<>> /\ asked.on = <<>> /\ ~asked.updateAll
      /\ DOMAIN asked = {"filters", "on", "updateAll"}
  BY <1>1
<1>4. Shape(builder, asked)
  BY <1>1, <1>2, <1>3, EmptyIsSeq DEF Shape
<1>5. AskedFilters(builder, asked) /\ AskedJoins(builder, asked)
  BY <1>2, <1>3, EmptyIsSeq DEF AskedFilters, AskedJoins
<1>6. Conflicts(builder, asked) /\ Inserts(builder)
  BY <1>2, <1>3 DEF Conflicts, Inserts
<1>7. Outcomes
  <2>1. outcome.kind = "none"
    BY <1>1 DEF Nothing
  <2> QED BY <1>1, <2>1 DEF Outcomes
<1> QED BY <1>4, <1>5, <1>6, <1>7 DEF IInv

LEMMA NewInvariant ==
    ASSUME IInv, NEW kind \in {"select", "insert", "update", "delete"}, NEW entity,
           New(kind, entity), entity.table \in DOMAIN Tables,
           kind = "select" =>
             IsSeq(entity.joins) /\ \A j \in Range(entity.joins) : IsJoin(j),
           kind = "insert" => Settable(entity.table, Values)
    PROVE  IInv'
<1> DEFINE b == NewBuilder(kind, entity)
           n == Len(entity.joins)
           joins == IF kind # "select" THEN <<>> ELSE
                      [i \in DOMAIN entity.joins |->
                         IntoJoinSpec(entity.joins[i], entity.table)]
           c == [b EXCEPT !.joins = joins]
           on == IF kind = "select" THEN entity.joins ELSE <<>>
           a == [asked EXCEPT !.on = on]
<1>1. builder.kind = "none" /\ builder' = c /\ asked' = a /\ db' = db /\ outcome' = outcome
  BY DEF New
<1>2. /\ Shape(builder, asked) /\ AskedFilters(builder, asked)
      /\ Conflicts(builder, asked) /\ Outcomes
  BY DEF IInv
<1>3. builder = NoBuilder /\ DOMAIN asked = {"filters", "on", "updateAll"}
  BY <1>1, <1>2 DEF Shape
<1>4. builder.filters = <<>> /\ builder.conflict = <<>>
  BY <1>3 DEF NoBuilder, NewBuilder
<1>5. /\ b.kind = kind /\ b.entity = entity /\ b.values = <<>>
      /\ b.filters = <<>> /\ b.conflict = <<>>
      /\ b.order = <<>> /\ b.limit = Null /\ b.offset = 0 /\ b.calls = 0
      /\ DOMAIN b = DOMAIN NoBuilder /\ "joins" \in DOMAIN b
  BY DEF NewBuilder, NoBuilder
<1> HIDE DEF b, joins
<1>6. /\ c.kind = kind /\ c.entity = entity /\ c.values = <<>>
      /\ c.filters = <<>> /\ c.conflict = <<>> /\ c.joins = joins
      /\ c.order = <<>> /\ c.limit = Null /\ c.offset = 0 /\ c.calls = 0
      /\ DOMAIN c = DOMAIN NoBuilder
  BY <1>5
<1>7. /\ a.filters = asked.filters /\ a.on = on /\ a.updateAll = asked.updateAll
      /\ DOMAIN a = {"filters", "on", "updateAll"}
  BY <1>3
<1> HIDE DEF c, a
<1>8. Shape(c, a)
  BY <1>6, <1>7, EmptyIsSeq DEF Shape
<1>9. AskedFilters(c, a)
  <2>1. IsSeq(asked.filters) /\ Len(asked.filters) = 0
    BY <1>2, <1>4, EmptyIsSeq DEF AskedFilters
  <2> QED BY <1>6, <1>7, <2>1, EmptyIsSeq DEF AskedFilters
<1>10. AskedJoins(c, a)
  <2>1. CASE kind # "select"
    BY <1>6, <1>7, <2>1, EmptyIsSeq DEF AskedJoins, joins
  <2>2. CASE kind = "select"
    <3> DEFINE R == {IntoJoinSpec(entity.joins[i], entity.table) : i \in 1 .. n}
    <3>1. /\ IsSeq(entity.joins) /\ n \in Nat /\ DOMAIN entity.joins = 1 .. n
          /\ \A i \in 1 .. n : IsJoin(entity.joins[i])
      BY <2>2 DEF IsSeq, Range
    <3>2. joins = [i \in 1 .. n |-> IntoJoinSpec(entity.joins[i], entity.table)]
      BY <2>2, <3>1 DEF joins
    <3>3. joins \in [1 .. n -> R]
      BY <3>2
    <3>4. joins \in Seq(R) /\ Len(joins) = n
      <4> HIDE DEF R
      <4> QED BY <3>1, <3>3
    <3>5. IsSeq(joins)
      <4> HIDE DEF R
      <4> QED BY <3>4, SeqIsWithin DEF IsSeq
    <3>6. on = entity.joins
      BY <2>2
    <3> QED BY <1>6, <1>7, <3>1, <3>2, <3>4, <3>5, <3>6 DEF AskedJoins
  <2> QED BY <2>1, <2>2
<1>11. Conflicts(c, a)
  BY <1>2, <1>4, <1>6, <1>7 DEF Conflicts
<1>12. Inserts(c)
  <2>1. Range(<<>>) = {} /\ IsSeq(<<>>)
    BY EmptyIsSeq
  <2> QED BY <1>6, <2>1 DEF Inserts
<1>13. Outcomes'
  <2>1. outcome.kind = "none"
    BY <1>1, <1>2 DEF Outcomes
  <2> QED BY <1>1, <1>2, <2>1 DEF Outcomes
<1>14. (Shape(builder, asked))' /\ (AskedFilters(builder, asked))'
  BY <1>1, <1>8, <1>9
<1>15. (AskedJoins(builder, asked))' /\ (Conflicts(builder, asked))' /\ Inserts(builder)'
  BY <1>1, <1>10, <1>11, <1>12
<1> QED BY <1>13, <1>14, <1>15 DEF IInv

LEMMA FromEntityInvariant ==
    ASSUME IInv, NEW o \in Objects, FromEntity(o.entity, o.object)
    PROVE  IInv'
<1> DEFINE b == NewBuilder("insert", o.entity)
           pairs == ToValues(o.entity, o.object)
           c == [b EXCEPT !.values = pairs]
<1>1. builder.kind = "none" /\ builder' = c /\ UNCHANGED <<db, asked, outcome>>
  BY DEF FromEntity
<1>2. /\ Shape(builder, asked) /\ AskedFilters(builder, asked)
      /\ AskedJoins(builder, asked) /\ Conflicts(builder, asked) /\ Outcomes
  BY DEF IInv
<1>3. builder = NoBuilder /\ DOMAIN asked = {"filters", "on", "updateAll"}
  BY <1>1, <1>2 DEF Shape
<1>4. builder.filters = <<>> /\ builder.conflict = <<>> /\ builder.joins = <<>>
  BY <1>3 DEF NoBuilder, NewBuilder
<1>5. /\ b.kind = "insert" /\ b.entity = o.entity /\ b.joins = <<>>
      /\ b.filters = <<>> /\ b.conflict = <<>>
      /\ b.order = <<>> /\ b.limit = Null /\ b.offset = 0 /\ b.calls = 0
      /\ DOMAIN b = DOMAIN NoBuilder /\ "values" \in DOMAIN b
  BY DEF NewBuilder, NoBuilder
<1> HIDE DEF b, pairs
<1>6. /\ c.kind = "insert" /\ c.entity = o.entity /\ c.values = pairs
      /\ c.filters = <<>> /\ c.conflict = <<>> /\ c.joins = <<>>
      /\ c.order = <<>> /\ c.limit = Null /\ c.offset = 0 /\ c.calls = 0
      /\ DOMAIN c = DOMAIN NoBuilder
  BY <1>5
<1> HIDE DEF c
<1>7. /\ o.entity.table \in DOMAIN Tables
      /\ Settable(o.entity.table, Values \cup Range(pairs))
      /\ o.entity.fields \in Seq(Range(o.entity.fields))
  BY OrmAssumption DEF pairs, IsObject
<1>8. Shape(c, asked)
  BY <1>3, <1>6, <1>7, EmptyIsSeq DEF Shape
<1>9. AskedFilters(c, asked) /\ AskedJoins(c, asked)
  <2>1. /\ IsSeq(asked.filters) /\ Len(asked.filters) = 0
        /\ IsSeq(asked.on) /\ Len(asked.on) = 0
    BY <1>2, <1>4, EmptyIsSeq DEF AskedFilters, AskedJoins
  <2> QED BY <1>6, <2>1, EmptyIsSeq DEF AskedFilters, AskedJoins
<1>10. Conflicts(c, asked)
  BY <1>2, <1>4, <1>6 DEF Conflicts
<1>11. Inserts(c)
  <2> DEFINE fields == o.entity.fields
             n == Len(fields)
             R == {pairs[i] : i \in 1 .. n}
  <2>1. n \in Nat /\ DOMAIN fields = 1 .. n
    BY <1>7
  <2>2. pairs = [i \in 1 .. n |-> pairs[i]]
    BY <2>1 DEF pairs, ToValues
  <2>3. pairs \in [1 .. n -> R]
    BY <2>2
  <2>4. pairs \in Seq(R)
    <3> HIDE DEF R
    <3> QED BY <2>1, <2>3
  <2>5. IsSeq(pairs)
    <3> HIDE DEF R
    <3> QED BY <2>4, SeqIsWithin DEF IsSeq
  <2> QED BY <1>6, <1>7, <2>5 DEF Inserts
<1>12. Outcomes'
  <2>1. outcome.kind = "none"
    BY <1>1, <1>2 DEF Outcomes
  <2> QED BY <1>1, <1>2, <2>1 DEF Outcomes
<1>13. (Shape(builder, asked))' /\ (AskedFilters(builder, asked))'
  BY <1>1, <1>8, <1>9
<1>14. (AskedJoins(builder, asked))' /\ (Conflicts(builder, asked))' /\ Inserts(builder)'
  BY <1>1, <1>9, <1>10, <1>11
<1> QED BY <1>12, <1>13, <1>14 DEF IInv

(* A call leaves the tables alone; what it leaves of the builder is as
   before. *)
LEMMA CallInvariant ==
    ASSUME IInv, NEW kinds, "none" \notin kinds, NEW b, NEW a, Calls(kinds, b, a),
           DOMAIN b = DOMAIN NoBuilder, DOMAIN a = {"filters", "on", "updateAll"},
           b.kind = builder.kind, b.entity = builder.entity, b.calls = builder.calls,
           b.offset \in Nat, b.limit = Null \/ b.limit \in Nat, IsSeq(b.order),
           AskedFilters(b, a), AskedJoins(b, a), Conflicts(b, a), Inserts(b)
    PROVE  IInv'
<1> DEFINE c == [b EXCEPT !.calls = @ + 1]
<1>1. /\ builder.kind \in kinds /\ outcome.kind = "none"
      /\ builder' = c /\ asked' = a /\ db' = db /\ outcome' = outcome
  BY DEF Calls
<1>2. Shape(builder, asked) /\ Outcomes
  BY DEF IInv
<1>3. /\ {"kind", "entity", "values", "filters", "conflict", "joins", "order",
          "limit", "offset", "calls"} \subseteq DOMAIN b
  BY DEF NoBuilder, NewBuilder
<1>4. /\ c.kind = b.kind /\ c.entity = b.entity /\ c.values = b.values
      /\ c.filters = b.filters /\ c.conflict = b.conflict /\ c.joins = b.joins
      /\ c.order = b.order /\ c.limit = b.limit /\ c.offset = b.offset
      /\ c.calls = b.calls + 1 /\ DOMAIN c = DOMAIN NoBuilder
  BY <1>3
<1> HIDE DEF c
<1>5. Shape(c, a)
  <2>1. b.kind # "none" /\ b.entity.table \in DOMAIN Tables /\ b.calls \in Nat
    BY <1>1, <1>2 DEF Shape
  <2>2. c.calls \in Nat /\ c.calls # 0
    BY <1>4, <2>1
  <2> QED BY <1>4, <2>1, <2>2 DEF Shape
<1>6. AskedFilters(c, a) /\ AskedJoins(c, a) /\ Inserts(c)
  BY <1>4 DEF AskedFilters, AskedJoins, Inserts
<1>7. Conflicts(c, a)
  <2>1. UpdateColumns(c) = UpdateColumns(b)
    BY <1>4 DEF UpdateColumns
  <2> QED BY <1>4, <2>1 DEF Conflicts
<1>8. Outcomes'
  BY <1>1, <1>2 DEF Outcomes
<1>9. (Shape(builder, asked))' /\ (AskedFilters(builder, asked))'
  BY <1>1, <1>5, <1>6
<1>10. (AskedJoins(builder, asked))' /\ (Conflicts(builder, asked))' /\ Inserts(builder)'
  BY <1>1, <1>6, <1>7
<1> QED BY <1>8, <1>9, <1>10 DEF IInv

(* A builder that has been made, and what the invariant says of its parts. *)
LEMMA Parts ==
    ASSUME IInv
    PROVE  /\ DOMAIN builder = DOMAIN NoBuilder
           /\ {"kind", "entity", "values", "filters", "conflict", "joins", "order",
               "limit", "offset", "returning", "calls"} \subseteq DOMAIN builder
           /\ DOMAIN asked = {"filters", "on", "updateAll"}
           /\ builder.offset \in Nat /\ (builder.limit = Null \/ builder.limit \in Nat)
           /\ IsSeq(builder.order)
           /\ AskedFilters(builder, asked) /\ AskedJoins(builder, asked)
           /\ Conflicts(builder, asked) /\ Inserts(builder)
BY DEF IInv, Shape, NoBuilder, NewBuilder

LEMMA SetInvariant ==
    ASSUME IInv, NEW pair \in Values, Set(pair)
    PROVE  IInv'
<1> DEFINE b == [builder EXCEPT !.values = Append(@, pair)]
           a == [asked EXCEPT !.updateAll = FALSE]
<1>1. Calls({"insert", "update"}, b, a)
  BY DEF Set
<1>2. /\ DOMAIN b = DOMAIN NoBuilder
      /\ b.kind = builder.kind /\ b.entity = builder.entity /\ b.calls = builder.calls
      /\ b.filters = builder.filters /\ b.conflict = builder.conflict
      /\ b.joins = builder.joins /\ b.order = builder.order
      /\ b.limit = builder.limit /\ b.offset = builder.offset
      /\ b.values = Append(builder.values, pair)
  BY Parts
<1>3. /\ DOMAIN a = {"filters", "on", "updateAll"} /\ ~a.updateAll
      /\ a.filters = asked.filters /\ a.on = asked.on
  BY Parts
<1> HIDE DEF a, b
<1>4. AskedFilters(b, a) /\ AskedJoins(b, a)
  BY <1>2, <1>3, Parts DEF AskedFilters, AskedJoins
<1>5. Conflicts(b, a)
  BY <1>2, <1>3, Parts DEF Conflicts
<1>6. Inserts(b)
  <2> SUFFICES ASSUME b.kind = "insert"
               PROVE  /\ IsSeq(b.values)
                      /\ Settable(b.entity.table, Values \cup Range(b.values))
    BY DEF Inserts
  <2>1. /\ IsSeq(builder.values)
        /\ Settable(builder.entity.table, Values \cup Range(builder.values))
    BY <1>2, Parts DEF Inserts
  <2>2. IsSeq(b.values) /\ Range(b.values) = Range(builder.values) \cup {pair}
    BY <1>2, <2>1, AppendIsSeq
  <2>3. Values \cup Range(b.values) = Values \cup Range(builder.values)
    BY <2>2
  <2> QED BY <1>2, <2>1, <2>2, <2>3
<1>7. b.offset \in Nat /\ (b.limit = Null \/ b.limit \in Nat) /\ IsSeq(b.order)
  BY <1>2, Parts
<1>8. "none" \notin {"insert", "update"}
  OBVIOUS
<1> QED BY <1>1, <1>2, <1>3, <1>4, <1>5, <1>6, <1>7, <1>8, CallInvariant

LEMMA WhereInvariant ==
    ASSUME IInv, NEW f \in Filters, NEW in, WhereCall(f, in)
    PROVE  IInv'
<1> DEFINE x == IntoExpr(Filled(f, in), builder.entity.table)
           b == [builder EXCEPT !.filters = Append(@, x)]
           a == [asked EXCEPT !.filters = Append(@, <<f, in>>)]
           n == Len(asked.filters)
<1>1. Calls({"select", "update", "delete"}, b, a)
  BY DEF WhereCall, Filled
<1>2. /\ DOMAIN b = DOMAIN NoBuilder
      /\ b.kind = builder.kind /\ b.entity = builder.entity /\ b.calls = builder.calls
      /\ b.conflict = builder.conflict /\ b.values = builder.values
      /\ b.joins = builder.joins /\ b.order = builder.order
      /\ b.limit = builder.limit /\ b.offset = builder.offset
      /\ b.filters = Append(builder.filters, x)
  <2> HIDE DEF x
  <2> QED BY Parts
<1>3. /\ DOMAIN a = {"filters", "on", "updateAll"} /\ a.updateAll = asked.updateAll
      /\ a.filters = Append(asked.filters, <<f, in>>) /\ a.on = asked.on
  BY Parts
<1> HIDE DEF a, b
<1>4. AskedFilters(b, a)
  <2>1. /\ IsSeq(asked.filters) /\ IsSeq(builder.filters)
        /\ Len(builder.filters) = n
        /\ \A i \in 1 .. n :
             /\ IsFilter(asked.filters[i][1])
             /\ builder.filters[i] =
                  IntoExpr(Filled(asked.filters[i][1], asked.filters[i][2]),
                           builder.entity.table)
    BY Parts DEF AskedFilters
  <2>2. /\ IsSeq(a.filters) /\ Len(a.filters) = n + 1 /\ n \in Nat
        /\ \A i \in 1 .. n : a.filters[i] = asked.filters[i]
        /\ a.filters[n + 1] = <<f, in>>
    BY <1>3, <2>1, AppendIsSeq
  <2>3. /\ IsSeq(b.filters) /\ Len(b.filters) = n + 1
        /\ \A i \in 1 .. n : b.filters[i] = builder.filters[i]
        /\ b.filters[n + 1] = x
    <3> HIDE DEF x
    <3> QED BY <1>2, <2>1, AppendIsSeq
  <2>4. IsFilter(f)
    BY OrmAssumption
  <2>5. \A i \in 1 .. n + 1 : i \in 1 .. n \/ i = n + 1
    BY <2>2
  <2>6. ASSUME NEW i \in 1 .. n + 1
        PROVE  /\ IsFilter(a.filters[i][1])
               /\ b.filters[i] =
                    IntoExpr(Filled(a.filters[i][1], a.filters[i][2]), b.entity.table)
    <3>1. CASE i \in 1 .. n
      BY <1>2, <2>1, <2>2, <2>3, <3>1
    <3>2. CASE i = n + 1
      <4>1. a.filters[i][1] = f /\ a.filters[i][2] = in
        BY <2>2, <3>2
      <4>2. b.filters[i] = x
        BY <2>3, <3>2
      <4> QED BY <1>2, <2>4, <4>1, <4>2
    <3> QED BY <2>5, <3>1, <3>2
  <2> QED BY <2>2, <2>3, <2>6 DEF AskedFilters
<1>5. AskedJoins(b, a)
  BY <1>2, <1>3, Parts DEF AskedJoins
<1>6. Conflicts(b, a)
  <2>1. UpdateColumns(b) = UpdateColumns(builder)
    BY <1>2 DEF UpdateColumns
  <2> QED BY <1>2, <1>3, <2>1, Parts DEF Conflicts
<1>7. Inserts(b)
  BY <1>2, Parts DEF Inserts
<1>8. b.offset \in Nat /\ (b.limit = Null \/ b.limit \in Nat) /\ IsSeq(b.order)
  BY <1>2, Parts
<1>9. "none" \notin {"select", "update", "delete"}
  OBVIOUS
<1> QED BY <1>1, <1>2, <1>3, <1>4, <1>5, <1>6, <1>7, <1>8, <1>9, CallInvariant

LEMMA JoinInvariant ==
    ASSUME IInv, NEW join \in Joins, Join(join)
    PROVE  IInv'
<1> DEFINE x == IntoJoinSpec(join, builder.entity.table)
           b == [builder EXCEPT !.joins = Append(@, x)]
           a == [asked EXCEPT !.on = Append(@, join)]
           n == Len(asked.on)
<1>1. Calls({"select"}, b, a)
  BY DEF Join
<1>2. /\ DOMAIN b = DOMAIN NoBuilder
      /\ b.kind = builder.kind /\ b.entity = builder.entity /\ b.calls = builder.calls
      /\ b.conflict = builder.conflict /\ b.values = builder.values
      /\ b.filters = builder.filters /\ b.order = builder.order
      /\ b.limit = builder.limit /\ b.offset = builder.offset
      /\ b.joins = Append(builder.joins, x)
  <2> HIDE DEF x
  <2> QED BY Parts
<1>3. /\ DOMAIN a = {"filters", "on", "updateAll"} /\ a.updateAll = asked.updateAll
      /\ a.on = Append(asked.on, join) /\ a.filters = asked.filters
  BY Parts
<1> HIDE DEF a, b
<1>4. AskedJoins(b, a)
  <2>1. /\ IsSeq(asked.on) /\ IsSeq(builder.joins) /\ Len(builder.joins) = n
        /\ \A i \in 1 .. n :
             /\ IsJoin(asked.on[i])
             /\ builder.joins[i] = IntoJoinSpec(asked.on[i], builder.entity.table)
    BY Parts DEF AskedJoins
  <2>2. /\ IsSeq(a.on) /\ Len(a.on) = n + 1 /\ n \in Nat
        /\ \A i \in 1 .. n : a.on[i] = asked.on[i]
        /\ a.on[n + 1] = join
    BY <1>3, <2>1, AppendIsSeq
  <2>3. /\ IsSeq(b.joins) /\ Len(b.joins) = n + 1
        /\ \A i \in 1 .. n : b.joins[i] = builder.joins[i]
        /\ b.joins[n + 1] = x
    <3> HIDE DEF x
    <3> QED BY <1>2, <2>1, AppendIsSeq
  <2>4. IsJoin(join)
    BY OrmAssumption
  <2>5. \A i \in 1 .. n + 1 : i \in 1 .. n \/ i = n + 1
    BY <2>2
  <2>6. \A i \in 1 .. n + 1 :
          IsJoin(a.on[i]) /\ b.joins[i] = IntoJoinSpec(a.on[i], b.entity.table)
    <3> HIDE DEF n
    <3> QED BY <1>2, <2>1, <2>2, <2>3, <2>4, <2>5
  <2> QED BY <2>2, <2>3, <2>6 DEF AskedJoins
<1>5. AskedFilters(b, a)
  BY <1>2, <1>3, Parts DEF AskedFilters
<1>6. Conflicts(b, a)
  <2>1. UpdateColumns(b) = UpdateColumns(builder)
    BY <1>2 DEF UpdateColumns
  <2> QED BY <1>2, <1>3, <2>1, Parts DEF Conflicts
<1>7. Inserts(b)
  BY <1>2, Parts DEF Inserts
<1>8. b.offset \in Nat /\ (b.limit = Null \/ b.limit \in Nat) /\ IsSeq(b.order)
  BY <1>2, Parts
<1>9. "none" \notin {"select"}
  OBVIOUS
<1> QED BY <1>1, <1>2, <1>3, <1>4, <1>5, <1>6, <1>7, <1>8, <1>9, CallInvariant

(* order_by, limit, offset and returning leave alone what the invariant
   relates. *)
LEMMA OtherInvariant ==
    ASSUME IInv, NEW kinds, "none" \notin kinds, NEW b, Calls(kinds, b, asked),
           DOMAIN b = DOMAIN NoBuilder,
           b.kind = builder.kind, b.entity = builder.entity, b.calls = builder.calls,
           b.values = builder.values, b.filters = builder.filters,
           b.conflict = builder.conflict, b.joins = builder.joins,
           b.offset \in Nat, b.limit = Null \/ b.limit \in Nat, IsSeq(b.order)
    PROVE  IInv'
<1>1. DOMAIN asked = {"filters", "on", "updateAll"}
  BY Parts
<1>2. AskedFilters(b, asked) /\ AskedJoins(b, asked) /\ Inserts(b)
  BY Parts DEF AskedFilters, AskedJoins, Inserts
<1>3. Conflicts(b, asked)
  <2>1. UpdateColumns(b) = UpdateColumns(builder)
    BY DEF UpdateColumns
  <2> QED BY <2>1, Parts DEF Conflicts
<1> QED BY <1>1, <1>2, <1>3, CallInvariant

LEMMA OrderByInvariant ==
    ASSUME IInv, NEW column, NEW desc, OrderBy(column, desc)
    PROVE  IInv'
<1> DEFINE o == [by |-> Qualified(builder.entity.table, column), desc |-> desc]
           b == [builder EXCEPT !.order = Append(@, o)]
<1>1. Calls({"select"}, b, asked)
  BY DEF OrderBy
<1> HIDE DEF o
<1>2. /\ DOMAIN b = DOMAIN NoBuilder
      /\ b.kind = builder.kind /\ b.entity = builder.entity /\ b.calls = builder.calls
      /\ b.values = builder.values /\ b.filters = builder.filters
      /\ b.conflict = builder.conflict /\ b.joins = builder.joins
      /\ b.limit = builder.limit /\ b.offset = builder.offset
      /\ b.order = Append(builder.order, o)
  BY Parts
<1> HIDE DEF b
<1>3. b.offset \in Nat /\ (b.limit = Null \/ b.limit \in Nat)
  BY <1>2, Parts
<1>4. IsSeq(b.order)
  BY <1>2, Parts, AppendIsSeq
<1>5. "none" \notin {"select"}
  OBVIOUS
<1> QED BY <1>1, <1>2, <1>3, <1>4, <1>5, OtherInvariant

LEMMA LimitInvariant ==
    ASSUME IInv, NEW n \in Nat, Limit(n) \/ Offset(n)
    PROVE  IInv'
<1>1. CASE Limit(n)
  <2> DEFINE b == [builder EXCEPT !.limit = n]
  <2>1. Calls({"select"}, b, asked)
    BY <1>1 DEF Limit
  <2>2. /\ DOMAIN b = DOMAIN NoBuilder
        /\ b.kind = builder.kind /\ b.entity = builder.entity
        /\ b.calls = builder.calls
        /\ b.values = builder.values /\ b.filters = builder.filters
        /\ b.conflict = builder.conflict /\ b.joins = builder.joins
        /\ b.limit = n /\ b.offset = builder.offset /\ b.order = builder.order
    BY Parts
  <2> HIDE DEF b
  <2>3. b.offset \in Nat /\ (b.limit = Null \/ b.limit \in Nat) /\ IsSeq(b.order)
    BY <2>2, Parts
  <2>4. "none" \notin {"select"}
    OBVIOUS
  <2> QED BY <2>1, <2>2, <2>3, <2>4, OtherInvariant
<1>2. CASE Offset(n)
  <2> DEFINE b == [builder EXCEPT !.offset = n]
  <2>1. Calls({"select"}, b, asked)
    BY <1>2 DEF Offset
  <2>2. /\ DOMAIN b = DOMAIN NoBuilder
        /\ b.kind = builder.kind /\ b.entity = builder.entity
        /\ b.calls = builder.calls
        /\ b.values = builder.values /\ b.filters = builder.filters
        /\ b.conflict = builder.conflict /\ b.joins = builder.joins
        /\ b.limit = builder.limit /\ b.offset = n /\ b.order = builder.order
    BY Parts
  <2> HIDE DEF b
  <2>3. b.offset \in Nat /\ (b.limit = Null \/ b.limit \in Nat) /\ IsSeq(b.order)
    BY <2>2, Parts
  <2>4. "none" \notin {"select"}
    OBVIOUS
  <2> QED BY <2>1, <2>2, <2>3, <2>4, OtherInvariant
<1> QED BY <1>1, <1>2

LEMMA ReturningInvariant ==
    ASSUME IInv, NEW column, Returning(column)
    PROVE  IInv'
<1> DEFINE b == [builder EXCEPT !.returning = @ \cup {column}]
<1>1. Calls({"update", "delete"}, b, asked)
  BY DEF Returning
<1>2. /\ DOMAIN b = DOMAIN NoBuilder
      /\ b.kind = builder.kind /\ b.entity = builder.entity
      /\ b.calls = builder.calls
      /\ b.values = builder.values /\ b.filters = builder.filters
      /\ b.conflict = builder.conflict /\ b.joins = builder.joins
      /\ b.limit = builder.limit /\ b.offset = builder.offset
      /\ b.order = builder.order
  BY Parts
<1> HIDE DEF b
<1>3. b.offset \in Nat /\ (b.limit = Null \/ b.limit \in Nat) /\ IsSeq(b.order)
  BY <1>2, Parts
<1>4. "none" \notin {"update", "delete"}
  OBVIOUS
<1> QED BY <1>1, <1>2, <1>3, <1>4, OtherInvariant

(* An insert's target, or the action on it. *)
LEMMA ConflictInvariant ==
    ASSUME IInv, NEW c, NEW all \in BOOLEAN,
           DOMAIN c = {"target", "update", "columns"},
           all => c.update /\ c.columns =
                    UpdateColumns([builder EXCEPT !.conflict = <<c>>]),
           Calls({"insert"}, [builder EXCEPT !.conflict = <<c>>],
                 [asked EXCEPT !.updateAll = all])
    PROVE  IInv'
<1> DEFINE b == [builder EXCEPT !.conflict = <<c>>]
           a == [asked EXCEPT !.updateAll = all]
<1>1. Calls({"insert"}, b, a)
  OBVIOUS
<1>2. /\ DOMAIN b = DOMAIN NoBuilder
      /\ b.kind = builder.kind /\ b.entity = builder.entity
      /\ b.calls = builder.calls
      /\ b.values = builder.values /\ b.filters = builder.filters
      /\ b.conflict = <<c>> /\ b.joins = builder.joins
      /\ b.limit = builder.limit /\ b.offset = builder.offset
      /\ b.order = builder.order
  BY Parts
<1>3. /\ DOMAIN a = {"filters", "on", "updateAll"} /\ a.updateAll = all
      /\ a.filters = asked.filters /\ a.on = asked.on
  BY Parts
<1>4. all => c.update /\ c.columns = UpdateColumns(b)
  OBVIOUS
<1> HIDE DEF a, b
<1>5. AskedFilters(b, a) /\ AskedJoins(b, a) /\ Inserts(b)
  BY <1>2, <1>3, Parts DEF AskedFilters, AskedJoins, Inserts
<1>6. Conflicts(b, a)
  <2>1. b.conflict[1] = c /\ b.conflict # <<>>
    BY <1>2
  <2> QED BY <1>2, <1>3, <1>4, <2>1 DEF Conflicts
<1>7. b.offset \in Nat /\ (b.limit = Null \/ b.limit \in Nat) /\ IsSeq(b.order)
  BY <1>2, Parts
<1>8. "none" \notin {"insert"}
  OBVIOUS
<1> QED BY <1>1, <1>2, <1>3, <1>5, <1>6, <1>7, <1>8, CallInvariant

LEMMA OnConflictInvariant ==
    ASSUME IInv, NEW target, OnConflict(target)
    PROVE  IInv'
<1> DEFINE c == [target |-> target, update |-> FALSE, columns |-> {}]
           b == [builder EXCEPT !.conflict = <<c>>]
<1>1. builder.conflict = <<>> /\ Calls({"insert"}, b, asked)
  BY DEF OnConflict
<1>2. asked.updateAll # TRUE
  BY <1>1, Parts DEF Conflicts
<1>3. DOMAIN c = {"target", "update", "columns"}
  OBVIOUS
<1> HIDE DEF c
<1>4. /\ DOMAIN b = DOMAIN NoBuilder
      /\ b.kind = builder.kind /\ b.entity = builder.entity
      /\ b.calls = builder.calls
      /\ b.values = builder.values /\ b.filters = builder.filters
      /\ b.conflict = <<c>> /\ b.joins = builder.joins
      /\ b.limit = builder.limit /\ b.offset = builder.offset
      /\ b.order = builder.order
  BY Parts
<1> HIDE DEF b
<1>5. AskedFilters(b, asked) /\ AskedJoins(b, asked) /\ Inserts(b)
  BY <1>4, Parts DEF AskedFilters, AskedJoins, Inserts
<1>6. Conflicts(b, asked)
  <2>1. b.conflict[1] = c /\ b.conflict # <<>>
    BY <1>4
  <2> QED BY <1>2, <1>3, <1>4, <2>1 DEF Conflicts
<1>7. b.offset \in Nat /\ (b.limit = Null \/ b.limit \in Nat) /\ IsSeq(b.order)
  BY <1>4, Parts
<1>8. "none" \notin {"insert"} /\ DOMAIN asked = {"filters", "on", "updateAll"}
  BY Parts
<1> QED BY <1>1, <1>4, <1>5, <1>6, <1>7, <1>8, CallInvariant



LEMMA ActInvariant ==
    ASSUME IInv, NEW update, NEW columns, NEW all \in BOOLEAN,
           Act(update, columns, all),
           all => update /\ columns = UpdateColumns(builder)
    PROVE  IInv'
<1> DEFINE old == builder.conflict[1]
           c == [old EXCEPT !.update = update, !.columns = columns]
           b == [builder EXCEPT !.conflict = <<c>>]
<1>1. /\ builder.conflict # <<>>
      /\ Calls({"insert"}, [builder EXCEPT !.conflict[1] = c],
               [asked EXCEPT !.updateAll = all])
  BY DEF Act
<1>2. builder.conflict = <<old>> /\ DOMAIN old = {"target", "update", "columns"}
  BY <1>1, Parts DEF Conflicts
<1>3. /\ DOMAIN c = {"target", "update", "columns"} /\ c.target = old.target
      /\ c.update = update /\ c.columns = columns
  BY <1>2
<1>4. [builder EXCEPT !.conflict[1] = c] = b
  <2> HIDE DEF c
  <2>1. [builder.conflict EXCEPT ![1] = c] = <<c>>
    <3>1. DOMAIN builder.conflict = {1}
      BY <1>2
    <3>2. [builder.conflict EXCEPT ![1] = c] = [i \in {1} |-> c]
      BY <3>1
    <3>3. <<c>> = [i \in {1} |-> c]
      OBVIOUS
    <3> QED BY <3>2, <3>3
  <2>2. [builder EXCEPT !.conflict[1] = c]
          = [builder EXCEPT !.conflict = [builder.conflict EXCEPT ![1] = c]]
    OBVIOUS
  <2> QED BY <2>1, <2>2
<1>5. all => c.update /\ c.columns = UpdateColumns(b)
  <2>1. UpdateColumns(b) = UpdateColumns(builder)
    <3>1. /\ "conflict" \in DOMAIN builder
      BY Parts
    <3> HIDE DEF c
    <3>2. b.conflict = <<c>> /\ b.values = builder.values
      BY <3>1
    <3>3. b.conflict[1].target = builder.conflict[1].target
      BY <1>3, <3>2
    <3> HIDE DEF b
    <3> QED BY <3>2, <3>3 DEF UpdateColumns
  <2> QED BY <1>3, <2>1
<1> HIDE DEF c
<1>6. Calls({"insert"}, b, [asked EXCEPT !.updateAll = all])
  BY <1>1, <1>4
<1> QED BY <1>3, <1>5, <1>6, ConflictInvariant

LEMMA BuildInvariant ==
    ASSUME IInv, Build
    PROVE  IInv'
<1>1. /\ Outcomes /\ Shape(builder, asked) /\ AskedFilters(builder, asked)
      /\ AskedJoins(builder, asked) /\ Conflicts(builder, asked) /\ Inserts(builder)
  BY DEF IInv
<1>2. /\ builder.kind # "none" /\ outcome.kind = "none"
      /\ builder' = builder /\ asked' = asked
  BY DEF Build
<1>3. db = Tables
  BY <1>1, <1>2 DEF Outcomes
<1>4. Outcomes'
  <2>1. CASE Refuses(builder) /\ outcome' = [Nothing EXCEPT !.kind = "refused"]
    <3>1. outcome'.kind = "refused"
      BY <2>1 DEF Nothing
    <3> QED BY <1>2, <3>1 DEF Outcomes
  <2>2. CASE /\ ~Refuses(builder) /\ db' = Run(builder).db
             /\ outcome' = [kind |-> IF Run(builder).ok THEN "done" ELSE "failed",
                            before |-> db, rows |-> Run(builder).rows]
    <3>1. Run(builder) = RunOn(Tables, builder)
      BY <1>3 DEF Run, RunOn
    <3>2. /\ outcome'.kind = IF Run(builder).ok THEN "done" ELSE "failed"
          /\ outcome'.before = db /\ outcome'.rows = Run(builder).rows
      BY <2>2
    <3> QED BY <1>2, <1>3, <2>2, <3>1, <3>2 DEF Outcomes
  <2> QED BY <2>1, <2>2 DEF Build, Effect
<1>5. (Shape(builder, asked))' /\ (AskedFilters(builder, asked))'
  BY <1>1, <1>2
<1>6. (AskedJoins(builder, asked))' /\ (Conflicts(builder, asked))'
  BY <1>1, <1>2
<1>7. Inserts(builder)'
  BY <1>1, <1>2 DEF Inserts
<1> QED BY <1>4, <1>5, <1>6, <1>7 DEF IInv

LEMMA NextInvariant == IInv /\ [Next]_vars => IInv'
<1> SUFFICES ASSUME IInv, [Next]_vars PROVE IInv'
  OBVIOUS
<1>1. ASSUME NEW e \in Reads, New("select", e) PROVE IInv'
  <2>1. \A x \in Reads : /\ x.table \in DOMAIN Tables
                         /\ x.joins \in Seq(Range(x.joins))
                         /\ \A j \in Range(x.joins) : IsJoin(j)
    BY OrmAssumption, Zenon
  <2>2. e.table \in DOMAIN Tables /\ \A j \in Range(e.joins) : IsJoin(j)
    BY <2>1
  <2>3. IsSeq(e.joins)
    BY <2>1 DEF IsSeq
  <2> QED BY <1>1, <2>2, <2>3, NewInvariant
<1>2. ASSUME NEW e \in Writes, NEW k \in {"insert", "update", "delete"}, New(k, e)
      PROVE  IInv'
  <2>1. e.table \in DOMAIN Tables /\ Settable(e.table, Values)
    BY OrmAssumption
  <2> QED BY <1>2, <2>1, NewInvariant
<1>3. ASSUME NEW f \in Filters, NEW in, WhereCall(f, in) PROVE IInv'
  BY <1>3, WhereInvariant
<1>4. ASSUME NEW t, OnConflict(t) \/ DoUpdate(t) PROVE IInv'
  <2>1. CASE OnConflict(t)
    BY <2>1, OnConflictInvariant
  <2>2. CASE DoUpdate(t)
    BY <2>2, ActInvariant DEF DoUpdate
  <2> QED BY <1>4, <2>1, <2>2
<1>5. CASE DoNothing
  BY <1>5, ActInvariant DEF DoNothing
<1>6. CASE DoUpdateAll
  <2>1. Act(TRUE, UpdateColumns(builder), TRUE)
    BY <1>6 DEF DoUpdateAll
  <2> QED BY <2>1, ActInvariant
<1>7. CASE UNCHANGED vars
  <2>1. /\ db' = db /\ builder' = builder /\ asked' = asked /\ outcome' = outcome
    BY <1>7 DEF vars
  <2>2. (Shape(builder, asked))' /\ (AskedFilters(builder, asked))'
    BY <2>1 DEF IInv
  <2>3. (AskedJoins(builder, asked))' /\ (Conflicts(builder, asked))'
    BY <2>1 DEF IInv
  <2>4. Inserts(builder)' /\ Outcomes'
    BY <2>1 DEF IInv, Outcomes
  <2> QED BY <2>2, <2>3, <2>4 DEF IInv
<1>8. CASE Limit(1) \/ Offset(1)
  BY <1>8, LimitInvariant
<1>9. ASSUME NEW p \in Values, Set(p) PROVE IInv'
  BY <1>9, SetInvariant
<1>10. ASSUME NEW o \in Objects, FromEntity(o.entity, o.object) PROVE IInv'
  BY <1>10, FromEntityInvariant
<1>11. ASSUME NEW j \in Joins, Join(j) PROVE IInv'
  BY <1>11, JoinInvariant
<1>12. ASSUME NEW c, NEW desc, OrderBy(c, desc) PROVE IInv'
  BY <1>12, OrderByInvariant
<1>13. ASSUME NEW c, Returning(c) PROVE IInv'
  BY <1>13, ReturningInvariant
<1>14. CASE Build
  BY <1>14, BuildInvariant
<1> QED
  BY <1>1, <1>2, <1>3, <1>4, <1>5, <1>6, <1>7, <1>8, <1>9, <1>10, <1>11, <1>12, <1>13,
     <1>14 DEF Next

(* The builder's filters and joins are, in its own terms, those the caller
   asked for; a builder has a conflict target before an action on it; the
   tables are as before build, or as the built statement leaves them. *)
THEOREM Invariant == Spec => []IInv
<1>1. Init => IInv
  BY InitInvariant
<1>2. IInv /\ [Next]_vars => IInv'
  BY NextInvariant
<1> QED BY <1>1, <1>2, PTL DEF Spec

-----------------------------------------------------------------------------
(***************************************************************************)
(* The conditions of a statement hold for the rows the caller means.       *)
(***************************************************************************)
LEMMA FoldedTrue ==
    ASSUME NEW n \in Nat, NEW v, \A j \in 1 .. n : v[j] \in Truths
    PROVE  Folded("AND", v, n) = True <=> \A j \in 1 .. n : v[j] = True
<1> DEFINE X == Upon("AND", v, n)
<1>1. X = {True} \cup {v[j] : j \in 1 .. n}
  BY DEF Upon
<1>2. X \subseteq Truths /\ X # {}
  BY <1>1 DEF Truths, True
<1>3. Folded("AND", v, n) = Min(X)
  BY DEF Folded
<1> HIDE DEF X
<1>4. Min(X) \in X /\ \A y \in X : Min(X) <= y
  BY <1>2, ExtremesOf
<1>5. ASSUME Min(X) = True, NEW j \in 1 .. n PROVE v[j] = True
  <2>1. v[j] \in X /\ v[j] \in Truths
    BY <1>1
  <2> QED BY <1>4, <1>5, <2>1 DEF Truths, True
<1>6. ASSUME \A j \in 1 .. n : v[j] = True PROVE Min(X) = True
  BY <1>1, <1>4, <1>6
<1> QED BY <1>3, <1>5, <1>6

Alphabet(S) == Marks \cup Constants \cup S

LEMMA FiltersMean ==
    ASSUME NEW b, NEW a, AskedFilters(b, a), NEW env
    PROVE  Satisfies(Where(b.filters), env)
             <=> \A i \in DOMAIN a.filters :
                   Means(a.filters[i][1], a.filters[i][2], b.entity.table, env) = True
<1> DEFINE n == Len(a.filters)
           d == b.entity.table
           f(i) == a.filters[i][1]
           in(i) == a.filters[i][2]
           L(i) == Leaves(Filled(f(i), in(i)), d)
           T == Alphabet(UNION {L(i) : i \in 1 .. n})
           v == [i \in 1 .. n |-> Means(f(i), in(i), d, env)]
<1>1. /\ n \in Nat /\ DOMAIN a.filters = 1 .. n /\ Len(b.filters) = n
      /\ b.filters \in Seq(Range(b.filters)) /\ DOMAIN b.filters = 1 .. n
      /\ \A i \in 1 .. n : /\ IsFilter(f(i))
                           /\ b.filters[i] = IntoExpr(Filled(f(i), in(i)), d)
  BY DEF AskedFilters, IsSeq
<1>2. IsAlphabet(T)
  BY DEF Alphabet, IsAlphabet
<1>3. ASSUME NEW i \in 1 .. n PROVE L(i) \subseteq T
  BY DEF Alphabet
<1>4. \A i \in 1 .. n : v[i] = Means(f(i), in(i), d, env)
  OBVIOUS
<1> HIDE DEF T, v
<1>5. ASSUME NEW i \in 1 .. n PROVE ReadsAs(b.filters[i], T, env, v[i])
  <2>1. IsFilter(f(i)) /\ L(i) \subseteq T
    BY <1>1, <1>3
  <2>2. ReadsAs(IntoExpr(Filled(f(i), in(i)), d), T, env, Means(f(i), in(i), d, env))
    BY <1>2, <2>1, FilterReads
  <2> QED BY <1>1, <1>4, <2>2
<1>6. AllRead(b.filters, T, env, v)
  <2>1. \A i \in 1 .. n : b.filters[i] \in Expressions(T)
    BY <1>5 DEF ReadsAs
  <2>2. Range(b.filters) \subseteq Expressions(T)
    BY <1>1, <2>1 DEF Range
  <2>3. b.filters \in Seq(Expressions(T))
    BY <1>1, <2>2
  <2> QED BY <1>1, <1>5, <2>3 DEF AllRead
<1>7. ReadsAs(Chain("AND", b.filters, "AND" = "AND"), T, env, Folded("AND", v, n))
  BY <1>1, <1>2, <1>6, ChainReads DEF Operators
<1>8. \A j \in 1 .. n : v[j] \in Truths
  BY <1>5 DEF ReadsAs
<1>9. Folded("AND", v, n) = True <=> \A j \in 1 .. n : v[j] = True
  BY <1>1, <1>8, FoldedTrue
<1>10. CASE b.filters = <<>>
  <2>1. n = 0 /\ Where(b.filters) = <<>>
    BY <1>1, <1>10 DEF Where
  <2> QED BY <1>1, <2>1 DEF Satisfies
<1>11. CASE b.filters # <<>>
  <2> DEFINE c == Chain("AND", b.filters, TRUE)
  <2>1. Where(b.filters) = c.tokens
    BY <1>11 DEF Where
  <2>2. c.tokens # <<>> /\ Condition(c.tokens, env) = Folded("AND", v, n)
    <3>1. ReadsAs(c, T, env, Folded("AND", v, n))
      BY <1>7
    <3> HIDE DEF c
    <3> QED BY <3>1 DEF ReadsAs
  <2> HIDE DEF c
  <2>3. Satisfies(Where(b.filters), env) <=> \A j \in 1 .. n : v[j] = True
    BY <1>9, <2>1, <2>2 DEF Satisfies
  <2> QED BY <1>1, <1>4, <2>3
<1> QED BY <1>10, <1>11

LEMMA JoinMeans ==
    ASSUME NEW join, IsJoin(join), NEW default, NEW env
    PROVE  Satisfies(IntoJoinSpec(join, default).on, env)
             <=> Means(join.on, NoTable, default, env) = True
<1> DEFINE T == Alphabet(Leaves(join.on, default))
           x == IntoExpr(join.on, default)
<1>1. IsFilter(join.on) /\ Filled(join.on, NoTable) = join.on
  BY DEF IsJoin, Filled
<1>2. IsAlphabet(T) /\ Leaves(join.on, default) \subseteq T
  BY DEF Alphabet, IsAlphabet
<1>3. IntoJoinSpec(join, default).on = x.tokens
  BY DEF IntoJoinSpec
<1> HIDE DEF T
<1>4. ReadsAs(x, T, env, Means(join.on, NoTable, default, env))
  BY <1>1, <1>2, FilterReads
<1> HIDE DEF x
<1> QED BY <1>3, <1>4 DEF ReadsAs, Satisfies

-----------------------------------------------------------------------------
(***************************************************************************)
(* Joins.                                                                  *)
(***************************************************************************)

(* A join pairs two rows just when its condition means so, whichever table
   the query starts from: on as the caller wrote it, against the join spec
   that into_join_spec makes and the host reads. *)
THEOREM JoinsPair == Spec => []JoinsAsMeant
<1>1. IInv => JoinsAsMeant
  <2> SUFFICES ASSUME IInv, Ran("select"), NEW i \in DOMAIN asked.on, NEW env
               PROVE  Satisfies(builder.joins[i].on, env) <=>
                        Means(asked.on[i].on, NoTable, builder.entity.table, env) = True
    BY DEF JoinsAsMeant
  <2>1. /\ IsJoin(asked.on[i])
        /\ builder.joins[i] = IntoJoinSpec(asked.on[i], builder.entity.table)
    BY Parts DEF AskedJoins, IsSeq
  <2> QED BY <2>1, JoinMeans
<1> QED BY <1>1, Invariant, PTL

-----------------------------------------------------------------------------
(***************************************************************************)
(* ORDER BY, LIMIT and OFFSET: the rows of a page exist, and their number. *)
(***************************************************************************)
RankOf(env, o) == Rank(ValueOf(o.by, env))

Differ(order, i, x, y) ==
    /\ \A j \in 1 .. i - 1 : RankOf(x, order[j]) = RankOf(y, order[j])
    /\ IF order[i].desc THEN RankOf(x, order[i]) > RankOf(y, order[i])
                        ELSE RankOf(x, order[i]) < RankOf(y, order[i])

LEMMA BeforeIs ==
    \A order, x, y :
      Before(order, x, y) <=> \E i \in DOMAIN order : Differ(order, i, x, y)
BY DEF Before, Differ, RankOf

LEMMA RankIsInteger == \A env, o : RankOf(env, o) \in Int
BY DEF RankOf, Rank

LEMMA BeforeIsStrict ==
    ASSUME NEW order, IsSeq(order)
    PROVE  /\ \A x : ~Before(order, x, x)
           /\ \A x, y, z : Before(order, x, y) /\ Before(order, y, z)
                             => Before(order, x, z)
<1>1. DOMAIN order = 1 .. Len(order) /\ Len(order) \in Nat
  BY DEF IsSeq
<1>2. ASSUME NEW x, Before(order, x, x) PROVE FALSE
  <2>1. PICK i \in DOMAIN order : Differ(order, i, x, x)
    BY <1>2, BeforeIs
  <2>2. RankOf(x, order[i]) \in Int
    BY RankIsInteger
  <2> QED BY <2>1, <2>2 DEF Differ
<1>3. ASSUME NEW x, NEW y, NEW z, Before(order, x, y), Before(order, y, z)
      PROVE  Before(order, x, z)
  <2>1. PICK i \in DOMAIN order : Differ(order, i, x, y)
    BY <1>3, BeforeIs
  <2>2. PICK j \in DOMAIN order : Differ(order, j, y, z)
    BY <1>3, BeforeIs
  <2>3. i \in Nat /\ j \in Nat
    BY <1>1
  <2>4. /\ RankOf(x, order[i]) \in Int /\ RankOf(y, order[i]) \in Int
        /\ RankOf(z, order[i]) \in Int
        /\ RankOf(x, order[j]) \in Int /\ RankOf(y, order[j]) \in Int
        /\ RankOf(z, order[j]) \in Int
    BY RankIsInteger
  <2>5. CASE i = j
    <3>1. Differ(order, i, x, z)
      BY <2>1, <2>2, <2>4, <2>5 DEF Differ
    <3> QED BY <3>1, BeforeIs
  <2>6. CASE i < j
    <3>1. /\ \A k \in 1 .. i - 1 : k \in 1 .. j - 1
          /\ i \in 1 .. j - 1
      BY <1>1, <2>3, <2>6
    <3>2. Differ(order, i, x, z)
      BY <2>1, <2>2, <3>1 DEF Differ
    <3> QED BY <3>2, BeforeIs
  <2>7. CASE j < i
    <3>1. /\ \A k \in 1 .. j - 1 : k \in 1 .. i - 1
          /\ j \in 1 .. i - 1
      BY <1>1, <2>3, <2>7
    <3>2. Differ(order, j, x, z)
      BY <2>1, <2>2, <3>1 DEF Differ
    <3> QED BY <3>2, BeforeIs
  <2> QED BY <2>3, <2>5, <2>6, <2>7
<1> QED BY <1>2, <1>3

Foremost(order, rows, x) == x \in rows /\ \A y \in rows : ~Before(order, y, x)

LEMMA ForemostExists ==
    ASSUME NEW order, IsSeq(order), NEW rows, IsFiniteSet(rows), rows # {}
    PROVE  \E x : Foremost(order, rows, x)
<1> DEFINE T == {s \in SUBSET rows : s # {} /\ ~\E x : Foremost(order, s, x)}
<1> SUFFICES ASSUME T # {} PROVE FALSE
  OBVIOUS
<1>1. PICK s \in T : \A u \in T : u \subseteq s => u = s
  <2>1. T \subseteq SUBSET rows
    OBVIOUS
  <2> HIDE DEF T
  <2> QED BY <2>1, SmallestSubset
<1>2. PICK x : x \in s
  OBVIOUS
<1> DEFINE u == s \ {x}
<1>3. u \notin T /\ u \subseteq rows
  BY <1>1, <1>2
<1>4. CASE u = {}
  <2>1. \A y \in s : y = x
    BY <1>4
  <2>2. Foremost(order, s, x)
    BY <1>2, <2>1, BeforeIsStrict DEF Foremost
  <2> QED BY <2>2
<1>5. CASE u # {}
  <2>1. PICK m : Foremost(order, u, m)
    BY <1>3, <1>5
  <2>2. CASE ~Before(order, x, m)
    <3>1. Foremost(order, s, m)
      BY <2>1, <2>2 DEF Foremost
    <3> QED BY <3>1
  <2>3. CASE Before(order, x, m)
    <3>1. ASSUME NEW y \in s, Before(order, y, x) PROVE FALSE
      <4>1. y # x /\ Before(order, y, m)
        BY <2>3, <3>1, BeforeIsStrict
      <4> QED BY <2>1, <4>1 DEF Foremost
    <3>2. Foremost(order, s, x)
      BY <1>2, <3>1 DEF Foremost
    <3> QED BY <3>2
  <2> QED BY <2>2, <2>3
<1> QED BY <1>4, <1>5

IsFirst(first, rows, n, order) ==
    /\ first \in kSubset(n, rows)
    /\ \A x \in first, y \in rows \ first : ~Before(order, y, x)

LEMMA FirstExists ==
    ASSUME NEW order, IsSeq(order), NEW rows, IsFiniteSet(rows),
           NEW n \in 0 .. Cardinality(rows)
    PROVE  IsFirst(First(rows, n, order), rows, n, order)
<1> DEFINE N == Cardinality(rows)
           T == {k \in 0 .. N : ~\E s : IsFirst(s, rows, k, order)}
<1>1. N \in Nat
  BY FS_CardinalityType
<1>2. T = {}
  <2> SUFFICES ASSUME T # {} PROVE FALSE
    OBVIOUS
  <2>1. PICK k \in T : \A j \in T : k <= j
    <3>1. T \subseteq Nat
      OBVIOUS
    <3> HIDE DEF T
    <3> QED BY <3>1, SmallestPlace
  <2>2. CASE k = 0
    <3>1. {} \in kSubset(0, rows)
      BY FS_EmptySet DEF kSubset
    <3>2. IsFirst({}, rows, 0, order)
      BY <3>1 DEF IsFirst
    <3> QED BY <2>2, <3>2
  <2>3. CASE k # 0
    <3>1. k - 1 \in 0 .. N /\ ~(k <= k - 1) /\ k - 1 # N
      BY <1>1, <2>3
    <3>2. PICK s : IsFirst(s, rows, k - 1, order)
      BY <2>1, <3>1
    <3>3. s \subseteq rows /\ Cardinality(s) = k - 1 /\ IsFiniteSet(s)
      BY <3>2, FS_Subset DEF IsFirst, kSubset
    <3>4. rows \ s # {} /\ IsFiniteSet(rows \ s)
      <4>1. s # rows
        BY <3>1, <3>3
      <4> QED BY <3>3, <4>1, FS_Subset
    <3>5. PICK m : Foremost(order, rows \ s, m)
      BY <3>4, ForemostExists
    <3> DEFINE t == s \cup {m}
    <3>6. m \in rows /\ m \notin s
      BY <3>5 DEF Foremost
    <3>7. t \subseteq rows /\ Cardinality(t) = k
      <4>1. Cardinality(t) = Cardinality(s) + 1
        BY <3>3, <3>6, FS_AddElement
      <4>2. k \in Nat /\ k - 1 + 1 = k
        BY <1>1
      <4> QED BY <3>3, <3>6, <4>1, <4>2
    <3>8. ASSUME NEW x \in t, NEW y \in rows \ t PROVE ~Before(order, y, x)
      <4>1. CASE x = m
        BY <3>5, <4>1 DEF Foremost
      <4>2. CASE x \in s
        BY <3>2, <4>2 DEF IsFirst
      <4> QED BY <4>1, <4>2
    <3>9. IsFirst(t, rows, k, order)
      BY <3>7, <3>8 DEF IsFirst, kSubset
    <3> QED BY <3>9
  <2> QED BY <2>2, <2>3
<1>3. PICK s : IsFirst(s, rows, n, order)
  BY <1>2
<1>4. First(rows, n, order) =
        CHOOSE first \in kSubset(n, rows) :
          \A x \in first, y \in rows \ first : ~Before(order, y, x)
  BY DEF First
<1> QED BY <1>3, <1>4 DEF IsFirst

LEMMA LeastOf ==
    ASSUME NEW x \in Int, NEW y \in Int
    PROVE  /\ Min({x, y}) = IF x <= y THEN x ELSE y
           /\ Max({x, y}) = IF x <= y THEN y ELSE x
<1>1. \E m \in {x, y} : \A z \in {x, y} : m <= z
  OBVIOUS
<1>2. \E m \in {x, y} : \A z \in {x, y} : m >= z
  OBVIOUS
<1>3. Min({x, y}) \in {x, y} /\ \A z \in {x, y} : Min({x, y}) <= z
  BY <1>1 DEF Min
<1>4. Max({x, y}) \in {x, y} /\ \A z \in {x, y} : Max({x, y}) >= z
  BY <1>2 DEF Max
<1> QED BY <1>3, <1>4

LEMMA PageIs ==
    ASSUME NEW d, NEW s, IsSeq(s.order), s.offset \in Nat,
           s.limit = Null \/ s.limit \in Nat, IsFiniteSet(Selected(d, s))
    PROVE  LET n == Cardinality(Selected(d, s))
               left == Max({0, n - s.offset})
           IN  /\ Page(d, s) \subseteq Selected(d, s)
               /\ Cardinality(Page(d, s)) =
                    IF s.limit = Null THEN left ELSE Min({left, s.limit})
<1> DEFINE rows == Selected(d, s)
           n == Cardinality(rows)
           o == s.offset
           l == s.limit
           last == IF l = Null THEN n ELSE Min({n, o + l})
           upto == First(rows, last, s.order)
           skip == Min({last, o})
           before == First(upto, skip, s.order)
           left == Max({0, n - o})
<1>1. n \in Nat /\ o \in Nat /\ (l = Null \/ l \in Nat)
  BY FS_CardinalityType
<1> HIDE DEF n, o, l
<1>2. last \in 0 .. n /\ (l # Null => last = IF n <= o + l THEN n ELSE o + l)
  <2>1. l \in Nat => Min({n, o + l}) = IF n <= o + l THEN n ELSE o + l
    BY <1>1, LeastOf
  <2> QED BY <1>1, <2>1
<1>3. l = Null => last = n
  OBVIOUS
<1> HIDE DEF last
<1>4. skip = IF last <= o THEN last ELSE o
  BY <1>1, <1>2, LeastOf
<1> HIDE DEF skip
<1>5. skip \in 0 .. last
  BY <1>1, <1>2, <1>4
<1> HIDE DEF rows
<1>6. IsFirst(upto, rows, last, s.order)
  BY <1>2, FirstExists DEF rows, n
<1>7. upto \subseteq rows /\ Cardinality(upto) = last /\ IsFiniteSet(upto)
  <2>1. upto \subseteq rows /\ Cardinality(upto) = last
    BY <1>6 DEF IsFirst, kSubset
  <2> QED BY <2>1, FS_Subset DEF rows
<1> HIDE DEF upto
<1>8. IsFirst(before, upto, skip, s.order)
  BY <1>5, <1>7, FirstExists
<1>9. before \subseteq upto /\ Cardinality(before) = skip
  BY <1>8 DEF IsFirst, kSubset
<1> HIDE DEF before
<1>10. Page(d, s) = upto \ before
  BY DEF Page, Cut, upto, before, last, skip, rows, n, o, l
<1>11. Cardinality(upto \ before) = last - skip
  <2>1. /\ IsFiniteSet(before) /\ upto \cap before = before
    BY <1>7, <1>9, FS_Subset
  <2>2. Cardinality(upto \ before) = Cardinality(upto) - Cardinality(upto \cap before)
    BY <1>7, <2>1, FS_Difference
  <2> QED BY <1>7, <1>9, <2>1, <2>2
<1>12. left = IF 0 <= n - o THEN n - o ELSE 0
  <2> DEFINE y == n - o
  <2>1. y \in Int /\ 0 \in Int
    BY <1>1
  <2> HIDE DEF y
  <2>2. Max({0, y}) = IF 0 <= y THEN y ELSE 0
    BY <2>1, LeastOf
  <2> QED BY <2>2 DEF y
<1> HIDE DEF left
<1>13. l = Null => last - skip = left
  BY <1>1, <1>3, <1>4, <1>12
<1>14. l # Null => last - skip = Min({left, l})
  <2>1. l # Null => Min({left, l}) = IF left <= l THEN left ELSE l
    BY <1>1, <1>12, LeastOf
  <2>2. l # Null => l \in Nat
    BY <1>1
  <2> QED BY <1>1, <1>2, <1>4, <1>12, <2>1, <2>2
<1> QED BY <1>7, <1>10, <1>11, <1>13, <1>14 DEF rows, left, n, o, l

-----------------------------------------------------------------------------
(***************************************************************************)
(* The rows of FROM and its joins are finitely many.                       *)
(***************************************************************************)
JoinStep(acc, j, d) ==
    [envs |-> JoinRows(acc.envs, j, d[j.table], acc.nulls),
     nulls |-> acc.nulls @@ Alone(j.source, NullRow(j.table))]

FromTable(d, s) ==
    [envs |-> {Alone(s.table, r) : r \in d[s.table]},
     nulls |-> Alone(s.table, NullRow(s.table))]

Joining(g, d, s, m) ==
    g = [i \in 0 .. m |->
           IF i = 0 THEN FromTable(d, s) ELSE JoinStep(g[i - 1], s.joins[i], d)]

LEMMA JoinedIs ==
    ASSUME NEW d, NEW s
    PROVE  Joined(d, s) =
             (CHOOSE g : Joining(g, d, s, Len(s.joins)))[Len(s.joins)].envs
BY DEF Joined, Joining, JoinStep, FromTable

LEMMA JoiningExists ==
    ASSUME NEW d, NEW s, NEW n \in Nat
    PROVE  \E g : Joining(g, d, s, n)
<1> DEFINE T == {m \in Nat : ~\E g : Joining(g, d, s, m)}
<1> SUFFICES ASSUME T # {} PROVE FALSE
  OBVIOUS
<1>1. PICK m \in T : \A k \in T : m <= k
  <2>1. T \subseteq Nat
    OBVIOUS
  <2> HIDE DEF T
  <2> QED BY <2>1, SmallestPlace
<1>2. CASE m = 0
  <2> DEFINE g == [i \in 0 .. 0 |-> FromTable(d, s)]
  <2>1. g = [i \in 0 .. 0 |->
               IF i = 0 THEN FromTable(d, s) ELSE JoinStep(g[i - 1], s.joins[i], d)]
    <3>1. \A i \in 0 .. 0 : i = 0
      OBVIOUS
    <3> QED BY <3>1, Zenon
  <2>2. Joining(g, d, s, 0)
    <3> HIDE DEF g
    <3> QED BY <2>1 DEF Joining
  <2> QED BY <1>2, <2>2
<1>3. CASE m # 0
  <2>1. m - 1 \in Nat /\ ~(m <= m - 1)
    BY <1>3
  <2>2. PICK h : Joining(h, d, s, m - 1)
    BY <1>1, <2>1
  <2> DEFINE step(i, f) ==
               IF i = 0 THEN FromTable(d, s) ELSE JoinStep(f[i - 1], s.joins[i], d)
             g == [i \in 0 .. m |->
                     IF i = m THEN step(m, h) ELSE h[i]]
  <2>3. \A i \in 0 .. m - 1 : h[i] = step(i, h)
    BY <2>2 DEF Joining
  <2>4. ASSUME NEW i \in 0 .. m PROVE g[i] = step(i, g)
    <3>1. CASE i = 0
      <4>1. 0 \in 0 .. m - 1 /\ 0 # m
        BY <1>3, <2>1
      <4> QED BY <2>3, <3>1, <4>1
    <3>2. CASE i # 0
      <4>1. i - 1 \in 0 .. m /\ i - 1 # m
        BY <3>2
      <4>2. g[i - 1] = h[i - 1]
        BY <4>1
      <4>3. step(i, g) = step(i, h)
        <5> HIDE DEF g
        <5> QED BY <4>2
      <4>4. i # m => i \in 0 .. m - 1
        BY <2>1
      <4>5. g[i] = step(i, h)
        <5>1. CASE i = m
          BY <5>1
        <5>2. CASE i # m
          <6>1. g[i] = h[i]
            BY <5>2
          <6>2. h[i] = step(i, h)
            BY <2>3, <4>4, <5>2
          <6> QED BY <6>1, <6>2
        <5> QED BY <5>1, <5>2
      <4> QED BY <4>3, <4>5
    <3> QED BY <3>1, <3>2
  <2>5. g = [i \in 0 .. m |-> g[i]]
    OBVIOUS
  <2> HIDE DEF g
  <2>6. g = [i \in 0 .. m |-> step(i, g)]
    BY <2>4, <2>5, Zenon
  <2>7. Joining(g, d, s, m)
    BY <2>6 DEF Joining
  <2> QED BY <2>7
<1> QED BY <1>2, <1>3

IsOver(f, S) == f = [x \in S |-> f[x]]

LEMMA ImageIsFinite ==
    ASSUME NEW S, IsFiniteSet(S), NEW f, IsOver(f, S)
    PROVE  IsFiniteSet(Range(f))
<1>1. \A t \in Range(f) : \E s \in S : f[s] = t
  <2>1. DOMAIN f = S
    BY DEF IsOver
  <2> QED BY <2>1 DEF Range
<1>2. f \in Surjection(S, Range(f))
  <2>1. f = [s \in S |-> f[s]]
    BY DEF IsOver
  <2>2. \A s \in S : f[s] \in Range(f)
    <3>1. DOMAIN f = S
      BY <2>1
    <3> QED BY <3>1 DEF Range
  <2> QED BY <1>1, <2>1, <2>2 DEF Surjection
<1> QED BY <1>2, FS_Surjection

LEMMA JoinRowsFinite ==
    ASSUME NEW envs, IsFiniteSet(envs), NEW j, NEW rows, IsFiniteSet(rows), NEW nulls
    PROVE  IsFiniteSet(JoinRows(envs, j, rows, nulls))
<1> DEFINE meets(e, r) == Satisfies(j.on, e @@ Alone(j.source, r))
           pairs == {q \in envs \X rows : meets(q[1], q[2])}
           alone == {x \in envs : /\ j.kind \in {"left", "full"}
                                  /\ \A r \in rows : ~meets(x, r)}
           other == {x \in rows : /\ j.kind \in {"right", "full"}
                                  /\ \A e \in envs : ~meets(e, x)}
           one == [p \in pairs |-> p[1] @@ Alone(j.source, p[2])]
           two == [e \in alone |-> e @@ Alone(j.source, NullRow(j.table))]
           three == [r \in other |-> nulls @@ Alone(j.source, r)]
<1>1. JoinRows(envs, j, rows, nulls)
        = {p[1] @@ Alone(j.source, p[2]) : p \in pairs}
          \cup {e @@ Alone(j.source, NullRow(j.table)) : e \in alone}
          \cup {nulls @@ Alone(j.source, r) : r \in other}
  BY DEF JoinRows
<1>2. IsFiniteSet(pairs) /\ IsFiniteSet(alone) /\ IsFiniteSet(other)
  <2>1. IsFiniteSet(envs \X rows)
    BY FS_Product
  <2>2. pairs \subseteq envs \X rows /\ alone \subseteq envs /\ other \subseteq rows
    OBVIOUS
  <2> HIDE DEF pairs, alone, other
  <2> QED BY <2>1, <2>2, FS_Subset
<1> HIDE DEF pairs, alone, other
<1>3. /\ {p[1] @@ Alone(j.source, p[2]) : p \in pairs} = Range(one)
      /\ IsOver(one, pairs)
  BY DEF Range, IsOver
<1>4. /\ {e @@ Alone(j.source, NullRow(j.table)) : e \in alone} = Range(two)
      /\ IsOver(two, alone)
  BY DEF Range, IsOver
<1>5. /\ {nulls @@ Alone(j.source, r) : r \in other} = Range(three)
      /\ IsOver(three, other)
  BY DEF Range, IsOver
<1> HIDE DEF one, two, three
<1>6. IsFiniteSet(Range(one)) /\ IsFiniteSet(Range(two)) /\ IsFiniteSet(Range(three))
  BY <1>2, <1>3, <1>4, <1>5, ImageIsFinite
<1>7. JoinRows(envs, j, rows, nulls) = (Range(one) \cup Range(two)) \cup Range(three)
  BY <1>1, <1>3, <1>4, <1>5
<1> QED BY <1>6, <1>7, FS_Union

LEMMA JoinedFinite ==
    ASSUME NEW d, NEW s, IsSeq(s.joins), IsFiniteSet(d[s.table]),
           \A i \in 1 .. Len(s.joins) : IsFiniteSet(d[s.joins[i].table])
    PROVE  IsFiniteSet(Joined(d, s))
<1> DEFINE n == Len(s.joins)
           g == CHOOSE x : Joining(x, d, s, n)
           T == {i \in 0 .. n : ~IsFiniteSet(g[i].envs)}
<1>1. n \in Nat
  BY DEF IsSeq
<1>2. Joining(g, d, s, n)
  BY <1>1, JoiningExists
<1>3. Joined(d, s) = g[n].envs
  BY JoinedIs
<1> HIDE DEF g
<1>4. T = {}
  <2> SUFFICES ASSUME T # {} PROVE FALSE
    OBVIOUS
  <2>1. PICK i \in T : \A k \in T : i <= k
    <3>1. T \subseteq Nat
      OBVIOUS
    <3> HIDE DEF T
    <3> QED BY <3>1, SmallestPlace
  <2>2. g[i] = IF i = 0 THEN FromTable(d, s) ELSE JoinStep(g[i - 1], s.joins[i], d)
    BY <1>2, <2>1 DEF Joining
  <2>3. CASE i = 0
    <3> DEFINE f == [r \in d[s.table] |-> Alone(s.table, r)]
    <3>1. FromTable(d, s).envs = Range(f) /\ IsOver(f, d[s.table])
      BY DEF FromTable, Range, IsOver
    <3> HIDE DEF f
    <3>2. IsFiniteSet(Range(f))
      BY <3>1, ImageIsFinite
    <3> QED BY <2>1, <2>2, <2>3, <3>1, <3>2
  <2>4. CASE i # 0
    <3> DEFINE j == s.joins[i]
               acc == g[i - 1]
    <3>1. i - 1 \in 0 .. n /\ ~(i <= i - 1) /\ i \in 1 .. n
      BY <1>1, <2>1, <2>4
    <3>2. IsFiniteSet(acc.envs) /\ IsFiniteSet(d[j.table])
      BY <2>1, <3>1
    <3>3. JoinStep(acc, j, d).envs = JoinRows(acc.envs, j, d[j.table], acc.nulls)
      BY DEF JoinStep
    <3>4. g[i] = JoinStep(acc, j, d)
      BY <2>2, <2>4
    <3> HIDE DEF acc, j
    <3>5. IsFiniteSet(g[i].envs)
      BY <3>2, <3>3, <3>4, JoinRowsFinite
    <3> QED BY <2>1, <3>5
  <2> QED BY <2>3, <2>4
<1>5. n \in 0 .. n
  BY <1>1
<1> QED BY <1>3, <1>4, <1>5

-----------------------------------------------------------------------------
(***************************************************************************)
(* Statements touch the rows that are meant.                               *)
(***************************************************************************)
LEMMA RanIs ==
    ASSUME IInv, NEW kind, Ran(kind)
    PROVE  /\ builder.kind = kind /\ outcome.before = Tables
           /\ ~Refuses(builder) /\ RunOn(Tables, builder).ok
           /\ db = RunOn(Tables, builder).db
           /\ outcome.rows = RunOn(Tables, builder).rows
           /\ builder.kind # "none" => builder.entity.table \in DOMAIN Tables
BY DEF IInv, Ran, Outcomes, Shape

LEMMA StatementIs ==
    ASSUME NEW b
    PROVE  LET s == Statement(b)
           IN  /\ s.table = b.entity.table /\ s.joins = b.joins
               /\ s.where = Where(b.filters) /\ s.conflict = b.conflict
               /\ s.order = b.order /\ s.limit = b.limit /\ s.offset = b.offset
               /\ s.returning = b.returning
               /\ s.values = [i \in DOMAIN b.values |->
                                [b.values[i] EXCEPT !.value = ToWasiParam(@)]]
BY DEF Statement

LEMMA AskedIs ==
    ASSUME IInv, NEW env
    PROVE  Satisfies(Where(builder.filters), env) <=> Asked(env)
<1>1. AskedFilters(builder, asked)
  BY Parts
<1> QED BY <1>1, FiltersMean DEF Asked

LEMMA MatchingIs ==
    ASSUME IInv
    PROVE  Matching(Tables, Statement(builder))
             = {r \in Tables[builder.entity.table] :
                  Asked(Alone(builder.entity.table, r))}
<1> DEFINE s == Statement(builder)
           t == builder.entity.table
<1>1. s.table = t /\ s.where = Where(builder.filters)
  BY StatementIs
<1>2. Matching(Tables, s)
        = {r \in Tables[s.table] : Satisfies(s.where, Alone(s.table, r))}
  BY DEF Matching
<1> HIDE DEF s
<1>3. \A r \in Tables[t] : Satisfies(s.where, Alone(t, r)) <=> Asked(Alone(t, r))
  BY <1>1, AskedIs
<1> QED BY <1>1, <1>2, <1>3 DEF s

LEMMA DeletesMatching ==
    ASSUME IInv, Ran("delete")
    PROVE  LET table == builder.entity.table
               hit == {r \in outcome.before[table] : Asked(Alone(table, r))}
           IN  /\ db[table] = outcome.before[table] \ hit
               /\ outcome.rows = {Restrict(r, builder.returning) : r \in hit}
<1> DEFINE s == Statement(builder)
           t == builder.entity.table
           M == Matching(Tables, s)
<1>1. /\ builder.kind = "delete" /\ outcome.before = Tables /\ t \in DOMAIN Tables
      /\ db = RunOn(Tables, builder).db /\ outcome.rows = RunOn(Tables, builder).rows
  BY RanIs
<1>2. RunOn(Tables, builder) = Delete(Tables, s)
  BY <1>1 DEF RunOn
<1>3. s.table = t /\ s.returning = builder.returning
  BY StatementIs
<1>4. M = {r \in Tables[t] : Asked(Alone(t, r))}
  BY MatchingIs
<1> HIDE DEF s, M
<1>5. Delete(Tables, s).db = [Tables EXCEPT ![s.table] = @ \ M]
      /\ Delete(Tables, s).rows = Returned(s, M)
  BY DEF Delete, Done, M
<1>6. db[t] = Tables[t] \ M /\ outcome.rows = Returned(s, M)
  BY <1>1, <1>2, <1>3, <1>5
<1>7. Returned(s, M) = {Restrict(r, builder.returning) : r \in M}
  BY <1>3 DEF Returned
<1> QED BY <1>1, <1>4, <1>6, <1>7

LEMMA UpdatesMatching ==
    ASSUME IInv, Ran("update")
    PROVE  LET table == builder.entity.table
               hit == {r \in outcome.before[table] : Asked(Alone(table, r))}
               updated == {Assigned(r, Range(Statement(builder).values)) : r \in hit}
           IN  /\ db[table] = (outcome.before[table] \ hit) \cup updated
               /\ outcome.rows = {Restrict(r, builder.returning) : r \in updated}
<1> DEFINE s == Statement(builder)
           t == builder.entity.table
           M == Matching(Tables, s)
           U == {Assigned(r, Range(s.values)) : r \in M}
<1>1. /\ builder.kind = "update" /\ outcome.before = Tables /\ t \in DOMAIN Tables
      /\ RunOn(Tables, builder).ok
      /\ db = RunOn(Tables, builder).db /\ outcome.rows = RunOn(Tables, builder).rows
  BY RanIs
<1>2. RunOn(Tables, builder) = Update(Tables, s)
  BY <1>1 DEF RunOn
<1>3. s.table = t /\ s.returning = builder.returning
  BY StatementIs
<1>4. M = {r \in Tables[t] : Asked(Alone(t, r))}
  BY MatchingIs
<1>5. U = {Assigned(r, Range(Statement(builder).values)) : r \in M}
  OBVIOUS
<1> HIDE DEF s
<1>6. \/ Update(Tables, s) = Done([Tables EXCEPT ![s.table] = (Tables[s.table] \ M) \cup U],
                                 Returned(s, U))
      \/ Update(Tables, s) = Refused(Tables)
  BY DEF Update
<1> HIDE DEF M, U
<1>7. /\ Update(Tables, s).db = [Tables EXCEPT ![s.table] = (Tables[s.table] \ M) \cup U]
      /\ Update(Tables, s).rows = Returned(s, U)
  <2>1. Refused(Tables).ok = FALSE
    BY DEF Refused
  <2>2. Update(Tables, s) # Refused(Tables)
    BY <1>1, <1>2, <2>1
  <2> QED BY <1>6, <2>2 DEF Done
<1>8. db[t] = (Tables[t] \ M) \cup U /\ outcome.rows = Returned(s, U)
  BY <1>1, <1>2, <1>3, <1>7
<1>9. Returned(s, U) = {Restrict(r, builder.returning) : r \in U}
  BY <1>3 DEF Returned
<1> QED BY <1>1, <1>4, <1>5, <1>8, <1>9

LEMMA SelectsMatching ==
    ASSUME IInv, Ran("select")
    PROVE  LET joined == Joined(outcome.before, Statement(builder))
               asks == {e \in joined : Asked(e)}
               left == Max({0, Cardinality(asks) - builder.offset})
           IN  /\ outcome.rows \subseteq asks
               /\ Cardinality(outcome.rows) =
                    IF builder.limit = Null THEN left ELSE Min({left, builder.limit})
<1> DEFINE s == Statement(builder)
           t == builder.entity.table
           rows == Selected(Tables, s)
<1>1. /\ builder.kind = "select" /\ outcome.before = Tables /\ t \in DOMAIN Tables
      /\ outcome.rows = RunOn(Tables, builder).rows
  BY RanIs
<1>2. RunOn(Tables, builder) = Done(Tables, Page(Tables, s))
  BY <1>1 DEF RunOn
<1>3. /\ s.table = t /\ s.where = Where(builder.filters) /\ s.joins = builder.joins
      /\ s.order = builder.order /\ s.limit = builder.limit
      /\ s.offset = builder.offset
  BY StatementIs
<1> HIDE DEF s
<1>4. outcome.rows = Page(Tables, s)
  BY <1>1, <1>2 DEF Done
<1>5. rows = {e \in Joined(Tables, s) : Asked(e)}
  <2>1. \A e : Satisfies(s.where, e) <=> Asked(e)
    BY <1>3, AskedIs
  <2> QED BY <2>1 DEF Selected
<1>6. IsFiniteSet(rows)
  <2>1. \A x \in DOMAIN Tables : IsFiniteSet(Tables[x])
    BY OrmAssumption DEF IsTable
  <2>2. /\ IsSeq(s.joins) /\ Len(s.joins) = Len(asked.on)
        /\ \A i \in 1 .. Len(asked.on) :
             IsJoin(asked.on[i]) /\ s.joins[i] = IntoJoinSpec(asked.on[i], t)
    BY <1>3, Parts DEF AskedJoins
  <2>3. ASSUME NEW i \in 1 .. Len(s.joins) PROVE s.joins[i].table \in DOMAIN Tables
    <3>1. s.joins[i].table = asked.on[i].table
      <4>1. \A j : IntoJoinSpec(j, t).table = j.table
        BY DEF IntoJoinSpec
      <4>2. s.joins[i] = IntoJoinSpec(asked.on[i], t)
        BY <2>2
      <4> QED BY <4>1, <4>2
    <3> QED BY <2>2, <3>1 DEF IsJoin
  <2>4. IsFiniteSet(Joined(Tables, s))
    BY <1>1, <1>3, <2>1, <2>2, <2>3, JoinedFinite
  <2>5. rows \subseteq Joined(Tables, s)
    BY <1>5
  <2> QED BY <2>4, <2>5, FS_Subset
<1>7. IsSeq(s.order) /\ s.offset \in Nat /\ (s.limit = Null \/ s.limit \in Nat)
  BY <1>3, Parts
<1> DEFINE left == Max({0, Cardinality(rows) - s.offset})
<1>8. /\ Page(Tables, s) \subseteq rows
      /\ Cardinality(Page(Tables, s)) =
           IF s.limit = Null THEN left ELSE Min({left, s.limit})
  BY <1>6, <1>7, PageIs
<1> HIDE DEF rows
<1> QED BY <1>1, <1>3, <1>4, <1>5, <1>8 DEF s

(* UPDATE, DELETE and SELECT touch the rows for which the caller's filters,
   all of them, hold as they were written, and no others; a query returns of
   those as many as its limit and offset leave. *)
THEOREM TouchesMatching == Spec => []OnlyMatching
<1>1. IInv => OnlyMatching
  BY DeletesMatching, UpdatesMatching, SelectsMatching DEF OnlyMatching
<1> QED BY <1>1, Invariant, PTL

-----------------------------------------------------------------------------
(***************************************************************************)
(* Inserts: a column takes the one value that is set for it.               *)
(***************************************************************************)
Once(values) == IsInjective([i \in DOMAIN values |-> values[i].column])

LEMMA AssignedAt ==
    ASSUME NEW row, NEW values, Once(values), NEW c \in DOMAIN row
    PROVE  /\ \A i \in DOMAIN values :
                values[i].column = c =>
                  Assigned(row, Range(values))[c] = values[i].value
           /\ (\A i \in DOMAIN values : values[i].column # c) =>
                Assigned(row, Range(values))[c] = row[c]
<1> DEFINE set == {p \in Range(values) : p.column = c}
<1>1. Assigned(row, Range(values))[c] =
        IF set = {} THEN row[c] ELSE (CHOOSE p \in set : TRUE).value
  BY DEF Assigned
<1>2. \A p \in Range(values) : \E i \in DOMAIN values : values[i] = p
  BY DEF Range
<1>3. ASSUME NEW i \in DOMAIN values, values[i].column = c
      PROVE  set = {values[i]}
  <2>1. values[i] \in set
    BY <1>3 DEF Range
  <2>2. ASSUME NEW p \in set PROVE p = values[i]
    <3>1. PICK j \in DOMAIN values : values[j] = p
      BY <1>2
    <3>2. j = i
      BY <1>3, <2>2, <3>1 DEF Once, IsInjective
    <3> QED BY <3>1, <3>2
  <2> HIDE DEF set
  <2> QED BY <2>1, <2>2
<1>4. ASSUME \A i \in DOMAIN values : values[i].column # c PROVE set = {}
  BY <1>2, <1>4
<1> HIDE DEF set
<1>5. ASSUME NEW i \in DOMAIN values, values[i].column = c
      PROVE  Assigned(row, Range(values))[c] = values[i].value
  <2>1. set = {values[i]}
    BY <1>3, <1>5
  <2>2. (CHOOSE p \in set : TRUE) = values[i]
    BY <2>1
  <2> QED BY <1>1, <2>1, <2>2
<1> QED BY <1>1, <1>4, <1>5

(* The row an insert makes, the rows that have its key, and what these become
   when the target is updated. *)
NewRow(s) == Assigned(NullRow(s.table), Range(s.values))

OldRows(d, s) == {r \in d[s.table] : r[Key[s.table]].v = NewRow(s)[Key[s.table]].v}

Merged(d, s) ==
    {[c \in DOMAIN r |-> IF c \in s.conflict[1].columns THEN NewRow(s)[c] ELSE r[c]] :
       r \in OldRows(d, s)}

Put(d, s, rows) == [d EXCEPT ![s.table] = (@ \ OldRows(d, s)) \cup rows]

LEMMA InsertIs ==
    ASSUME NEW d, NEW s, Insert(d, s).ok
    PROVE  /\ Assigns(s.table, s.values) /\ ConflictClause(s)
           /\ NewRow(s)[Key[s.table]].v # Null
           /\ OldRows(d, s) = {} => Insert(d, s).db = Put(d, s, {NewRow(s)})
           /\ OldRows(d, s) # {} => s.conflict # <<>>
           /\ OldRows(d, s) # {} /\ s.conflict[1].update =>
                Insert(d, s).db = Put(d, s, Merged(d, s))
<1>1. Insert(d, s) =
        IF \/ ~Assigns(s.table, s.values) \/ ~ConflictClause(s)
           \/ NewRow(s)[Key[s.table]].v = Null
          THEN Refused(d)
        ELSE IF OldRows(d, s) = {} THEN Done(Put(d, s, {NewRow(s)}), {})
        ELSE IF s.conflict = <<>> THEN Refused(d)
        ELSE IF s.conflict # <<>> /\ s.conflict[1].update
          THEN Done(Put(d, s, Merged(d, s)), {})
        ELSE Done(d, {})
  BY DEF Insert, NewRow, OldRows, Put, Merged
<1>2. Refused(d).ok = FALSE
  BY DEF Refused
<1>3. \A e : Done(e, {}).db = e
  BY DEF Done
<1> QED BY <1>1, <1>2, <1>3

(* The values an insert sets, and the row they make. *)
LEMMA InsertedRow ==
    ASSUME IInv, Ran("insert")
    PROVE  LET t == builder.entity.table
               s == Statement(builder)
           IN  /\ t \in DOMAIN Tables /\ s.table = t
               /\ Key[t] \in DOMAIN Columns[t] /\ DOMAIN NewRow(s) = DOMAIN Columns[t]
               /\ DOMAIN s.values = DOMAIN builder.values /\ Once(s.values)
               /\ \A i \in DOMAIN s.values :
                    /\ s.values[i].column = builder.values[i].column
                    /\ s.values[i].value = ToWasiParam(builder.values[i].value)
                    /\ s.values[i].column \in DOMAIN Columns[t]
                    /\ NewRow(s)[s.values[i].column] = s.values[i].value
                    /\ s.values[i].column = Key[t] => IsKey(t, s.values[i].value)
               /\ \E i \in DOMAIN s.values : s.values[i].column = Key[t]
<1> DEFINE t == builder.entity.table
           b == builder
           s == Statement(b)
           row == NullRow(t)
<1>1. /\ b.kind = "insert" /\ t \in DOMAIN Tables /\ RunOn(Tables, b).ok
  BY RanIs
<1>2. RunOn(Tables, b) = Insert(Tables, s)
  BY <1>1 DEF RunOn
<1>3. s.table = t /\ s.values = [i \in DOMAIN b.values |->
                                  [b.values[i] EXCEPT !.value = ToWasiParam(@)]]
  BY StatementIs
<1>4. IsSeq(b.values) /\ Settable(t, Values \cup Range(b.values))
  BY <1>1, Parts DEF Inserts
<1> HIDE DEF s
<1>5. Assigns(t, s.values) /\ NewRow(s)[Key[t]].v # Null
  <2>1. Insert(Tables, s).ok
    BY <1>1, <1>2
  <2>2. Assigns(s.table, s.values) /\ NewRow(s)[Key[s.table]].v # Null
    BY <2>1, InsertIs
  <2>3. s.table = t
    BY <1>3
  <2> QED BY <2>2, <2>3
<1>6. Once(s.values) /\ \A i \in DOMAIN s.values : s.values[i].column \in DOMAIN Columns[t]
  BY <1>5 DEF Assigns, Once
<1>7. Key[t] \in DOMAIN Columns[t]
  <2>1. IsTable(t, Tables[t])
    BY <1>1, OrmAssumption
  <2> QED BY <2>1 DEF IsTable
<1>8. DOMAIN row = DOMAIN Columns[t] /\ row[Key[t]].v = Null
  BY <1>7 DEF NullRow, Typed
<1>9. DOMAIN NewRow(s) = DOMAIN Columns[t] /\ NewRow(s) = Assigned(row, Range(s.values))
  BY <1>3, <1>8 DEF NewRow, Assigned
<1>10. DOMAIN s.values = DOMAIN b.values
  BY <1>3
<1>11. ASSUME NEW i \in DOMAIN s.values
       PROVE  /\ s.values[i].column = b.values[i].column
              /\ s.values[i].value = ToWasiParam(b.values[i].value)
              /\ b.values[i].column = Key[t] => IsKey(t, ToWasiParam(b.values[i].value))
  <2> DEFINE p == b.values[i]
  <2>1. p \in Range(b.values)
    BY <1>10 DEF Range
  <2>2. /\ DOMAIN p = {"column", "value"}
        /\ p.column = Key[t] => IsKey(t, ToWasiParam(p.value))
    BY <1>4, <2>1 DEF Settable
  <2>3. s.values[i] = [p EXCEPT !.value = ToWasiParam(@)]
    BY <1>3, <1>10
  <2> HIDE DEF p
  <2>4. s.values[i].column = p.column /\ s.values[i].value = ToWasiParam(p.value)
    BY <2>2, <2>3
  <2> QED BY <2>2, <2>4 DEF p
<1> HIDE DEF row
<1>12. ASSUME NEW i \in DOMAIN s.values
       PROVE  NewRow(s)[s.values[i].column] = s.values[i].value
  <2>1. s.values[i].column \in DOMAIN row
    BY <1>6, <1>8
  <2> QED BY <1>6, <1>9, <2>1, AssignedAt
<1>13. \E i \in DOMAIN s.values : s.values[i].column = Key[t]
  <2> SUFFICES ASSUME \A i \in DOMAIN s.values : s.values[i].column # Key[t]
               PROVE  FALSE
    OBVIOUS
  <2>1. NewRow(s)[Key[t]] = row[Key[t]]
    BY <1>6, <1>7, <1>8, <1>9, AssignedAt
  <2> QED BY <1>5, <1>8, <2>1
<1> QED BY <1>1, <1>3, <1>6, <1>7, <1>9, <1>10, <1>11, <1>12, <1>13 DEF s

LEMMA UpsertsAll == IInv => UpsertAll
<1> DEFINE t == builder.entity.table
           s == Statement(builder)
           K == Key[t]
           values == Range(s.values)
           keys == {p.value.v : p \in {q \in values : q.column = K}}
           old == {r \in outcome.before[t] : r[K].v \in keys}
           new == NewRow(s)
<1> SUFFICES ASSUME IInv, Ran("insert"), asked.updateAll, old # {}
             PROVE  db[t] = (outcome.before[t] \ old) \cup
                              {Assigned(r, values) : r \in old}
  BY DEF UpsertAll
<1>1. /\ builder.kind = "insert" /\ outcome.before = Tables
      /\ RunOn(Tables, builder).ok /\ db = RunOn(Tables, builder).db
  BY RanIs
<1>2. RunOn(Tables, builder) = Insert(Tables, s)
  BY <1>1 DEF RunOn
<1>3. /\ t \in DOMAIN Tables /\ s.table = t
      /\ K \in DOMAIN Columns[t] /\ DOMAIN new = DOMAIN Columns[t]
      /\ DOMAIN s.values = DOMAIN builder.values /\ Once(s.values)
      /\ \A i \in DOMAIN s.values :
           /\ s.values[i].column = builder.values[i].column
           /\ s.values[i].column \in DOMAIN Columns[t]
           /\ new[s.values[i].column] = s.values[i].value
           /\ s.values[i].column = K => IsKey(t, s.values[i].value)
      /\ \E i \in DOMAIN s.values : s.values[i].column = K
  BY InsertedRow
<1>4. /\ builder.conflict # <<>> /\ builder.conflict[1].update
      /\ builder.conflict[1].columns = UpdateColumns(builder)
      /\ s.conflict = builder.conflict
  BY Parts, StatementIs DEF Conflicts
<1>5. UpdateColumns(builder) =
        {p.column : p \in Range(builder.values)} \ Range(builder.conflict[1].target)
  BY DEF UpdateColumns
<1> HIDE DEF s, new
<1>6. /\ ConflictClause(s)
      /\ OldRows(Tables, s) # {} => Insert(Tables, s).db = Put(Tables, s, Merged(Tables, s))
  <2>1. Insert(Tables, s).ok
    BY <1>1, <1>2
  <2>2. s.conflict[1].update
    BY <1>4
  <2> QED BY <2>1, <2>2, InsertIs
<1>7. builder.conflict[1].target = <<K>>
  BY <1>3, <1>4, <1>6 DEF ConflictClause
<1>8. keys = {new[K].v}
  <2>1. ASSUME NEW k \in keys PROVE k = new[K].v
    <3>1. PICK p \in values : p.column = K /\ k = p.value.v
      BY <2>1
    <3>2. PICK i \in DOMAIN s.values : p = s.values[i]
      BY DEF Range
    <3> QED BY <1>3, <3>1, <3>2
  <2>2. new[K].v \in keys
    <3>1. PICK i \in DOMAIN s.values : s.values[i].column = K
      BY <1>3
    <3>2. s.values[i] \in values /\ new[K] = s.values[i].value
      BY <1>3, <3>1 DEF Range
    <3> QED BY <3>1, <3>2
  <2> HIDE DEF keys
  <2> QED BY <2>1, <2>2
<1>9. OldRows(Tables, s) = old
  <2>1. old = {r \in Tables[t] : r[K].v = new[K].v}
    BY <1>1, <1>8
  <2> HIDE DEF old
  <2> QED BY <1>3, <2>1 DEF OldRows, new
<1>10. \A c : c \in s.conflict[1].columns <=>
                c # K /\ \E i \in DOMAIN s.values : s.values[i].column = c
  <2>1. Range(<<K>>) = {K}
    BY DEF Range
  <2>2. s.conflict[1].columns = {p.column : p \in Range(builder.values)} \ {K}
    BY <1>4, <1>5, <1>7, <2>1
  <2>3. \A c : c \in {p.column : p \in Range(builder.values)} <=>
                 \E i \in DOMAIN builder.values : builder.values[i].column = c
    BY DEF Range
  <2>4. DOMAIN s.values = DOMAIN builder.values
    BY <1>3
  <2>5. \A i \in DOMAIN s.values : s.values[i].column = builder.values[i].column
    BY <1>3
  <2>6. \A c : (\E i \in DOMAIN builder.values : builder.values[i].column = c) <=>
                 \E i \in DOMAIN s.values : s.values[i].column = c
    BY <2>4, <2>5
  <2> QED BY <2>2, <2>3, <2>6
<1> DEFINE merge(r) ==
             [c \in DOMAIN r |-> IF c \in s.conflict[1].columns THEN new[c] ELSE r[c]]
<1>11. ASSUME NEW r \in old PROVE merge(r) = Assigned(r, values)
  <2>1. DOMAIN r = DOMAIN Columns[t] /\ IsKey(t, r[K]) /\ r[K].v = new[K].v
    <3>1. r \in Tables[t]
      BY <1>1
    <3>2. IsTable(t, Tables[t])
      BY <1>3, OrmAssumption
    <3>3. r[K].v \in keys
      OBVIOUS
    <3> HIDE DEF keys
    <3> QED BY <1>8, <3>1, <3>2, <3>3 DEF IsTable
  <2>2. ASSUME NEW c \in DOMAIN r
        PROVE  (IF c \in s.conflict[1].columns THEN new[c] ELSE r[c])
                 = Assigned(r, values)[c]
    <3>1. /\ \A i \in DOMAIN s.values :
               s.values[i].column = c => Assigned(r, values)[c] = s.values[i].value
          /\ (\A i \in DOMAIN s.values : s.values[i].column # c) =>
               Assigned(r, values)[c] = r[c]
      BY <1>3, AssignedAt
    <3>2. CASE \A i \in DOMAIN s.values : s.values[i].column # c
      BY <1>10, <3>1, <3>2
    <3>3. ASSUME NEW i \in DOMAIN s.values, s.values[i].column = c
          PROVE  (IF c \in s.conflict[1].columns THEN new[c] ELSE r[c])
                   = Assigned(r, values)[c]
      <4>1. new[c] = s.values[i].value /\ Assigned(r, values)[c] = s.values[i].value
        BY <1>3, <3>1, <3>3
      <4>2. CASE c # K
        <5>1. c \in s.conflict[1].columns
          BY <1>10, <3>3, <4>2
        <5> QED BY <4>1, <5>1
      <4>3. CASE c = K
        <5>1. c \notin s.conflict[1].columns
          BY <1>10, <4>3
        <5>2. IsKey(t, new[c])
          BY <1>3, <3>3, <4>1, <4>3
        <5>3. new[c] = r[c]
          BY <2>1, <4>3, <5>2 DEF IsKey
        <5> QED BY <4>1, <5>1, <5>3
      <4> QED BY <4>2, <4>3
    <3> QED BY <3>2, <3>3
  <2>3. Assigned(r, values) = [c \in DOMAIN r |-> Assigned(r, values)[c]]
    BY DEF Assigned
  <2> QED BY <2>2, <2>3, Zenon
<1>12. Merged(Tables, s) = {Assigned(r, values) : r \in old}
  <2>1. Merged(Tables, s) = {merge(r) : r \in OldRows(Tables, s)}
    BY DEF Merged, new
  <2> HIDE DEF old, values, merge
  <2>2. ASSUME NEW x \in {merge(r) : r \in old} PROVE x \in {Assigned(r, values) : r \in old}
    BY <1>11
  <2>3. ASSUME NEW x \in {Assigned(r, values) : r \in old} PROVE x \in {merge(r) : r \in old}
    BY <1>11
  <2> QED BY <1>9, <2>1, <2>2, <2>3
<1>13. db = Put(Tables, s, Merged(Tables, s))
  BY <1>1, <1>2, <1>6, <1>9
<1> HIDE DEF old
<1>14. db[t] = (Tables[t] \ old) \cup Merged(Tables, s)
  BY <1>3, <1>9, <1>13 DEF Put
<1> QED BY <1>1, <1>12, <1>14

(* After an upsert with do_update_all and nothing set since, the row of the
   key has the values that were set and keeps its other columns; every other
   row stays as it is. *)
THEOREM UpsertsAllColumns == Spec => []UpsertAll
BY UpsertsAll, Invariant, PTL

-----------------------------------------------------------------------------
(***************************************************************************)
(* An inserted entity reads back.                                          *)
(***************************************************************************)
Node(op, column, args, neg) ==
    [kind |-> op, left |-> Unqualified(column), args |-> args, neg |-> neg]

LEMMA TestIs ==
    ASSUME NEW op, NEW column, NEW args, NEW neg
    PROVE  /\ DOMAIN Test(op, column, args, neg) = {<<>>}
           /\ Test(op, column, args, neg)[<<>>] = Node(op, column, args, neg)
BY DEF Test, Leaf, Node

(* What the constructors of tests build is a filter. *)
LEMMA TestIsFilter ==
    ASSUME NEW op, op \notin Combinators, op # "value", NEW column,
           NEW args, IsSeq(args), \A i \in DOMAIN args : "table" \notin DOMAIN args[i],
           NEW neg
    PROVE  IsFilter(Test(op, column, args, neg))
<1> DEFINE f == Test(op, column, args, neg)
           node == Node(op, column, args, neg)
<1>1. DOMAIN f = {<<>>} /\ f[<<>>] = node
  BY TestIs
<1>2. /\ node.kind = op /\ node.left = Unqualified(column) /\ node.args = args
      /\ DOMAIN node = {"kind", "left", "args", "neg"}
      /\ DOMAIN Unqualified(column) = {"table", "column"}
  BY DEF Unqualified, Node
<1> HIDE DEF f, node
<1>3. IsFiniteSet(DOMAIN f) /\ <<>> \in DOMAIN f
  BY <1>1, FS_Singleton
<1>4. \A p \in DOMAIN f : p = <<>> /\ p \in Seq(Nat)
  BY <1>1
<1>5. args \in Seq(Range(args))
  BY DEF IsSeq
<1> QED BY <1>1, <1>2, <1>3, <1>4, <1>5 DEF IsFilter, f

LEMMA SingletonSeq ==
    ASSUME NEW a
    PROVE  /\ IsSeq(<<a>>) /\ Range(<<a>>) = {a} /\ DOMAIN <<a>> = {1}
           /\ Len(<<a>>) = 1 /\ <<a>>[1] = a
<1>1. /\ <<a>> \in Seq({a}) /\ DOMAIN <<a>> = 1 .. 1 /\ Len(<<a>>) = 1
      /\ <<a>>[1] = a /\ 1 .. 1 = {1}
  OBVIOUS
<1>2. Range(<<a>>) = {a}
  BY <1>1 DEF Range
<1> QED BY <1>1, <1>2 DEF IsSeq

LEMMA EqualIsTrue ==
    ASSUME NEW x, NEW k, k # Null
    PROVE  Comparison("=", x, k) = True <=> x = k
<1>1. CASE x = Null
  BY <1>1 DEF Comparison, True, Unknown
<1>2. CASE x # Null
  <2>1. Comparison("=", x, k) = IF x = k THEN True ELSE False
    BY <1>2 DEF Comparison, Compares, Truth
  <2> QED BY <2>1 DEF True, False
<1> QED BY <1>1, <1>2

EqualTest(column, type, k) == Test("=", column, <<Typed(type, k)>>, FALSE)

LEMMA TestMeans ==
    ASSUME NEW column, NEW type, NEW k, k # Null, NEW table, table # NoTable, NEW env
    PROVE  Means(EqualTest(column, type, k), NoTable, table, env) = True
             <=> env[table][column].v = k
<1> DEFINE args == <<Typed(type, k)>>
           f == Test("=", column, args, FALSE)
           node == Node("=", column, args, FALSE)
           m == CHOOSE x : Saying(x, f, NoTable, table, env)
           x == env[table][column].v
           p == [op |-> "=", left |-> [v |-> x], args |-> args, neg |-> FALSE]
<1>1. IsSeq(args) /\ \A i \in DOMAIN args : "table" \notin DOMAIN args[i]
  <2>1. "table" \notin DOMAIN Typed(type, k)
    BY DEF Typed
  <2> QED BY <2>1, SingletonSeq
<1>2. IsFilter(f)
  <2> HIDE DEF args
  <2> QED BY <1>1, TestIsFilter DEF Combinators
<1>3. DOMAIN f = {<<>>} /\ f[<<>>] = node
  BY TestIs
<1>4. /\ node.kind = "=" /\ node.left.table = NoTable /\ node.left.column = column
      /\ node.args = args /\ node.neg = FALSE
  BY DEF Unqualified, Node
<1>5. /\ ValueOf([v |-> x], env) = x /\ ValueOf(args[1], env) = k
  BY DEF ValueOf, Typed
<1>6. p.op = "=" /\ p.left = [v |-> x] /\ p.args = args /\ p.neg = FALSE
  OBVIOUS
<1> HIDE DEF f, node, args
<1>7. Saying(m, f, NoTable, table, env)
  BY <1>2, SayingExists
<1>8. Means(f, NoTable, table, env) = m[<<>>]
  BY MeansIs
<1> HIDE DEF m
<1>9. m[<<>>] = Said(f, <<>>, m, NoTable, table, env)
  BY <1>3, <1>7 DEF Saying
<1>10. Home(node, NoTable, table) = table
  BY <1>4 DEF Home
<1>11. m[<<>>] = MeansTest(node, NoTable, table, env)
  BY <1>3, <1>4, <1>9 DEF Said
<1>12. MeansTest(node, NoTable, table, env) = Predicate(p, env)
  BY <1>4, <1>10 DEF MeansTest
<1> HIDE DEF p, x
<1>13. Predicate(p, env) = Comparison("=", x, k)
  BY <1>5, <1>6 DEF Predicate
<1>14. Comparison("=", x, k) = True <=> x = k
  BY EqualIsTrue
<1> QED BY <1>8, <1>11, <1>12, <1>13, <1>14 DEF f, x, args, EqualTest

(* Every type a field can have, but the one that is refused, comes back as one
   that fetch takes, and a NULL of it as None. *)
LEMMA TypesReadBack ==
    \A type \in FieldType :
      WasiType(SeaType[type]) # "unsupported" =>
        /\ WasiType(SeaType[type]) \in NullTypes
        /\ WasiType(SeaType[type]) \in Fetchable[type]
<1>1. FieldType = {"bool", "i32", "i64", "u32", "u64", "f32", "f64", "string",
                   "bytes", "date", "timestamp", "json"}
  BY DEF FieldType, SeaType
<1>2. SUFFICES ASSUME NEW type \in FieldType, WasiType(SeaType[type]) # "unsupported"
               PROVE  /\ WasiType(SeaType[type]) \in NullTypes
                      /\ WasiType(SeaType[type]) \in Fetchable[type]
  OBVIOUS
<1>3. CASE type \in {"bool", "i32", "i64", "u32"}
  BY <1>3 DEF SeaType, WasiType, NullTypes, Fetchable
<1>4. CASE type \in {"u64", "f32", "f64", "string"}
  BY <1>4 DEF SeaType, WasiType, NullTypes, Fetchable
<1>5. CASE type \in {"bytes", "date"}
  BY <1>5 DEF SeaType, WasiType, NullTypes, Fetchable
<1>6. CASE type \in {"timestamp", "json"}
  <2>1. CASE type = "timestamp"
    <3>1. SeaType[type] = "ChronoDateTimeUtc" /\ Fetchable[type] = {"Timestamp"}
      BY <2>1 DEF SeaType, Fetchable
    <3> QED BY <3>1 DEF WasiType, NullTypes
  <2>2. CASE type = "json"
    BY <1>2, <2>2 DEF SeaType, WasiType
  <2> QED BY <1>6, <2>1, <2>2
<1> QED BY <1>1, <1>3, <1>4, <1>5, <1>6

(* What the entity's own SELECT by key gives, before LIMIT and OFFSET. *)
KeyTest(table, k) == EqualTest(Key[table], "BigInt", k)

SelectByKey(entity, k) ==
    [NewBuilder("select", entity) EXCEPT
       !.filters = <<IntoExpr(KeyTest(entity.table, k), entity.table)>>]

HasKey(e, t, k) == e[t][Key[t]].v = k

LEMMA SelectsByKey ==
    ASSUME NEW entity, NEW t, t = entity.table, t # NoTable, NEW k, k # Null, NEW d
    PROVE  Selected(d, Statement(SelectByKey(entity, k)))
             = {e \in {Alone(t, r) : r \in d[t]} : HasKey(e, t, k)}
<1> DEFINE f == KeyTest(t, k)
           x == IntoExpr(f, t)
           b == SelectByKey(entity, k)
           a == [filters |-> <<<<f, NoTable>>>>]
           s == Statement(b)
           g == CHOOSE h : Joining(h, d, s, 0)
<1>1. IsFilter(f)
  <2>1. "table" \notin DOMAIN Typed("BigInt", k)
    BY DEF Typed
  <2>2. /\ IsSeq(<<Typed("BigInt", k)>>)
        /\ \A i \in DOMAIN <<Typed("BigInt", k)>> :
             "table" \notin DOMAIN <<Typed("BigInt", k)>>[i]
    BY <2>1, SingletonSeq
  <2> QED BY <2>2, TestIsFilter DEF Combinators, KeyTest, EqualTest
<1>2. \A env : Means(f, NoTable, t, env) = True <=> HasKey(env, t, k)
  <2> TAKE env
  <2>1. Means(EqualTest(Key[t], "BigInt", k), NoTable, t, env) = True
          <=> env[t][Key[t]].v = k
    BY TestMeans
  <2> QED BY <2>1 DEF KeyTest, HasKey
<1>3. x = IntoExpr(Filled(f, NoTable), t)
  BY DEF Filled
<1> HIDE DEF f
<1>4. /\ b.filters = <<x>> /\ b.entity = entity /\ b.joins = <<>>
  <2> DEFINE n == NewBuilder("select", entity)
  <2>1. n.entity = entity /\ n.joins = <<>> /\ "filters" \in DOMAIN n
    BY DEF NewBuilder
  <2>2. b = [n EXCEPT !.filters = <<x>>]
    BY DEF SelectByKey, f
  <2> HIDE DEF n, b, x
  <2> QED BY <2>1, <2>2
<1> HIDE DEF x
<1> HIDE DEF b
<1>5. AskedFilters(b, a)
  <2>1. /\ a.filters = <<<<f, NoTable>>>> /\ IsSeq(a.filters) /\ Len(a.filters) = 1
        /\ a.filters[1] = <<f, NoTable>>
    BY SingletonSeq
  <2>2. IsSeq(b.filters) /\ Len(b.filters) = 1 /\ b.filters[1] = x
    BY <1>4, SingletonSeq
  <2>3. a.filters[1][1] = f /\ a.filters[1][2] = NoTable
    BY <2>1
  <2> HIDE DEF a
  <2>4. \A i \in 1 .. 1 : i = 1
    OBVIOUS
  <2> QED BY <1>1, <1>3, <1>4, <2>1, <2>2, <2>3, <2>4 DEF AskedFilters
<1>6. \A env : Satisfies(Where(b.filters), env) <=> HasKey(env, t, k)
  <2> TAKE env
  <2>1. Satisfies(Where(b.filters), env)
          <=> \A i \in DOMAIN a.filters :
                Means(a.filters[i][1], a.filters[i][2], b.entity.table, env) = True
    <3> HIDE DEF a
    <3> QED BY <1>5, FiltersMean
  <2>2. DOMAIN a.filters = {1} /\ a.filters[1][1] = f /\ a.filters[1][2] = NoTable
    <3> DEFINE q == <<f, NoTable>>
    <3>1. a.filters = <<q>> /\ q[1] = f /\ q[2] = NoTable
      OBVIOUS
    <3> HIDE DEF q, a
    <3>2. DOMAIN <<q>> = {1} /\ <<q>>[1] = q
      BY SingletonSeq
    <3> QED BY <3>1, <3>2
  <2> HIDE DEF a
  <2>3. Satisfies(Where(b.filters), env) <=> Means(f, NoTable, t, env) = True
    BY <1>4, <2>1, <2>2
  <2> QED BY <1>2, <2>3
<1>7. /\ s.where = Where(b.filters) /\ s.joins = <<>> /\ s.table = t
  <2>1. s.where = Where(b.filters) /\ s.joins = b.joins /\ s.table = b.entity.table
    BY StatementIs
  <2> HIDE DEF s
  <2> QED BY <1>4, <2>1
<1> HIDE DEF s
<1>8. Joined(d, s) = {Alone(t, r) : r \in d[t]}
  <2>1. Len(s.joins) = 0
    BY <1>7
  <2>2. Joined(d, s) = g[0].envs
    BY <2>1, JoinedIs
  <2>3. Joining(g, d, s, 0)
    BY JoiningExists
  <2> HIDE DEF g
  <2>4. g[0] = FromTable(d, s)
    BY <2>3 DEF Joining
  <2> QED BY <1>7, <2>2, <2>4 DEF FromTable
<1>9. Selected(d, s) = {e \in Joined(d, s) : HasKey(e, t, k)}
  BY <1>6, <1>7 DEF Selected
<1> QED BY <1>8, <1>9 DEF s, b

LEMMA EntityReadsBack ==
    ASSUME NEW entity, NEW object, IsObject(entity, object), NEW row,
           \A f \in Range(entity.fields) :
             /\ f.name \in DOMAIN row
             /\ row[f.name] = ToWasiParam(Typed(SeaType[f.type], object[f.name]))
             /\ WasiType(SeaType[f.type]) # "unsupported"
    PROVE  FromRow(entity, Projected(Projection(entity), Alone(entity.table, row)))
             = object
<1> DEFINE F == Range(entity.fields)
           names == {f.name : f \in F}
           col(n) == [table |-> entity.table, column |-> n, as |-> n]
           P == Projection(entity)
           env == Alone(entity.table, row)
           q == Projected(P, env)
<1>1. /\ object = [n \in names |-> object[n]]
      /\ \A f \in F : f.type \in FieldType /\ (object[f.name] = Null => f.optional)
      /\ entity.specs = {}
  BY DEF IsObject
<1>2. P = {col(f.name) : f \in F}
  <2>1. \A f \in F : {s \in entity.specs : s.field = f.name} = {}
    BY <1>1
  <2>2. P = {LET specs == {s \in entity.specs : s.field = f.name}
             IN  IF specs = {} THEN col(f.name)
                 ELSE LET s == CHOOSE x \in specs : TRUE
                      IN  [table |-> s.table, column |-> s.column, as |-> f.name] :
             f \in F}
    BY DEF Projection
  <2> HIDE DEF F, P, col
  <2> QED BY <2>1, <2>2
<1>3. env[entity.table] = row
  BY DEF Alone
<1> HIDE DEF P, env, F
<1>4. q = [n \in {c.as : c \in P} |->
             LET c == CHOOSE x \in P : x.as = n IN env[c.table][c.column]]
  BY DEF Projected
<1>5. {c.as : c \in P} = names
  <2>1. \A n : col(n).as = n
    OBVIOUS
  <2> HIDE DEF col
  <2> QED BY <1>2, <2>1
<1>6. ASSUME NEW n \in names PROVE q[n] = row[n]
  <2> DEFINE c == CHOOSE x \in P : x.as = n
  <2>1. q[n] = env[c.table][c.column]
    BY <1>4, <1>5
  <2>2. col(n) \in P /\ col(n).as = n
    BY <1>2
  <2>3. c \in P /\ c.as = n
    <3> HIDE DEF col
    <3> QED BY <2>2
  <2> HIDE DEF c, q
  <2>4. PICK f \in F : c = col(f.name)
    BY <1>2, <2>3
  <2>5. c.table = entity.table /\ c.column = f.name /\ c.as = f.name
    BY <2>4
  <2> QED BY <1>3, <2>1, <2>3, <2>5
<1>7. DOMAIN q = names
  BY <1>4, <1>5
<1> HIDE DEF q
<1>8. ASSUME NEW f \in F
      PROVE  Fetches(f, q) /\ q[f.name].v = object[f.name]
  <2> DEFINE d == q[f.name]
             type == WasiType(SeaType[f.type])
  <2>1. f.name \in DOMAIN q /\ d = ToWasiParam(Typed(SeaType[f.type], object[f.name]))
    BY <1>6, <1>7 DEF F
  <2>2. type \in NullTypes /\ type \in Fetchable[f.type]
    <3>1. type # "unsupported" /\ f.type \in FieldType
      BY <1>1 DEF F
    <3> QED BY <3>1, TypesReadBack
  <2>3. d.type = type /\ d.v = object[f.name]
    <3>1. ToWasiParam(Typed(SeaType[f.type], object[f.name]))
            = Typed(type, object[f.name])
      BY DEF ToWasiParam, Typed
    <3> HIDE DEF d, type
    <3> QED BY <2>1, <3>1 DEF Typed
  <2> HIDE DEF type
  <2>4. Fetches(f, q)
    BY <1>1, <2>1, <2>2, <2>3 DEF Fetches, IsNull
  <2> QED BY <2>3, <2>4
<1>9. FromRow(entity, q) = [n \in names |-> q[n].v]
  BY <1>8 DEF FromRow, F
<1>10. \A n \in names : q[n].v = object[n]
  BY <1>8
<1>11. FromRow(entity, q) = [n \in names |-> object[n]]
  <2> HIDE DEF names
  <2> QED BY <1>9, <1>10
<1> QED BY <1>1, <1>11 DEF q, P, env

LEMMA ToValuesAre ==
  ASSUME NEW entity, NEW object
  PROVE  /\ DOMAIN ToValues(entity, object) = DOMAIN entity.fields
         /\ \A i \in DOMAIN entity.fields :
              /\ ToValues(entity, object)[i].column = entity.fields[i].name
              /\ ToValues(entity, object)[i].value
                   = Typed(SeaType[entity.fields[i].type], object[entity.fields[i].name])
BY DEF ToValues

LEMMA InsertReadsBack == IInv => ReadsBack
<1> SUFFICES ASSUME IInv, NEW o \in Objects, Ran("insert"), builder.calls = 0,
                    builder.entity = o.entity,
                    builder.values = ToValues(o.entity, o.object)
             PROVE  LET select == SelectByKey(o.entity, o.object[Key[o.entity.table]])
                    IN  {FromRow(o.entity, Projected(Projection(o.entity), e)) :
                           e \in Page(db, Statement(select))} = {o.object}
  BY DEF ReadsBack, SelectByKey, KeyTest, EqualTest
<1> DEFINE E == o.entity
           object == o.object
           t == E.table
           K == Key[t]
           k == object[K]
           b == builder
           s == Statement(b)
           new == NewRow(s)
           select == Statement(SelectByKey(E, k))
           page == Page(db, select)
           read(e) == FromRow(E, Projected(Projection(E), e))
<1>1. /\ b.kind = "insert" /\ outcome.before = Tables /\ ~Refuses(b)
      /\ RunOn(Tables, b).ok /\ db = RunOn(Tables, b).db
  BY RanIs
<1>2. RunOn(Tables, b) = Insert(Tables, s)
  BY <1>1 DEF RunOn
<1>3. /\ t \in DOMAIN Tables /\ s.table = t
      /\ K \in DOMAIN Columns[t] /\ DOMAIN new = DOMAIN Columns[t]
      /\ DOMAIN s.values = DOMAIN b.values
      /\ \A i \in DOMAIN s.values :
           /\ s.values[i].column = b.values[i].column
           /\ s.values[i].value = ToWasiParam(b.values[i].value)
           /\ s.values[i].column \in DOMAIN Columns[t]
           /\ new[s.values[i].column] = s.values[i].value
      /\ \E i \in DOMAIN s.values : s.values[i].column = K
  BY InsertedRow
<1>4. b.conflict = <<>> /\ s.conflict = <<>>
  <2>1. b.conflict = <<>>
    BY DEF IInv, Shape
  <2> QED BY <2>1, StatementIs
<1>5. IsObject(E, object)
  BY OrmAssumption
<1>6. /\ DOMAIN b.values = DOMAIN E.fields
      /\ \A i \in DOMAIN E.fields :
           /\ b.values[i].column = E.fields[i].name
           /\ b.values[i].value = Typed(SeaType[E.fields[i].type], object[E.fields[i].name])
  <2>1. b.values = ToValues(E, object)
    OBVIOUS
  <2> HIDE DEF b, E, object
  <2> QED BY <2>1, ToValuesAre
<1> HIDE DEF s, new
<1>7. ASSUME NEW f \in Range(E.fields)
      PROVE  /\ f.name \in DOMAIN new
             /\ new[f.name] = ToWasiParam(Typed(SeaType[f.type], object[f.name]))
             /\ WasiType(SeaType[f.type]) # "unsupported"
  <2>1. PICK i \in DOMAIN E.fields : f = E.fields[i]
    BY DEF Range
  <2>2. /\ i \in DOMAIN s.values /\ s.values[i].column = f.name
        /\ s.values[i].value = ToWasiParam(Typed(SeaType[f.type], object[f.name]))
    BY <1>3, <1>6, <2>1
  <2>3. WasiType(SeaType[f.type]) # "unsupported"
    <3>1. Convertible({v.value.type : v \in Range(b.values)}
                        \cup Bound(Where(b.filters))
                        \cup UNION {Bound(j.on) : j \in Range(b.joins)})
      BY <1>1 DEF Refuses
    <3>2. b.values[i] \in Range(b.values)
      <4> HIDE DEF b, E
      <4> QED BY <1>6, <2>1 DEF Range
    <3>3. b.values[i].value.type = SeaType[f.type]
      <4>1. \A x, y : Typed(x, y).type = x
        BY DEF Typed
      <4>2. b.values[i].value = Typed(SeaType[f.type], object[f.name])
        <5> HIDE DEF b, E, object
        <5> QED BY <1>6, <2>1
      <4> HIDE DEF b, E, object
      <4> QED BY <4>1, <4>2
    <3>4. SeaType[f.type] \in {v.value.type : v \in Range(b.values)}
      BY <3>2, <3>3
    <3> QED BY <3>1, <3>4 DEF Convertible
  <2> QED BY <1>3, <2>2, <2>3
<1>8. new[K].v = k
  <2>1. PICK i \in DOMAIN s.values : s.values[i].column = K
    BY <1>3
  <2>2. new[K] = ToWasiParam(Typed(SeaType[E.fields[i].type], object[K]))
    BY <1>3, <1>6, <2>1
  <2>3. \A x, y : ToWasiParam(Typed(x, y)).v = y
    BY DEF ToWasiParam, Typed
  <2> QED BY <2>2, <2>3
<1>9. /\ new[K].v # Null /\ OldRows(Tables, s) = {}
      /\ db = Put(Tables, s, {new})
  <2>1. Insert(Tables, s).ok
    BY <1>1, <1>2
  <2>2. /\ NewRow(s)[Key[s.table]].v # Null
        /\ OldRows(Tables, s) = {} => Insert(Tables, s).db = Put(Tables, s, {NewRow(s)})
        /\ OldRows(Tables, s) # {} => s.conflict # <<>>
    BY <2>1, InsertIs
  <2> QED BY <1>1, <1>2, <1>3, <1>4, <2>2 DEF new
<1>10. db[t] = Tables[t] \cup {new}
  BY <1>3, <1>9 DEF Put
<1>11. \A r \in Tables[t] : r[K].v # k
  BY <1>3, <1>8, <1>9 DEF OldRows, new
<1> DEFINE found == Alone(t, new)
<1>12. Selected(db, select) = {found}
  <2>1. t # NoTable /\ k # Null
    BY <1>3, <1>8, <1>9, OrmAssumption
  <2>2. Selected(db, select) = {e \in {Alone(t, r) : r \in db[t]} : HasKey(e, t, k)}
    <3> HIDE DEF k
    <3> QED BY <2>1, SelectsByKey
  <2>3. \A r : HasKey(Alone(t, r), t, k) <=> r[K].v = k
    BY DEF HasKey, Alone
  <2> HIDE DEF t, K, k, select, found
  <2>4. \A r \in db[t] : HasKey(Alone(t, r), t, k) <=> r = new
    BY <1>8, <1>10, <1>11, <2>3
  <2>5. new \in db[t]
    BY <1>10
  <2> QED BY <2>2, <2>4, <2>5 DEF found
<1>13. page = {found}
  <2>1. /\ select.offset = 0 /\ select.limit = Null /\ select.order = <<>>
    <3> DEFINE q == SelectByKey(E, k)
    <3>1. q.offset = 0 /\ q.limit = Null /\ q.order = <<>>
      BY DEF SelectByKey, NewBuilder
    <3> HIDE DEF q
    <3> QED BY <3>1, StatementIs DEF q
  <2> HIDE DEF select, found
  <2>2. IsFiniteSet(Selected(db, select)) /\ Cardinality(Selected(db, select)) = 1
    BY <1>12, FS_Singleton
  <2>3. IsSeq(select.order) /\ select.offset \in Nat
    BY <2>1, EmptyIsSeq
  <2>4. /\ page \subseteq Selected(db, select)
        /\ Cardinality(page) = Max({0, Cardinality(Selected(db, select)) - select.offset})
    BY <2>1, <2>2, <2>3, PageIs
  <2>5. Max({0, 1}) = 1 /\ 1 - 0 = 1
    BY LeastOf
  <2>6. Cardinality(page) = 1
    BY <2>1, <2>2, <2>4, <2>5
  <2>7. page # {}
    BY <2>6, FS_EmptySet
  <2> HIDE DEF page
  <2> QED BY <1>12, <2>4, <2>7
<1>14. read(found) = object
  <2> HIDE DEF E, object
  <2> QED BY <1>5, <1>7, EntityReadsBack
<1>15. {read(e) : e \in page} = {object}
  <2> HIDE DEF page, found, read, object
  <2> QED BY <1>13, <1>14
<1> QED BY <1>15

(* An entity that was inserted with from_entity and nothing else reads back,
   through its own projection and from_row, as the object it was: for every
   type a field can have, with NULL as None. *)
THEOREM InsertsReadBack == Spec => []ReadsBack
BY InsertReadsBack, Invariant, PTL

=============================================================================
