-------------------------- MODULE EnvironmentProofs --------------------------
(***************************************************************************)
(* The list of strings behaves like a map, for buffers, names and values   *)
(* of any size: EnvInv is inductive, and Environment implements EnvMap.    *)
(***************************************************************************)
EXTENDS Environment, SequenceTheorems, NaturalsInduction, WellFoundedInduction, TLAPS

Bytes == {d \in Seq(Chars) : Len(d) = EnvSize}

\* e is the end of the list d.
IsEnd(d, e) ==
  /\ e \in 1 .. EnvSize - 1 /\ d[e] = NUL /\ d[e + 1] = NUL
  /\ \A k \in 1 .. e - 1 : ~(d[k] = NUL /\ d[k + 1] = NUL)

\* The string at i ends at j.
IsString(d, i, j) ==
  /\ i \in 1 .. EnvSize /\ j \in i .. EnvSize /\ d[j] = NUL
  /\ \A k \in i .. j - 1 : d[k] # NUL

\* A string of the list d, which ends at e, begins at i.
Begins(d, e, i) == i \in 1 .. e /\ d[i] # NUL /\ (i = 1 \/ d[i - 1] = NUL)

\* The string at i is one of the variable n.
Named(d, i, n) ==
  /\ i + Len(n) <= EnvSize
  /\ \A k \in 1 .. Len(n) : d[i + k - 1] = n[k]
  /\ d[i + Len(n)] = "="

String(n, v) == n \o <<"=">> \o v

\* At i is the string of the variable n with the value v.
Entry(d, i, n, v) ==
  /\ n \in Names /\ v \in Seq(Chars) /\ \A k \in 1 .. Len(v) : v[k] # NUL
  /\ i \in 1 .. EnvSize /\ i + Len(String(n, v)) <= EnvSize
  /\ \A k \in 1 .. Len(String(n, v)) : d[i + k - 1] = String(n, v)[k]
  /\ d[i + Len(String(n, v))] = NUL

\* The list d, which ends at e, has the variable n with the value v.
Holds(d, e, n, v) == \E i : Begins(d, e, i) /\ Entry(d, i, n, v)

\* d is a list that ends at e: IsList(), in terms of the above.
ListTo(d, e) ==
  /\ d \in Bytes /\ IsEnd(d, e)
  /\ d[1] = NUL => d[2] = NUL
  /\ \A i : Begins(d, e, i) => \E n, v : Entry(d, i, n, v)
  /\ \A i, j, n, v, w :
       Begins(d, e, i) /\ Begins(d, e, j) /\ Entry(d, i, n, v) /\ Entry(d, j, n, w) => i = j

\* The strings of the list d but that at i are those of d2, moved by f.
Moves(d, e, i, d2, e2, f) ==
  /\ d2 \in Bytes /\ IsEnd(d2, e2)
  /\ d2[1] = NUL => d2[2] = NUL
  /\ \A p : Begins(d, e, p) /\ p # i => Begins(d2, e2, f[p])
  /\ \A q : Begins(d2, e2, q) => \E p : Begins(d, e, p) /\ p # i /\ f[p] = q
  /\ \A p, m, w : Begins(d, e, p) /\ p # i /\ Entry(d, p, m, w) => Entry(d2, f[p], m, w)

\* The strings of d2 are those of the list d and one at a.
Adds(d, e, a, n, v, d2, e2) ==
  /\ d2 \in Bytes /\ IsEnd(d2, e2)
  /\ d2[1] = NUL => d2[2] = NUL
  /\ \A q : Begins(d2, e2, q) <=> Begins(d, e, q) \/ q = a
  /\ \A p, m, w : Begins(d, e, p) /\ Entry(d, p, m, w) => Entry(d2, p, m, w)
  /\ Entry(d2, a, n, v)

---------------------------------------------------------------------------
(***************************************************************************)
(* Sequences, byte by byte.                                                *)
(***************************************************************************)

\* The constants.
LEMMA Constants ==
  /\ EnvSize \in Nat /\ EnvSize >= 2
  /\ NUL \in Chars /\ "=" \in Chars /\ NUL # "="
  /\ Ethaddr \in Names /\ Serverip \in Names /\ Ipaddr \in Names /\ Bootfile \in Names
  /\ EthValue \in Values
  /\ Default \in Seq(Chars) /\ Len(Default) <= EnvSize
<1>1. EnvSize \in Nat /\ EnvSize # 0 /\ EnvSize # 1
  BY EnvironmentAssumption, Zenon
<1>2. EnvSize >= 2
  BY <1>1
<1>3. NUL # "="
  BY DEF NUL
<1>. QED  BY <1>1, <1>2, <1>3, EnvironmentAssumption, Zenon

\* Names are not empty and have neither NUL nor '='.
LEMMA NameType ==
  ASSUME NEW n \in Names
  PROVE  /\ n \in Seq(Chars) /\ Len(n) \in Nat /\ Len(n) >= 1
         /\ \A k \in 1 .. Len(n) : n[k] # NUL /\ n[k] # "="
<1>1. n \in Seq(Chars) /\ n # <<>> /\ \A k \in DOMAIN n : n[k] # NUL /\ n[k] # "="
  BY EnvironmentAssumption, Zenon
<1>2. Len(n) \in Nat /\ Len(n) >= 1 /\ DOMAIN n = 1 .. Len(n)
  BY <1>1
<1>. QED  BY <1>1, <1>2, Zenon

\* Values have no NUL.
LEMMA ValueType ==
  ASSUME NEW v \in Values
  PROVE  /\ v \in Seq(Chars) /\ Len(v) \in Nat
         /\ \A k \in 1 .. Len(v) : v[k] # NUL
<1>1. v \in Seq(Chars) /\ \A k \in DOMAIN v : v[k] # NUL
  BY EnvironmentAssumption, Zenon
<1>2. Len(v) \in Nat /\ DOMAIN v = 1 .. Len(v)
  BY <1>1
<1>. QED  BY <1>1, <1>2, Zenon

\* Sequences put together.
LEMMA Joined ==
  ASSUME NEW s \in Seq(Chars), NEW t \in Seq(Chars)
  PROVE  /\ s \o t \in Seq(Chars)
         /\ Len(s) \in Nat /\ Len(t) \in Nat
         /\ Len(s \o t) = Len(s) + Len(t)
         /\ \A k \in 1 .. Len(s) + Len(t) :
              (s \o t)[k] = IF k <= Len(s) THEN s[k] ELSE t[k - Len(s)]
<1>1. Len(s) \in Nat /\ Len(t) \in Nat
  OBVIOUS
<1>. QED  BY <1>1, ConcatProperties, Zenon

\* A piece of a sequence.
LEMMA Piece ==
  ASSUME NEW s \in Seq(Chars), NEW a \in Int, NEW b \in Int, 1 <= a, a <= b + 1, b <= Len(s)
  PROVE  /\ SubSeq(s, a, b) \in Seq(Chars)
         /\ Len(SubSeq(s, a, b)) = b - a + 1
         /\ \A k \in 1 .. b - a + 1 : SubSeq(s, a, b)[k] = s[a + k - 1]
<1>1. \A k \in a .. b : s[k] \in Chars
  OBVIOUS
<1>2. /\ SubSeq(s, a, b) \in Seq(Chars)
      /\ Len(SubSeq(s, a, b)) = IF a <= b THEN b - a + 1 ELSE 0
      /\ \A k \in 1 .. b - a + 1 : SubSeq(s, a, b)[k] = s[a + k - 1]
  BY <1>1, SubSeqProperties
<1>. QED  BY <1>2

\* What is written over the bytes from i on, and what is left.
LEMMA OverwrittenBytes ==
  ASSUME NEW d \in Bytes, NEW i \in 1 .. EnvSize, NEW s \in Seq(Chars), i + Len(s) <= EnvSize + 1
  PROVE  /\ Overwritten(d, i, s) \in Bytes
         /\ \A k \in 1 .. EnvSize :
              /\ k < i \/ i + Len(s) <= k => Overwritten(d, i, s)[k] = d[k]
              /\ i <= k /\ k < i + Len(s) => Overwritten(d, i, s)[k] = s[k - i + 1]
<1>1. d \in Seq(Chars) /\ Len(d) = EnvSize
  BY Zenon DEF Bytes
<1>2. EnvSize \in Nat /\ i \in Int /\ 1 <= i /\ i <= EnvSize /\ Len(s) \in Nat
  BY Constants
<1>. DEFINE p == SubSeq(d, 1, i - 1)
<1>. DEFINE q == SubSeq(d, i + Len(s), Len(d))
<1>3. /\ p \in Seq(Chars) /\ Len(p) = i - 1
      /\ \A k \in 1 .. i - 1 : p[k] = d[k]
  <2>1. /\ p \in Seq(Chars) /\ Len(p) = (i - 1) - 1 + 1
        /\ \A k \in 1 .. (i - 1) - 1 + 1 : p[k] = d[1 + k - 1]
    <3>1. 1 \in Int /\ i - 1 \in Int /\ 1 <= 1 /\ 1 <= (i - 1) + 1 /\ i - 1 <= Len(d)
      BY <1>1, <1>2
    <3>. QED  BY <1>1, <3>1, Piece, Zenon
  <2>. QED  BY <1>2, <2>1
<1>4. /\ q \in Seq(Chars) /\ Len(q) = EnvSize - (i + Len(s)) + 1
      /\ \A k \in 1 .. EnvSize - (i + Len(s)) + 1 : q[k] = d[(i + Len(s)) + k - 1]
  <2>1. /\ i + Len(s) \in Int /\ Len(d) \in Int /\ 1 <= i + Len(s)
        /\ i + Len(s) <= Len(d) + 1 /\ Len(d) <= Len(d)
    BY <1>1, <1>2
  <2>. QED  BY <1>1, <2>1, Piece, Zenon
<1>. HIDE DEF p, q
<1>5. /\ p \o s \in Seq(Chars) /\ Len(p \o s) = Len(p) + Len(s)
      /\ \A k \in 1 .. Len(p) + Len(s) : (p \o s)[k] = IF k <= Len(p) THEN p[k] ELSE s[k - Len(p)]
  BY <1>3, Joined, Zenon
<1>. DEFINE r == (p \o s) \o q
<1>6. /\ r \in Seq(Chars) /\ Len(r) = Len(p \o s) + Len(q)
      /\ \A k \in 1 .. Len(p \o s) + Len(q) :
           r[k] = IF k <= Len(p \o s) THEN (p \o s)[k] ELSE q[k - Len(p \o s)]
  BY <1>4, <1>5, Joined, Zenon
<1>7. Overwritten(d, i, s) = r
  BY Zenon DEF Overwritten, p, q
<1>. HIDE DEF r
<1>8. Len(r) = EnvSize
  BY <1>2, <1>3, <1>4, <1>5, <1>6
<1>9. ASSUME NEW k \in 1 .. EnvSize
      PROVE  /\ k < i \/ i + Len(s) <= k => r[k] = d[k]
             /\ i <= k /\ k < i + Len(s) => r[k] = s[k - i + 1]
  <2>1. k \in 1 .. Len(p \o s) + Len(q)
    BY <1>2, <1>3, <1>4, <1>5
  <2>2. r[k] = IF k <= Len(p \o s) THEN (p \o s)[k] ELSE q[k - Len(p \o s)]
    BY <1>6, <2>1, Zenon
  <2>3. ASSUME k < i PROVE r[k] = d[k]
    <3>1. /\ k <= Len(p \o s) /\ k \in 1 .. Len(p) + Len(s) /\ k <= Len(p) /\ k \in 1 .. i - 1
      BY <1>2, <1>3, <1>5, <2>3
    <3>. QED  BY <1>3, <1>5, <2>2, <3>1, Zenon
  <2>4. ASSUME i + Len(s) <= k PROVE r[k] = d[k]
    <3>1. /\ ~(k <= Len(p \o s)) /\ k - Len(p \o s) \in 1 .. EnvSize - (i + Len(s)) + 1
          /\ (i + Len(s)) + (k - Len(p \o s)) - 1 = k
      BY <1>2, <1>3, <1>5, <2>4
    <3>. QED  BY <1>4, <2>2, <3>1, Zenon
  <2>5. ASSUME i <= k, k < i + Len(s) PROVE r[k] = s[k - i + 1]
    <3>1. /\ k <= Len(p \o s) /\ k \in 1 .. Len(p) + Len(s) /\ ~(k <= Len(p))
          /\ k - Len(p) = k - i + 1
      BY <1>2, <1>3, <1>5, <2>5
    <3>. QED  BY <1>5, <2>2, <3>1, Zenon
  <2>. QED  BY <2>3, <2>4, <2>5, Zenon
<1>. QED  BY <1>6, <1>7, <1>8, <1>9, Zenon DEF Bytes

---------------------------------------------------------------------------
(***************************************************************************)
(* Where the list and its strings end.                                     *)
(***************************************************************************)

\* Every set of numbers has a least one.
LEMMA LeastNumber ==
  ASSUME NEW T, T \subseteq Nat, T # {}
  PROVE  \E x \in T : \A y \in T : x <= y
<1>1. \E x \in T : \A y \in T : ~ (<<y, x>> \in OpToRel(<, Nat))
  BY NatLessThanWellFounded, WFMin, Zenon
<1>2. PICK x \in T : \A y \in T : ~ (<<y, x>> \in OpToRel(<, Nat))
  BY <1>1
<1>3. \A y \in T : ~ (y < x)
  BY <1>2 DEF OpToRel
<1>. QED  BY <1>3

\* Min is that one.
LEMMA MinIs ==
  ASSUME NEW T, T \subseteq Nat
  PROVE  /\ T # {} => Min(T) \in T /\ \A y \in T : Min(T) <= y
         /\ \A x \in T : (\A y \in T : x <= y) => Min(T) = x
<1>1. ASSUME T # {} PROVE Min(T) \in T /\ \A y \in T : Min(T) <= y
  <2>1. \E x \in T : \A y \in T : x <= y
    BY <1>1, LeastNumber, Zenon
  <2>. QED  BY <2>1, Zenon DEF Min
<1>2. ASSUME NEW x \in T, \A y \in T : x <= y PROVE Min(T) = x
  <2>1. Min(T) \in T /\ Min(T) <= x /\ x <= Min(T)
    BY <1>1, <1>2, Zenon
  <2>2. x \in Nat /\ Min(T) \in Nat
    BY <2>1, Zenon
  <2>. QED  BY <2>1, <2>2
<1>. QED  BY <1>1, <1>2, Zenon

\* The end of a list is the first pair of NULs.
LEMMA EndIs ==
  ASSUME NEW d \in Bytes
  PROVE  /\ \A e : IsEnd(d, e) => End(d) = e
         /\ (\E k \in 1 .. EnvSize - 1 : d[k] = NUL /\ d[k + 1] = NUL) => IsEnd(d, End(d))
<1>. DEFINE T == {k \in 1 .. Len(d) - 1 : d[k] = NUL /\ d[k + 1] = NUL}
<1>1. Len(d) = EnvSize /\ End(d) = Min(T)
  BY Zenon DEF Bytes, End
<1>2. T \subseteq Nat /\ EnvSize \in Nat
  BY <1>1, Constants
<1>3. ASSUME NEW e, IsEnd(d, e) PROVE End(d) = e
  <2>1. e \in T
    BY <1>1, <1>3, Zenon DEF IsEnd
  <2>2. ASSUME NEW y \in T, ~(e <= y) PROVE FALSE
    <3>1. y \in 1 .. e - 1
      BY <1>1, <1>2, <1>3, <2>2 DEF IsEnd
    <3>. QED  BY <1>3, <2>2, <3>1, Zenon DEF IsEnd
  <2>3. \A y \in T : e <= y
    BY <2>2, Zenon
  <2>. QED  BY <1>1, <1>2, <2>1, <2>3, MinIs, Zenon
<1>4. ASSUME NEW k \in 1 .. EnvSize - 1, d[k] = NUL, d[k + 1] = NUL PROVE IsEnd(d, End(d))
  <2>1. T # {}
    BY <1>1, <1>4, Zenon
  <2>2. End(d) \in T /\ \A y \in T : End(d) <= y
    <3>1. End(d) = Min(T)
      BY <1>1, Zenon
    <3>. HIDE DEF T
    <3>2. Min(T) \in T /\ \A y \in T : Min(T) <= y
      BY <1>2, <2>1, MinIs, Zenon
    <3>. QED  BY <3>1, <3>2, Zenon
  <2>3. ASSUME NEW y \in 1 .. End(d) - 1, d[y] = NUL, d[y + 1] = NUL PROVE FALSE
    <3>1. y \in 1 .. Len(d) - 1 /\ ~(End(d) <= y)
      BY <1>1, <1>2, <2>2, <2>3
    <3>. QED  BY <2>2, <2>3, <3>1, Zenon
  <2>. QED  BY <1>1, <2>2, <2>3, Zenon DEF IsEnd
<1>. QED  BY <1>3, <1>4, Zenon

\* A string ends at the first NUL.
LEMMA StringEndIs ==
  ASSUME NEW d \in Bytes, NEW i, NEW j, IsString(d, i, j)
  PROVE  StringEnd(d, i) = j
<1>. DEFINE T == {k \in i .. Len(d) : d[k] = NUL}
<1>1. Len(d) = EnvSize /\ StringEnd(d, i) = Min(T)
  BY Zenon DEF Bytes, StringEnd
<1>2. EnvSize \in Nat /\ i \in 1 .. EnvSize /\ j \in i .. EnvSize /\ d[j] = NUL
  BY Constants, Zenon DEF IsString
<1>3. T \subseteq Nat /\ j \in T
  BY <1>1, <1>2
<1>4. ASSUME NEW y \in T, ~(j <= y) PROVE FALSE
  <2>1. y \in i .. j - 1
    BY <1>1, <1>2, <1>4
  <2>. QED  BY <1>4, <2>1, Zenon DEF IsString
<1>5. \A y \in T : j <= y
  BY <1>4, Zenon
<1>. QED  BY <1>1, <1>3, <1>5, MinIs, Zenon

\* In the list every string ends, at its end or before.
LEMMA StringEnds ==
  ASSUME NEW d \in Bytes, NEW e, IsEnd(d, e), NEW i \in 1 .. e
  PROVE  \E j \in i .. e : IsString(d, i, j)
<1>. DEFINE T == {k \in i .. e : d[k] = NUL}
<1>1. EnvSize \in Nat /\ e \in 1 .. EnvSize - 1 /\ d[e] = NUL
  BY Constants, Zenon DEF IsEnd
<1>2. T \subseteq Nat /\ e \in T
  BY <1>1
<1>3. PICK j \in T : \A y \in T : j <= y
  BY <1>2, LeastNumber, Zenon
<1>4. ASSUME NEW k \in i .. j - 1, d[k] = NUL PROVE FALSE
  <2>1. k \in i .. e /\ ~(j <= k)
    BY <1>1, <1>3, <1>4
  <2>. QED  BY <1>3, <1>4, <2>1, Zenon
<1>5. i \in 1 .. EnvSize /\ j \in i .. EnvSize /\ d[j] = NUL /\ j \in i .. e
  BY <1>1, <1>3
<1>. QED  BY <1>4, <1>5, Zenon DEF IsString

\* The strings of a list.
LEMMA StringsAre ==
  ASSUME NEW d \in Bytes, NEW e, IsEnd(d, e), d[1] = NUL => d[2] = NUL
  PROVE  /\ End(d) = e
         /\ d[1] = NUL => e = 1
         /\ \A i : i \in Strings(d) <=> Begins(d, e, i)
<1>1. End(d) = e
  BY EndIs, Zenon
<1>2. EnvSize \in Nat /\ e \in 1 .. EnvSize - 1 /\ d[e] = NUL
  BY Constants, Zenon DEF IsEnd
<1>3. ASSUME d[1] = NUL PROVE e = 1
  <2>1. d[1] = NUL /\ d[1 + 1] = NUL
    BY <1>3
  <2>2. 1 \notin 1 .. e - 1
    BY <2>1, Zenon DEF IsEnd
  <2>. QED  BY <1>2, <2>2
<1>4. ASSUME d[1] = NUL, NEW i PROVE i \notin Strings(d) /\ ~Begins(d, e, i)
  <2>1. \A k \in 1 .. 1 : k = 1
    OBVIOUS
  <2>. QED  BY <1>3, <1>4, <2>1, Zenon DEF Strings, Begins
<1>5. ASSUME d[1] # NUL, NEW i PROVE i \in Strings(d) <=> Begins(d, e, i)
  BY <1>1, <1>5, Zenon DEF Strings, Begins
<1>. QED  BY <1>1, <1>3, <1>4, <1>5, Zenon

\* envmatch() goes by the name and the '='.
LEMMA MatchIs ==
  ASSUME NEW d \in Bytes, NEW i \in 1 .. EnvSize, NEW n \in Names
  PROVE  envmatch(d, n, i) <=> Named(d, i, n)
<1>1. d \in Seq(Chars) /\ Len(d) = EnvSize
  BY Zenon DEF Bytes
<1>2. EnvSize \in Nat /\ n \in Seq(Chars) /\ Len(n) \in Nat /\ "=" \in Chars
  BY Constants, NameType, Zenon
<1>. DEFINE s == SubSeq(d, i, i + Len(n))
<1>. DEFINE q == <<"=">>
<1>. DEFINE t == n \o q
<1>3. q \in Seq(Chars) /\ Len(q) = 1 /\ q[1] = "="
  BY <1>2
<1>. HIDE DEF q
<1>4. /\ t \in Seq(Chars) /\ Len(t) = Len(n) + 1
      /\ \A k \in 1 .. Len(n) : t[k] = n[k]
      /\ t[Len(n) + 1] = "="
  <2>1. /\ t \in Seq(Chars) /\ Len(t) = Len(n) + Len(q)
        /\ \A k \in 1 .. Len(n) + Len(q) : t[k] = IF k <= Len(n) THEN n[k] ELSE q[k - Len(n)]
    BY <1>2, <1>3, Joined, Zenon
  <2>2. /\ \A k \in 1 .. Len(n) : k \in 1 .. Len(n) + Len(q) /\ k <= Len(n)
        /\ Len(n) + 1 \in 1 .. Len(n) + Len(q) /\ ~(Len(n) + 1 <= Len(n))
        /\ (Len(n) + 1) - Len(n) = 1
    BY <1>2, <1>3
  <2>. QED  BY <1>3, <2>1, <2>2, Zenon
<1>. HIDE DEF t
<1>5. SUFFICES ASSUME i + Len(n) <= EnvSize
               PROVE  s = t <=> /\ \A k \in 1 .. Len(n) : d[i + k - 1] = n[k]
                                /\ d[i + Len(n)] = "="
  BY <1>1, Zenon DEF envmatch, Named, s, t, q
<1>6. /\ s \in Seq(Chars) /\ Len(s) = Len(n) + 1
      /\ \A k \in 1 .. Len(n) : s[k] = d[i + k - 1]
      /\ s[Len(n) + 1] = d[i + Len(n)]
  <2>1. /\ i \in Int /\ i + Len(n) \in Int /\ 1 <= i /\ i <= (i + Len(n)) + 1
        /\ i + Len(n) <= Len(d)
    BY <1>1, <1>2, <1>5
  <2>2. /\ s \in Seq(Chars) /\ Len(s) = (i + Len(n)) - i + 1
        /\ \A k \in 1 .. (i + Len(n)) - i + 1 : s[k] = d[i + k - 1]
    BY <1>1, <2>1, Piece, Zenon
  <2>3. /\ (i + Len(n)) - i + 1 = Len(n) + 1 /\ i + (Len(n) + 1) - 1 = i + Len(n)
        /\ Len(n) + 1 \in 1 .. Len(n) + 1
        /\ \A k \in 1 .. Len(n) : k \in 1 .. Len(n) + 1
    BY <1>2
  <2>. QED  BY <2>2, <2>3, Zenon
<1>. HIDE DEF s
<1>7. \A k \in 1 .. Len(n) + 1 : k \in 1 .. Len(n) \/ k = Len(n) + 1
  BY <1>2
<1>8. ASSUME \A k \in 1 .. Len(n) : d[i + k - 1] = n[k], d[i + Len(n)] = "=" PROVE s = t
  <2>1. \A k \in 1 .. Len(s) : s[k] = t[k]
    BY <1>4, <1>6, <1>7, <1>8, Zenon
  <2>. QED  BY <1>4, <1>6, <2>1, SeqEqual, Zenon
<1>9. ASSUME s = t
      PROVE  (\A k \in 1 .. Len(n) : d[i + k - 1] = n[k]) /\ d[i + Len(n)] = "="
  BY <1>4, <1>6, <1>9, Zenon
<1>. QED  BY <1>8, <1>9, Zenon

---------------------------------------------------------------------------
(***************************************************************************)
(* The variables of a list.                                                *)
(***************************************************************************)

\* The bytes of the string of a variable.
LEMMA StringBytes ==
  ASSUME NEW n \in Names, NEW v \in Seq(Chars), \A k \in 1 .. Len(v) : v[k] # NUL
  PROVE  /\ String(n, v) \in Seq(Chars)
         /\ Len(v) \in Nat /\ Len(n) \in Nat /\ Len(n) >= 1
         /\ Len(String(n, v)) = Len(n) + 1 + Len(v)
         /\ \A k \in 1 .. Len(n) : String(n, v)[k] = n[k]
         /\ String(n, v)[Len(n) + 1] = "="
         /\ \A k \in 1 .. Len(v) : String(n, v)[Len(n) + 1 + k] = v[k]
         /\ \A k \in 1 .. Len(n) + 1 + Len(v) : String(n, v)[k] # NUL
<1>. DEFINE q == <<"=">>
<1>1. q \in Seq(Chars) /\ Len(q) = 1 /\ q[1] = "="
  BY Constants
<1>2. /\ n \in Seq(Chars) /\ Len(n) \in Nat /\ Len(n) >= 1 /\ Len(v) \in Nat
      /\ \A k \in 1 .. Len(n) : n[k] # NUL
  BY NameType
<1>3. String(n, v) = (n \o q) \o v
  BY Zenon DEF String, q
<1>. HIDE DEF q
<1>. DEFINE p == n \o q
<1>4. /\ p \in Seq(Chars) /\ Len(p) = Len(n) + Len(q)
      /\ \A k \in 1 .. Len(n) + Len(q) : p[k] = IF k <= Len(n) THEN n[k] ELSE q[k - Len(n)]
  BY <1>1, <1>2, Joined, Zenon
<1>. DEFINE t == p \o v
<1>5. String(n, v) = t
  BY <1>3, Zenon
<1>. HIDE DEF p
<1>6. /\ t \in Seq(Chars) /\ Len(t) = Len(p) + Len(v)
      /\ \A k \in 1 .. Len(p) + Len(v) : t[k] = IF k <= Len(p) THEN p[k] ELSE v[k - Len(p)]
  BY <1>4, Joined, Zenon
<1>. HIDE DEF t
<1>7. Len(p) = Len(n) + 1 /\ Len(t) = Len(n) + 1 + Len(v)
  BY <1>1, <1>2, <1>4, <1>6
<1>8. ASSUME NEW k \in 1 .. Len(n) PROVE t[k] = n[k]
  <2>1. /\ k \in 1 .. Len(p) + Len(v) /\ k <= Len(p) /\ k \in 1 .. Len(n) + Len(q) /\ k <= Len(n)
    BY <1>1, <1>2, <1>7
  <2>. QED  BY <1>4, <1>6, <2>1, Zenon
<1>9. t[Len(n) + 1] = "="
  <2>1. /\ Len(n) + 1 \in 1 .. Len(p) + Len(v) /\ Len(n) + 1 <= Len(p)
        /\ Len(n) + 1 \in 1 .. Len(n) + Len(q) /\ ~(Len(n) + 1 <= Len(n))
        /\ (Len(n) + 1) - Len(n) = 1
    BY <1>1, <1>2, <1>7
  <2>. QED  BY <1>1, <1>4, <1>6, <2>1, Zenon
<1>10. ASSUME NEW k \in 1 .. Len(v) PROVE t[Len(n) + 1 + k] = v[k]
  <2>1. /\ Len(n) + 1 + k \in 1 .. Len(p) + Len(v) /\ ~(Len(n) + 1 + k <= Len(p))
        /\ (Len(n) + 1 + k) - Len(p) = k
    BY <1>2, <1>7
  <2>. QED  BY <1>6, <2>1, Zenon
<1>11. ASSUME NEW k \in 1 .. Len(n) + 1 + Len(v) PROVE t[k] # NUL
  <2>1. \/ k \in 1 .. Len(n)
        \/ k = Len(n) + 1
        \/ k - (Len(n) + 1) \in 1 .. Len(v) /\ k = Len(n) + 1 + (k - (Len(n) + 1))
    BY <1>2
  <2>2. CASE k \in 1 .. Len(n)
    BY <1>2, <1>8, <2>2, Zenon
  <2>3. CASE k = Len(n) + 1
    BY <1>9, <2>3, Constants, Zenon
  <2>4. CASE k - (Len(n) + 1) \in 1 .. Len(v) /\ k = Len(n) + 1 + (k - (Len(n) + 1))
    <3>. DEFINE l == k - (Len(n) + 1)
    <3>1. l \in 1 .. Len(v) /\ k = Len(n) + 1 + l
      BY <2>4, Zenon
    <3>. HIDE DEF l
    <3>. QED  BY <1>10, <3>1, Zenon
  <2>. QED  BY <2>1, <2>2, <2>3, <2>4, Zenon
<1>. QED  BY <1>2, <1>5, <1>6, <1>7, <1>8, <1>9, <1>10, <1>11, Zenon

\* What is known of the string of a variable.
LEMMA EntryIs ==
  ASSUME NEW d \in Bytes, NEW i, NEW n, NEW v, Entry(d, i, n, v)
  PROVE  /\ IsString(d, i, i + Len(String(n, v)))
         /\ Named(d, i, n)
<1>. DEFINE t == String(n, v)
<1>1. /\ n \in Names /\ v \in Seq(Chars) /\ \A k \in 1 .. Len(v) : v[k] # NUL
      /\ i \in 1 .. EnvSize /\ i + Len(t) <= EnvSize /\ d[i + Len(t)] = NUL
      /\ \A k \in 1 .. Len(t) : d[i + k - 1] = t[k]
  BY Zenon DEF Entry
<1>2. /\ Len(v) \in Nat /\ Len(n) \in Nat /\ Len(n) >= 1
      /\ Len(t) = Len(n) + 1 + Len(v)
      /\ \A k \in 1 .. Len(n) : t[k] = n[k]
      /\ t[Len(n) + 1] = "="
      /\ \A k \in 1 .. Len(n) + 1 + Len(v) : t[k] # NUL
  BY <1>1, StringBytes, Zenon
<1>. HIDE DEF t
<1>3. EnvSize \in Nat
  BY Constants, Zenon
<1>4. IsString(d, i, i + Len(t))
  <2>1. i + Len(t) \in i .. EnvSize
    BY <1>1, <1>2, <1>3
  <2>2. ASSUME NEW k \in i .. (i + Len(t)) - 1 PROVE d[k] # NUL
    <3>1. k - i + 1 \in 1 .. Len(t) /\ k - i + 1 \in 1 .. Len(n) + 1 + Len(v) /\ i + (k - i + 1) - 1 = k
      BY <1>1, <1>2, <2>2
    <3>. QED  BY <1>1, <1>2, <3>1, Zenon
  <2>. QED  BY <1>1, <2>1, <2>2, Zenon DEF IsString
<1>5. Named(d, i, n)
  <2>1. /\ i + Len(n) <= EnvSize /\ \A k \in 1 .. Len(n) : k \in 1 .. Len(t)
        /\ Len(n) + 1 \in 1 .. Len(t) /\ i + (Len(n) + 1) - 1 = i + Len(n)
    BY <1>1, <1>2, <1>3
  <2>. QED  BY <1>1, <1>2, <2>1, Zenon DEF Named
<1>. QED  BY <1>4, <1>5, Zenon DEF t

\* The name is inside the string.
LEMMA NameInside ==
  ASSUME NEW d \in Bytes, NEW i, NEW j, IsString(d, i, j), NEW n \in Names, Named(d, i, n)
  PROVE  i + Len(n) < j
<1>1. /\ EnvSize \in Nat /\ i \in 1 .. EnvSize /\ j \in i .. EnvSize /\ d[j] = NUL
      /\ Len(n) \in Nat /\ NUL # "="
  BY Constants, NameType, Zenon DEF IsString
<1>2. SUFFICES ASSUME j <= i + Len(n) PROVE FALSE
  BY <1>1
<1>3. \/ j = i + Len(n)
      \/ j - i + 1 \in 1 .. Len(n) /\ i + (j - i + 1) - 1 = j
  BY <1>1, <1>2
<1>4. CASE j = i + Len(n)
  BY <1>1, <1>4, Zenon DEF Named
<1>5. CASE j - i + 1 \in 1 .. Len(n) /\ i + (j - i + 1) - 1 = j
  BY <1>1, <1>5, NameType, Zenon DEF Named
<1>. QED  BY <1>3, <1>4, <1>5, Zenon

\* A string has one name.
LEMMA OneName ==
  ASSUME NEW d, NEW i \in Int, NEW n \in Names, NEW m \in Names, Named(d, i, n), Named(d, i, m)
  PROVE  n = m
<1>1. /\ n \in Seq(Chars) /\ m \in Seq(Chars) /\ Len(n) \in Nat /\ Len(m) \in Nat
  BY NameType, Zenon
<1>2. ASSUME NEW x \in Names, NEW y \in Names, Named(d, i, x), Named(d, i, y), Len(x) < Len(y)
      PROVE  FALSE
  <2>1. Len(x) \in Nat /\ Len(y) \in Nat
    BY NameType, Zenon
  <2>2. Len(x) + 1 \in 1 .. Len(y) /\ i + (Len(x) + 1) - 1 = i + Len(x)
    BY <1>2, <2>1
  <2>. QED  BY <1>2, <2>2, NameType, ZenonT(30) DEF Named
<1>3. ~(Len(n) < Len(m)) /\ ~(Len(m) < Len(n))
  BY <1>2, Zenon
<1>4. Len(n) = Len(m)
  BY <1>1, <1>3
<1>5. \A k \in 1 .. Len(n) : n[k] = m[k]
  BY <1>4, Zenon DEF Named
<1>. QED  BY <1>1, <1>4, <1>5, SeqEqual, Zenon

\* A string with a name is the string of a variable.
LEMMA NamedEntry ==
  ASSUME NEW d \in Bytes, NEW i, NEW j, IsString(d, i, j), NEW n \in Names, Named(d, i, n)
  PROVE  \E v : Entry(d, i, n, v)
<1>1. /\ EnvSize \in Nat /\ i \in 1 .. EnvSize /\ j \in i .. EnvSize /\ d[j] = NUL
      /\ \A k \in i .. j - 1 : d[k] # NUL
      /\ Len(n) \in Nat
  BY Constants, NameType, Zenon DEF IsString
<1>2. i + Len(n) < j
  BY NameInside, Zenon
<1>3. d \in Seq(Chars) /\ Len(d) = EnvSize
  BY Zenon DEF Bytes
<1>. DEFINE a == i + Len(n) + 1
<1>4. a \in Int /\ j - 1 \in Int /\ 1 <= a /\ a <= (j - 1) + 1 /\ j - 1 <= Len(d)
  BY <1>1, <1>2, <1>3
<1>. DEFINE v == SubSeq(d, a, j - 1)
<1>5. /\ v \in Seq(Chars) /\ Len(v) = (j - 1) - a + 1
      /\ \A k \in 1 .. (j - 1) - a + 1 : v[k] = d[a + k - 1]
  <2>. HIDE DEF a
  <2>. QED  BY <1>3, <1>4, Piece, Zenon
<1>. HIDE DEF v
<1>6. Len(v) = j - (i + Len(n) + 1)
  BY <1>1, <1>4, <1>5
<1>7. \A k \in 1 .. Len(v) : v[k] = d[i + Len(n) + k] /\ v[k] # NUL
  <2>1. ASSUME NEW k \in 1 .. Len(v)
        PROVE  v[k] = d[i + Len(n) + k] /\ v[k] # NUL
    <3>1. /\ k \in 1 .. (j - 1) - a + 1 /\ a + k - 1 = i + Len(n) + k
          /\ i + Len(n) + k \in i .. j - 1
      BY <1>1, <1>2, <1>6
    <3>. QED  BY <1>1, <1>5, <3>1, Zenon
  <2>. QED  BY <2>1, Zenon
<1>. HIDE DEF a
<1>. DEFINE t == String(n, v)
<1>8. /\ Len(t) = Len(n) + 1 + Len(v)
      /\ \A k \in 1 .. Len(n) : t[k] = n[k]
      /\ t[Len(n) + 1] = "="
      /\ \A k \in 1 .. Len(v) : t[Len(n) + 1 + k] = v[k]
  BY <1>5, <1>7, StringBytes, Zenon
<1>. HIDE DEF t
<1>9. i + Len(t) = j /\ i + Len(t) <= EnvSize
  BY <1>1, <1>2, <1>6, <1>8
<1>10. ASSUME NEW k \in 1 .. Len(t) PROVE d[i + k - 1] = t[k]
  <2>1. \/ k \in 1 .. Len(n)
        \/ k = Len(n) + 1 /\ i + k - 1 = i + Len(n)
        \/ /\ k - (Len(n) + 1) \in 1 .. Len(v)
           /\ k = Len(n) + 1 + (k - (Len(n) + 1))
           /\ i + k - 1 = i + Len(n) + (k - (Len(n) + 1))
    <3>1. Len(v) \in Int /\ Len(n) \in Nat /\ i \in Int
      BY <1>1, <1>6
    <3>2. Len(t) = Len(n) + 1 + Len(v)
      BY <1>8, Zenon
    <3>. QED  BY <3>1, <3>2
  <2>2. CASE k \in 1 .. Len(n)
    BY <1>8, <2>2, Zenon DEF Named
  <2>3. CASE k = Len(n) + 1 /\ i + k - 1 = i + Len(n)
    BY <1>8, <2>3, Zenon DEF Named
  <2>4. CASE /\ k - (Len(n) + 1) \in 1 .. Len(v)
             /\ k = Len(n) + 1 + (k - (Len(n) + 1))
             /\ i + k - 1 = i + Len(n) + (k - (Len(n) + 1))
    <3>. DEFINE l == k - (Len(n) + 1)
    <3>1. l \in 1 .. Len(v) /\ k = Len(n) + 1 + l /\ i + k - 1 = i + Len(n) + l
      BY <2>4, Zenon
    <3>. HIDE DEF l
    <3>. QED  BY <1>7, <1>8, <3>1, Zenon
  <2>. QED  BY <2>1, <2>2, <2>3, <2>4, Zenon
<1>. QED  BY <1>1, <1>5, <1>7, <1>9, <1>10, Zenon DEF Entry, t

\* In a list the strings of variables end before its end.
LEMMA EntryInside ==
  ASSUME NEW d \in Bytes, NEW e, IsEnd(d, e), NEW i \in 1 .. e, NEW n, NEW v, Entry(d, i, n, v)
  PROVE  i + Len(String(n, v)) <= e
<1>. DEFINE j == i + Len(String(n, v))
<1>1. PICK l \in i .. e : IsString(d, i, l)
  BY StringEnds, Zenon
<1>2. IsString(d, i, j)
  BY EntryIs, Zenon
<1>3. j = l
  BY <1>1, <1>2, StringEndIs, Zenon
<1>4. e \in Int /\ i \in Int
  BY Constants DEF IsEnd
<1>. QED  BY <1>1, <1>3, <1>4

\* The strings of a variable that getenv() finds.
LEMMA FoundIs ==
  ASSUME NEW d, NEW e, ListTo(d, e), NEW n \in Names
  PROVE  /\ \A i : i \in Found(d, n) <=> \E v : Begins(d, e, i) /\ Entry(d, i, n, v)
         /\ \A i, j : i \in Found(d, n) /\ j \in Found(d, n) => i = j
<1>1. d \in Bytes /\ IsEnd(d, e) /\ (d[1] = NUL => d[2] = NUL)
  BY Zenon DEF ListTo
<1>2. \A i : i \in Strings(d) <=> Begins(d, e, i)
  BY <1>1, StringsAre, Zenon
<1>3. \A i : Begins(d, e, i) => i \in 1 .. EnvSize /\ i \in Int
  BY <1>1, Constants DEF Begins, IsEnd
<1>4. \A i : i \in Found(d, n) <=> Begins(d, e, i) /\ Named(d, i, n)
  BY <1>1, <1>2, <1>3, MatchIs, Zenon DEF Found
<1>5. ASSUME NEW i, Begins(d, e, i), Named(d, i, n) PROVE \E v : Entry(d, i, n, v)
  <2>1. PICK m, v : Entry(d, i, m, v)
    BY <1>5, Zenon DEF ListTo
  <2>2. Named(d, i, m) /\ m \in Names
    BY <1>1, <2>1, EntryIs, Zenon DEF Entry
  <2>3. m = n
    BY <1>3, <1>5, <2>2, OneName, Zenon
  <2>. QED  BY <2>1, <2>3, Zenon
<1>6. ASSUME NEW i, NEW v, Entry(d, i, n, v) PROVE Named(d, i, n)
  BY <1>1, <1>6, EntryIs, Zenon
<1>7. \A i : i \in Found(d, n) <=> \E v : Begins(d, e, i) /\ Entry(d, i, n, v)
  BY <1>4, <1>5, <1>6, Zenon
<1>8. ASSUME NEW i, NEW j, i \in Found(d, n), j \in Found(d, n) PROVE i = j
  <2>1. PICK v : Begins(d, e, i) /\ Entry(d, i, n, v)
    BY <1>7, <1>8, Zenon
  <2>2. PICK w : Begins(d, e, j) /\ Entry(d, j, n, w)
    BY <1>7, <1>8, Zenon
  <2>. QED  BY <2>1, <2>2, Zenon DEF ListTo
<1>. QED  BY <1>7, <1>8, Zenon

\* getenv() returns the value in the list.
LEMMA GetIs ==
  ASSUME NEW d, NEW e, ListTo(d, e), NEW n \in Names, NEW v, Holds(d, e, n, v)
  PROVE  Found(d, n) # {} /\ getenv(d, n) = v
<1>1. d \in Bytes
  BY Zenon DEF ListTo
<1>2. PICK i : Begins(d, e, i) /\ Entry(d, i, n, v)
  BY Zenon DEF Holds
<1>3. Found(d, n) = {i}
  BY <1>2, FoundIs, SMT
<1>4. /\ EnvSize \in Nat /\ i \in 1 .. EnvSize /\ v \in Seq(Chars)
      /\ \A k \in 1 .. Len(v) : v[k] # NUL
  BY <1>2, Constants, Zenon DEF Entry
<1>5. Min({i}) = i
  <2>1. {i} \subseteq Nat /\ i \in {i} /\ \A y \in {i} : i <= y
    BY <1>4
  <2>. QED  BY <2>1, MinIs, Zenon
<1>. DEFINE t == String(n, v)
<1>. DEFINE a == i + Len(n) + 1
<1>. DEFINE j == i + Len(t)
<1>6. /\ Len(v) \in Nat /\ Len(n) \in Nat
      /\ Len(t) = Len(n) + 1 + Len(v)
      /\ \A k \in 1 .. Len(v) : t[Len(n) + 1 + k] = v[k]
  BY <1>4, StringBytes, Zenon
<1>7. /\ IsString(d, i, j)
      /\ j <= EnvSize /\ \A k \in 1 .. Len(t) : d[i + k - 1] = t[k]
  BY <1>1, <1>2, EntryIs, Zenon DEF Entry
<1>. HIDE DEF t
<1>8. d[j] = NUL /\ \A k \in i .. j - 1 : d[k] # NUL
  BY <1>7, Zenon DEF IsString
<1>9. IsString(d, a, j)
  <2>1. a \in 1 .. EnvSize /\ j \in a .. EnvSize /\ \A k \in a .. j - 1 : k \in i .. j - 1
    BY <1>4, <1>6, <1>7
  <2>. QED  BY <1>8, <2>1, Zenon DEF IsString
<1>10. StringEnd(d, a) = j
  BY <1>1, <1>9, StringEndIs, Zenon
<1>11. getenv(d, n) = SubSeq(d, a, j - 1)
  <2>. HIDE DEF j
  <2>. QED  BY <1>3, <1>5, <1>10, Zenon DEF getenv
<1>12. /\ SubSeq(d, a, j - 1) \in Seq(Chars) /\ Len(SubSeq(d, a, j - 1)) = (j - 1) - a + 1
       /\ \A k \in 1 .. (j - 1) - a + 1 : SubSeq(d, a, j - 1)[k] = d[a + k - 1]
  <2>1. a \in Int /\ j - 1 \in Int /\ 1 <= a /\ a <= (j - 1) + 1 /\ j - 1 <= EnvSize
    BY <1>4, <1>6, <1>7
  <2>2. d \in Seq(Chars) /\ Len(d) = EnvSize
    BY <1>1, Zenon DEF Bytes
  <2>. HIDE DEF a, j
  <2>. QED  BY <2>1, <2>2, Piece, Zenon
<1>. DEFINE s == SubSeq(d, a, j - 1)
<1>13. ASSUME NEW k \in 1 .. Len(v) PROVE s[k] = v[k]
  <2>1. /\ k \in 1 .. (j - 1) - a + 1
        /\ a + k - 1 = i + (Len(n) + 1 + k) - 1
        /\ Len(n) + 1 + k \in 1 .. Len(t)
    BY <1>4, <1>6, <1>7
  <2>2. s[k] = d[a + k - 1]
    BY <1>12, <2>1, Zenon
  <2>. QED  BY <1>6, <1>7, <2>1, <2>2, Zenon
<1>14. Len(s) = Len(v)
  <2>1. (j - 1) - a + 1 = Len(v)
    BY <1>4, <1>6
  <2>. QED  BY <1>12, <2>1, Zenon
<1>. QED
  <2>. HIDE DEF s
  <2>1. s \in Seq(Chars)
    BY <1>12, Zenon DEF s
  <2>2. s = v
    BY <1>4, <1>13, <1>14, <2>1, SeqEqual, Zenon
  <2>. QED  BY <1>3, <1>11, <2>2, Zenon DEF s

\* getenv() of a variable that is not in the list.
LEMMA GetNone ==
  ASSUME NEW d, NEW e, ListTo(d, e), NEW n \in Names
  PROVE  (\A v : ~Holds(d, e, n, v)) => Found(d, n) = {} /\ getenv(d, n) = Unset
<1>1. \A i : i \in Found(d, n) <=> \E v : Begins(d, e, i) /\ Entry(d, i, n, v)
  BY FoundIs, SMT
<1>. HAVE \A v : ~Holds(d, e, n, v)
<1>2. \A i : i \notin Found(d, n)
  BY <1>1, Zenon DEF Holds
<1>3. Found(d, n) = {}
  BY <1>2, Zenon
<1>. QED  BY <1>3, Zenon DEF getenv

\* IsList() is about names and strings.
LEMMA ListIs ==
  ASSUME NEW d
  PROVE  IsList(d) <=> \E e : ListTo(d, e)
<1>1. ASSUME IsList(d) PROVE \E e : ListTo(d, e)
  <2>1. /\ d \in Bytes /\ (d[1] = NUL => d[2] = NUL)
        /\ \E k \in 1 .. EnvSize - 1 : d[k] = NUL /\ d[k + 1] = NUL
        /\ \A i \in Strings(d) : \E n \in Names : Found(d, n) = {i}
    BY <1>1, Zenon DEF IsList, Bytes
  <2>. DEFINE e == End(d)
  <2>2. IsEnd(d, e)
    BY <2>1, EndIs, Zenon
  <2>. HIDE DEF e
  <2>3. \A i : i \in Strings(d) <=> Begins(d, e, i)
    BY <2>1, <2>2, StringsAre, Zenon
  <2>4. \A i : Begins(d, e, i) => i \in 1 .. EnvSize /\ i \in 1 .. e /\ i \in Int
    BY <2>2, Constants DEF Begins, IsEnd
  <2>5. \A i, n : n \in Names => (i \in Found(d, n) <=> Begins(d, e, i) /\ Named(d, i, n))
    BY <2>1, <2>3, <2>4, MatchIs, Zenon DEF Found
  <2>6. ASSUME NEW i, Begins(d, e, i) PROVE \E n, v : Entry(d, i, n, v)
    <3>1. PICK n \in Names : Found(d, n) = {i}
      BY <2>1, <2>3, <2>6, Zenon
    <3>2. Named(d, i, n)
      BY <2>5, <3>1, Zenon
    <3>3. PICK j \in i .. e : IsString(d, i, j)
      BY <2>1, <2>2, <2>4, <2>6, StringEnds, Zenon
    <3>. QED  BY <2>1, <3>2, <3>3, NamedEntry, Zenon
  <2>7. ASSUME NEW i, NEW j, NEW n, NEW v, NEW w, Begins(d, e, i), Begins(d, e, j),
               Entry(d, i, n, v), Entry(d, j, n, w)
        PROVE  i = j
    <3>1. PICK m \in Names : Found(d, m) = {i}
      BY <2>1, <2>3, <2>7, Zenon
    <3>2. n \in Names /\ Named(d, i, n) /\ Named(d, j, n)
      BY <2>1, <2>7, EntryIs, Zenon DEF Entry
    <3>3. Named(d, i, m)
      BY <2>5, <3>1, Zenon
    <3>4. n = m
      BY <2>4, <2>7, <3>2, <3>3, OneName, Zenon
    <3>5. j \in Found(d, m)
      BY <2>5, <2>7, <3>2, <3>4, Zenon
    <3>. QED  BY <3>1, <3>5, Zenon
  <2>. QED  BY <2>1, <2>2, <2>6, <2>7, Zenon DEF ListTo
<1>2. ASSUME NEW e, ListTo(d, e) PROVE IsList(d)
  <2>1. /\ d \in Bytes /\ IsEnd(d, e) /\ (d[1] = NUL => d[2] = NUL)
    BY <1>2, Zenon DEF ListTo
  <2>2. \A i : i \in Strings(d) <=> Begins(d, e, i)
    BY <2>1, StringsAre, Zenon
  <2>3. ASSUME NEW i \in Strings(d) PROVE \E n \in Names : Found(d, n) = {i}
    <3>1. Begins(d, e, i)
      BY <2>2, <2>3, Zenon
    <3>2. PICK n, v : Entry(d, i, n, v)
      BY <1>2, <3>1, Zenon DEF ListTo
    <3>3. n \in Names
      BY <3>2, Zenon DEF Entry
    <3>4. /\ \A j : j \in Found(d, n) <=> \E w : Begins(d, e, j) /\ Entry(d, j, n, w)
          /\ \A j, l : j \in Found(d, n) /\ l \in Found(d, n) => j = l
      BY <1>2, <3>3, FoundIs, SMT
    <3>5. i \in Found(d, n)
      BY <3>1, <3>2, <3>4, Zenon
    <3>6. Found(d, n) = {i}
      BY <3>4, <3>5, Zenon
    <3>. QED  BY <3>3, <3>6, Zenon
  <2>. QED  BY <2>1, <2>3, Zenon DEF IsList, Bytes, IsEnd
<1>. QED  BY <1>1, <1>2, Zenon

---------------------------------------------------------------------------
(***************************************************************************)
(* A string is deleted.                                                    *)
(***************************************************************************)

\* A copy of a string is the string of the same variable.
LEMMA EntryCopied ==
  ASSUME NEW d, NEW d2, NEW i, NEW j, NEW n, NEW v, Entry(d, i, n, v), j \in 1 .. EnvSize,
         j + Len(String(n, v)) <= EnvSize,
         \A k \in 0 .. Len(String(n, v)) : d2[j + k] = d[i + k]
  PROVE  Entry(d2, j, n, v)
<1>. DEFINE t == String(n, v)
<1>1. /\ n \in Names /\ v \in Seq(Chars) /\ \A k \in 1 .. Len(v) : v[k] # NUL
      /\ i \in 1 .. EnvSize /\ d[i + Len(t)] = NUL
      /\ \A k \in 1 .. Len(t) : d[i + k - 1] = t[k]
  BY Zenon DEF Entry
<1>2. Len(t) = Len(n) + 1 + Len(v) /\ Len(n) \in Nat /\ Len(v) \in Nat
  BY <1>1, StringBytes, Zenon
<1>3. EnvSize \in Nat
  BY Constants, Zenon
<1>4. \A k \in 0 .. Len(t) : d2[j + k] = d[i + k]
  BY Zenon
<1>. HIDE DEF t
<1>5. ASSUME NEW k \in 1 .. Len(t) PROVE d2[j + k - 1] = t[k]
  <2>1. k - 1 \in 0 .. Len(t)
    BY <1>2
  <2>. QED  BY <1>1, <1>4, <2>1, Zenon
<1>6. d2[j + Len(t)] = NUL
  <2>1. Len(t) \in 0 .. Len(t)
    BY <1>2
  <2>. QED  BY <1>1, <1>4, <2>1, Zenon
<1>. QED  BY <1>1, <1>5, <1>6, Zenon DEF Entry, t

\* No string begins inside another one.
LEMMA StringsApart ==
  ASSUME NEW d, NEW e \in Int, NEW i, NEW p, NEW j, Begins(d, e, p), IsString(d, i, j), p # i
  PROVE  p < i \/ j < p
<1>1. /\ EnvSize \in Nat /\ i \in 1 .. EnvSize /\ j \in i .. EnvSize /\ d[j] = NUL
      /\ \A k \in i .. j - 1 : d[k] # NUL
      /\ p \in 1 .. e /\ d[p] # NUL /\ (p = 1 \/ d[p - 1] = NUL)
  BY Constants, Zenon DEF IsString, Begins
<1>2. ASSUME i < p, p <= j PROVE FALSE
  <2>1. p - 1 \in i .. j - 1 /\ p # 1
    BY <1>1, <1>2
  <2>. QED  BY <1>1, <2>1, Zenon
<1>. QED  BY <1>1, <1>2

\* Where the strings of two variables are.
LEMMA EntriesApart ==
  ASSUME NEW d, NEW e, ListTo(d, e), NEW i, NEW p, NEW n, NEW v, Begins(d, e, p),
         Entry(d, i, n, v), p # i
  PROVE  p < i \/ i + Len(String(n, v)) < p
<1>1. d \in Bytes /\ IsEnd(d, e)
  BY Zenon DEF ListTo
<1>2. e \in Int
  BY <1>1, Constants DEF IsEnd
<1>. QED  BY <1>1, <1>2, EntryIs, StringsApart, Zenon

\* If the strings but one are moved the list has all variables but one.
LEMMA MovesKeep ==
  ASSUME NEW d, NEW e, ListTo(d, e), NEW i, NEW n, NEW v, Begins(d, e, i), Entry(d, i, n, v),
         NEW d2, NEW e2, NEW f, Moves(d, e, i, d2, e2, f)
  PROVE  /\ ListTo(d2, e2)
         /\ \A m, w : Holds(d2, e2, m, w) <=> Holds(d, e, m, w) /\ m # n
<1>1. d \in Bytes /\ d2 \in Bytes /\ IsEnd(d, e) /\ IsEnd(d2, e2)
  BY Zenon DEF ListTo, Moves
<1>2. \A q : Begins(d2, e2, q) => q \in Int
  BY <1>1, Constants DEF Begins, IsEnd
<1>3. ASSUME NEW q, NEW m, NEW w, Begins(d2, e2, q), Entry(d2, q, m, w)
      PROVE  \E p, u : Begins(d, e, p) /\ p # i /\ f[p] = q /\ Entry(d, p, m, u)
  <2>1. PICK p : Begins(d, e, p) /\ p # i /\ f[p] = q
    BY <1>3, Zenon DEF Moves
  <2>2. PICK l, u : Entry(d, p, l, u)
    BY <2>1, Zenon DEF ListTo
  <2>3. Entry(d2, q, l, u)
    BY <2>1, <2>2, Zenon DEF Moves
  <2>4. l \in Names /\ m \in Names /\ Named(d2, q, l) /\ Named(d2, q, m)
    BY <1>1, <1>3, <2>3, EntryIs, Zenon DEF Entry
  <2>5. l = m
    BY <1>2, <1>3, <2>4, OneName, Zenon
  <2>. QED  BY <2>1, <2>2, <2>5, Zenon
<1>4. ASSUME NEW q, Begins(d2, e2, q) PROVE \E m, w : Entry(d2, q, m, w)
  <2>1. PICK p : Begins(d, e, p) /\ p # i /\ f[p] = q
    BY <1>4, Zenon DEF Moves
  <2>2. PICK m, w : Entry(d, p, m, w)
    BY <2>1, Zenon DEF ListTo
  <2>. QED  BY <2>1, <2>2, Zenon DEF Moves
<1>5. ASSUME NEW q, NEW r, NEW m, NEW w, NEW x, Begins(d2, e2, q), Begins(d2, e2, r),
             Entry(d2, q, m, w), Entry(d2, r, m, x)
      PROVE  q = r
  <2>1. PICK p, u : Begins(d, e, p) /\ p # i /\ f[p] = q /\ Entry(d, p, m, u)
    BY <1>3, <1>5, Zenon
  <2>2. PICK o, y : Begins(d, e, o) /\ o # i /\ f[o] = r /\ Entry(d, o, m, y)
    BY <1>3, <1>5, Zenon
  <2>3. p = o
    BY <2>1, <2>2, Zenon DEF ListTo
  <2>. QED  BY <2>1, <2>2, <2>3, Zenon
<1>6. ListTo(d2, e2)
  <2>1. d2[1] = NUL => d2[2] = NUL
    BY Zenon DEF Moves
  <2>. QED  BY <1>1, <1>4, <1>5, <2>1, Zenon DEF ListTo
<1>7. ASSUME NEW m, NEW w, Holds(d2, e2, m, w) PROVE Holds(d, e, m, w) /\ m # n
  <2>1. PICK q : Begins(d2, e2, q) /\ Entry(d2, q, m, w)
    BY <1>7, Zenon DEF Holds
  <2>2. PICK p, u : Begins(d, e, p) /\ p # i /\ f[p] = q /\ Entry(d, p, m, u)
    BY <1>3, <2>1, Zenon
  <2>3. m # n
    BY <2>2, Zenon DEF ListTo
  <2>4. m \in Names
    BY <2>2, Zenon DEF Entry
  <2>5. Holds(d2, e2, m, u)
    BY <2>1, <2>2, Zenon DEF Moves, Holds
  <2>6. u = w
    <3>1. getenv(d2, m) = u
      BY <1>6, <2>4, <2>5, GetIs, Zenon
    <3>2. getenv(d2, m) = w
      BY <1>6, <1>7, <2>4, GetIs, Zenon
    <3>. QED  BY <3>1, <3>2, Zenon
  <2>. QED  BY <2>2, <2>3, <2>6, Zenon DEF Holds
<1>8. ASSUME NEW m, NEW w, Holds(d, e, m, w), m # n PROVE Holds(d2, e2, m, w)
  <2>1. PICK p : Begins(d, e, p) /\ Entry(d, p, m, w)
    BY <1>8, Zenon DEF Holds
  <2>2. p # i
    <3>1. ASSUME p = i PROVE FALSE
      <4>1. n \in Names /\ m \in Names /\ Named(d, i, n) /\ Named(d, i, m)
        BY <1>1, <2>1, <3>1, EntryIs, Zenon DEF Entry
      <4>2. i \in Int
        BY <1>1, Constants DEF Begins, IsEnd
      <4>3. n = m
        BY <4>1, <4>2, OneName, Zenon
      <4>. QED  BY <1>8, <4>3, Zenon
    <3>. QED  BY <3>1, Zenon
  <2>. QED  BY <2>1, <2>2, Zenon DEF Moves, Holds
<1>. QED  BY <1>6, <1>7, <1>8, Zenon

\* The last string is cut off.
LEMMA CutLast ==
  ASSUME NEW d, NEW e, ListTo(d, e), NEW i, NEW n, NEW v, Begins(d, e, i), Entry(d, i, n, v),
         d[StringEnd(d, i) + 1] = NUL
  PROVE  \E e2, f : Moves(d, e, i, Cut(d, i), e2, f)
<1>. DEFINE j == i + Len(String(n, v))
<1>. DEFINE s == IF i = 1 THEN <<NUL, NUL>> ELSE <<NUL>>
<1>. DEFINE d2 == Cut(d, i)
<1>. DEFINE e2 == IF i = 1 THEN 1 ELSE i - 1
<1>. DEFINE f == [p \in 1 .. EnvSize |-> p]
<1>1. d \in Bytes /\ IsEnd(d, e)
  BY Zenon DEF ListTo
<1>2. IsString(d, i, j)
  BY <1>1, EntryIs, Zenon
<1>3. StringEnd(d, i) = j
  BY <1>1, <1>2, StringEndIs, Zenon
<1>. HIDE DEF j
<1>4. /\ EnvSize \in Nat /\ EnvSize >= 2 /\ NUL \in Chars
      /\ e \in 1 .. EnvSize - 1 /\ i \in 1 .. e /\ d[i] # NUL /\ (i = 1 \/ d[i - 1] = NUL)
      /\ j \in i .. EnvSize /\ d[j] = NUL /\ d[j + 1] = NUL
  BY <1>1, <1>2, <1>3, Constants, Zenon DEF IsEnd, IsString, Begins
<1>5. j <= e
  BY <1>1, <1>4, EntryInside, Zenon DEF j
<1>6. j = e
  <2>1. j \notin 1 .. e - 1
    BY <1>1, <1>4, Zenon DEF IsEnd
  <2>. QED  BY <1>4, <1>5, <2>1
<1>7. s \in Seq(Chars) /\ (Len(s) = IF i = 1 THEN 2 ELSE 1) /\ \A k \in 1 .. Len(s) : s[k] = NUL
  BY <1>4
<1>8. d2 = Overwritten(d, i, s)
  BY <1>3, <1>4, Zenon DEF Cut
<1>. HIDE DEF s
<1>9. /\ d2 \in Bytes
      /\ \A k \in 1 .. EnvSize :
           /\ k < i => d2[k] = d[k]
           /\ i <= k /\ k < i + Len(s) => d2[k] = s[k - i + 1]
  <2>1. i \in 1 .. EnvSize /\ i + Len(s) <= EnvSize + 1
    BY <1>4, <1>7
  <2>2. /\ Overwritten(d, i, s) \in Bytes
        /\ \A k \in 1 .. EnvSize :
             /\ k < i \/ i + Len(s) <= k => Overwritten(d, i, s)[k] = d[k]
             /\ i <= k /\ k < i + Len(s) => Overwritten(d, i, s)[k] = s[k - i + 1]
    BY <1>1, <1>7, <2>1, OverwrittenBytes, Zenon
  <2>. HIDE DEF d2
  <2>. QED  BY <1>8, <2>2, Zenon
<1>10. d2[i] = NUL /\ (i = 1 => d2[2] = NUL)
  <2>1. /\ i \in 1 .. EnvSize /\ i <= i /\ i < i + Len(s) /\ i - i + 1 \in 1 .. Len(s)
    BY <1>4, <1>7
  <2>2. i = 1 => 2 \in 1 .. EnvSize /\ i <= 2 /\ 2 < i + Len(s) /\ 2 - i + 1 \in 1 .. Len(s)
    BY <1>4, <1>7
  <2>. QED  BY <1>7, <1>9, <2>1, <2>2, Zenon
<1>11. \A k \in 1 .. e2 : k < i => k \in 1 .. EnvSize /\ d2[k] = d[k]
  <2>1. \A k \in 1 .. e2 : k \in 1 .. EnvSize
    BY <1>4
  <2>. QED  BY <1>9, <2>1, Zenon
<1>. HIDE DEF d2
<1>12. IsEnd(d2, e2)
  <2>1. CASE i = 1
    <3>1. e2 = 1 /\ 1 + 1 = 2 /\ 1 \in 1 .. EnvSize - 1 /\ \A k \in 1 .. 1 - 1 : FALSE
      BY <1>4, <2>1
    <3>. QED  BY <1>10, <2>1, <3>1, Zenon DEF IsEnd
  <2>2. CASE i # 1
    <3>1. /\ e2 = i - 1 /\ (i - 1) + 1 = i /\ i - 1 \in 1 .. EnvSize - 1 /\ i - 1 < i
          /\ i - 1 \in 1 .. i - 1
          /\ \A k \in 1 .. (i - 1) - 1 :
               k \in 1 .. i - 1 /\ k < i /\ k + 1 \in 1 .. i - 1 /\ k + 1 < i /\ k \in 1 .. e - 1
      BY <1>4, <2>2
    <3>2. d2[i - 1] = NUL
      BY <1>4, <1>11, <2>2, <3>1, Zenon
    <3>3. \A k \in 1 .. (i - 1) - 1 : ~(d2[k] = NUL /\ d2[k + 1] = NUL)
      BY <1>1, <1>11, <3>1, Zenon DEF IsEnd
    <3>. QED  BY <1>10, <3>1, <3>2, <3>3, Zenon DEF IsEnd
  <2>. QED  BY <2>1, <2>2, Zenon
<1>13. d2[1] = NUL => d2[2] = NUL
  <2>1. CASE i = 1
    BY <1>10, <2>1, Zenon
  <2>2. CASE i # 1
    <3>1. 1 \in 1 .. e2 /\ 1 < i
      BY <1>4, <2>2
    <3>2. d[1] # NUL
      <4>1. d[1] = NUL => e = 1
        BY <1>1, StringsAre, Zenon DEF ListTo
      <4>2. e # 1
        BY <1>4, <2>2
      <4>. QED  BY <4>1, <4>2, Zenon
    <3>. QED  BY <1>11, <3>1, <3>2, Zenon
  <2>. QED  BY <2>1, <2>2, Zenon
<1>14. \A p : Begins(d, e, p) => p \in Int /\ 1 <= p /\ p <= e /\ f[p] = p
  BY <1>4 DEF Begins
<1>15. ASSUME NEW p, Begins(d, e, p), p # i PROVE p < i
  <2>1. p < i \/ j < p
    BY <1>15, EntriesApart, Zenon DEF j
  <2>2. p \in Int /\ p <= e
    BY <1>14, <1>15, Zenon
  <2>. QED  BY <1>4, <1>6, <2>1, <2>2
<1>16. ASSUME NEW p, Begins(d, e, p), p # i PROVE Begins(d2, e2, f[p])
  <2>1. /\ p \in 1 .. e2 /\ p < i
        /\ p # 1 => p - 1 \in 1 .. e2 /\ p - 1 < i
    <3>1. p \in Int /\ 1 <= p /\ p < i
      BY <1>14, <1>15, <1>16, Zenon
    <3>. QED  BY <1>4, <3>1
  <2>. QED  BY <1>11, <1>14, <1>16, <2>1, Zenon DEF Begins
<1>17. ASSUME NEW q, Begins(d2, e2, q) PROVE Begins(d, e, q) /\ q # i /\ f[q] = q
  <2>1. q \in 1 .. e2 /\ d2[q] # NUL /\ (q = 1 \/ d2[q - 1] = NUL)
    BY <1>17, Zenon DEF Begins
  <2>2. q # i
    BY <1>10, <2>1, Zenon
  <2>3. /\ q < i /\ q \in 1 .. e /\ q \in 1 .. EnvSize
        /\ q # 1 => q - 1 \in 1 .. e2 /\ q - 1 < i
    BY <1>4, <2>1, <2>2
  <2>4. Begins(d, e, q)
    BY <1>11, <2>1, <2>3, Zenon DEF Begins
  <2>. QED  BY <1>14, <2>2, <2>4, Zenon
<1>18. ASSUME NEW p, NEW m, NEW w, Begins(d, e, p), p # i, Entry(d, p, m, w)
       PROVE  Entry(d2, f[p], m, w)
  <2>. DEFINE t == String(m, w)
  <2>1. Len(t) \in Nat
    <3>1. m \in Names /\ w \in Seq(Chars) /\ \A k \in 1 .. Len(w) : w[k] # NUL
      BY <1>18, Zenon DEF Entry
    <3>2. Len(m) \in Nat /\ Len(w) \in Nat /\ Len(t) = Len(m) + 1 + Len(w)
      BY <3>1, StringBytes, Zenon
    <3>. HIDE DEF t
    <3>. QED  BY <3>2
  <2>2. i < p \/ p + Len(t) < i
    BY <1>18, EntriesApart, Zenon
  <2>3. \A k \in 0 .. Len(t) : p + k \in 1 .. e2 /\ p + k < i
    <3>1. p \in Int /\ 1 <= p /\ p < i
      BY <1>14, <1>15, <1>18, Zenon
    <3>. HIDE DEF t
    <3>. QED  BY <1>4, <2>1, <2>2, <3>1
  <2>4. p \in 1 .. EnvSize /\ p + Len(t) <= EnvSize
    BY <1>18, Zenon DEF Entry
  <2>5. \A k \in 0 .. Len(t) : d2[p + k] = d[p + k]
    BY <1>11, <2>3, Zenon
  <2>6. Entry(d2, p, m, w)
    BY <1>18, <2>4, <2>5, EntryCopied, Zenon
  <2>. QED  BY <1>14, <1>18, <2>6, Zenon
<1>. HIDE DEF f, e2
<1>19. Moves(d, e, i, d2, e2, f)
  BY <1>9, <1>12, <1>13, <1>16, <1>17, <1>18, Zenon DEF Moves, d2
<1>. QED  BY <1>19, Zenon DEF d2

\* The strings behind the deleted one are moved down.
LEMMA CutMove ==
  ASSUME NEW d, NEW e, ListTo(d, e), NEW i, NEW n, NEW v, Begins(d, e, i), Entry(d, i, n, v),
         d[StringEnd(d, i) + 1] # NUL
  PROVE  \E e2, f : Moves(d, e, i, Cut(d, i), e2, f)
<1>. DEFINE j == i + Len(String(n, v))
<1>1. d \in Bytes /\ IsEnd(d, e)
  BY Zenon DEF ListTo
<1>2. IsString(d, i, j)
  BY <1>1, EntryIs, Zenon
<1>3. StringEnd(d, i) = j
  BY <1>1, <1>2, StringEndIs, Zenon
<1>. HIDE DEF j
<1>4. /\ EnvSize \in Nat /\ EnvSize >= 2 /\ NUL \in Chars
      /\ e \in 1 .. EnvSize - 1 /\ i \in 1 .. e /\ d[i] # NUL /\ (i = 1 \/ d[i - 1] = NUL)
      /\ j \in i .. EnvSize /\ d[j] = NUL /\ d[j + 1] # NUL
      /\ d[e] = NUL /\ d[e + 1] = NUL
  BY <1>1, <1>2, <1>3, Constants, Zenon DEF IsEnd, IsString, Begins
<1>5. j < e
  <2>1. j <= e
    BY <1>1, <1>4, EntryInside, Zenon DEF j
  <2>2. j # e
    BY <1>4, Zenon
  <2>. QED  BY <1>4, <2>1, <2>2
<1>. DEFINE sh == (j + 1) - i
<1>. DEFINE e2 == e - sh
<1>. DEFINE f == [p \in 1 .. EnvSize |-> IF p < i THEN p ELSE p - sh]
<1>. DEFINE u == SubSeq(d, j + 1, e)
<1>. DEFINE q == <<NUL>>
<1>. DEFINE s == u \o q
<1>. DEFINE d2 == Cut(d, i)
<1>6. sh \in Int /\ sh >= 1 /\ sh = (j + 1) - i /\ e2 \in Int /\ e2 = e - sh
  BY <1>4
<1>7. /\ u \in Seq(Chars) /\ Len(u) = e - j
      /\ \A k \in 1 .. e - j : u[k] = d[(j + 1) + k - 1]
  <2>1. d \in Seq(Chars) /\ Len(d) = EnvSize
    BY <1>1, Zenon DEF Bytes
  <2>2. /\ j + 1 \in Int /\ e \in Int /\ 1 <= j + 1 /\ j + 1 <= e + 1 /\ e <= Len(d)
        /\ e - (j + 1) + 1 = e - j
    BY <1>4, <1>5, <2>1
  <2>3. /\ u \in Seq(Chars) /\ Len(u) = e - (j + 1) + 1
        /\ \A k \in 1 .. e - (j + 1) + 1 : u[k] = d[(j + 1) + k - 1]
    BY <2>1, <2>2, Piece, Zenon
  <2>. QED  BY <2>2, <2>3, Zenon
<1>8. q \in Seq(Chars) /\ Len(q) = 1 /\ q[1] = NUL
  BY <1>4
<1>9. d2 = Overwritten(d, i, s)
  <2>1. End(d) = e
    BY <1>1, EndIs, Zenon
  <2>. QED  BY <1>3, <1>4, <2>1, Zenon DEF Cut
<1>. HIDE DEF u, q, d2
<1>10. /\ s \in Seq(Chars) /\ Len(s) = Len(u) + Len(q)
       /\ \A k \in 1 .. Len(u) + Len(q) : s[k] = IF k <= Len(u) THEN u[k] ELSE q[k - Len(u)]
  BY <1>7, <1>8, Joined, Zenon
<1>. HIDE DEF s
<1>11. Len(u) = e - j /\ Len(s) = (e - j) + 1
  BY <1>7, <1>8, <1>10, Zenon
<1>12. /\ d2 \in Bytes
       /\ \A k \in 1 .. EnvSize :
            /\ k < i \/ i + Len(s) <= k => d2[k] = d[k]
            /\ i <= k /\ k < i + Len(s) => d2[k] = s[k - i + 1]
  <2>1. i \in 1 .. EnvSize /\ i + Len(s) <= EnvSize + 1
    BY <1>4, <1>5, <1>11
  <2>. QED  BY <1>1, <1>9, <1>10, <2>1, OverwrittenBytes, ZenonT(30)
<1>. HIDE DEF sh, e2
<1>13. ASSUME NEW k \in 1 .. EnvSize, k < i PROVE d2[k] = d[k]
  BY <1>12, <1>13, Zenon
<1>14. ASSUME NEW k \in i .. e2 PROVE d2[k] = d[k + sh]
  <2>1. /\ k \in 1 .. EnvSize /\ i <= k /\ k < i + Len(s)
        /\ k - i + 1 \in 1 .. Len(u) + 1 /\ k - i + 1 <= Len(u)
        /\ k - i + 1 \in 1 .. e - j /\ (j + 1) + (k - i + 1) - 1 = k + sh
    BY <1>4, <1>5, <1>6, <1>11
  <2>. QED  BY <1>7, <1>8, <1>10, <1>12, <2>1, SMTT(30)
<1>15. d2[e2 + 1] = NUL
  <2>1. /\ e2 + 1 \in 1 .. EnvSize /\ i <= e2 + 1 /\ e2 + 1 < i + Len(s)
        /\ (e2 + 1) - i + 1 \in 1 .. Len(u) + 1 /\ ~((e2 + 1) - i + 1 <= Len(u))
        /\ ((e2 + 1) - i + 1) - Len(u) = 1
    BY <1>4, <1>5, <1>6, <1>11
  <2>. QED  BY <1>8, <1>10, <1>12, <2>1, SMTT(30)
<1>16. /\ i <= e2 /\ e2 \in 1 .. EnvSize - 1 /\ e2 + sh = e /\ i + sh = j + 1
       /\ e2 \in i .. e2 /\ i \in i .. e2 /\ e2 < e
  BY <1>4, <1>5, <1>6
<1>17. d2[e2] = NUL /\ d2[i] # NUL
  BY <1>4, <1>14, <1>16, Zenon
<1>18. IsEnd(d2, e2)
  <2>1. ASSUME NEW k \in 1 .. e2 - 1, d2[k] = NUL, d2[k + 1] = NUL PROVE FALSE
    <3>1. CASE k + 1 < i
      <4>1. /\ k \in 1 .. EnvSize /\ k < i /\ k + 1 \in 1 .. EnvSize /\ k \in 1 .. e - 1
        BY <1>4, <3>1
      <4>. QED  BY <1>1, <1>13, <2>1, <3>1, <4>1, Zenon DEF IsEnd
    <3>2. CASE k + 1 = i
      BY <1>17, <2>1, <3>2, Zenon
    <3>3. CASE i <= k
      <4>1. /\ k \in i .. e2 /\ k + 1 \in i .. e2 /\ k + sh \in 1 .. e - 1
            /\ (k + 1) + sh = (k + sh) + 1
        BY <1>4, <1>6, <1>16, <3>3
      <4>. QED  BY <1>1, <1>14, <2>1, <4>1, Zenon DEF IsEnd
    <3>. QED  BY <1>4, <3>1, <3>2, <3>3
  <2>. QED  BY <1>15, <1>16, <1>17, <2>1, Zenon DEF IsEnd
<1>19. d2[1] = NUL => d2[2] = NUL
  <2>1. CASE i = 1
    BY <1>17, <2>1, Zenon
  <2>2. CASE i # 1
    <3>1. 1 \in 1 .. EnvSize /\ 1 < i /\ e # 1
      BY <1>4, <2>2
    <3>2. d[1] # NUL
      BY <1>1, <3>1, StringsAre, Zenon DEF ListTo
    <3>. QED  BY <1>13, <3>1, <3>2, Zenon
  <2>. QED  BY <2>1, <2>2, Zenon
<1>20. ASSUME NEW p, Begins(d, e, p), p # i
       PROVE  /\ p \in Int /\ 1 <= p /\ p <= e
              /\ d[p] # NUL /\ (p = 1 \/ d[p - 1] = NUL)
              /\ (p < i /\ f[p] = p) \/ (j < p /\ f[p] = p - sh)
  <2>1. p \in 1 .. e /\ d[p] # NUL /\ (p = 1 \/ d[p - 1] = NUL)
    BY <1>20, Zenon DEF Begins
  <2>2. p < i \/ j < p
    BY <1>20, EntriesApart, Zenon DEF j
  <2>3. /\ p \in Int /\ 1 <= p /\ p <= e /\ p \in 1 .. EnvSize
        /\ j < p => ~(p < i)
    BY <1>4, <2>1
  <2>4. p < i => f[p] = p
    BY <2>3, Zenon
  <2>5. j < p => f[p] = p - sh
    BY <2>3, Zenon
  <2>. HIDE DEF f
  <2>. QED  BY <2>1, <2>2, <2>3, <2>4, <2>5, Zenon
<1>21. ASSUME NEW p, Begins(d, e, p), p # i PROVE Begins(d2, e2, f[p])
  <2>1. CASE p < i /\ f[p] = p
    <3>1. p \in Int /\ 1 <= p
      BY <1>20, <1>21, Zenon
    <3>2. /\ p \in 1 .. e2 /\ p \in 1 .. EnvSize
          /\ p # 1 => p - 1 \in 1 .. EnvSize /\ p - 1 < i
      BY <1>4, <1>16, <2>1, <3>1
    <3>. QED  BY <1>13, <1>20, <1>21, <2>1, <3>2, Zenon DEF Begins
  <2>2. CASE j < p /\ f[p] = p - sh
    <3>1. p \in Int /\ p <= e
      BY <1>20, <1>21, Zenon
    <3>2. /\ p - sh \in i .. e2 /\ p - sh \in 1 .. e2 /\ (p - sh) + sh = p
          /\ i # 1 => i - 1 \in 1 .. EnvSize /\ i - 1 < i
          /\ p - sh # i => (p - sh) - 1 \in i .. e2 /\ ((p - sh) - 1) + sh = p - 1 /\ p # 1
      BY <1>4, <1>6, <1>16, <2>2, <3>1
    <3>3. d2[p - sh] # NUL
      BY <1>14, <1>20, <1>21, <3>2, Zenon
    <3>4. CASE p - sh = i
      <4>1. i = 1 \/ d2[i - 1] = NUL
        BY <1>4, <1>13, <3>2, Zenon
      <4>. QED  BY <2>2, <3>2, <3>3, <3>4, <4>1, Zenon DEF Begins
    <3>5. CASE p - sh # i
      <4>1. d2[(p - sh) - 1] = NUL
        BY <1>14, <1>20, <1>21, <3>2, <3>5, Zenon
      <4>. QED  BY <2>2, <3>2, <3>3, <4>1, Zenon DEF Begins
    <3>. QED  BY <3>4, <3>5, Zenon
  <2>. QED  BY <1>20, <1>21, <2>1, <2>2, Zenon
<1>22. ASSUME NEW r, Begins(d2, e2, r)
       PROVE  \E p : Begins(d, e, p) /\ p # i /\ f[p] = r
  <2>1. r \in 1 .. e2 /\ d2[r] # NUL /\ (r = 1 \/ d2[r - 1] = NUL)
    BY <1>22, Zenon DEF Begins
  <2>2. CASE r < i
    <3>1. /\ r \in 1 .. EnvSize /\ r \in 1 .. e /\ r # i
          /\ r # 1 => r - 1 \in 1 .. EnvSize /\ r - 1 < i
      BY <1>4, <1>16, <2>1, <2>2
    <3>2. Begins(d, e, r)
      BY <1>13, <2>1, <2>2, <3>1, Zenon DEF Begins
    <3>3. f[r] = r
      BY <2>2, <3>1, Zenon
    <3>. QED  BY <3>1, <3>2, <3>3, Zenon
  <2>3. CASE i <= r
    <3>. DEFINE p == r + sh
    <3>1. /\ r \in i .. e2 /\ p \in 1 .. EnvSize /\ p \in 1 .. e /\ p # i /\ ~(p < i) /\ p - sh = r
          /\ r = i => p - 1 = j
          /\ r # i => r # 1 /\ r - 1 \in i .. e2 /\ (r - 1) + sh = p - 1
      BY <1>4, <1>6, <1>16, <2>1, <2>3
    <3>2. d[p] # NUL /\ d[p - 1] = NUL
      BY <1>4, <1>14, <2>1, <3>1, Zenon
    <3>3. f[p] = r
      BY <3>1, Zenon
    <3>4. Begins(d, e, p)
      BY <3>1, <3>2, Zenon DEF Begins
    <3>. HIDE DEF p
    <3>. QED  BY <3>1, <3>3, <3>4, Zenon
  <2>4. r < i \/ i <= r
    BY <1>4, <2>1
  <2>. QED  BY <2>2, <2>3, <2>4, Zenon
<1>23. ASSUME NEW p, NEW m, NEW w, Begins(d, e, p), p # i, Entry(d, p, m, w)
       PROVE  Entry(d2, f[p], m, w)
  <2>. DEFINE t == String(m, w)
  <2>1. Len(t) \in Nat
    <3>1. m \in Names /\ w \in Seq(Chars) /\ \A k \in 1 .. Len(w) : w[k] # NUL
      BY <1>23, Zenon DEF Entry
    <3>2. Len(m) \in Nat /\ Len(w) \in Nat /\ Len(t) = Len(m) + 1 + Len(w)
      BY <3>1, StringBytes, Zenon
    <3>. HIDE DEF t
    <3>. QED  BY <3>2
  <2>2. i < p \/ p + Len(t) < i
    BY <1>23, EntriesApart, Zenon
  <2>3. p \in 1 .. e /\ p + Len(t) <= e
    BY <1>1, <1>23, EntryInside, Zenon DEF Begins
  <2>4. CASE p < i /\ f[p] = p
    <3>1. /\ p \in 1 .. EnvSize /\ p + Len(t) <= EnvSize
          /\ \A k \in 0 .. Len(t) : p + k \in 1 .. EnvSize /\ p + k < i
      <4>. HIDE DEF t
      <4>. QED  BY <1>4, <2>1, <2>2, <2>3, <2>4
    <3>2. \A k \in 0 .. Len(t) : d2[p + k] = d[p + k]
      BY <1>13, <3>1, Zenon
    <3>3. Entry(d2, p, m, w)
      BY <1>23, <3>1, <3>2, EntryCopied, Zenon
    <3>. QED  BY <2>4, <3>3, Zenon
  <2>5. CASE j < p /\ f[p] = p - sh
    <3>. DEFINE r == p - sh
    <3>1. /\ r \in 1 .. EnvSize /\ r + Len(t) <= EnvSize
          /\ \A k \in 0 .. Len(t) : r + k \in i .. e2 /\ (r + k) + sh = p + k
      <4>. HIDE DEF t
      <4>. QED  BY <1>4, <1>6, <1>16, <2>1, <2>3, <2>5
    <3>. HIDE DEF r
    <3>2. \A k \in 0 .. Len(t) : d2[r + k] = d[p + k]
      BY <1>14, <3>1, Zenon
    <3>3. Entry(d2, r, m, w)
      BY <1>23, <3>1, <3>2, EntryCopied, Zenon
    <3>. QED  BY <2>5, <3>3, Zenon DEF r
  <2>. QED  BY <1>20, <1>23, <2>4, <2>5, Zenon
<1>. HIDE DEF f
<1>24. Moves(d, e, i, d2, e2, f)
  BY <1>12, <1>18, <1>19, <1>21, <1>22, <1>23, Zenon DEF Moves
<1>. QED  BY <1>24, Zenon DEF d2

\* The deletion of a string deletes its variable and no other.
LEMMA CutKeeps ==
  ASSUME NEW d, NEW e, ListTo(d, e), NEW i, NEW n, NEW v, Begins(d, e, i), Entry(d, i, n, v)
  PROVE  \E e2 : /\ ListTo(Cut(d, i), e2)
                 /\ \A m, w : Holds(Cut(d, i), e2, m, w) <=> Holds(d, e, m, w) /\ m # n
<1>1. PICK e2, f : Moves(d, e, i, Cut(d, i), e2, f)
  BY CutLast, CutMove, Zenon
<1>. DEFINE d2 == Cut(d, i)
<1>2. ListTo(d2, e2) /\ \A m, w : Holds(d2, e2, m, w) <=> Holds(d, e, m, w) /\ m # n
  <2>1. Moves(d, e, i, d2, e2, f)
    BY <1>1, Zenon
  <2>. HIDE DEF d2
  <2>2. ListTo(d2, e2)
    BY <2>1, MovesKeep, Zenon
  <2>3. \A m, w : Holds(d2, e2, m, w) <=> Holds(d, e, m, w) /\ m # n
    BY <2>1, MovesKeep, SMT
  <2>. QED  BY <2>2, <2>3, Zenon
<1>. QED  BY <1>2, Zenon

---------------------------------------------------------------------------
(***************************************************************************)
(* A string is appended.                                                   *)
(***************************************************************************)

\* What a string that fits makes of the bytes.
LEMMA AppendBytes ==
  ASSUME NEW d, NEW e, ListTo(d, e), NEW n \in Names, NEW v \in Seq(Chars),
         \A k \in 1 .. Len(v) : v[k] # NUL, Fits(d, n, v)
  PROVE  \E a, e2 : Adds(d, e, a, n, v, Appended(d, n, v), e2)
<1>1. d \in Bytes /\ IsEnd(d, e) /\ (d[1] = NUL => e = 1)
  BY StringsAre, Zenon DEF ListTo
<1>2. /\ EnvSize \in Nat /\ EnvSize >= 2 /\ NUL \in Chars
      /\ e \in 1 .. EnvSize - 1 /\ d[e] = NUL /\ d[e + 1] = NUL
  BY <1>1, Constants, Zenon DEF IsEnd
<1>. DEFINE t == String(n, v)
<1>. DEFINE q == <<NUL, NUL>>
<1>. DEFINE s == t \o q
<1>. DEFINE a == IF e > 1 THEN e + 1 ELSE 1
<1>. DEFINE d2 == Appended(d, n, v)
<1>. DEFINE e2 == a + Len(t)
<1>3. End(d) = e
  BY <1>1, EndIs, Zenon
<1>4. AppendAt(d) = a /\ d2 = Overwritten(d, a, s)
  BY <1>3, Zenon DEF AppendAt, Appended, String
<1>5. Len(n) + 2 + Len(v) + 1 <= EnvSize - (a - 1)
  BY <1>4, Zenon DEF Fits
<1>6. q \in Seq(Chars) /\ Len(q) = 2 /\ q[1] = NUL /\ q[2] = NUL
  BY <1>2
<1>7. /\ t \in Seq(Chars) /\ Len(v) \in Nat /\ Len(n) \in Nat /\ Len(n) >= 1
      /\ Len(t) = Len(n) + 1 + Len(v)
      /\ \A k \in 1 .. Len(n) + 1 + Len(v) : t[k] # NUL
  BY StringBytes, Zenon
<1>. HIDE DEF t, q, d2
<1>8. /\ s \in Seq(Chars) /\ Len(s) = Len(t) + Len(q)
      /\ \A k \in 1 .. Len(t) + Len(q) : s[k] = IF k <= Len(t) THEN t[k] ELSE q[k - Len(t)]
  BY <1>6, <1>7, Joined, Zenon
<1>. HIDE DEF s
<1>9. /\ a \in Int /\ 1 <= a /\ Len(t) \in Int /\ Len(t) >= 2 /\ Len(s) = Len(t) + 2
      /\ e2 \in Int /\ e2 = a + Len(t) /\ e2 + 1 <= EnvSize
      /\ (e = 1 /\ a = 1) \/ (e > 1 /\ a = e + 1)
  <2>1. Len(v) \in Nat /\ Len(n) \in Nat /\ Len(n) >= 1 /\ Len(t) = Len(n) + 1 + Len(v)
    BY <1>7, Zenon
  <2>2. Len(s) = Len(t) + 2
    BY <1>6, <1>8, Zenon
  <2>. QED  BY <1>2, <1>5, <2>1, <2>2
<1>. HIDE DEF a, e2
<1>10. /\ d2 \in Bytes
       /\ \A k \in 1 .. EnvSize :
            /\ k < a \/ a + Len(s) <= k => d2[k] = d[k]
            /\ a <= k /\ k < a + Len(s) => d2[k] = s[k - a + 1]
  <2>1. a \in 1 .. EnvSize /\ a + Len(s) <= EnvSize + 1
    BY <1>2, <1>9
  <2>2. /\ Overwritten(d, a, s) \in Bytes
        /\ \A k \in 1 .. EnvSize :
             /\ k < a \/ a + Len(s) <= k => Overwritten(d, a, s)[k] = d[k]
             /\ a <= k /\ k < a + Len(s) => Overwritten(d, a, s)[k] = s[k - a + 1]
    BY <1>1, <1>8, <2>1, OverwrittenBytes, Zenon
  <2>. QED  BY <1>4, <2>2, Zenon
<1>11. ASSUME NEW k \in 1 .. a - 1 PROVE d2[k] = d[k]
  <2>1. k \in 1 .. EnvSize /\ k < a
    BY <1>2, <1>9
  <2>. QED  BY <1>10, <2>1, Zenon
<1>12. ASSUME NEW k \in 1 .. Len(t) PROVE d2[a + k - 1] = t[k] /\ t[k] # NUL
  <2>1. /\ a + k - 1 \in 1 .. EnvSize /\ a <= a + k - 1 /\ a + k - 1 < a + Len(s)
        /\ (a + k - 1) - a + 1 = k /\ k \in 1 .. Len(t) + 2 /\ k <= Len(t)
    BY <1>2, <1>9
  <2>2. d2[a + k - 1] = s[k]
    BY <1>10, <2>1, Zenon
  <2>. QED  BY <1>6, <1>7, <1>8, <2>1, <2>2, Zenon
<1>13. d2[e2] = NUL /\ d2[e2 + 1] = NUL
  <2>1. /\ e2 \in 1 .. EnvSize /\ a <= e2 /\ e2 < a + Len(s)
        /\ e2 - a + 1 = Len(t) + 1 /\ Len(t) + 1 \in 1 .. Len(t) + 2
        /\ ~(Len(t) + 1 <= Len(t)) /\ (Len(t) + 1) - Len(t) = 1
    BY <1>2, <1>9
  <2>2. /\ e2 + 1 \in 1 .. EnvSize /\ a <= e2 + 1 /\ e2 + 1 < a + Len(s)
        /\ (e2 + 1) - a + 1 = Len(t) + 2 /\ Len(t) + 2 \in 1 .. Len(t) + 2
        /\ ~(Len(t) + 2 <= Len(t)) /\ (Len(t) + 2) - Len(t) = 2
    BY <1>2, <1>9
  <2>3. d2[e2] = s[Len(t) + 1] /\ s[Len(t) + 1] = NUL
    BY <1>6, <1>8, <1>10, <2>1, ZenonT(30)
  <2>4. d2[e2 + 1] = s[Len(t) + 2] /\ s[Len(t) + 2] = NUL
    BY <1>6, <1>8, <1>10, <2>2, SMTT(30)
  <2>. QED  BY <2>3, <2>4, Zenon
<1>14. ASSUME NEW k \in a .. e2 - 1 PROVE d2[k] # NUL
  <2>1. k - a + 1 \in 1 .. Len(t) /\ a + (k - a + 1) - 1 = k
    BY <1>9
  <2>. QED  BY <1>12, <2>1, Zenon
<1>15. IsEnd(d2, e2)
  <2>1. ASSUME NEW k \in 1 .. e2 - 1, d2[k] = NUL, d2[k + 1] = NUL PROVE FALSE
    <3>1. CASE k + 1 < a
      <4>1. k \in 1 .. a - 1 /\ k + 1 \in 1 .. a - 1 /\ k \in 1 .. e - 1
        BY <1>2, <1>9, <3>1
      <4>. QED  BY <1>1, <1>11, <2>1, <4>1, Zenon DEF IsEnd
    <3>2. CASE k + 1 = a
      <4>1. k + 1 \in a .. e2 - 1
        BY <1>9, <3>2
      <4>. QED  BY <1>14, <2>1, <4>1, Zenon
    <3>3. CASE a <= k
      <4>1. k \in a .. e2 - 1
        BY <1>9, <3>3
      <4>. QED  BY <1>14, <2>1, <4>1, Zenon
    <3>4. k + 1 < a \/ k + 1 = a \/ a <= k
      BY <1>9
    <3>. QED  BY <3>1, <3>2, <3>3, <3>4, Zenon
  <2>2. e2 \in 1 .. EnvSize - 1
    BY <1>2, <1>9
  <2>. QED  BY <1>13, <2>1, <2>2, Zenon DEF IsEnd
<1>16. d2[1] # NUL
  <2>1. CASE a = 1
    <3>1. 1 \in a .. e2 - 1
      BY <1>9, <2>1
    <3>. QED  BY <1>14, <3>1, Zenon
  <2>2. CASE a # 1
    <3>1. 1 \in 1 .. a - 1 /\ e # 1
      BY <1>9, <2>2
    <3>. QED  BY <1>1, <1>11, <3>1, Zenon
  <2>. QED  BY <2>1, <2>2, Zenon
<1>17. ASSUME NEW p, Begins(d, e, p)
       PROVE  /\ p \in 1 .. e /\ d[p] # NUL /\ (p = 1 \/ d[p - 1] = NUL)
              /\ e > 1 /\ a = e + 1
  <2>1. p \in 1 .. e /\ d[p] # NUL /\ (p = 1 \/ d[p - 1] = NUL)
    BY <1>17, Zenon DEF Begins
  <2>2. e # 1
    <3>1. ASSUME e = 1 PROVE FALSE
      <4>1. p = e
        BY <2>1, <3>1
      <4>. QED  BY <1>2, <2>1, <4>1, Zenon
    <3>. QED  BY <3>1, Zenon
  <2>3. e > 1 /\ a = e + 1
    BY <1>2, <1>9, <2>2
  <2>. QED  BY <2>1, <2>3, Zenon
<1>18. ASSUME NEW p, Begins(d, e, p) PROVE Begins(d2, e2, p)
  <2>1. p \in 1 .. e /\ a = e + 1
    BY <1>17, <1>18, Zenon
  <2>2. /\ p \in 1 .. e2 /\ p \in 1 .. a - 1
        /\ p # 1 => p - 1 \in 1 .. a - 1
    BY <1>2, <1>9, <2>1
  <2>. QED  BY <1>11, <1>17, <1>18, <2>2, Zenon DEF Begins
<1>19. Begins(d2, e2, a)
  <2>1. a \in 1 .. e2 /\ a \in a .. e2 - 1
    BY <1>9
  <2>2. a # 1 => a - 1 = e /\ e \in 1 .. a - 1
    BY <1>2, <1>9
  <2>3. a # 1 => d2[a - 1] = NUL
    BY <1>2, <1>11, <2>2, Zenon
  <2>. QED  BY <1>14, <2>1, <2>3, Zenon DEF Begins
<1>20. ASSUME NEW r, Begins(d2, e2, r), r # a PROVE Begins(d, e, r)
  <2>1. r \in 1 .. e2 /\ d2[r] # NUL /\ (r = 1 \/ d2[r - 1] = NUL)
    BY <1>20, Zenon DEF Begins
  <2>2. ~(a < r)
    <3>1. ASSUME a < r PROVE FALSE
      <4>1. r - 1 \in a .. e2 - 1 /\ r # 1
        BY <1>9, <2>1, <3>1
      <4>. QED  BY <1>14, <2>1, <4>1, Zenon
    <3>. QED  BY <3>1, Zenon
  <2>3. /\ r \in 1 .. a - 1 /\ r \in 1 .. e
        /\ r # 1 => r - 1 \in 1 .. a - 1
    BY <1>2, <1>9, <1>20, <2>1, <2>2, SMTT(30)
  <2>. QED  BY <1>11, <2>1, <2>3, Zenon DEF Begins
<1>21. ASSUME NEW p, NEW m, NEW w, Begins(d, e, p), Entry(d, p, m, w)
       PROVE  Entry(d2, p, m, w)
  <2>. DEFINE u == String(m, w)
  <2>1. p \in 1 .. e /\ p + Len(u) <= e /\ a = e + 1 /\ p + Len(u) <= EnvSize
    BY <1>1, <1>17, <1>21, EntryInside, Zenon DEF Entry
  <2>2. Len(u) \in Nat
    <3>1. m \in Names /\ w \in Seq(Chars) /\ \A k \in 1 .. Len(w) : w[k] # NUL
      BY <1>21, Zenon DEF Entry
    <3>2. Len(m) \in Nat /\ Len(w) \in Nat /\ Len(u) = Len(m) + 1 + Len(w)
      BY <3>1, StringBytes, Zenon
    <3>. HIDE DEF u
    <3>. QED  BY <3>2
  <2>3. p \in 1 .. EnvSize /\ \A k \in 0 .. Len(u) : p + k \in 1 .. a - 1
    <3>. HIDE DEF u
    <3>. QED  BY <1>2, <2>1, <2>2
  <2>4. \A k \in 0 .. Len(u) : d2[p + k] = d[p + k]
    BY <1>11, <2>3, Zenon
  <2>. QED  BY <1>21, <2>1, <2>3, <2>4, EntryCopied, Zenon
<1>22. Entry(d2, a, n, v)
  <2>1. a \in 1 .. EnvSize /\ a + Len(t) <= EnvSize /\ d2[a + Len(t)] = NUL
    <3>1. a \in 1 .. EnvSize /\ a + Len(t) <= EnvSize /\ a + Len(t) = e2
      BY <1>2, <1>9
    <3>. QED  BY <1>13, <3>1, Zenon
  <2>2. \A k \in 1 .. Len(t) : d2[a + k - 1] = t[k]
    BY <1>12, Zenon
  <2>. QED  BY <2>1, <2>2, Zenon DEF Entry, t
<1>23. Adds(d, e, a, n, v, d2, e2)
  BY <1>10, <1>15, <1>16, <1>18, <1>19, <1>20, <1>21, <1>22, Zenon DEF Adds
<1>. QED  BY <1>23, Zenon DEF d2

\* A list with one more string has one more variable, if it is a new one.
LEMMA AddsKeep ==
  ASSUME NEW d, NEW e, ListTo(d, e), NEW n, NEW v, NEW a, NEW d2, NEW e2,
         Adds(d, e, a, n, v, d2, e2), \A w : ~Holds(d, e, n, w)
  PROVE  /\ ListTo(d2, e2)
         /\ \A m, w : Holds(d2, e2, m, w) <=> Holds(d, e, m, w) \/ (m = n /\ w = v)
<1>1. d \in Bytes /\ d2 \in Bytes /\ IsEnd(d, e) /\ IsEnd(d2, e2) /\ Entry(d2, a, n, v)
  BY Zenon DEF ListTo, Adds
<1>2. \A q : Begins(d2, e2, q) => q \in Int
  BY <1>1, Constants DEF Begins, IsEnd
<1>3. ASSUME NEW q, NEW m, NEW w, NEW l, NEW u, Begins(d2, e2, q), Entry(d2, q, m, w),
             Entry(d2, q, l, u)
      PROVE  l = m
  <2>1. l \in Names /\ m \in Names /\ Named(d2, q, l) /\ Named(d2, q, m)
    BY <1>1, <1>3, EntryIs, Zenon DEF Entry
  <2>. QED  BY <1>2, <1>3, <2>1, OneName, Zenon
<1>4. ASSUME NEW q, NEW m, NEW w, Begins(d2, e2, q), Entry(d2, q, m, w)
      PROVE  \/ q = a /\ m = n
             \/ \E u : Begins(d, e, q) /\ Entry(d, q, m, u) /\ Entry(d2, q, m, u)
  <2>1. CASE q = a
    BY <1>1, <1>3, <1>4, <2>1, Zenon
  <2>2. CASE q # a
    <3>1. Begins(d, e, q)
      BY <1>4, <2>2, Zenon DEF Adds
    <3>2. PICK l, u : Entry(d, q, l, u)
      BY <3>1, Zenon DEF ListTo
    <3>3. Entry(d2, q, l, u)
      BY <3>1, <3>2, Zenon DEF Adds
    <3>4. l = m
      BY <1>3, <1>4, <3>3, Zenon
    <3>. QED  BY <3>1, <3>2, <3>3, <3>4, Zenon
  <2>. QED  BY <2>1, <2>2, Zenon
<1>5. ASSUME NEW q, Begins(d2, e2, q) PROVE \E m, w : Entry(d2, q, m, w)
  <2>1. CASE q = a
    BY <1>1, <2>1, Zenon
  <2>2. CASE q # a
    <3>1. Begins(d, e, q)
      BY <1>5, <2>2, Zenon DEF Adds
    <3>2. PICK l, u : Entry(d, q, l, u)
      BY <3>1, Zenon DEF ListTo
    <3>. QED  BY <3>1, <3>2, Zenon DEF Adds
  <2>. QED  BY <2>1, <2>2, Zenon
<1>6. ASSUME NEW q, NEW r, NEW m, NEW w, NEW x, Begins(d2, e2, q), Begins(d2, e2, r),
             Entry(d2, q, m, w), Entry(d2, r, m, x)
      PROVE  q = r
  <2>1. (q = a /\ m = n) \/ \E u : Begins(d, e, q) /\ Entry(d, q, m, u)
    BY <1>4, <1>6, Zenon
  <2>2. (r = a /\ m = n) \/ \E u : Begins(d, e, r) /\ Entry(d, r, m, u)
    BY <1>4, <1>6, Zenon
  <2>3. CASE m = n
    BY <2>1, <2>2, <2>3, Zenon DEF Holds
  <2>4. CASE m # n
    <3>1. PICK u : Begins(d, e, q) /\ Entry(d, q, m, u)
      BY <2>1, <2>4, Zenon
    <3>2. PICK y : Begins(d, e, r) /\ Entry(d, r, m, y)
      BY <2>2, <2>4, Zenon
    <3>. QED  BY <3>1, <3>2, Zenon DEF ListTo
  <2>. QED  BY <2>3, <2>4, Zenon
<1>7. ListTo(d2, e2)
  <2>1. d2[1] = NUL => d2[2] = NUL
    BY Zenon DEF Adds
  <2>. QED  BY <1>1, <1>5, <1>6, <2>1, Zenon DEF ListTo
<1>8. ASSUME NEW m, NEW w, NEW x, Holds(d2, e2, m, w), Holds(d2, e2, m, x) PROVE w = x
  <2>1. m \in Names
    BY <1>8, Zenon DEF Holds, Entry
  <2>2. getenv(d2, m) = w
    BY <1>7, <1>8, <2>1, GetIs, Zenon
  <2>3. getenv(d2, m) = x
    BY <1>7, <1>8, <2>1, GetIs, Zenon
  <2>. QED  BY <2>2, <2>3, Zenon
<1>9. Holds(d2, e2, n, v)
  BY Zenon DEF Adds, Holds
<1>10. ASSUME NEW m, NEW w, Holds(d, e, m, w) PROVE Holds(d2, e2, m, w)
  BY <1>10, Zenon DEF Adds, Holds
<1>11. ASSUME NEW m, NEW w, Holds(d2, e2, m, w) PROVE Holds(d, e, m, w) \/ (m = n /\ w = v)
  <2>1. PICK q : Begins(d2, e2, q) /\ Entry(d2, q, m, w)
    BY <1>11, Zenon DEF Holds
  <2>2. (q = a /\ m = n) \/ \E u : Begins(d, e, q) /\ Entry(d, q, m, u)
    BY <1>4, <2>1, Zenon
  <2>3. CASE m = n
    BY <1>8, <1>9, <1>11, <2>3, Zenon
  <2>4. CASE m # n
    <3>1. PICK u : Holds(d, e, m, u)
      BY <2>2, <2>4, Zenon DEF Holds
    <3>2. u = w
      BY <1>8, <1>10, <1>11, <3>1, Zenon
    <3>. QED  BY <3>1, <3>2, Zenon
  <2>. QED  BY <2>3, <2>4, Zenon
<1>. QED  BY <1>7, <1>9, <1>10, <1>11, Zenon

---------------------------------------------------------------------------
(***************************************************************************)
(* The list as a map, and what setenv and a start make of it.              *)
(***************************************************************************)

\* A variable with the same strings has the same value.
LEMMA SameGet ==
  ASSUME NEW d, NEW e, ListTo(d, e), NEW d2, NEW e2, ListTo(d2, e2), NEW m \in Names,
         \A w : Holds(d2, e2, m, w) <=> Holds(d, e, m, w)
  PROVE  getenv(d2, m) = getenv(d, m)
<1>1. CASE \E w : Holds(d, e, m, w)
  <2>1. PICK w : Holds(d, e, m, w) /\ Holds(d2, e2, m, w)
    BY <1>1, Zenon
  <2>2. getenv(d, m) = w
    BY <2>1, GetIs, Zenon
  <2>3. getenv(d2, m) = w
    BY <2>1, GetIs, Zenon
  <2>. QED  BY <2>2, <2>3, Zenon
<1>2. CASE \A w : ~Holds(d, e, m, w)
  <2>1. \A w : ~Holds(d2, e2, m, w)
    BY <1>2, Zenon
  <2>2. getenv(d, m) = Unset
    BY <1>2, GetNone, Zenon
  <2>3. getenv(d2, m) = Unset
    BY <2>1, GetNone, Zenon
  <2>. QED  BY <2>2, <2>3, Zenon
<1>. QED  BY <1>1, <1>2, Zenon

\* The first half of _do_setenv() deletes the variable, if there is one.
LEMMA DeletedIs ==
  ASSUME NEW d, IsList(d), NEW n \in Names
  PROVE  /\ IsList(Deleted(d, n))
         /\ Found(Deleted(d, n), n) = {}
         /\ getenv(Deleted(d, n), n) = Unset
         /\ \A m \in Names : m # n => getenv(Deleted(d, n), m) = getenv(d, m)
<1>1. PICK e : ListTo(d, e)
  BY ListIs, Zenon
<1>2. CASE Found(d, n) = {}
  <2>1. Deleted(d, n) = d
    BY <1>2, Zenon DEF Deleted
  <2>2. getenv(d, n) = Unset
    BY <1>2, Zenon DEF getenv
  <2>. QED  BY <1>2, <2>1, <2>2, Zenon
<1>3. CASE Found(d, n) # {}
  <2>1. /\ \A i : i \in Found(d, n) <=> \E v : Begins(d, e, i) /\ Entry(d, i, n, v)
        /\ \A i, j : i \in Found(d, n) /\ j \in Found(d, n) => i = j
    BY <1>1, FoundIs, SMT
  <2>2. PICK i : i \in Found(d, n)
    BY <1>3, Zenon
  <2>3. PICK v : Begins(d, e, i) /\ Entry(d, i, n, v)
    BY <2>1, <2>2, Zenon
  <2>4. Found(d, n) = {i}
    BY <2>1, <2>2, Zenon
  <2>5. Min({i}) = i
    <3>1. i \in 1 .. EnvSize /\ EnvSize \in Nat
      BY <2>3, Constants, Zenon DEF Entry
    <3>2. {i} \subseteq Nat /\ i \in {i} /\ \A y \in {i} : i <= y
      BY <3>1
    <3>. QED  BY <3>2, MinIs, Zenon
  <2>. DEFINE d2 == Cut(d, i)
  <2>6. Deleted(d, n) = d2
    BY <1>3, <2>4, <2>5, Zenon DEF Deleted
  <2>7. PICK e2 : /\ ListTo(d2, e2)
                  /\ \A m, w : Holds(d2, e2, m, w) <=> Holds(d, e, m, w) /\ m # n
    BY <1>1, <2>3, CutKeeps, SMT
  <2>. HIDE DEF d2
  <2>8. \A w : ~Holds(d2, e2, n, w)
    BY <2>7, Zenon
  <2>9. Found(d2, n) = {} /\ getenv(d2, n) = Unset
    BY <2>7, <2>8, GetNone, Zenon
  <2>10. ASSUME NEW m \in Names, m # n PROVE getenv(d2, m) = getenv(d, m)
    <3>1. \A w : Holds(d2, e2, m, w) <=> Holds(d, e, m, w)
      BY <2>7, <2>10, Zenon
    <3>. QED  BY <1>1, <2>7, <3>1, SameGet, SMT
  <2>11. IsList(d2)
    BY <2>7, ListIs, Zenon
  <2>. QED  BY <2>6, <2>9, <2>10, <2>11, Zenon
<1>. QED  BY <1>2, <1>3, Zenon

\* The second half appends it.
LEMMA AppendedIs ==
  ASSUME NEW d, IsList(d), NEW n \in Names, NEW v \in Values, Found(d, n) = {}, Fits(d, n, v)
  PROVE  /\ IsList(Appended(d, n, v))
         /\ getenv(Appended(d, n, v), n) = v
         /\ \A m \in Names : m # n => getenv(Appended(d, n, v), m) = getenv(d, m)
<1>1. PICK e : ListTo(d, e)
  BY ListIs, Zenon
<1>2. \A i : i \in Found(d, n) <=> \E w : Begins(d, e, i) /\ Entry(d, i, n, w)
  BY <1>1, FoundIs, SMT
<1>3. \A w : ~Holds(d, e, n, w)
  BY <1>2, Zenon DEF Holds
<1>. DEFINE d2 == Appended(d, n, v)
<1>4. PICK a, e2 : Adds(d, e, a, n, v, d2, e2)
  BY <1>1, ValueType, AppendBytes, Zenon
<1>. HIDE DEF d2
<1>5. ListTo(d2, e2)
  BY <1>1, <1>3, <1>4, AddsKeep, Zenon
<1>6. \A m, w : Holds(d2, e2, m, w) <=> Holds(d, e, m, w) \/ (m = n /\ w = v)
  BY <1>1, <1>3, <1>4, AddsKeep, SMT
<1>7. getenv(d2, n) = v
  <2>1. Holds(d2, e2, n, v)
    BY <1>6, Zenon
  <2>. QED  BY <1>5, <2>1, GetIs, Zenon
<1>8. ASSUME NEW m \in Names, m # n PROVE getenv(d2, m) = getenv(d, m)
  <2>1. \A w : Holds(d2, e2, m, w) <=> Holds(d, e, m, w)
    BY <1>6, <1>8, Zenon
  <2>. QED  BY <1>1, <1>5, <2>1, SameGet, SMT
<1>9. IsList(d2)
  BY <1>5, ListIs, Zenon
<1>. QED  BY <1>7, <1>8, <1>9, Zenon DEF d2

\* setenv with a value made s of the list d, the checksum c and the address p: the
\* variable has it, or the list overflowed and the variable is gone.
Sets(d, c, p, n, v, s) ==
  /\ IsList(s.env)
  /\ \/ /\ s.crc = s.env /\ s.overflowed = FALSE
        /\ s.ip = IF n = Ipaddr THEN string_to_ip(v) ELSE p
        /\ AsMap(s.env) = [AsMap(d) EXCEPT ![n] = v]
     \/ /\ s.crc = c /\ s.overflowed = TRUE /\ s.ip = p
        /\ AsMap(s.env) = [AsMap(d) EXCEPT ![n] = Unset]

\* The same without a value.
Deletes(d, p, n, s) ==
  /\ IsList(s.env) /\ s.crc = s.env /\ s.overflowed = FALSE /\ s.ip = p
  /\ AsMap(s.env) = [AsMap(d) EXCEPT ![n] = Unset]

\* This is what setenv with a value does.
LEMMA SetIs ==
  ASSUME NEW d, IsList(d), NEW c, NEW o, NEW p, NEW n \in Names, NEW v \in Values
  PROVE  Sets(d, c, p, n, v, Set([env |-> d, crc |-> c, overflowed |-> o, ip |-> p], n, v))
<1>. DEFINE s == Set([env |-> d, crc |-> c, overflowed |-> o, ip |-> p], n, v)
<1>. DEFINE d1 == Deleted(d, n)
<1>. DEFINE d2 == Appended(d1, n, v)
<1>1. /\ IsList(d1) /\ Found(d1, n) = {} /\ getenv(d1, n) = Unset
      /\ \A m \in Names : m # n => getenv(d1, m) = getenv(d, m)
  BY DeletedIs, Zenon
<1>2. CASE Fits(d1, n, v)
  <2>1. s = [env |-> d2, crc |-> d2, overflowed |-> FALSE,
             ip |-> IF n = Ipaddr THEN string_to_ip(v) ELSE p]
    BY <1>2 DEF Set
  <2>. HIDE DEF d1
  <2>2. /\ IsList(d2) /\ getenv(d2, n) = v
        /\ \A m \in Names : m # n => getenv(d2, m) = getenv(d1, m)
    BY <1>1, <1>2, AppendedIs, Zenon
  <2>. HIDE DEF d2
  <2>3. AsMap(d2) = [AsMap(d) EXCEPT ![n] = v]
    <3>1. \A m \in Names : m # n => getenv(d2, m) = getenv(d, m)
      BY <1>1, <2>2, Zenon
    <3>2. getenv(d2, n) = v
      BY <2>2, Zenon
    <3>. QED  BY <3>1, <3>2, Zenon DEF AsMap
  <2>4. /\ s.env = d2 /\ s.crc = d2 /\ s.overflowed = FALSE
        /\ s.ip = IF n = Ipaddr THEN string_to_ip(v) ELSE p
    BY <2>1, SMT
  <2>. QED  BY <2>2, <2>3, <2>4, Zenon DEF Sets
<1>3. CASE ~Fits(d1, n, v)
  <2>1. s = [env |-> d1, crc |-> c, overflowed |-> TRUE, ip |-> p]
    BY <1>3 DEF Set
  <2>. HIDE DEF d1
  <2>2. AsMap(d1) = [AsMap(d) EXCEPT ![n] = Unset]
    <3>1. getenv(d1, n) = Unset /\ \A m \in Names : m # n => getenv(d1, m) = getenv(d, m)
      BY <1>1, Zenon
    <3>. QED  BY <3>1, Zenon DEF AsMap
  <2>3. s.env = d1 /\ s.crc = c /\ s.overflowed = TRUE /\ s.ip = p
    BY <2>1, SMT
  <2>. QED  BY <1>1, <2>2, <2>3, Zenon DEF Sets
<1>. QED  BY <1>2, <1>3, Zenon

\* setenv without a value.
LEMMA DeleteIs ==
  ASSUME NEW d, IsList(d), NEW c, NEW o, NEW p, NEW n \in Names
  PROVE  Deletes(d, p, n, Delete([env |-> d, crc |-> c, overflowed |-> o, ip |-> p], n))
<1>. DEFINE s == Delete([env |-> d, crc |-> c, overflowed |-> o, ip |-> p], n)
<1>. DEFINE d1 == Deleted(d, n)
<1>1. /\ IsList(d1) /\ getenv(d1, n) = Unset
      /\ \A m \in Names : m # n => getenv(d1, m) = getenv(d, m)
  BY DeletedIs, Zenon
<1>2. s = [env |-> d1, crc |-> d1, overflowed |-> FALSE, ip |-> p]
  BY DEF Delete
<1>. HIDE DEF d1
<1>3. s.env = d1 /\ s.crc = d1 /\ s.overflowed = FALSE /\ s.ip = p
  BY <1>2, SMT
<1>4. AsMap(d1) = [AsMap(d) EXCEPT ![n] = Unset]
  <2>1. getenv(d1, n) = Unset /\ \A m \in Names : m # n => getenv(d1, m) = getenv(d, m)
    BY <1>1, Zenon
  <2>. QED  BY <2>1, Zenon DEF AsMap
<1>. QED  BY <1>1, <1>3, <1>4, Zenon DEF Deletes

\* The address of the board follows ipaddr.
Follows(d, p) == getenv(d, Ipaddr) # Unset => p = string_to_ip(getenv(d, Ipaddr))

\* A change of one variable keeps it so.
LEMMA FollowsChanged ==
  ASSUME NEW d, NEW d2, NEW p, NEW p2, NEW n \in Names, NEW v,
         AsMap(d2) = [AsMap(d) EXCEPT ![n] = v], Follows(d, p),
         \/ v = Unset /\ p2 = p
         \/ p2 = IF n = Ipaddr THEN string_to_ip(v) ELSE p
  PROVE  Follows(d2, p2)
<1>1. Ipaddr \in Names
  BY Constants, Zenon
<1>2. AsMap(d2)[Ipaddr] = getenv(d2, Ipaddr) /\ AsMap(d)[Ipaddr] = getenv(d, Ipaddr)
  BY <1>1, Zenon DEF AsMap
<1>3. n \in DOMAIN AsMap(d) /\ Ipaddr \in DOMAIN AsMap(d)
  BY <1>1, Zenon DEF AsMap
<1>4. AsMap(d2)[Ipaddr] = IF n = Ipaddr THEN v ELSE AsMap(d)[Ipaddr]
  BY <1>3, Zenon
<1>. QED  BY <1>2, <1>4, Zenon DEF Follows

\* A list is not nothing.
LEMMA ListNotTorn ==
  ASSUME NEW d, Len(d) = EnvSize
  PROVE  d # Torn
<1>1. EnvSize # 0
  BY Constants
<1>2. Len(<<>>) = 0
  OBVIOUS
<1>. QED  BY <1>1, <1>2, Zenon DEF Torn

\* A start that has found the list d made s of it.
Starts(d, s) ==
  /\ IsList(d) /\ IsList(s.env) /\ IsList(s.crc) /\ Follows(s.env, s.ip)
  /\ ~s.overflowed => s.crc = s.env
  /\ \/ s.crc = s.env /\ AsMap(s.env) = [AsMap(d) EXCEPT ![Ethaddr] = EthValue]
     \/ s.crc = d /\ AsMap(s.env) = [AsMap(d) EXCEPT ![Ethaddr] = Unset]

\* What a start finds, and sets.
LEMMA StartedIs ==
  ASSUME NEW data, Len(data) = EnvSize, NEW sum, sum = Torn \/ IsList(sum)
  PROVE  Starts(env_init(data, sum), Started(data, sum))
<1>. DEFINE s == Started(data, sum)
<1>. DEFINE d == env_init(data, sum)
<1>. DEFINE p == string_to_ip(getenv(d, Ipaddr))
<1>1. IsList(d)
  BY ListNotTorn, DefaultAssumption, Zenon DEF env_init
<1>2. s = Set([env |-> d, crc |-> d, overflowed |-> FALSE, ip |-> p], Ethaddr, EthValue)
  BY Zenon DEF Started
<1>3. Follows(d, p)
  BY Zenon DEF Follows
<1>4. Ethaddr \in Names /\ EthValue \in Values
  BY Constants, Zenon
<1>. HIDE DEF d, p, s
<1>5. /\ IsList(s.env)
      /\ \/ /\ s.crc = s.env /\ s.overflowed = FALSE
            /\ s.ip = IF Ethaddr = Ipaddr THEN string_to_ip(EthValue) ELSE p
            /\ AsMap(s.env) = [AsMap(d) EXCEPT ![Ethaddr] = EthValue]
         \/ /\ s.crc = d /\ s.overflowed = TRUE /\ s.ip = p
            /\ AsMap(s.env) = [AsMap(d) EXCEPT ![Ethaddr] = Unset]
  <2>1. Sets(d, d, p, Ethaddr, EthValue, s)
    BY <1>1, <1>2, <1>4, SetIs, Zenon
  <2>. QED  BY <2>1, Zenon DEF Sets
<1>6. Follows(s.env, s.ip)
  <2>1. CASE /\ s.ip = IF Ethaddr = Ipaddr THEN string_to_ip(EthValue) ELSE p
             /\ AsMap(s.env) = [AsMap(d) EXCEPT ![Ethaddr] = EthValue]
    BY <1>3, <1>4, <2>1, FollowsChanged, Zenon
  <2>2. CASE s.ip = p /\ AsMap(s.env) = [AsMap(d) EXCEPT ![Ethaddr] = Unset]
    BY <1>3, <1>4, <2>2, FollowsChanged, Zenon
  <2>. QED  BY <1>5, <2>1, <2>2, Zenon
<1>7. /\ IsList(d) /\ IsList(s.env) /\ IsList(s.crc) /\ Follows(s.env, s.ip)
      /\ ~s.overflowed => s.crc = s.env
      /\ \/ s.crc = s.env /\ AsMap(s.env) = [AsMap(d) EXCEPT ![Ethaddr] = EthValue]
         \/ s.crc = d /\ AsMap(s.env) = [AsMap(d) EXCEPT ![Ethaddr] = Unset]
  BY <1>1, <1>5, <1>6, Zenon
<1>8. Starts(d, s)
  BY <1>7, Zenon DEF Starts
<1>. QED  BY <1>8, Zenon DEF d, s

---------------------------------------------------------------------------
(***************************************************************************)
(* The invariant.                                                          *)
(***************************************************************************)

\* What EnvInv says of the checksums.
LEMMA InvLists ==
  ASSUME EnvInv
  PROVE  /\ IsList(env) /\ IsList(crc) /\ (nvCrc = Torn \/ IsList(nvCrc))
         /\ nvData \in Seq(Chars) /\ Len(nvData) = EnvSize
         /\ Follows(env, bi_ip_addr)
<1>1. IsList(env) /\ crc # Torn /\ \A d \in {crc, nvCrc} \ {env, Torn} : IsList(d)
  BY Zenon DEF EnvInv, WellFormed
<1>2. IsList(crc)
  BY <1>1, Zenon
<1>3. nvCrc = Torn \/ IsList(nvCrc)
  BY <1>1, Zenon
<1>. QED  BY <1>1, <1>2, <1>3, Zenon DEF EnvInv, Follows

\* The parts of the invariant.
LEMMA InvFrom ==
  ASSUME IsList(env), IsList(crc), nvCrc = Torn \/ IsList(nvCrc),
         ~overflowed => crc = env,
         nvData \in Seq(Chars), Len(nvData) = EnvSize,
         at \in {Idle} \cup 0 .. EnvSize,
         at \in Index => nvCrc = crc /\ \A k \in 1 .. at - 1 : nvData[k] = env[k],
         Follows(env, bi_ip_addr),
         CopiesFollow
  PROVE  EnvInv
<1>1. crc # Torn
  BY ListNotTorn, Zenon DEF IsList
<1>2. \A d \in {crc, nvCrc} \ {env, Torn} : IsList(d)
  BY Zenon
<1>. QED  BY <1>1, <1>2, Zenon DEF EnvInv, WellFormed, Follows

\* The same of the next state.
LEMMA InvFromNext ==
  ASSUME IsList(env'), IsList(crc'), nvCrc' = Torn \/ IsList(nvCrc'),
         ~overflowed' => crc' = env',
         nvData' \in Seq(Chars), Len(nvData') = EnvSize,
         at' \in {Idle} \cup 0 .. EnvSize,
         at' \in Index => nvCrc' = crc' /\ \A k \in 1 .. at' - 1 : nvData'[k] = env'[k],
         Follows(env', bi_ip_addr'),
         CopiesFollow'
  PROVE  EnvInv'
<1>1. crc' # Torn
  BY ListNotTorn, Zenon DEF IsList
<1>2. \A d \in {crc', nvCrc'} \ {env', Torn} : IsList(d)
  BY Zenon
<1>. QED  BY <1>1, <1>2, Zenon DEF EnvInv, WellFormed, Follows

\* Idle is no place of a byte.
LEMMA IdleIs == Idle \notin 0 .. EnvSize /\ Idle \notin Index /\ 0 \notin Index /\ EnvSize # Idle
BY Constants DEF Idle, Index

\* The invariant holds after a start.
LEMMA InvInit ==
  ASSUME Init
  PROVE  EnvInv
<1>. DEFINE s == Started(nvData, nvCrc)
<1>1. /\ nvData = set_default_env /\ nvCrc \in {set_default_env, Torn}
      /\ env = s.env /\ crc = s.crc /\ overflowed = s.overflowed /\ bi_ip_addr = s.ip
      /\ at = Idle /\ changed = TRUE
  BY Zenon DEF Init
<1>2. nvData \in Seq(Chars) /\ Len(nvData) = EnvSize /\ (nvCrc = Torn \/ IsList(nvCrc))
  BY <1>1, DefaultAssumption, Zenon DEF IsList
<1>. HIDE DEF s
<1>3. IsList(s.env) /\ IsList(s.crc) /\ Follows(s.env, s.ip) /\ (~s.overflowed => s.crc = s.env)
  BY <1>2, StartedIs, Zenon DEF s, Starts
<1>4. CopiesFollow
  BY <1>1, Zenon DEF CopiesFollow
<1>. QED  BY <1>1, <1>2, <1>3, <1>4, IdleIs, InvFrom, Zenon

\* It holds when memory has changed as setenv or a start change it.
LEMMA InvRam ==
  ASSUME EnvInv, NEW s, Becomes(s), IsList(s.env), IsList(s.crc), Follows(s.env, s.ip),
         ~s.overflowed => s.crc = s.env,
         at' = Idle, changed' = TRUE, UNCHANGED nvVars
  PROVE  EnvInv'
<1>1. /\ nvCrc = Torn \/ IsList(nvCrc)
      /\ nvData \in Seq(Chars) /\ Len(nvData) = EnvSize
  BY InvLists, Zenon
<1>2. env' = s.env /\ crc' = s.crc /\ overflowed' = s.overflowed /\ bi_ip_addr' = s.ip
  BY Zenon DEF Becomes
<1>3. nvData' = nvData /\ nvCrc' = nvCrc
  BY Zenon DEF nvVars
<1>4. CopiesFollow'
  BY Zenon DEF CopiesFollow
<1>. QED  BY <1>1, <1>2, <1>3, <1>4, IdleIs, InvFromNext, Zenon

\* setenv with a value, whoever calls it.
LEMMA InvSet ==
  ASSUME EnvInv, NEW n \in Names, NEW v \in Values, Becomes(Set(Ram, n, v)),
         at' = Idle, changed' = TRUE, UNCHANGED nvVars
  PROVE  EnvInv'
<1>. DEFINE s == Set(Ram, n, v)
<1>1. Becomes(s)
  BY Zenon
<1>2. IsList(env) /\ IsList(crc) /\ Follows(env, bi_ip_addr)
  BY InvLists, Zenon
<1>3. s = Set([env |-> env, crc |-> crc, overflowed |-> overflowed, ip |-> bi_ip_addr], n, v)
  BY Zenon DEF Ram
<1>. HIDE DEF s
<1>4. /\ IsList(s.env)
      /\ \/ /\ s.crc = s.env /\ s.overflowed = FALSE
            /\ s.ip = IF n = Ipaddr THEN string_to_ip(v) ELSE bi_ip_addr
            /\ AsMap(s.env) = [AsMap(env) EXCEPT ![n] = v]
         \/ /\ s.crc = crc /\ s.overflowed = TRUE /\ s.ip = bi_ip_addr
            /\ AsMap(s.env) = [AsMap(env) EXCEPT ![n] = Unset]
  <2>1. Sets(env, crc, bi_ip_addr, n, v, s)
    BY <1>2, <1>3, SetIs, Zenon
  <2>. QED  BY <2>1, Zenon DEF Sets
<1>5. Follows(s.env, s.ip)
  <2>1. CASE /\ s.ip = IF n = Ipaddr THEN string_to_ip(v) ELSE bi_ip_addr
             /\ AsMap(s.env) = [AsMap(env) EXCEPT ![n] = v]
    BY <1>2, <2>1, FollowsChanged, Zenon
  <2>2. CASE s.ip = bi_ip_addr /\ AsMap(s.env) = [AsMap(env) EXCEPT ![n] = Unset]
    BY <1>2, <2>2, FollowsChanged, Zenon
  <2>. QED  BY <1>4, <2>1, <2>2, Zenon
<1>6. IsList(s.crc) /\ (~s.overflowed => s.crc = s.env)
  BY <1>2, <1>4, Zenon
<1>. QED  BY <1>1, <1>4, <1>5, <1>6, InvRam, Zenon

\* setenv without a value.
LEMMA InvDeleteEnv ==
  ASSUME EnvInv, NEW n \in Names, DeleteEnv(n)
  PROVE  EnvInv'
<1>. DEFINE s == Delete(Ram, n)
<1>1. Becomes(s) /\ Setenv
  BY Zenon DEF DeleteEnv
<1>2. at' = Idle /\ changed' = TRUE /\ UNCHANGED nvVars
  BY <1>1, Zenon DEF Setenv
<1>3. IsList(env) /\ Follows(env, bi_ip_addr)
  BY InvLists, Zenon
<1>4. s = Delete([env |-> env, crc |-> crc, overflowed |-> overflowed, ip |-> bi_ip_addr], n)
  BY Zenon DEF Ram
<1>. HIDE DEF s
<1>5. /\ IsList(s.env) /\ s.crc = s.env /\ s.overflowed = FALSE /\ s.ip = bi_ip_addr
      /\ AsMap(s.env) = [AsMap(env) EXCEPT ![n] = Unset]
  <2>1. Deletes(env, bi_ip_addr, n, s)
    BY <1>3, <1>4, DeleteIs, Zenon
  <2>. QED  BY <2>1, Zenon DEF Deletes
<1>6. Follows(s.env, s.ip)
  BY <1>3, <1>5, FollowsChanged, Zenon
<1>. QED  BY <1>1, <1>2, <1>5, <1>6, InvRam, Zenon

\* A start.
LEMMA InvReset ==
  ASSUME EnvInv, Reset
  PROVE  EnvInv'
<1>. DEFINE s == Started(nvData, nvCrc)
<1>1. Becomes(s) /\ at' = Idle /\ changed' = TRUE /\ UNCHANGED nvVars
  BY Zenon DEF Reset
<1>2. Len(nvData) = EnvSize /\ (nvCrc = Torn \/ IsList(nvCrc))
  BY InvLists, Zenon
<1>. HIDE DEF s
<1>3. IsList(s.env) /\ IsList(s.crc) /\ Follows(s.env, s.ip) /\ (~s.overflowed => s.crc = s.env)
  BY <1>2, StartedIs, Zenon DEF s, Starts
<1>. QED  BY <1>1, <1>3, InvRam, Zenon

\* The steps that leave memory alone, but for those of saveenv.
LEMMA InvNet ==
  ASSUME EnvInv, UNCHANGED <<ramVars, nvVars, at>>,
         CopiesFollow'
  PROVE  EnvInv'
<1>1. /\ IsList(env) /\ IsList(crc) /\ (nvCrc = Torn \/ IsList(nvCrc))
      /\ nvData \in Seq(Chars) /\ Len(nvData) = EnvSize
      /\ Follows(env, bi_ip_addr)
  BY InvLists, Zenon
<1>2. /\ env' = env /\ crc' = crc /\ overflowed' = overflowed /\ bi_ip_addr' = bi_ip_addr
      /\ nvData' = nvData /\ nvCrc' = nvCrc /\ at' = at
  BY Zenon DEF ramVars, nvVars
<1>3. /\ ~overflowed => crc = env
      /\ at \in {Idle} \cup 0 .. EnvSize
      /\ at \in Index => nvCrc = crc /\ \A k \in 1 .. at - 1 : nvData[k] = env[k]
  BY Zenon DEF EnvInv
<1>4. ASSUME at' \in Index PROVE nvCrc' = crc' /\ \A k \in 1 .. at' - 1 : nvData'[k] = env'[k]
  BY <1>2, <1>3, <1>4, Zenon
<1>5. at' \in {Idle} \cup 0 .. EnvSize /\ (~overflowed' => crc' = env')
  BY <1>2, <1>3, Zenon
<1>. QED  BY <1>1, <1>2, <1>4, <1>5, InvFromNext, Zenon

\* What the network code does with its copies.
LEMMA NetKeeps ==
  ASSUME EnvInv,
         \/ NetInitLoop \/ NetInitAsking
         \/ \E ip, sip : BootpCopyNetParams(ip, sip) /\ UNCHANGED <<ramVars, changed, sets>>
         \/ \E ip, sip : RarpReply(ip, sip)
         \/ UNCHANGED <<ramVars, netVars>>
  PROVE  CopiesFollow'
<1>1. CopiesFollow
  BY Zenon DEF EnvInv
<1>2. CASE NetInitLoop
  <2>1. env' = env /\ bi_ip_addr' = bi_ip_addr
    BY <1>2, Zenon DEF NetInitLoop, ramVars
  <2>. QED  BY <1>1, <1>2, <2>1, Zenon DEF NetInitLoop, CopiesFollow
<1>3. CASE NetInitAsking
  <2>1. env' = env
    BY <1>3, Zenon DEF NetInitAsking, ramVars
  <2>2. "NetOurIP" \in leased' /\ (changed \/ leased \subseteq leased')
    BY <1>3, Zenon DEF NetInitAsking
  <2>3. NetServerIP' = IF changed THEN string_to_ip(getenv(env, Serverip)) ELSE NetServerIP
    BY <1>3, Zenon DEF NetInitAsking
  <2>. QED  BY <1>1, <2>1, <2>2, <2>3, Zenon DEF CopiesFollow
<1>4. CASE \E ip, sip : BootpCopyNetParams(ip, sip) /\ UNCHANGED <<ramVars, changed, sets>>
  <2>1. /\ env' = env /\ changed' = changed
        /\ "NetOurIP" \in leased' /\ leased \subseteq leased'
        /\ "NetServerIP" \in leased' \/ NetServerIP' = NetServerIP
    BY <1>4, Zenon DEF BootpCopyNetParams, ramVars
  <2>. QED  BY <1>1, <2>1, Zenon DEF CopiesFollow
<1>5. CASE \E ip, sip : RarpReply(ip, sip)
  <2>1. /\ env' = env /\ changed' = changed
        /\ "NetOurIP" \in leased' /\ leased \subseteq leased'
        /\ "NetServerIP" \in leased' \/ NetServerIP' = NetServerIP
    BY <1>5, Zenon DEF RarpReply, ramVars
  <2>. QED  BY <1>1, <2>1, Zenon DEF CopiesFollow
<1>6. CASE UNCHANGED <<ramVars, netVars>>
  <2>1. /\ env' = env /\ bi_ip_addr' = bi_ip_addr /\ changed' = changed
        /\ NetServerIP' = NetServerIP /\ NetOurIP' = NetOurIP /\ leased' = leased
    BY <1>6, Zenon DEF ramVars, netVars
  <2>. QED  BY <1>1, <2>1, Zenon DEF CopiesFollow
<1>. QED  BY <1>2, <1>3, <1>4, <1>5, <1>6, Zenon

\* A byte of saveenv.
LEMMA ByteIs ==
  ASSUME EnvInv, SaveByte
  PROVE  /\ nvData' \in Seq(Chars) /\ Len(nvData') = EnvSize
         /\ nvCrc' = crc
         /\ at \in 1 .. EnvSize
         /\ \A k \in 1 .. at : nvData'[k] = env[k]
<1>1. /\ at \in 1 .. EnvSize /\ nvData' = [nvData EXCEPT ![at] = env[at]] /\ nvCrc' = nvCrc
      /\ nvCrc = crc /\ \A k \in 1 .. at - 1 : nvData[k] = env[k]
  BY Zenon DEF SaveByte, EnvInv, Index
<1>2. /\ nvData \in Seq(Chars) /\ Len(nvData) = EnvSize /\ env \in Seq(Chars) /\ Len(env) = EnvSize
      /\ EnvSize \in Nat
  BY InvLists, Constants, Zenon DEF IsList
<1>3. env[at] \in Chars
  BY <1>1, <1>2
<1>4. nvData' \in Seq(Chars) /\ Len(nvData') = Len(nvData)
  <2>1. at \in 1 .. Len(nvData)
    BY <1>1, <1>2, Zenon
  <2>. QED  BY <1>1, <1>2, <1>3, <2>1, ExceptSeq
<1>5. ASSUME NEW k \in 1 .. at PROVE nvData'[k] = env[k]
  <2>1. DOMAIN nvData = 1 .. EnvSize
    BY <1>2
  <2>2. k \in 1 .. EnvSize /\ (k # at => k \in 1 .. at - 1)
    BY <1>1, <1>2
  <2>3. nvData'[k] = IF k = at THEN env[at] ELSE nvData[k]
    BY <1>1, <2>1, <2>2, Zenon
  <2>. QED  BY <1>1, <2>2, <2>3, Zenon
<1>. QED  BY <1>1, <1>2, <1>4, <1>5, Zenon

\* saveenv: what its steps do to NVRAM.
LEMMA SaveIs ==
  ASSUME EnvInv, SaveBegin \/ SaveCrc \/ SaveByte
  PROVE  /\ UNCHANGED <<ramVars, netVars>>
         /\ nvData' \in Seq(Chars) /\ Len(nvData') = EnvSize
         /\ nvCrc' \in {Torn, crc}
         /\ at' \in {Idle} \cup 0 .. EnvSize
         /\ at' \in Index => nvCrc' = crc /\ \A k \in 1 .. at' - 1 : nvData'[k] = env[k]
<1>1. nvData \in Seq(Chars) /\ Len(nvData) = EnvSize /\ EnvSize \in Nat /\ EnvSize >= 2
  BY InvLists, Constants, Zenon
<1>2. CASE SaveBegin
  <2>1. /\ UNCHANGED <<ramVars, netVars>> /\ nvData' = nvData /\ at' = 0
        /\ nvCrc' \in {Torn, crc}
    BY <1>2, Zenon DEF SaveBegin
  <2>2. 0 \in 0 .. EnvSize
    BY <1>1
  <2>. QED  BY <1>1, <2>1, <2>2, IdleIs, Zenon
<1>3. CASE SaveCrc
  <2>1. UNCHANGED <<ramVars, netVars>> /\ nvData' = nvData /\ at' = 1 /\ nvCrc' = crc
    BY <1>3, Zenon DEF SaveCrc
  <2>2. 1 \in 0 .. EnvSize /\ \A k \in 1 .. 1 - 1 : FALSE
    BY <1>1
  <2>. QED  BY <1>1, <2>1, <2>2, Zenon
<1>4. CASE SaveByte
  <2>1. UNCHANGED <<ramVars, netVars>> /\ at' = IF at = EnvSize THEN Idle ELSE at + 1
    BY <1>4, Zenon DEF SaveByte
  <2>2. /\ nvData' \in Seq(Chars) /\ Len(nvData') = EnvSize /\ nvCrc' = crc
        /\ at \in 1 .. EnvSize /\ \A k \in 1 .. at : nvData'[k] = env[k]
    BY <1>4, ByteIs, Zenon
  <2>3. CASE at = EnvSize
    BY <2>1, <2>2, <2>3, IdleIs, Zenon
  <2>4. CASE at # EnvSize
    <3>1. at + 1 \in 0 .. EnvSize /\ \A k \in 1 .. (at + 1) - 1 : k \in 1 .. at
      BY <1>1, <2>2, <2>4
    <3>2. at' = at + 1
      BY <2>1, <2>4, Zenon
    <3>. QED  BY <2>1, <2>2, <3>1, <3>2, Zenon
  <2>. QED  BY <2>3, <2>4, Zenon
<1>. QED  BY <1>2, <1>3, <1>4, Zenon

\* The steps of saveenv keep the invariant.
LEMMA InvSave ==
  ASSUME EnvInv, SaveBegin \/ SaveCrc \/ SaveByte
  PROVE  EnvInv'
<1>1. /\ IsList(env) /\ IsList(crc) /\ Follows(env, bi_ip_addr)
      /\ ~overflowed => crc = env
  BY InvLists, Zenon DEF EnvInv
<1>2. /\ UNCHANGED <<ramVars, netVars>>
      /\ nvData' \in Seq(Chars) /\ Len(nvData') = EnvSize
      /\ nvCrc' \in {Torn, crc}
      /\ at' \in {Idle} \cup 0 .. EnvSize
      /\ at' \in Index => nvCrc' = crc /\ \A k \in 1 .. at' - 1 : nvData'[k] = env[k]
  BY SaveIs, Zenon
<1>3. /\ env' = env /\ crc' = crc /\ overflowed' = overflowed /\ bi_ip_addr' = bi_ip_addr
  BY <1>2, Zenon DEF ramVars
<1>4. nvCrc' = Torn \/ IsList(nvCrc')
  BY <1>1, <1>2, Zenon
<1>5. ASSUME at' \in Index PROVE nvCrc' = crc' /\ \A k \in 1 .. at' - 1 : nvData'[k] = env'[k]
  BY <1>2, <1>3, <1>5, Zenon
<1>6. CopiesFollow'
  BY <1>2, NetKeeps, Zenon
<1>. QED  BY <1>1, <1>2, <1>3, <1>4, <1>5, <1>6, InvFromNext, Zenon

\* Every step keeps the invariant.
LEMMA InvNext ==
  ASSUME EnvInv, [Next]_vars
  PROVE  EnvInv'
<1>1. CASE \E n \in Names, v \in Values : SetEnv(n, v)
  BY <1>1, InvSet, Zenon DEF SetEnv, Setenv
<1>2. CASE \E n \in Names : DeleteEnv(n)
  BY <1>2, InvDeleteEnv, Zenon
<1>3. CASE \E n \in Names : RefuseEnv(n)
  <2>1. UNCHANGED <<ramVars, nvVars, at>> /\ changed' = TRUE
    BY <1>3, Zenon DEF RefuseEnv, Setenv
  <2>. QED  BY <2>1, InvNet, Zenon DEF CopiesFollow
<1>4. CASE NetInitLoop \/ NetInitAsking
  <2>1. UNCHANGED <<ramVars, nvVars, at>>
    BY <1>4, Zenon DEF NetInitLoop, NetInitAsking
  <2>. QED  BY <1>4, <2>1, NetKeeps, InvNet, Zenon
<1>5. ASSUME NEW ip, NEW sip, BootpCopyNetParams(ip, sip) PROVE EnvInv'
  <2>1. at = Idle /\ UNCHANGED <<nvVars, at>>
    BY <1>5, Zenon DEF BootpCopyNetParams
  <2>2. CASE UNCHANGED <<ramVars, changed, sets>>
    BY <1>5, <2>1, <2>2, NetKeeps, InvNet, Zenon
  <2>3. ASSUME NEW v \in Values, changed' = TRUE, Becomes(Set(Ram, Bootfile, v))
        PROVE  EnvInv'
    BY <2>1, <2>3, InvSet, Constants, Zenon
  <2>. QED  BY <1>5, <2>2, <2>3, Zenon DEF BootpCopyNetParams
<1>6. ASSUME NEW ip, NEW sip, RarpReply(ip, sip) PROVE EnvInv'
  <2>1. UNCHANGED <<ramVars, nvVars, at>>
    BY <1>6, Zenon DEF RarpReply
  <2>. QED  BY <1>6, <2>1, NetKeeps, InvNet, Zenon
<1>7. CASE SaveBegin \/ SaveCrc \/ SaveByte
  BY <1>7, InvSave, Zenon
<1>8. CASE Reset
  BY <1>8, InvReset, Zenon
<1>9. CASE UNCHANGED vars
  <2>1. UNCHANGED <<ramVars, nvVars, at>> /\ UNCHANGED netVars
    BY <1>9, Zenon DEF vars
  <2>. QED  BY <2>1, NetKeeps, InvNet, Zenon
<1>. QED  BY <1>1, <1>2, <1>3, <1>4, <1>5, <1>6, <1>7, <1>8, <1>9, Zenon DEF Next

---------------------------------------------------------------------------
(***************************************************************************)
(* Every step as a step of the map.                                        *)
(***************************************************************************)

\* A map is not Lost.
LEMMA MapNotLost ==
  ASSUME NEW d
  PROVE  AsMap(d) # Lost
<1>1. DOMAIN AsMap(d) = Names
  BY Zenon DEF AsMap
<1>2. Names # {}
  BY Constants, Zenon
<1>3. DOMAIN <<>> = {}
  OBVIOUS
<1>. QED  BY <1>1, <1>2, <1>3, Zenon DEF Lost

\* A start that has loaded the map m made s of it.
StartsWith(m, s) ==
  \/ /\ AsMap(s.env) = [m EXCEPT ![Ethaddr] = EthValue]
     /\ AsMap(s.crc) = AsMap(s.env)
  \/ /\ AsMap(s.env) = [m EXCEPT ![Ethaddr] = Unset]
     /\ AsMap(s.crc) = m

\* A start loads the map in NVRAM, or the default one, and sets one variable.
LEMMA StartedMap ==
  ASSUME Len(nvData) = EnvSize, nvCrc = Torn \/ IsList(nvCrc)
  PROVE  StartsWith(Map!Loaded, Started(nvData, nvCrc))
<1>. DEFINE d == env_init(nvData, nvCrc)
<1>. DEFINE s == Started(nvData, nvCrc)
<1>1. Map!Loaded = AsMap(d)
  <2>1. CASE nvCrc = nvData
    <3>1. d = nvData /\ NvMap = AsMap(nvData)
      BY <2>1, Zenon DEF env_init, NvMap
    <3>. QED  BY <3>1, MapNotLost, Zenon DEF Map!Loaded
  <2>2. CASE nvCrc # nvData
    <3>1. d = set_default_env /\ NvMap = Lost
      BY <2>2, Zenon DEF env_init, NvMap
    <3>. QED  BY <3>1, Zenon DEF Map!Loaded
  <2>. QED  BY <2>1, <2>2, Zenon
<1>2. Starts(d, s)
  BY StartedIs, Zenon
<1>. HIDE DEF d, s
<1>3. StartsWith(AsMap(d), s)
  BY <1>2, Zenon DEF Starts, StartsWith
<1>. QED  BY <1>1, <1>3, Zenon DEF s

\* setenv is a setenv of the map, whoever calls it.
LEMMA SetEnvMap ==
  ASSUME EnvInv, NEW n \in Names, NEW v \in Values, Becomes(Set(Ram, n, v)), UNCHANGED nvVars
  PROVE  Map!MapSet
<1>. DEFINE s == Set(Ram, n, v)
<1>1. Becomes(s)
  BY Zenon
<1>2. IsList(env)
  BY InvLists, Zenon
<1>3. s = Set([env |-> env, crc |-> crc, overflowed |-> overflowed, ip |-> bi_ip_addr], n, v)
  BY Zenon DEF Ram
<1>. HIDE DEF s
<1>4. Sets(env, crc, bi_ip_addr, n, v, s)
  BY <1>2, <1>3, SetIs, Zenon
<1>5. env' = s.env /\ crc' = s.crc
  BY <1>1, Zenon DEF Becomes
<1>6. \/ /\ AsMap(env') = [AsMap(env) EXCEPT ![n] = v]
         /\ AsMap(crc') = AsMap(env')
      \/ /\ AsMap(env') = [AsMap(env) EXCEPT ![n] = Unset]
         /\ AsMap(crc') = AsMap(crc)
  BY <1>4, <1>5, Zenon DEF Sets
<1>7. NvMap' = NvMap
  BY Zenon DEF nvVars, NvMap
<1>. QED  BY <1>6, <1>7, Zenon DEF Map!MapSet, Map!Put

\* And one without a value is a deletion.
LEMMA DeleteEnvMap ==
  ASSUME EnvInv, NEW n \in Names, DeleteEnv(n)
  PROVE  Map!MapDelete
<1>. DEFINE s == Delete(Ram, n)
<1>1. Becomes(s) /\ Setenv
  BY Zenon DEF DeleteEnv
<1>2. IsList(env)
  BY InvLists, Zenon
<1>3. s = Delete([env |-> env, crc |-> crc, overflowed |-> overflowed, ip |-> bi_ip_addr], n)
  BY Zenon DEF Ram
<1>. HIDE DEF s
<1>4. Deletes(env, bi_ip_addr, n, s)
  BY <1>2, <1>3, DeleteIs, Zenon
<1>5. AsMap(env') = [AsMap(env) EXCEPT ![n] = Unset] /\ AsMap(crc') = AsMap(env')
  BY <1>1, <1>4, Zenon DEF Becomes, Deletes
<1>6. NvMap' = NvMap
  BY <1>1, Zenon DEF Setenv, nvVars, NvMap
<1>. QED  BY <1>5, <1>6, Zenon DEF Map!MapDelete

\* The steps of saveenv lose the map in NVRAM, keep it or put the summed one there.
LEMMA SaveMap ==
  ASSUME EnvInv, SaveBegin \/ SaveCrc \/ SaveByte
  PROVE  Map!MapSave
<1>1. UNCHANGED <<ramVars, netVars>> /\ Len(nvData') = EnvSize /\ nvCrc' \in {Torn, crc}
  BY SaveIs, Zenon
<1>2. env' = env /\ crc' = crc
  BY <1>1, Zenon DEF ramVars
<1>3. nvData' # Torn
  BY <1>1, ListNotTorn, Zenon
<1>4. NvMap' \in {AsMap(crc), Lost}
  BY <1>1, <1>3, Zenon DEF NvMap
<1>. QED  BY <1>2, <1>4, Zenon DEF Map!MapSave

\* A reset is a start.
LEMMA ResetMap ==
  ASSUME EnvInv, Reset
  PROVE  Map!MapStart
<1>. DEFINE s == Started(nvData, nvCrc)
<1>1. env' = s.env /\ crc' = s.crc /\ nvData' = nvData /\ nvCrc' = nvCrc
  BY Zenon DEF Reset, Becomes, nvVars
<1>2. StartsWith(Map!Loaded, s)
  BY InvLists, StartedMap, Zenon
<1>3. NvMap' = NvMap
  BY <1>1, Zenon DEF NvMap
<1>. HIDE DEF s
<1>. QED  BY <1>1, <1>2, <1>3, Zenon DEF StartsWith, Map!MapStart, Map!Start, Map!Put

\* The first start.
LEMMA InitMap ==
  ASSUME Init
  PROVE  Map!MapInit
<1>. DEFINE s == Started(nvData, nvCrc)
<1>1. /\ env = s.env /\ crc = s.crc
      /\ nvData = set_default_env /\ nvCrc \in {set_default_env, Torn}
  BY Zenon DEF Init
<1>2. Len(nvData) = EnvSize /\ (nvCrc = Torn \/ IsList(nvCrc))
  BY <1>1, DefaultAssumption, Zenon DEF IsList
<1>3. StartsWith(Map!Loaded, s)
  BY <1>2, StartedMap, Zenon
<1>4. NvMap \in {AsMap(set_default_env), Lost}
  BY <1>1, Zenon DEF NvMap
<1>. HIDE DEF s
<1>. QED  BY <1>1, <1>3, <1>4, Zenon DEF StartsWith, Map!MapInit, Map!Start, Map!Put

\* Every step is one of the map, or leaves it alone.
LEMMA NextMap ==
  ASSUME EnvInv, [Next]_vars
  PROVE  [Map!MapNext]_(Map!mapVars)
<1>1. CASE \E n \in Names, v \in Values : SetEnv(n, v)
  BY <1>1, SetEnvMap, Zenon DEF Map!MapNext, SetEnv, Setenv
<1>2. CASE \E n \in Names : DeleteEnv(n)
  BY <1>2, DeleteEnvMap, Zenon DEF Map!MapNext
<1>3. ASSUME UNCHANGED <<ramVars, nvVars>> PROVE UNCHANGED Map!mapVars
  <2>1. env' = env /\ crc' = crc /\ nvData' = nvData /\ nvCrc' = nvCrc
    BY <1>3, Zenon DEF ramVars, nvVars
  <2>2. AsMap(env') = AsMap(env) /\ AsMap(crc') = AsMap(crc) /\ NvMap' = NvMap
    BY <2>1, Zenon DEF NvMap
  <2>. QED  BY <2>2, Zenon DEF Map!mapVars
<1>4. CASE \E n \in Names : RefuseEnv(n)
  BY <1>3, <1>4, Zenon DEF RefuseEnv, Setenv
<1>5. CASE NetInitLoop \/ NetInitAsking \/ \E ip, sip : RarpReply(ip, sip)
  BY <1>3, <1>5, Zenon DEF NetInitLoop, NetInitAsking, RarpReply
<1>6. ASSUME NEW ip, NEW sip, BootpCopyNetParams(ip, sip)
      PROVE  UNCHANGED Map!mapVars \/ Map!MapNext
  <2>1. UNCHANGED nvVars
    BY <1>6, Zenon DEF BootpCopyNetParams
  <2>2. ASSUME NEW v \in Values, Becomes(Set(Ram, Bootfile, v)) PROVE Map!MapNext
    BY <2>1, <2>2, SetEnvMap, Constants, Zenon DEF Map!MapNext
  <2>. QED  BY <1>3, <1>6, <2>1, <2>2, Zenon DEF BootpCopyNetParams
<1>7. CASE SaveBegin \/ SaveCrc \/ SaveByte
  BY <1>7, SaveMap, Zenon DEF Map!MapNext
<1>8. CASE Reset
  BY <1>8, ResetMap, Zenon DEF Map!MapNext
<1>9. CASE UNCHANGED vars
  BY <1>3, <1>9, Zenon DEF vars
<1>. QED  BY <1>1, <1>2, <1>4, <1>5, <1>6, <1>7, <1>8, <1>9, Zenon DEF Next

---------------------------------------------------------------------------
(***************************************************************************)
(* The theorems.                                                           *)
(***************************************************************************)

\* The lists in memory and behind the checksums stay well formed, whatever is set,
\* deleted, refused and saved, and wherever power fails (EnvInv: _do_setenv,
\* saveenv, env_init).
THEOREM EnvCorrect == Spec => []EnvInv
<1>1. Init => EnvInv
  BY InvInit, Zenon
<1>2. EnvInv /\ [Next]_vars => EnvInv'
  BY InvNext, Zenon
<1>. QED  BY <1>1, <1>2, PTL DEF Spec

\* The network code works with the addresses in the environment, as long as env_id
\* says that nothing has changed, or with those that BOOTP or RARP servers answered
\* (NetInitLoop, BootpCopyNetParams).
THEOREM NetworkSeesEnv == Spec => []NetSeesEnv
<1>1. EnvInv => NetSeesEnv
  BY Zenon DEF EnvInv, NetSeesEnv, CopiesFollow
<1>. QED  BY <1>1, EnvCorrect, PTL

\* With the last byte of a saveenv NVRAM holds all bytes of memory (saveenv).
THEOREM LastByteCopied == Spec => [][SaveByte /\ at = EnvSize => nvData' = env]_vars
<1>1. ASSUME EnvInv, SaveByte, at = EnvSize PROVE nvData' = env
  <2>1. /\ nvData' \in Seq(Chars) /\ Len(nvData') = EnvSize
        /\ \A k \in 1 .. at : nvData'[k] = env[k]
    BY <1>1, ByteIs, Zenon
  <2>2. env \in Seq(Chars) /\ Len(env) = EnvSize
    BY <1>1, InvLists, Zenon DEF IsList
  <2>. QED  BY <1>1, <2>1, <2>2, SeqEqual, Zenon
<1>2. EnvInv /\ [Next]_vars => [SaveByte /\ at = EnvSize => nvData' = env]_vars
  BY <1>1, Zenon
<1>. QED  BY <1>2, EnvCorrect, PTL DEF Spec

\* A saveenv that finishes has stored what the next start finds, unless a setenv has
\* overflowed before (env_crc_update, saveenv).
THEOREM SaveIsStored == Spec => SaveStores
<1>1. ASSUME EnvInv, [Next]_vars, Saved, ~overflowed PROVE NvMap' = AsMap(env)
  <2>1. at = EnvSize /\ at' = Idle /\ nvData' = env
    BY <1>1, Zenon DEF Saved
  <2>2. at \in Index /\ at # Idle /\ at' # at /\ at # 0
    BY <2>1, Constants DEF Idle, Index
  <2>3. nvCrc = crc /\ crc = env
    BY <1>1, <2>2, Zenon DEF EnvInv
  <2>4. nvCrc' = nvCrc
    BY <1>1, <2>2, Zenon DEF Next, SetEnv, DeleteEnv, RefuseEnv, Setenv, NetInitLoop,
       NetInitAsking, BootpCopyNetParams, RarpReply, SaveBegin, SaveCrc, SaveByte, Reset, nvVars, vars
  <2>. QED  BY <2>1, <2>3, <2>4, Zenon DEF NvMap
<1>2. EnvInv /\ [Next]_vars => [Saved /\ ~overflowed => NvMap' = AsMap(env)]_vars
  BY <1>1, Zenon
<1>. QED  BY <1>2, EnvCorrect, PTL DEF Spec, SaveStores

\* The bytes implement a map: a setenv changes one variable and no other, and a start
\* finds the variables of one saveenv or the default ones, never a mix of two, even
\* when power fails in the middle of saving (_do_setenv, saveenv, env_init).
THEOREM ImplementsEnvMap == Spec => ImplementsMap
<1>1. Init => Map!MapInit
  BY InitMap, Zenon
<1>2. EnvInv /\ [Next]_vars => [Map!MapNext]_(Map!mapVars)
  BY NextMap, Zenon
<1>. QED  BY <1>1, <1>2, EnvCorrect, PTL DEF Spec, ImplementsMap, Map!MapSpec

=============================================================================
