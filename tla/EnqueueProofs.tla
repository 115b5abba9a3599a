---------------------------- MODULE EnqueueProofs ----------------------------
(***************************************************************************)
(* Idempotency, for any number of clients, keys, connections and faults,   *)
(* and for any bodies: an accepted request is stored, a key stands for one *)
(* job, a conflict is one.  All of it rests on the unique index, on what   *)
(* an open transaction that has passed it may rely on until it commits,    *)
(* and on the text that is hashed: it is the same for two bodies exactly   *)
(* if they ask for the same, however deep they are nested.                 *)
(***************************************************************************)
EXTENDS Enqueue, WellFoundedInduction, SequenceTheorems, TLAPS

(***************************************************************************)
(* The text of a request.                                                  *)
(*                                                                         *)
(* What recursion computes is shown by a smallest counterexample: sets of  *)
(* natural numbers have a smallest one, and parts are less deep.           *)
(***************************************************************************)
\* A set of natural numbers that is not empty has a smallest one.
LEMMA SmallestOf ==
    ASSUME NEW T, T \subseteq Nat, T # {}
    PROVE  \E x \in T : \A y \in T : x <= y
<1>1. PICK x \in T : \A y \in T : <<y, x>> \notin OpToRel(<, Nat)
  BY WFMin, NatLessThanWellFounded, Zenon
<1>2. \A y \in T : ~(y < x)
  BY <1>1 DEF OpToRel
<1>. QED  BY <1>2

\* Induction over the natural numbers, for a set of them.
LEMMA NatSet ==
    ASSUME NEW S, 0 \in S, \A n \in Nat : n \in S => n + 1 \in S
    PROVE  \A n \in Nat : n \in S
<1>. SUFFICES ASSUME NEW m \in Nat, m \notin S PROVE FALSE
  OBVIOUS
<1>1. PICK x \in { n \in Nat : n \notin S } : \A y \in { n \in Nat : n \notin S } : x <= y
  BY SmallestOf
<1>2. x # 0 /\ x - 1 \in Nat  OBVIOUS
<1>3. x - 1 \in S  BY <1>1, <1>2
<1>. QED  BY <1>2, <1>3

-----------------------------------------------------------------------------
Distinct(members) ==
    \A i, j \in DOMAIN members : i # j => members[i][1] # members[j][1]

Increasing(s) == \A i, j \in DOMAIN s : i < j => Rank(s[i][1]) < Rank(s[j][1])

\* s has the first k of the members, in increasing order.
SortsPrefix(s, members, k) ==
    /\ s \in [1 .. k -> Name \X Value]
    /\ { s[i] : i \in 1 .. k } = { members[i] : i \in 1 .. k }
    /\ Increasing(s)

LEMMA SortOneMore ==
    ASSUME NEW members \in Seq(Name \X Value), Distinct(members),
           NEW k \in Nat, k < Len(members), NEW s, SortsPrefix(s, members, k)
    PROVE  \E t : SortsPrefix(t, members, k + 1)
<1>. DEFINE x == members[k + 1]
            J == { i \in 1 .. k + 1 : i = k + 1 \/ Rank(s[i][1]) > Rank(x[1]) }
<1>1. x \in Name \X Value /\ Rank(x[1]) \in Nat
  BY JsonAssumption DEF JsonAssumption
<1>2. \A i \in 1 .. k : s[i] \in Name \X Value /\ Rank(s[i][1]) \in Nat
  BY JsonAssumption DEF JsonAssumption, SortsPrefix
<1>0. \A a, b \in 1 .. k : a < b => Rank(s[a][1]) < Rank(s[b][1])
  BY DEF SortsPrefix, Increasing
<1>3. \A i \in 1 .. k : Rank(s[i][1]) # Rank(x[1])
  <2>. SUFFICES ASSUME NEW i \in 1 .. k PROVE s[i][1] # x[1]
    BY <1>1, <1>2, JsonAssumption DEF JsonAssumption
  <2>1. PICK h \in 1 .. k : s[i] = members[h]
    BY DEF SortsPrefix
  <2>2. h \in DOMAIN members /\ k + 1 \in DOMAIN members /\ h # k + 1
    OBVIOUS
  <2>. QED  BY <2>1, <2>2 DEF Distinct
<1>4. PICK j \in J : \A i \in J : j <= i
  <2>0. k + 1 \in J /\ 1 .. k + 1 \subseteq Nat  OBVIOUS
  <2>1. J \subseteq Nat /\ J # {}  BY <2>0, Zenon
  <2>. HIDE DEF J
  <2>. QED  BY <2>1, SmallestOf
<1>5. \A i \in 1 .. k : i < j => Rank(s[i][1]) < Rank(x[1])
  BY <1>1, <1>2, <1>3, <1>4
<1>6. \A i \in 1 .. k : j <= i => Rank(x[1]) < Rank(s[i][1])
  <2>. SUFFICES ASSUME NEW i \in 1 .. k, j <= i PROVE Rank(x[1]) < Rank(s[i][1])
    OBVIOUS
  <2>1. j \in 1 .. k /\ Rank(s[j][1]) > Rank(x[1])  OBVIOUS
  <2>2. i = j \/ Rank(s[j][1]) < Rank(s[i][1])
    <3>. HIDE DEF J, x
    <3>. QED  BY <1>0, <2>1
  <2>. HIDE DEF x
  <2>. QED  BY <1>1, <1>2, <2>1, <2>2
<1>. DEFINE t == [i \in 1 .. k + 1 |-> IF i < j THEN s[i] ELSE IF i = j THEN x ELSE s[i - 1]]
<1>7. \A i \in 1 .. k : t[i] = s[i] \/ t[i + 1] = s[i]
  OBVIOUS
<1>8. t \in [1 .. k + 1 -> Name \X Value]
  BY <1>1, <1>2
<1>9. { t[i] : i \in 1 .. k + 1 } = { members[i] : i \in 1 .. k + 1 }
  <2>1. \A i \in 1 .. k + 1 : t[i] = x \/ \E h \in 1 .. k : t[i] = s[h]
    OBVIOUS
  <2>2. t[j] = x  OBVIOUS
  <2>3. { t[i] : i \in 1 .. k + 1 } = { s[i] : i \in 1 .. k } \cup { x }
    <3>1. \A i \in 1 .. k : \E h \in 1 .. k + 1 : s[i] = t[h]
      <4>. SUFFICES ASSUME NEW i \in 1 .. k PROVE \E h \in 1 .. k + 1 : s[i] = t[h]
        OBVIOUS
      <4>1. i \in 1 .. k + 1 /\ i + 1 \in 1 .. k + 1  OBVIOUS
      <4>. HIDE DEF t
      <4>. QED  BY <1>7, <4>1
    <3>2. j \in 1 .. k + 1  OBVIOUS
    <3>. HIDE DEF t, x
    <3>3. \A y \in { t[i] : i \in 1 .. k + 1 } : y \in { s[i] : i \in 1 .. k } \cup { x }
      BY <2>1
    <3>4. \A y \in { s[i] : i \in 1 .. k } \cup { x } : y \in { t[i] : i \in 1 .. k + 1 }
      BY <2>2, <3>1, <3>2
    <3>. QED  BY <3>3, <3>4
  <2>4. { members[i] : i \in 1 .. k + 1 } = { members[i] : i \in 1 .. k } \cup { x }
    OBVIOUS
  <2>. QED  BY <2>3, <2>4 DEF SortsPrefix
<1>10. Increasing(t)
  <2>. SUFFICES ASSUME NEW g \in 1 .. k + 1, NEW h \in 1 .. k + 1, g < h
                PROVE  Rank(t[g][1]) < Rank(t[h][1])
    BY <1>8 DEF Increasing
  <2>2. CASE h < j
    <3>1. t[g] = s[g] /\ t[h] = s[h] /\ g \in 1 .. k /\ h \in 1 .. k  BY <2>2
    <3>. QED  BY <1>0, <3>1
  <2>3. CASE h = j
    <3>1. t[g] = s[g] /\ t[h] = x /\ g \in 1 .. k  BY <2>3
    <3>. QED  BY <1>5, <2>3, <3>1
  <2>4. CASE h > j /\ g < j
    <3>1. t[g] = s[g] /\ t[h] = s[h - 1] /\ g \in 1 .. k /\ h - 1 \in 1 .. k
          /\ (g < h - 1 \/ g = h - 1)
      BY <2>4
    <3>. QED  BY <1>0, <2>4, <3>1
  <2>5. CASE g = j
    <3>1. t[g] = x /\ t[h] = s[h - 1] /\ h - 1 \in 1 .. k /\ j <= h - 1  BY <2>5
    <3>. QED  BY <1>6, <3>1
  <2>6. CASE g > j
    <3>1. t[g] = s[g - 1] /\ t[h] = s[h - 1] /\ g - 1 \in 1 .. k /\ h - 1 \in 1 .. k
      BY <2>6
    <3>. QED  BY <1>0, <3>1
  <2>. QED  BY <2>2, <2>3, <2>4, <2>5, <2>6
<1>. QED  BY <1>8, <1>9, <1>10 DEF SortsPrefix

\* Whatever the members of an object, there is an arrangement of them by name.
LEMMA SortedIs ==
    ASSUME NEW members \in Seq(Name \X Value), Distinct(members)
    PROVE  /\ Sorted(members) \in [DOMAIN members -> ToSet(members)]
           /\ ToSet(Sorted(members)) = ToSet(members)
           /\ Increasing(Sorted(members))
<1>. DEFINE S == { k \in Nat : k <= Len(members) => \E s : SortsPrefix(s, members, k) }
<1>1. 0 \in S
  <2>1. SortsPrefix(<<>>, members, 0)
    BY DEF SortsPrefix, Increasing
  <2>. QED  BY <2>1
<1>2. \A k \in Nat : k \in S => k + 1 \in S
  BY SortOneMore
<1>3. Len(members) \in S
  <2>. HIDE DEF S
  <2>. QED  BY <1>1, <1>2, NatSet
<1>4. PICK s : SortsPrefix(s, members, Len(members))
  BY <1>3
<1>5. DOMAIN s = DOMAIN members /\ ToSet(s) = ToSet(members) /\ Increasing(s)
  <2>1. DOMAIN members = 1 .. Len(members) /\ DOMAIN s = 1 .. Len(members)
    BY <1>4 DEF SortsPrefix
  <2>. QED  BY <1>4, <2>1 DEF SortsPrefix, ToSet
<1>6. s \in [DOMAIN members -> ToSet(members)]
  BY <1>4, <1>5 DEF SortsPrefix, ToSet
<1>. QED  BY <1>5, <1>6 DEF Sorted, Increasing

-----------------------------------------------------------------------------
Members == Name \X Value

\* If the names before i agree, that of t at i exists and does not come later.
LEMMA NextName ==
    ASSUME NEW m \in Nat, NEW n \in Nat,
           NEW s \in [1 .. m -> Members], NEW t \in [1 .. n -> Members],
           Increasing(s), Increasing(t),
           \A h \in 1 .. m : \E g \in 1 .. n : s[h][1] = t[g][1],
           NEW i \in 1 .. m,
           \A h \in 1 .. i - 1 : h <= n => s[h][1] = t[h][1]
    PROVE  i \in 1 .. n /\ Rank(t[i][1]) <= Rank(s[i][1])
<1>1. PICK g \in 1 .. n : s[i][1] = t[g][1]
  OBVIOUS
<1>2. /\ \A h \in 1 .. m : Rank(s[h][1]) \in Nat
      /\ \A h \in 1 .. n : Rank(t[h][1]) \in Nat
  BY JsonAssumption DEF JsonAssumption, Members
<1>3. ~(g < i)
  <2>. SUFFICES ASSUME g < i PROVE FALSE
    OBVIOUS
  <2>1. g \in 1 .. i - 1 /\ g \in 1 .. m  OBVIOUS
  <2>2. Rank(s[g][1]) < Rank(s[i][1])  BY <2>1 DEF Increasing
  <2>. QED  BY <1>1, <1>2, <2>1, <2>2
<1>4. i \in 1 .. n  BY <1>3
<1>5. i = g \/ Rank(t[i][1]) < Rank(t[g][1])
  BY <1>3, <1>4 DEF Increasing
<1>. QED  BY <1>1, <1>2, <1>4, <1>5

\* Two objects with the same names have them in the same order once sorted.
LEMMA SortedAlike ==
    ASSUME NEW a \in Seq(Members), NEW b \in Seq(Members), Distinct(a), Distinct(b),
           { m[1] : m \in ToSet(a) } = { m[1] : m \in ToSet(b) }
    PROVE  Len(a) = Len(b) /\ \A i \in 1 .. Len(a) : Sorted(a)[i][1] = Sorted(b)[i][1]
<1>. DEFINE s == Sorted(a)
            t == Sorted(b)
            m == Len(a)
            n == Len(b)
            Bad == { i \in Nat : (i \in 1 .. m \/ i \in 1 .. n)
                                 /\ ~(i \in 1 .. m /\ i \in 1 .. n /\ s[i][1] = t[i][1]) }
<1>1. /\ s \in [1 .. m -> Members] /\ t \in [1 .. n -> Members]
      /\ ToSet(s) = ToSet(a) /\ ToSet(t) = ToSet(b)
      /\ Increasing(s) /\ Increasing(t)
  <2>1. /\ DOMAIN a = 1 .. m /\ ToSet(a) \subseteq Members
        /\ DOMAIN b = 1 .. n /\ ToSet(b) \subseteq Members
    BY DEF ToSet
  <2>2. s \in [DOMAIN a -> ToSet(a)] /\ ToSet(s) = ToSet(a) /\ Increasing(s)
    BY SortedIs DEF Members
  <2>3. t \in [DOMAIN b -> ToSet(b)] /\ ToSet(t) = ToSet(b) /\ Increasing(t)
    BY SortedIs DEF Members
  <2>. HIDE DEF s, t
  <2>. QED  BY <2>1, <2>2, <2>3
<1>2. m \in Nat /\ n \in Nat  OBVIOUS
<1>. HIDE DEF s, t, m, n
<1>3. { s[i][1] : i \in 1 .. m } = { t[i][1] : i \in 1 .. n }
  <2>1. ToSet(s) = { s[i] : i \in 1 .. m } /\ ToSet(t) = { t[i] : i \in 1 .. n }
    BY <1>1 DEF ToSet
  <2>2. { s[i][1] : i \in 1 .. m } = { x[1] : x \in ToSet(s) }  BY <2>1
  <2>3. { t[i][1] : i \in 1 .. n } = { x[1] : x \in ToSet(t) }  BY <2>1
  <2>. QED  BY <1>1, <2>2, <2>3
<1>4. /\ \A h \in 1 .. m : \E g \in 1 .. n : s[h][1] = t[g][1]
      /\ \A h \in 1 .. n : \E g \in 1 .. m : t[h][1] = s[g][1]
  BY <1>3
<1>5. Bad = {}
  <2>. SUFFICES ASSUME Bad # {} PROVE FALSE
    OBVIOUS
  <2>0. Bad \subseteq Nat  OBVIOUS
  <2>1. PICK i \in Bad : \A h \in Bad : i <= h
    <3>. HIDE DEF Bad
    <3>. QED  BY <2>0, SmallestOf
  <2>2. \A h \in 1 .. i - 1 : (h <= n => s[h][1] = t[h][1]) /\ (h <= m => t[h][1] = s[h][1])
    <3>1. \A h \in 1 .. i - 1 : h \in Nat /\ h \notin Bad
      <4>. HIDE DEF Bad
      <4>. QED  BY <2>0, <2>1
    <3>. QED  BY <1>2, <3>1
  <2>3. i \in 1 .. m => i \in 1 .. n /\ Rank(t[i][1]) <= Rank(s[i][1])
    BY <1>1, <1>2, <1>4, <2>2, NextName
  <2>4. i \in 1 .. n => i \in 1 .. m /\ Rank(s[i][1]) <= Rank(t[i][1])
    BY <1>1, <1>2, <1>4, <2>2, NextName
  <2>5. i \in 1 .. m /\ i \in 1 .. n  BY <2>3, <2>4
  <2>6. s[i][1] \in Name /\ t[i][1] \in Name  BY <1>1, <2>5 DEF Members
  <2>7. Rank(s[i][1]) = Rank(t[i][1])
    BY <2>3, <2>4, <2>5, <2>6, JsonAssumption DEF JsonAssumption
  <2>8. s[i][1] = t[i][1]  BY <2>6, <2>7, JsonAssumption DEF JsonAssumption
  <2>. QED  BY <2>5, <2>8
<1>6. m = n
  <2>1. \A i \in Nat : i \in 1 .. m <=> i \in 1 .. n  BY <1>5
  <2>. QED  BY <1>2, <2>1
<1>. QED  BY <1>2, <1>5, <1>6 DEF s, t, m, n

-----------------------------------------------------------------------------
\* What the three kinds of values are made of.
LEMMA Kinds ==
    ASSUME NEW v \in Json
    PROVE  /\ \/ v[1] = "scalar" /\ v[2] \in Token /\ v = <<"scalar", v[2]>>
              \/ v[1] = "array" /\ v[2] \in Seq(Value)
              \/ v[1] = "object" /\ v[2] \in Seq(Members) /\ Distinct(v[2])
           /\ v[1] = "array" => \A i \in DOMAIN v[2] : v[2][i] \in Parts(v)
           /\ v[1] = "object" => \A m \in ToSet(v[2]) : m[2] \in Parts(v)
           /\ Parts(v) \subseteq Value
<1>1. CASE v \in {"scalar"} \X Token
  BY <1>1 DEF Parts
<1>2. CASE v \in {"array"} \X Seq(Value)
  BY <1>2 DEF Parts, ToSet
<1>3. CASE v \in Object
  <2>1. v[1] = "object" /\ v[2] \in Seq(Members) /\ Distinct(v[2])
    BY <1>3 DEF Object, Members, Distinct
  <2>2. \A m \in ToSet(v[2]) : m[2] \in Value
    BY <2>1 DEF ToSet, Members
  <2>3. Parts(v) = { m[2] : m \in ToSet(v[2]) }
    BY <2>1 DEF Parts
  <2>. QED  BY <2>1, <2>2, <2>3
<1>. QED  BY <1>1, <1>2, <1>3 DEF Json

\* A text, a meaning, depends on those of the parts.
LEMMA WrittenAlike ==
    ASSUME NEW v \in Json, NEW f, NEW g, \A p \in Parts(v) : f[p] = g[p]
    PROVE  Written(v, f) = Written(v, g)
<1>1. CASE v[1] = "array"
  <2>1. [i \in DOMAIN v[2] |-> f[v[2][i]]] = [i \in DOMAIN v[2] |-> g[v[2][i]]]
    BY <1>1, Kinds
  <2>. QED  BY <1>1, <2>1 DEF Written
<1>2. CASE v[1] = "object"
  <2>. DEFINE s == Sorted(v[2])
  <2>1. v[2] \in Seq(Members) /\ Distinct(v[2])  BY <1>2, Kinds
  <2>2. \A i \in DOMAIN s : s[i] \in ToSet(v[2])
    BY <2>1, SortedIs DEF Members
  <2>. HIDE DEF s
  <2>3. \A i \in DOMAIN s : f[s[i][2]] = g[s[i][2]]
    BY <1>2, <2>2, Kinds
  <2>4. [i \in DOMAIN s |-> <<s[i][1], ":">> \o f[s[i][2]]]
        = [i \in DOMAIN s |-> <<s[i][1], ":">> \o g[s[i][2]]]
    BY <2>3
  <2>. QED  BY <1>2, <2>4 DEF Written, s
<1>3. CASE v[1] = "scalar"
  BY <1>3 DEF Written
<1>. QED  BY <1>1, <1>2, <1>3, Kinds

LEMMA MeantAlike ==
    ASSUME NEW v \in Json, NEW f, NEW g, \A p \in Parts(v) : f[p] = g[p]
    PROVE  Meant(v, f) = Meant(v, g)
<1>1. CASE v[1] = "array"
  <2>1. [i \in DOMAIN v[2] |-> f[v[2][i]]] = [i \in DOMAIN v[2] |-> g[v[2][i]]]
    BY <1>1, Kinds
  <2>. QED  BY <1>1, <2>1 DEF Meant
<1>2. CASE v[1] = "object"
  <2>1. { <<m[1], f[m[2]]>> : m \in ToSet(v[2]) } = { <<m[1], g[m[2]]>> : m \in ToSet(v[2]) }
    BY <1>2, Kinds
  <2>. QED  BY <1>2, <2>1 DEF Meant
<1>3. CASE v[1] = "scalar"
  BY <1>3 DEF Meant
<1>. QED  BY <1>1, <1>2, <1>3, Kinds

LEMMA DepthType ==
    \A v \in Value : /\ v \in Json /\ Depth(v) \in Nat
                     /\ \A p \in Parts(v) : p \in Value /\ Depth(p) \in Nat /\ Depth(p) < Depth(v)
BY JsonAssumption, Kinds DEF JsonAssumption

\* f and g are as canonical and Meaning should be, for values less than n deep.
Solves(f, g, n) ==
    \A v \in Value : Depth(v) < n => f[v] = Written(v, f) /\ g[v] = Meant(v, g)

LEMMA SolvesOneMore ==
    ASSUME NEW n \in Nat, NEW f, NEW g, Solves(f, g, n)
    PROVE  \E a, b : Solves(a, b, n + 1)
<1>. DEFINE a == [v \in Value |-> Written(v, f)]
            b == [v \in Value |-> Meant(v, g)]
<1>1. ASSUME NEW v \in Value, Depth(v) < n + 1
      PROVE  a[v] = Written(v, a) /\ b[v] = Meant(v, b)
  <2>1. \A p \in Parts(v) : p \in Value /\ Depth(p) < n
    BY <1>1, DepthType
  <2>2. \A p \in Parts(v) : f[p] = a[p] /\ g[p] = b[p]
    BY <2>1 DEF Solves
  <2>3. a[v] = Written(v, f) /\ b[v] = Meant(v, g)
    OBVIOUS
  <2>. HIDE DEF a, b
  <2>. QED  BY <2>2, <2>3, DepthType, WrittenAlike, MeantAlike
<1>. QED  BY <1>1 DEF Solves

LEMMA SolvesAlike ==
    ASSUME NEW m \in Nat, NEW n \in Nat, NEW f, NEW g, NEW a, NEW b,
           Solves(f, g, m), Solves(a, b, n),
           NEW v \in Value, Depth(v) < m, Depth(v) < n
    PROVE  f[v] = a[v] /\ g[v] = b[v]
<1>. DEFINE Bad == { Depth(w) : w \in { u \in Value : /\ Depth(u) < m /\ Depth(u) < n
                                                      /\ ~(f[u] = a[u] /\ g[u] = b[u]) } }
<1>1. Bad = {}
  <2>. SUFFICES ASSUME Bad # {} PROVE FALSE
    OBVIOUS
  <2>1. Bad \subseteq Nat  BY DepthType
  <2>2. PICK d \in Bad : \A e \in Bad : d <= e
    <3>. HIDE DEF Bad
    <3>. QED  BY <2>1, SmallestOf
  <2>3. PICK w \in Value : /\ d = Depth(w) /\ Depth(w) < m /\ Depth(w) < n
                           /\ ~(f[w] = a[w] /\ g[w] = b[w])
    BY <2>2
  <2>4. \A p \in Parts(w) : f[p] = a[p] /\ g[p] = b[p]
    <3>. SUFFICES ASSUME NEW p \in Parts(w), ~(f[p] = a[p] /\ g[p] = b[p]) PROVE FALSE
      OBVIOUS
    <3>1. p \in Value /\ Depth(p) \in Nat /\ Depth(p) < d
      BY <2>3, DepthType
    <3>2. Depth(p) < m /\ Depth(p) < n  BY <2>3, <3>1, DepthType
    <3>3. Depth(p) \in Bad  BY <3>1, <3>2
    <3>4. d <= Depth(p)
      <4>. HIDE DEF Bad
      <4>. QED  BY <2>2, <3>3
    <3>. QED  BY <2>1, <3>1, <3>4
  <2>5. Written(w, f) = Written(w, a) /\ Meant(w, g) = Meant(w, b)
    BY <2>4, DepthType, WrittenAlike, MeantAlike
  <2>. QED  BY <2>3, <2>5 DEF Solves
<1>. QED  BY <1>1

\* The recursive definitions define what they say.
LEMMA Recursion ==
    /\ canonical = [v \in Value |-> Written(v, canonical)]
    /\ Meaning = [v \in Value |-> Meant(v, Meaning)]
<1>1. \A n \in Nat : \E f, g : Solves(f, g, n)
  <2>. DEFINE S == { n \in Nat : \E f, g : Solves(f, g, n) }
  <2>1. 0 \in S
    <3>1. Solves(<<>>, <<>>, 0)  BY DepthType DEF Solves
    <3>. QED  BY <3>1
  <2>2. \A n \in Nat : n \in S => n + 1 \in S
    BY SolvesOneMore
  <2>3. \A n \in Nat : n \in S
    <3>. HIDE DEF S
    <3>. QED  BY <2>1, <2>2, NatSet
  <2>. QED  BY <2>3
<1>. DEFINE Pair(n) == CHOOSE s : Solves(s[1], s[2], n)
            f == [v \in Value |-> Pair(Depth(v) + 1)[1][v]]
            g == [v \in Value |-> Pair(Depth(v) + 1)[2][v]]
<1>2. \A n \in Nat : Solves(Pair(n)[1], Pair(n)[2], n)
  <2>. SUFFICES ASSUME NEW n \in Nat PROVE \E s : Solves(s[1], s[2], n)
    OBVIOUS
  <2>1. PICK a, b : Solves(a, b, n)  BY <1>1
  <2>2. <<a, b>>[1] = a /\ <<a, b>>[2] = b  OBVIOUS
  <2>3. Solves(<<a, b>>[1], <<a, b>>[2], n)  BY <2>1, <2>2
  <2>. QED  BY <2>3
<1>. HIDE DEF Pair
<1>3. ASSUME NEW v \in Value
      PROVE  f[v] = Written(v, f) /\ g[v] = Meant(v, g)
  <2>. DEFINE a == Pair(Depth(v) + 1)[1]
              b == Pair(Depth(v) + 1)[2]
  <2>1. Depth(v) + 1 \in Nat /\ Depth(v) < Depth(v) + 1  BY DepthType
  <2>2. f[v] = a[v] /\ g[v] = b[v]  OBVIOUS
  <2>3. Solves(a, b, Depth(v) + 1)  BY <1>2, <2>1
  <2>4. a[v] = Written(v, a) /\ b[v] = Meant(v, b)  BY <2>1, <2>3 DEF Solves
  <2>5. ASSUME NEW p \in Parts(v) PROVE f[p] = a[p] /\ g[p] = b[p]
    <3>1. p \in Value /\ Depth(p) + 1 \in Nat /\ Depth(p) < Depth(p) + 1
          /\ Depth(p) < Depth(v) + 1
      BY DepthType
    <3>2. Solves(Pair(Depth(p) + 1)[1], Pair(Depth(p) + 1)[2], Depth(p) + 1)
      BY <1>2, <3>1
    <3>3. f[p] = Pair(Depth(p) + 1)[1][p] /\ g[p] = Pair(Depth(p) + 1)[2][p]
      BY <3>1
    <3>. HIDE DEF f, g, a, b
    <3>. QED  BY <2>1, <2>3, <3>1, <3>2, <3>3, SolvesAlike
  <2>. HIDE DEF f, g, a, b
  <2>6. Written(v, f) = Written(v, a) /\ Meant(v, g) = Meant(v, b)
    BY <2>5, DepthType, WrittenAlike, MeantAlike
  <2>. QED  BY <2>2, <2>4, <2>6
<1>4. f = [v \in Value |-> Written(v, f)] /\ g = [v \in Value |-> Meant(v, g)]
  <2>1. f = [v \in Value |-> f[v]] /\ g = [v \in Value |-> g[v]]  OBVIOUS
  <2>. HIDE DEF f, g
  <2>. QED  BY <1>3, <2>1
<1>. HIDE DEF f, g
<1>5. canonical = [v \in Value |-> Written(v, canonical)]
  BY <1>4, Zenon DEF canonical
<1>6. Meaning = [v \in Value |-> Meant(v, Meaning)]
  BY <1>4, Zenon DEF Meaning
<1>. QED  BY <1>5, <1>6

-----------------------------------------------------------------------------
LEMMA Means ==
    ASSUME NEW v \in Json
    PROVE  Meant(v, Meaning)[1] = v[1]
<1>1. v[1] = "array" \/ v[1] = "object" \/ (v[1] = "scalar" /\ Meant(v, Meaning) = v)
  BY Kinds DEF Meant
<1>. QED  BY <1>1 DEF Meant

\* Sorted members of objects that mean the same correspond to each other.
LEMMA MembersMatch ==
    ASSUME NEW v \in Json, NEW w \in Json, v[1] = "object", w[1] = "object",
           Meant(v, Meaning) = Meant(w, Meaning)
    PROVE  LET s == Sorted(v[2])
               t == Sorted(w[2])
           IN  /\ s \in Seq(Members) /\ t \in Seq(Members) /\ Len(s) = Len(t)
               /\ \A i \in 1 .. Len(s) :
                     /\ s[i][2] \in Parts(v) /\ t[i][2] \in Parts(w)
                     /\ s[i][1] = t[i][1] /\ Meaning[s[i][2]] = Meaning[t[i][2]]
<1>. DEFINE a == v[2]
            b == w[2]
            s == Sorted(a)
            t == Sorted(b)
<1>1. /\ a \in Seq(Members) /\ Distinct(a) /\ b \in Seq(Members) /\ Distinct(b)
  BY Kinds
<1>2. { <<m[1], Meaning[m[2]]>> : m \in ToSet(a) } = { <<m[1], Meaning[m[2]]>> : m \in ToSet(b) }
  BY DEF Meant
<1>. HIDE DEF a, b
<1>3. { m[1] : m \in ToSet(a) } = { m[1] : m \in ToSet(b) }
  <2>1. \A m \in ToSet(a) : \E n \in ToSet(b) : m[1] = n[1]
    <3>. SUFFICES ASSUME NEW m \in ToSet(a) PROVE \E n \in ToSet(b) : m[1] = n[1]
      OBVIOUS
    <3>0. <<m[1], Meaning[m[2]]>> \in { <<n[1], Meaning[n[2]]>> : n \in ToSet(b) }
      BY <1>2
    <3>1. PICK n \in ToSet(b) : <<m[1], Meaning[m[2]]>> = <<n[1], Meaning[n[2]]>>
      BY <3>0
    <3>. QED  BY <3>1
  <2>2. \A m \in ToSet(b) : \E n \in ToSet(a) : m[1] = n[1]
    <3>. SUFFICES ASSUME NEW m \in ToSet(b) PROVE \E n \in ToSet(a) : m[1] = n[1]
      OBVIOUS
    <3>0. <<m[1], Meaning[m[2]]>> \in { <<n[1], Meaning[n[2]]>> : n \in ToSet(a) }
      BY <1>2
    <3>1. PICK n \in ToSet(a) : <<m[1], Meaning[m[2]]>> = <<n[1], Meaning[n[2]]>>
      BY <3>0
    <3>. QED  BY <3>1
  <2>. QED  BY <2>1, <2>2
<1>4. Len(a) = Len(b) /\ \A i \in 1 .. Len(a) : s[i][1] = t[i][1]
  BY <1>1, <1>3, SortedAlike
<1>5. /\ s \in [1 .. Len(a) -> ToSet(a)] /\ ToSet(s) = ToSet(a)
      /\ t \in [1 .. Len(a) -> ToSet(b)] /\ ToSet(t) = ToSet(b) /\ Increasing(t)
  <2>1. DOMAIN a = 1 .. Len(a) /\ DOMAIN b = 1 .. Len(a)
    BY <1>1, <1>4
  <2>. QED  BY <1>1, <2>1, SortedIs DEF Members
<1>6. ToSet(a) \subseteq Members /\ ToSet(b) \subseteq Members /\ Len(a) \in Nat
  BY <1>1 DEF ToSet
<1>. HIDE DEF s, t
<1>7. s \in Seq(Members) /\ t \in Seq(Members) /\ Len(s) = Len(a) /\ Len(t) = Len(a)
  BY <1>5, <1>6
<1>8. ASSUME NEW i \in 1 .. Len(a)
      PROVE  /\ s[i][2] \in Parts(v) /\ t[i][2] \in Parts(w)
             /\ Meaning[s[i][2]] = Meaning[t[i][2]]
  <2>1. s[i] \in ToSet(a) /\ t[i] \in ToSet(b)  BY <1>5
  <2>2. PICK n \in ToSet(b) : <<s[i][1], Meaning[s[i][2]]>> = <<n[1], Meaning[n[2]]>>
    BY <1>2, <2>1
  <2>3. PICK h \in 1 .. Len(a) : n = t[h]
    BY <1>5 DEF ToSet
  <2>4. t[h][1] = t[i][1]  BY <1>4, <2>2, <2>3
  <2>5. h = i
    <3>1. Rank(t[h][1]) = Rank(t[i][1]) /\ Rank(t[h][1]) \in Nat
      BY <2>1, <2>3, <2>4, <1>6, JsonAssumption DEF JsonAssumption, Members
    <3>2. (h < i => Rank(t[h][1]) < Rank(t[i][1])) /\ (i < h => Rank(t[i][1]) < Rank(t[h][1]))
      BY <1>5 DEF Increasing
    <3>. QED  BY <1>6, <3>1, <3>2
  <2>6. s[i][2] \in Parts(v) /\ t[i][2] \in Parts(w)
    BY <2>1, Kinds DEF a, b
  <2>. QED  BY <2>2, <2>3, <2>5, <2>6
<1>. QED  BY <1>4, <1>7, <1>8 DEF s, t, a, b

LEMMA SameTextUp ==
    ASSUME NEW v \in Json, NEW w \in Json, Meant(v, Meaning) = Meant(w, Meaning),
           \A p \in Parts(v), q \in Parts(w) : Meaning[p] = Meaning[q] => canonical[p] = canonical[q]
    PROVE  Written(v, canonical) = Written(w, canonical)
<1>1. v[1] = w[1]  BY Means
<1>2. CASE v[1] = "scalar"
  BY <1>1, <1>2 DEF Meant
<1>3. CASE v[1] = "array"
  <2>1. [i \in DOMAIN v[2] |-> Meaning[v[2][i]]] = [i \in DOMAIN w[2] |-> Meaning[w[2][i]]]
    BY <1>1, <1>3 DEF Meant
  <2>2. DOMAIN v[2] = DOMAIN w[2] /\ \A i \in DOMAIN v[2] : Meaning[v[2][i]] = Meaning[w[2][i]]
    BY <2>1
  <2>3. \A i \in DOMAIN v[2] : canonical[v[2][i]] = canonical[w[2][i]]
    BY <1>1, <1>3, <2>2, Kinds
  <2>4. [i \in DOMAIN v[2] |-> canonical[v[2][i]]] = [i \in DOMAIN w[2] |-> canonical[w[2][i]]]
    BY <2>2, <2>3
  <2>. QED  BY <1>1, <1>3, <2>4 DEF Written
<1>4. CASE v[1] = "object"
  <2>. DEFINE s == Sorted(v[2])
              t == Sorted(w[2])
  <2>1. /\ s \in Seq(Members) /\ t \in Seq(Members) /\ Len(s) = Len(t)
        /\ \A i \in 1 .. Len(s) :
              /\ s[i][2] \in Parts(v) /\ t[i][2] \in Parts(w)
              /\ s[i][1] = t[i][1] /\ Meaning[s[i][2]] = Meaning[t[i][2]]
    BY <1>1, <1>4, MembersMatch
  <2>. HIDE DEF s, t
  <2>2. DOMAIN s = DOMAIN t
        /\ \A i \in DOMAIN s : s[i][1] = t[i][1] /\ canonical[s[i][2]] = canonical[t[i][2]]
    BY <2>1
  <2>3. [i \in DOMAIN s |-> <<s[i][1], ":">> \o canonical[s[i][2]]]
        = [i \in DOMAIN t |-> <<t[i][1], ":">> \o canonical[t[i][2]]]
    BY <2>2
  <2>. QED  BY <1>1, <1>4, <2>3 DEF Written, s, t
<1>. QED  BY <1>2, <1>3, <1>4, Kinds

\* Values that mean the same have the same text.
LEMMA SameText ==
    \A v, w \in Value : Meaning[v] = Meaning[w] => canonical[v] = canonical[w]
<1>. DEFINE Bad == { Depth(v) : v \in { u \in Value :
                \E w \in Value : Meaning[u] = Meaning[w] /\ canonical[u] # canonical[w] } }
<1>. SUFFICES ASSUME Bad # {} PROVE FALSE
  OBVIOUS
<1>1. Bad \subseteq Nat  BY DepthType
<1>2. PICK d \in Bad : \A e \in Bad : d <= e
  <2>. HIDE DEF Bad
  <2>. QED  BY <1>1, SmallestOf
<1>3. PICK v \in Value, w \in Value :
        d = Depth(v) /\ Meaning[v] = Meaning[w] /\ canonical[v] # canonical[w]
  BY <1>2
<1>4. ASSUME NEW p \in Parts(v), NEW q \in Parts(w), Meaning[p] = Meaning[q],
             canonical[p] # canonical[q]
      PROVE  FALSE
  <2>1. p \in Value /\ q \in Value /\ Depth(p) \in Nat /\ Depth(p) < d
    BY <1>3, DepthType
  <2>2. Depth(p) \in Bad  BY <1>4, <2>1
  <2>3. d <= Depth(p)
    <3>. HIDE DEF Bad
    <3>. QED  BY <1>2, <2>2
  <2>. QED  BY <1>1, <2>1, <2>3
<1>5. Meant(v, Meaning) = Meant(w, Meaning) /\ Written(v, canonical) # Written(w, canonical)
  BY <1>3, Recursion
<1>. QED  BY <1>4, <1>5, DepthType, SameTextUp

-----------------------------------------------------------------------------
Symbol == Name \cup Token \cup Punctuation
Text == Seq(Symbol)

\* The i-th text of a list with what join puts before it.
Item(texts, i) == IF i = 1 THEN texts[i] ELSE <<Comma>> \o texts[i]

\* rest[i] is the joined text from the i-th on.
Rests(rest, texts) ==
    /\ rest \in [1 .. Len(texts) + 1 -> Text]
    /\ rest[Len(texts) + 1] = <<>>
    /\ \A i \in 1 .. Len(texts) : rest[i] = Item(texts, i) \o rest[i + 1]

LEMMA Concat ==
    ASSUME NEW x \in Text, NEW y \in Text
    PROVE  x \o y \in Text /\ (x # <<>> => (x \o y)[1] = x[1]) /\ <<>> \o x = x /\ x \o <<>> = x
BY ConcatProperties, ConcatEmptySeq DEF Text

LEMMA Assoc ==
    ASSUME NEW x \in Text, NEW y \in Text, NEW z \in Text
    PROVE  (x \o y) \o z = x \o (y \o z)
BY ConcatAssociative DEF Text

LEMMA Cancel ==
    ASSUME NEW x \in Text, NEW y \in Text, NEW z \in Text, x \o y = x \o z
    PROVE  y = z
BY ConcatSimplifications DEF Text

LEMMA Singles == \A c \in Symbol : <<c>> \in Text /\ <<c>> # <<>> /\ <<c>>[1] = c
BY DEF Text

LEMMA Doubles ==
    ASSUME NEW a \in Symbol, NEW b \in Symbol
    PROVE  <<a, b>> \in Text /\ <<a, b>> # <<>> /\ <<a, b>>[1] = a
BY DEF Text

LEMMA Marks == Punctuation \subseteq Symbol
BY DEF Symbol

LEMMA ItemType ==
    ASSUME NEW texts \in Seq(Text), NEW i \in 1 .. Len(texts)
    PROVE  Item(texts, i) \in Text
<1>1. texts[i] \in Text  OBVIOUS
<1>2. <<Comma>> \in Text  BY Singles, Marks DEF Punctuation
<1>. QED  BY <1>1, <1>2, Concat DEF Item

\* What rest should be at i.
RestAt(rest, texts, i) == IF i > Len(texts) THEN <<>> ELSE Item(texts, i) \o rest[i + 1]

LEMMA RestAlike ==
    ASSUME NEW texts, NEW i, NEW r, NEW q, q[i + 1] = r[i + 1]
    PROVE  RestAt(r, texts, i) = RestAt(q, texts, i)
BY Zenon DEF RestAt

\* The texts that join puts together, from any one on.
LEMMA JoinedIs ==
    ASSUME NEW texts \in Seq(Text)
    PROVE  \E rest : Rests(rest, texts) /\ Joined(texts) = rest[1]
<1>. DEFINE n == Len(texts)
            Partly(r, k) == \A i \in 1 .. n + 1 : i > n - k => r[i] = RestAt(r, texts, i)
            rest == CHOOSE r : r = [i \in 1 .. n + 1 |-> RestAt(r, texts, i)]
<1>0. n \in Nat  OBVIOUS
<1>1. \A r : \A i \in 1 .. n + 1 :
         /\ i > n => RestAt(r, texts, i) = <<>>
         /\ i <= n => i \in 1 .. n /\ i + 1 \in 1 .. n + 1
                      /\ RestAt(r, texts, i) = Item(texts, i) \o r[i + 1]
  BY DEF RestAt
<1>2. Joined(texts) = rest[1]
  BY DEF Joined, RestAt, Item
<1>. HIDE DEF n
<1>3. \A k \in Nat : \E r : Partly(r, k)
  <2>. DEFINE S == { k \in Nat : \E r : Partly(r, k) }
  <2>1. 0 \in S
    <3>. DEFINE r == [i \in 1 .. n + 1 |-> <<>>]
    <3>1. Partly(r, 0)  BY <1>0, <1>1
    <3>. HIDE DEF Partly
    <3>. QED  BY <3>1
  <2>2. ASSUME NEW k \in Nat, k \in S PROVE k + 1 \in S
    <3>1. PICK r : Partly(r, k)
      <4>. HIDE DEF Partly
      <4>. QED  BY <2>2
    <3>. DEFINE q == [i \in 1 .. n + 1 |-> RestAt(r, texts, i)]
    <3>2. ASSUME NEW i \in 1 .. n + 1, i > n - (k + 1) PROVE q[i] = RestAt(q, texts, i)
      <4>0. q[i] = RestAt(r, texts, i)  OBVIOUS
      <4>1. CASE i > n  BY <1>1, <4>0, <4>1
      <4>2. CASE i <= n
        <5>1. i + 1 \in 1 .. n + 1 /\ i + 1 > n - k  BY <1>0, <3>2, <4>2
        <5>2. q[i + 1] = r[i + 1]  BY <3>1, <5>1
        <5>. HIDE DEF q
        <5>. QED  BY <4>0, <5>2, RestAlike
      <4>. HIDE DEF q
      <4>. QED  BY <1>0, <4>1, <4>2
    <3>3. Partly(q, k + 1)  BY <3>2
    <3>. HIDE DEF Partly, q
    <3>. QED  BY <3>3
  <2>. HIDE DEF S
  <2>3. \A k \in Nat : k \in S  BY <2>1, <2>2, NatSet
  <2>. QED  BY <2>3 DEF S
<1>4. rest = [i \in 1 .. n + 1 |-> RestAt(rest, texts, i)]
  <2>1. PICK r : Partly(r, n)
    <3>. HIDE DEF Partly
    <3>. QED  BY <1>0, <1>3
  <2>. DEFINE q == [i \in 1 .. n + 1 |-> r[i]]
  <2>2. \A i \in 1 .. n + 1 : i > n - n  BY <1>0
  <2>3. \A i \in 1 .. n + 1 : r[i] = RestAt(r, texts, i)  BY <2>1, <2>2
  <2>4. ASSUME NEW i \in 1 .. n + 1 PROVE q[i] = RestAt(q, texts, i)
    <3>0. q[i] = RestAt(r, texts, i)  BY <2>3
    <3>1. CASE i > n  BY <1>1, <3>0, <3>1
    <3>2. CASE i <= n
      <4>1. i + 1 \in 1 .. n + 1  BY <1>1, <3>2
      <4>2. q[i + 1] = r[i + 1]  BY <4>1
      <4>. HIDE DEF q
      <4>. QED  BY <3>0, <4>2, RestAlike
    <3>. HIDE DEF q
    <3>. QED  BY <1>0, <3>1, <3>2
  <2>5. q = [i \in 1 .. n + 1 |-> q[i]]  OBVIOUS
  <2>. HIDE DEF q
  <2>6. q = [i \in 1 .. n + 1 |-> RestAt(q, texts, i)]  BY <2>4, <2>5
  <2>. QED  BY <2>6, Zenon
<1>. HIDE DEF rest
<1>5. \A i \in 1 .. n + 1 : rest[i] = RestAt(rest, texts, i)  BY <1>4
<1>6. \A k \in Nat : \A i \in 1 .. n + 1 : i > n - k => rest[i] \in Text
  <2>. DEFINE S == { k \in Nat : \A i \in 1 .. n + 1 : i > n - k => rest[i] \in Text }
  <2>1. 0 \in S
    <3>1. \A i \in 1 .. n + 1 : i > n => rest[i] = <<>>  BY <1>1, <1>5
    <3>2. <<>> \in Text  BY DEF Text
    <3>. QED  BY <1>0, <3>1, <3>2
  <2>2. ASSUME NEW k \in Nat, k \in S PROVE k + 1 \in S
    <3>. SUFFICES ASSUME NEW i \in 1 .. n + 1, i > n - (k + 1) PROVE rest[i] \in Text
      OBVIOUS
    <3>1. CASE i > n - k  BY <2>2, <3>1
    <3>2. CASE i = n - k
      <4>1. i <= n /\ i \in 1 .. n /\ i + 1 \in 1 .. n + 1 /\ i + 1 > n - k
        BY <1>0, <3>2
      <4>2. rest[i + 1] \in Text  BY <2>2, <4>1
      <4>3. rest[i] = Item(texts, i) \o rest[i + 1]  BY <1>1, <1>5, <4>1
      <4>. QED  BY <4>1, <4>2, <4>3, ItemType, Concat DEF n
    <3>. QED  BY <1>0, <3>1, <3>2
  <2>. HIDE DEF S
  <2>3. \A k \in Nat : k \in S  BY <2>1, <2>2, NatSet
  <2>. QED  BY <2>3 DEF S
<1>7. rest \in [1 .. n + 1 -> Text]
  <2>1. \A i \in 1 .. n + 1 : i > n - n  BY <1>0
  <2>2. \A i \in 1 .. n + 1 : rest[i] \in Text  BY <1>0, <1>6, <2>1
  <2>. QED  BY <1>4, <2>2
<1>8. rest[n + 1] = <<>>
  <2>1. n + 1 \in 1 .. n + 1 /\ n + 1 > n  BY <1>0
  <2>. QED  BY <1>1, <1>5, <2>1
<1>9. \A i \in 1 .. n : rest[i] = Item(texts, i) \o rest[i + 1]
  <2>1. \A i \in 1 .. n : i \in 1 .. n + 1 /\ i <= n  BY <1>0
  <2>. QED  BY <1>1, <1>5, <2>1
<1>. QED  BY <1>2, <1>7, <1>8, <1>9 DEF Rests, n

LEMMA JoinedType ==
    ASSUME NEW texts \in Seq(Text)
    PROVE  Joined(texts) \in Text
<1>1. PICK rest : Rests(rest, texts) /\ Joined(texts) = rest[1]  BY JoinedIs
<1>2. 1 \in 1 .. Len(texts) + 1  OBVIOUS
<1>. QED  BY <1>1, <1>2 DEF Rests

\* What an item begins with, and an item with what follows it.
FrontOf(texts, i) == IF i = 1 THEN texts[i][1] ELSE Comma

Follow(texts, i, x) == IF i = 1 THEN texts[i] \o x ELSE <<Comma>> \o (texts[i] \o x)

LEMMA ItemThen ==
    ASSUME NEW texts \in Seq(Text), NEW i \in 1 .. Len(texts), texts[i] # <<>>,
           NEW r \in Text, NEW x \in Text
    PROVE  /\ ((Item(texts, i) \o r) \o x)[1] = FrontOf(texts, i)
           /\ (Item(texts, i) \o r) \o x = Follow(texts, i, r \o x)
<1>. DEFINE t == texts[i]
            z == r \o x
<1>1. t \in Text /\ t # <<>> /\ z \in Text /\ Item(texts, i) \in Text
  BY ItemType, Concat
<1>2. <<Comma>> \in Text /\ <<Comma>> # <<>> /\ <<Comma>>[1] = Comma
  BY Singles, Marks DEF Punctuation
<1>3. (Item(texts, i) \o r) \o x = Item(texts, i) \o z
  BY <1>1, Assoc
<1>. HIDE DEF t, z
<1>4. t \o z \in Text /\ (t \o z)[1] = t[1]
  BY <1>1, Concat
<1>5. (<<Comma>> \o t) \o z = <<Comma>> \o (t \o z)
  BY <1>1, <1>2, Assoc
<1>6. (<<Comma>> \o (t \o z))[1] = Comma
  BY <1>2, <1>4, Concat
<1>7. Item(texts, i) = IF i = 1 THEN t ELSE <<Comma>> \o t
  BY DEF Item, t
<1>8. FrontOf(texts, i) = IF i = 1 THEN t[1] ELSE Comma
  BY DEF FrontOf, t
<1>9. Follow(texts, i, z) = IF i = 1 THEN t \o z ELSE <<Comma>> \o (t \o z)
  BY DEF Follow, t
<1>10. /\ ((Item(texts, i) \o r) \o x)[1] = FrontOf(texts, i)
       /\ (Item(texts, i) \o r) \o x = Follow(texts, i, z)
  <2>1. CASE i = 1  BY <1>3, <1>4, <1>7, <1>8, <1>9, <2>1
  <2>2. CASE i # 1  BY <1>3, <1>5, <1>6, <1>7, <1>8, <1>9, <2>2
  <2>. QED  BY <2>1, <2>2
<1>. QED  BY <1>10 DEF z

LEMMA RestThen ==
    ASSUME NEW texts \in Seq(Text), NEW rest, Rests(rest, texts), NEW i \in 1 .. Len(texts),
           texts[i] # <<>>, NEW x \in Text
    PROVE  /\ rest[i + 1] \in Text
           /\ (rest[i] \o x)[1] = FrontOf(texts, i)
           /\ rest[i] \o x = Follow(texts, i, rest[i + 1] \o x)
<1>1. i + 1 \in 1 .. Len(texts) + 1  OBVIOUS
<1>2. rest[i + 1] \in Text /\ rest[i] = Item(texts, i) \o rest[i + 1]
  BY <1>1 DEF Rests
<1>. DEFINE r == rest[i + 1]
<1>. HIDE DEF r
<1>3. r \in Text /\ rest[i] = Item(texts, i) \o r  BY <1>2 DEF r
<1>4. /\ ((Item(texts, i) \o r) \o x)[1] = FrontOf(texts, i)
      /\ (Item(texts, i) \o r) \o x = Follow(texts, i, r \o x)
  BY <1>3, ItemThen
<1>. QED  BY <1>2, <1>3, <1>4, Zenon DEF r

\* No text of the list begins with c.
NoneBegins(texts, c) == \A i \in DOMAIN texts : texts[i] # <<>> /\ texts[i][1] # c

\* Where two lists have a text each, one is not a beginning of the other.
Separate(a, b) ==
    \A i \in DOMAIN a : i \in DOMAIN b =>
        \A x, y \in Text : a[i] \o x = b[i] \o y => a[i] = b[i]

JoinedTell(a, b, c, x, y) ==
    Joined(a) \o (<<c>> \o x) = Joined(b) \o (<<c>> \o y) => a = b

\* What join makes of texts can be read: with the closing mark c behind it, two
\* lists make the same text only if they are the same, if their items can be read.
LEMMA JoinedAlike ==
    ASSUME NEW a \in Seq(Text), NEW b \in Seq(Text), NEW c \in Symbol, c # Comma,
           NoneBegins(a, c), NoneBegins(b, c), Separate(a, b), NEW x \in Text, NEW y \in Text
    PROVE  JoinedTell(a, b, c, x, y)
<1>. SUFFICES ASSUME Joined(a) \o (<<c>> \o x) = Joined(b) \o (<<c>> \o y)
              PROVE  a = b
  BY DEF JoinedTell
<1>. DEFINE m == Len(a)
            n == Len(b)
            p == <<c>> \o x
            q == <<c>> \o y
<1>1. m \in Nat /\ n \in Nat /\ DOMAIN a = 1 .. m /\ DOMAIN b = 1 .. n
      /\ (\A i \in 1 .. m : a[i] \in Text) /\ (\A i \in 1 .. n : b[i] \in Text)
  OBVIOUS
<1>2. p \in Text /\ q \in Text /\ p[1] = c /\ q[1] = c /\ <<>> \o p = p /\ <<>> \o q = q
  BY Singles, Concat
<1>3. PICK ra : Rests(ra, a) /\ Joined(a) = ra[1]  BY JoinedIs
<1>4. PICK rb : Rests(rb, b) /\ Joined(b) = rb[1]  BY JoinedIs
<1>5. /\ \A i \in 1 .. m + 1 : ra[i] \in Text
      /\ \A i \in 1 .. n + 1 : rb[i] \in Text
      /\ ra[m + 1] = <<>> /\ rb[n + 1] = <<>>
      /\ \A i \in 1 .. m : ra[i] = Item(a, i) \o ra[i + 1]
      /\ \A i \in 1 .. n : rb[i] = Item(b, i) \o rb[i + 1]
  BY <1>3, <1>4 DEF Rests
<1>6. ra[1] \o p = rb[1] \o q  BY <1>3, <1>4
<1>. HIDE DEF m, n, p, q
<1>7. ASSUME NEW i \in 1 .. m
      PROVE  /\ (ra[i] \o p)[1] # c
             /\ ra[i + 1] \in Text
             /\ ra[i] \o p = Follow(a, i, ra[i + 1] \o p)
  <2>1. a[i] # <<>> /\ a[i][1] # c  BY <1>1 DEF NoneBegins
  <2>2. i \in 1 .. Len(a)  BY DEF m
  <2>3. /\ ra[i + 1] \in Text
        /\ (ra[i] \o p)[1] = FrontOf(a, i)
        /\ ra[i] \o p = Follow(a, i, ra[i + 1] \o p)
    <3>1. p \in Text /\ Rests(ra, a) /\ a[i] # <<>>  BY <1>2, <1>3, <2>1
    <3>. QED  BY <2>2, <3>1, RestThen, Zenon
  <2>. QED  BY <2>1, <2>3 DEF FrontOf
<1>8. ASSUME NEW i \in 1 .. n
      PROVE  /\ (rb[i] \o q)[1] # c
             /\ rb[i + 1] \in Text
             /\ rb[i] \o q = Follow(b, i, rb[i + 1] \o q)
  <2>1. b[i] # <<>> /\ b[i][1] # c  BY <1>1 DEF NoneBegins
  <2>2. i \in 1 .. Len(b)  BY DEF n
  <2>3. /\ rb[i + 1] \in Text
        /\ (rb[i] \o q)[1] = FrontOf(b, i)
        /\ rb[i] \o q = Follow(b, i, rb[i + 1] \o q)
    <3>1. q \in Text /\ Rests(rb, b) /\ b[i] # <<>>  BY <1>2, <1>4, <2>1
    <3>. QED  BY <2>2, <3>1, RestThen, Zenon
  <2>. QED  BY <2>1, <2>3 DEF FrontOf
<1>. DEFINE Agree(k) == /\ k <= m /\ k <= n
                        /\ \A h \in 1 .. k : a[h] = b[h]
                        /\ ra[k + 1] \o p = rb[k + 1] \o q
            S == { k \in Nat : k <= m \/ k <= n => Agree(k) }
<1>9. Agree(0)
  <2>1. 0 <= m /\ 0 <= n /\ 0 + 1 = 1 /\ 1 .. 0 = {}  BY <1>1
  <2>2. ra[0 + 1] \o p = rb[0 + 1] \o q  BY <1>6, <2>1
  <2>. QED  BY <2>1, <2>2, Zenon
<1>10. ASSUME NEW k \in Nat, k \in S, k + 1 <= m \/ k + 1 <= n PROVE Agree(k + 1)
  <2>1. Agree(k)
    <3>. HIDE DEF Agree
    <3>. QED  BY <1>1, <1>10
  <2>2. k + 1 <= m
    <3>. SUFFICES ASSUME ~(k + 1 <= m) PROVE FALSE
      OBVIOUS
    <3>1. k = m /\ k + 1 \in 1 .. n  BY <1>1, <1>10, <2>1
    <3>2. ra[k + 1] \o p = p  BY <1>2, <1>5, <3>1
    <3>3. (rb[k + 1] \o q)[1] # c  BY <1>8, <3>1
    <3>. QED  BY <1>2, <2>1, <3>2, <3>3
  <2>3. k + 1 <= n
    <3>. SUFFICES ASSUME ~(k + 1 <= n) PROVE FALSE
      OBVIOUS
    <3>1. k = n /\ k + 1 \in 1 .. m  BY <1>1, <1>10, <2>1
    <3>2. rb[k + 1] \o q = q  BY <1>2, <1>5, <3>1
    <3>3. (ra[k + 1] \o p)[1] # c  BY <1>7, <3>1
    <3>. QED  BY <1>2, <2>1, <3>2, <3>3
  <2>4. k + 1 \in 1 .. m /\ k + 1 \in 1 .. n  BY <2>2, <2>3
  <2>. DEFINE i == k + 1
              u == ra[i + 1] \o p
              w == rb[i + 1] \o q
  <2>5. /\ a[i] \in Text /\ b[i] \in Text /\ ra[i + 1] \in Text /\ rb[i + 1] \in Text
    BY <1>1, <1>7, <1>8, <2>4
  <2>6. u \in Text /\ w \in Text /\ a[i] \o u \in Text /\ b[i] \o w \in Text
    BY <1>2, <2>5, Concat
  <2>7. a[i] \o u = b[i] \o w
    <3>0. /\ ra[i] \o p = IF i = 1 THEN a[i] \o u ELSE <<Comma>> \o (a[i] \o u)
          /\ rb[i] \o q = IF i = 1 THEN b[i] \o w ELSE <<Comma>> \o (b[i] \o w)
      BY <1>7, <1>8, <2>4 DEF Follow
    <3>1. ra[i] \o p = rb[i] \o q  BY <2>1
    <3>2. <<Comma>> \in Text  BY Singles, Marks DEF Punctuation
    <3>. HIDE DEF i, u, w
    <3>. QED  BY <2>6, <3>0, <3>1, <3>2, Cancel
  <2>8. a[i] = b[i]  BY <1>1, <2>4, <2>6, <2>7 DEF Separate
  <2>9. u = w
    <3>. HIDE DEF i, u, w
    <3>. QED  BY <2>5, <2>6, <2>7, <2>8, Cancel
  <2>. QED  BY <2>1, <2>2, <2>3, <2>8, <2>9
<1>11. \A k \in Nat : k <= m \/ k <= n => Agree(k)
  <2>. HIDE DEF Agree
  <2>1. 0 \in S /\ \A k \in Nat : k \in S => k + 1 \in S  BY <1>9, <1>10
  <2>. HIDE DEF S
  <2>2. \A k \in Nat : k \in S  BY <2>1, NatSet
  <2>. QED  BY <2>2 DEF S
<1>13. Agree(m) /\ Agree(n)
  <2>. HIDE DEF Agree
  <2>. QED  BY <1>1, <1>11
<1>14. m = n /\ \A h \in 1 .. m : a[h] = b[h]  BY <1>1, <1>13
<1>. QED  BY <1>1, <1>14

-----------------------------------------------------------------------------
Opening(v) ==
    CASE v[1] = "array" -> "["
      [] v[1] = "object" -> "{"
      [] OTHER -> v[2]

Closing(v) == IF v[1] = "array" THEN "]" ELSE "}"

\* The text of a member.
MemberText(n, t) == <<n, ":">> \o t

\* The texts that canonical joins.
TextsOf(v) ==
    IF v[1] = "array" THEN [i \in DOMAIN v[2] |-> canonical[v[2][i]]]
    ELSE LET s == Sorted(v[2])
         IN  [i \in DOMAIN s |-> MemberText(s[i][1], canonical[s[i][2]])]

\* A text that can stand in a list.
Proper(t) == t \in Text /\ t # <<>> /\ t[1] \notin {"]", "}", Comma, ":"}

LEMMA Mark ==
    /\ "[" \in Symbol /\ "]" \in Symbol /\ "{" \in Symbol /\ "}" \in Symbol
    /\ ":" \in Symbol /\ Comma \in Symbol
    /\ "]" # Comma /\ "}" # Comma /\ "[" # "{"
    /\ {"[", "{"} \cap {"]", "}", Comma, ":"} = {}
    /\ \A t \in Name \cup Token : t \in Symbol /\ t \notin {"[", "]", "{", "}", Comma, ":"}
<1>1. Punctuation = {"[", "]", "{", "}", ":", Comma}  BY DEF Punctuation
<1>2. "]" # Comma /\ "}" # Comma /\ "[" # Comma /\ "{" # Comma
  BY Zenon DEF Comma
<1>3. \A t \in Name \cup Token : t \notin Punctuation
  BY JsonAssumption DEF JsonAssumption
<1>. QED  BY <1>1, <1>2, <1>3 DEF Symbol

\* The members of an object once sorted are its members.
LEMMA SortedMembers ==
    ASSUME NEW v \in Json, v[1] = "object"
    PROVE  /\ Sorted(v[2]) \in Seq(Members)
           /\ ToSet(Sorted(v[2])) = ToSet(v[2])
           /\ \A i \in DOMAIN Sorted(v[2]) : Sorted(v[2])[i][2] \in Parts(v)
<1>. DEFINE a == v[2]
            s == Sorted(a)
<1>1. a \in Seq(Members) /\ Distinct(a)  BY Kinds
<1>2. DOMAIN a = 1 .. Len(a) /\ ToSet(a) \subseteq Members
  BY <1>1 DEF ToSet
<1>3. s \in [DOMAIN a -> ToSet(a)] /\ ToSet(s) = ToSet(a)
  BY <1>1, SortedIs DEF Members
<1>4. \A m \in ToSet(a) : m[2] \in Parts(v)  BY Kinds
<1>. HIDE DEF a, s
<1>5. s \in Seq(Members)
  <2>1. Len(a) \in Nat  BY <1>1
  <2>. QED  BY <1>2, <1>3, <2>1
<1>. QED  BY <1>3, <1>4, <1>5 DEF a, s

\* Its text is the texts of its parts in brackets.
LEMMA Bracketed ==
    ASSUME NEW v \in Json, v[1] = "array" \/ v[1] = "object",
           \A p \in Parts(v) : Proper(canonical[p])
    PROVE  /\ TextsOf(v) \in Seq(Text)
           /\ NoneBegins(TextsOf(v), Closing(v))
           /\ Written(v, canonical) = (<<Opening(v)>> \o Joined(TextsOf(v))) \o <<Closing(v)>>
<1>1. CASE v[1] = "array"
  <2>. DEFINE a == v[2]
              texts == [i \in DOMAIN a |-> canonical[a[i]]]
  <2>1. a \in Seq(Value) /\ \A i \in DOMAIN a : Proper(canonical[a[i]])
    BY <1>1, Kinds
  <2>2. TextsOf(v) = texts /\ Opening(v) = "[" /\ Closing(v) = "]"
    BY <1>1 DEF TextsOf, Opening, Closing
  <2>3. texts \in Seq(Text)
    <3>. HIDE DEF a
    <3>1. DOMAIN a = 1 .. Len(a) /\ Len(a) \in Nat  BY <2>1
    <3>2. texts \in [1 .. Len(a) -> Text]  BY <2>1, <3>1 DEF Proper
    <3>. QED  BY <3>1, <3>2
  <2>4. NoneBegins(texts, "]")
    <3>. HIDE DEF a
    <3>. QED  BY <2>1 DEF NoneBegins, Proper
  <2>5. Written(v, canonical) = (<<"[">> \o Joined(texts)) \o <<"]">>
    BY <1>1 DEF Written
  <2>. HIDE DEF texts
  <2>. QED  BY <2>2, <2>3, <2>4, <2>5
<1>2. CASE v[1] = "object"
  <2>. DEFINE s == Sorted(v[2])
              texts == [i \in DOMAIN s |-> MemberText(s[i][1], canonical[s[i][2]])]
  <2>1. s \in Seq(Members) /\ \A i \in DOMAIN s : Proper(canonical[s[i][2]])
    BY <1>2, SortedMembers
  <2>2. TextsOf(v) = texts /\ Opening(v) = "{" /\ Closing(v) = "}"
    BY <1>2 DEF TextsOf, Opening, Closing
  <2>5. Written(v, canonical) = (<<"{">> \o Joined(texts)) \o <<"}">>
    BY <1>2 DEF Written, MemberText
  <2>. HIDE DEF s
  <2>6. ASSUME NEW i \in DOMAIN s
        PROVE  texts[i] \in Text /\ texts[i] # <<>> /\ texts[i][1] # "}"
    <3>. DEFINE n == s[i][1]
                t == canonical[s[i][2]]
    <3>1. n \in Name  BY <2>1 DEF Members
    <3>2. n \in Symbol /\ ":" \in Symbol /\ n # "}"  BY <3>1, Mark
    <3>3. t \in Text  BY <2>1 DEF Proper
    <3>4. texts[i] = <<n, ":">> \o t  BY DEF MemberText
    <3>. HIDE DEF n, t
    <3>5. <<n, ":">> \in Text /\ <<n, ":">> # <<>> /\ <<n, ":">>[1] = n
      BY <3>2, Doubles
    <3>6. <<n, ":">> \o t \in Text /\ (<<n, ":">> \o t)[1] = n
      BY <3>3, <3>5, Concat
    <3>7. <<n, ":">> \o t # <<>>
      BY <3>3, <3>5 DEF Text
    <3>. QED  BY <3>2, <3>4, <3>6, <3>7
  <2>3. texts \in Seq(Text)
    <3>1. DOMAIN s = 1 .. Len(s) /\ Len(s) \in Nat  BY <2>1
    <3>2. texts \in [1 .. Len(s) -> Text]  BY <2>6, <3>1
    <3>. QED  BY <3>1, <3>2
  <2>4. NoneBegins(texts, "}")
    BY <2>6 DEF NoneBegins
  <2>. HIDE DEF texts
  <2>. QED  BY <2>2, <2>3, <2>4, <2>5
<1>. QED  BY <1>1, <1>2

\* The text of a value begins with its own mark.
LEMMA WrittenProper ==
    ASSUME NEW v \in Json, \A p \in Parts(v) : Proper(canonical[p])
    PROVE  Proper(Written(v, canonical)) /\ Written(v, canonical)[1] = Opening(v)
<1>1. CASE v[1] = "scalar"
  <2>1. v[2] \in Token /\ Opening(v) = v[2] /\ Written(v, canonical) = <<v[2]>>
    BY <1>1, Kinds DEF Opening, Written
  <2>. QED  BY <2>1, Mark, Singles DEF Proper
<1>2. CASE v[1] = "array" \/ v[1] = "object"
  <2>. DEFINE j == Joined(TextsOf(v))
              o == Opening(v)
              c == Closing(v)
  <2>1. j \in Text /\ Written(v, canonical) = (<<o>> \o j) \o <<c>>
    BY <1>2, Bracketed, JoinedType
  <2>2. o \in {"[", "{"} /\ c \in {"]", "}"}
    BY <1>2 DEF Opening, Closing
  <2>. HIDE DEF j, o, c
  <2>3. <<o>> \in Text /\ <<o>> # <<>> /\ <<o>>[1] = o /\ <<c>> \in Text
    BY <2>2, Mark, Singles
  <2>4. <<o>> \o j \in Text /\ (<<o>> \o j)[1] = o /\ <<o>> \o j # <<>>
    <3>1. <<o>> \o j \in Text /\ (<<o>> \o j)[1] = o  BY <2>1, <2>3, Concat
    <3>2. <<o>> \o j # <<>>  BY <2>1, <2>3 DEF Text
    <3>. QED  BY <3>1, <3>2
  <2>. DEFINE t == <<o>> \o j
  <2>. HIDE DEF t
  <2>5. t \in Text /\ t[1] = o /\ t # <<>> /\ Written(v, canonical) = t \o <<c>>
    BY <2>1, <2>4 DEF t
  <2>6. t \o <<c>> \in Text /\ (t \o <<c>>)[1] = o  BY <2>3, <2>5, Concat
  <2>7. t \o <<c>> # <<>>  BY <2>3, <2>5 DEF Text
  <2>. QED  BY <2>2, <2>5, <2>6, <2>7, Mark DEF Proper, o
<1>. QED  BY <1>1, <1>2, Kinds

LEMMA AllProper ==
    \A v \in Value : Proper(canonical[v])
<1>. DEFINE Bad == { Depth(v) : v \in { u \in Value : ~Proper(canonical[u]) } }
<1>. SUFFICES ASSUME Bad # {} PROVE FALSE
  OBVIOUS
<1>1. Bad \subseteq Nat  BY DepthType
<1>2. PICK d \in Bad : \A e \in Bad : d <= e
  <2>. HIDE DEF Bad
  <2>. QED  BY <1>1, SmallestOf
<1>3. PICK v \in Value : d = Depth(v) /\ ~Proper(canonical[v])
  BY <1>2
<1>4. ASSUME NEW p \in Parts(v), ~Proper(canonical[p]) PROVE FALSE
  <2>1. p \in Value /\ Depth(p) \in Nat /\ Depth(p) < d
    BY <1>3, DepthType
  <2>2. Depth(p) \in Bad  BY <1>4, <2>1
  <2>3. d <= Depth(p)
    <3>. HIDE DEF Bad
    <3>. QED  BY <1>2, <2>2
  <2>. QED  BY <1>1, <2>1, <2>3
<1>5. ~Proper(Written(v, canonical))  BY <1>3, Recursion
<1>. QED  BY <1>4, <1>5, DepthType, WrittenProper

\* One text cannot be read as two values that mean different things.
Readable(p, q) ==
    \A x, y \in Text : canonical[p] \o x = canonical[q] \o y => Meaning[p] = Meaning[q]

\* Texts of parts that can be read back can be told apart, in an array ...
LEMMA PartsSeparate ==
    ASSUME NEW p \in Value, NEW q \in Value, Readable(p, q), NEW x \in Text, NEW y \in Text,
           canonical[p] \o x = canonical[q] \o y
    PROVE  canonical[p] = canonical[q]
BY SameText DEF Readable

\* ... and behind the names of members.
MembersTell(m, p, x, n, q, y) ==
    MemberText(m, canonical[p]) \o x = MemberText(n, canonical[q]) \o y
    => m = n /\ canonical[p] = canonical[q]

LEMMA MembersSeparate ==
    ASSUME NEW p \in Value, NEW q \in Value, Readable(p, q), NEW x \in Text, NEW y \in Text,
           NEW m \in Name, NEW n \in Name
    PROVE  MembersTell(m, p, x, n, q, y)
<1>. SUFFICES ASSUME MemberText(m, canonical[p]) \o x = MemberText(n, canonical[q]) \o y
              PROVE  m = n /\ canonical[p] = canonical[q]
  BY DEF MembersTell
<1>. DEFINE a == <<m, ":">>
            b == <<n, ":">>
            t == canonical[p]
            u == canonical[q]
<1>1. m \in Symbol /\ n \in Symbol /\ ":" \in Symbol  BY Mark
<1>2. a \in Text /\ a # <<>> /\ a[1] = m /\ b \in Text /\ b # <<>> /\ b[1] = n
  BY <1>1, Doubles
<1>3. (m = n => a = b) /\ (a \o t) \o x = (b \o u) \o y  BY DEF MemberText
<1>4. t \in Text /\ u \in Text  BY AllProper DEF Proper
<1>5. t \o x = u \o y => t = u  BY PartsSeparate
<1>. HIDE DEF a, b, t, u
<1>6. (a \o t) \o x = a \o (t \o x)  BY <1>2, <1>4, Assoc
<1>7. (b \o u) \o y = b \o (u \o y)  BY <1>2, <1>4, Assoc
<1>8. t \o x \in Text /\ u \o y \in Text  BY <1>4, Concat
<1>9. (a \o (t \o x))[1] = m  BY <1>2, <1>8, Concat
<1>10. (b \o (u \o y))[1] = n  BY <1>2, <1>8, Concat
<1>11. m = n  BY <1>3, <1>6, <1>7, <1>9, <1>10
<1>12. a \o (t \o x) = a \o (u \o y)  BY <1>3, <1>6, <1>7, <1>11
<1>13. t \o x = u \o y  BY <1>2, <1>8, <1>12, Cancel
<1>. QED  BY <1>5, <1>11, <1>13 DEF t, u

PartsReadable(v, w) == \A p \in Parts(v), q \in Parts(w) : Readable(p, q)

LEMMA TextsSeparate ==
    ASSUME NEW v \in Json, NEW w \in Json, v[1] = w[1], v[1] = "array" \/ v[1] = "object",
           PartsReadable(v, w)
    PROVE  Separate(TextsOf(v), TextsOf(w))
<1>1. CASE v[1] = "array"
  <2>. DEFINE a == v[2]
              b == w[2]
  <2>1. /\ TextsOf(v) = [i \in DOMAIN a |-> canonical[a[i]]]
        /\ TextsOf(w) = [i \in DOMAIN b |-> canonical[b[i]]]
    BY <1>1 DEF TextsOf
  <2>2. /\ \A i \in DOMAIN a : a[i] \in Value /\ a[i] \in Parts(v)
        /\ \A i \in DOMAIN b : b[i] \in Value /\ b[i] \in Parts(w)
    BY <1>1, Kinds
  <2>. HIDE DEF a, b
  <2>3. ASSUME NEW i \in DOMAIN a, i \in DOMAIN b, NEW x \in Text, NEW y \in Text,
               canonical[a[i]] \o x = canonical[b[i]] \o y
        PROVE  canonical[a[i]] = canonical[b[i]]
    <3>1. Readable(a[i], b[i]) /\ a[i] \in Value /\ b[i] \in Value  BY <2>2, <2>3 DEF PartsReadable
    <3>. QED  BY <2>3, <3>1, PartsSeparate, Zenon
  <2>4. /\ DOMAIN TextsOf(v) = DOMAIN a /\ DOMAIN TextsOf(w) = DOMAIN b
        /\ \A i \in DOMAIN a : TextsOf(v)[i] = canonical[a[i]]
        /\ \A i \in DOMAIN b : TextsOf(w)[i] = canonical[b[i]]
    BY <2>1
  <2>5. ASSUME NEW i \in DOMAIN a, i \in DOMAIN b, NEW x \in Text, NEW y \in Text,
               TextsOf(v)[i] \o x = TextsOf(w)[i] \o y
        PROVE  TextsOf(v)[i] = TextsOf(w)[i]
    <3>1. TextsOf(v)[i] = canonical[a[i]] /\ TextsOf(w)[i] = canonical[b[i]]
      BY <2>4, <2>5
    <3>. QED  BY <2>3, <2>5, <3>1
  <2>. QED  BY <2>4, <2>5 DEF Separate
<1>2. CASE v[1] = "object"
  <2>. DEFINE s == Sorted(v[2])
              t == Sorted(w[2])
  <2>1. /\ TextsOf(v) = [i \in DOMAIN s |-> MemberText(s[i][1], canonical[s[i][2]])]
        /\ TextsOf(w) = [i \in DOMAIN t |-> MemberText(t[i][1], canonical[t[i][2]])]
    BY <1>2 DEF TextsOf
  <2>2. /\ s \in Seq(Members) /\ t \in Seq(Members)
        /\ \A i \in DOMAIN s : s[i][2] \in Parts(v)
        /\ \A i \in DOMAIN t : t[i][2] \in Parts(w)
    BY <1>2, SortedMembers
  <2>. HIDE DEF s, t
  <2>3. /\ \A i \in DOMAIN s : s[i][1] \in Name /\ s[i][2] \in Value
        /\ \A i \in DOMAIN t : t[i][1] \in Name /\ t[i][2] \in Value
    BY <2>2 DEF Members
  <2>4. ASSUME NEW i \in DOMAIN s, i \in DOMAIN t, NEW x \in Text, NEW y \in Text,
               MemberText(s[i][1], canonical[s[i][2]]) \o x
               = MemberText(t[i][1], canonical[t[i][2]]) \o y
        PROVE  s[i][1] = t[i][1] /\ canonical[s[i][2]] = canonical[t[i][2]]
    <3>1. Readable(s[i][2], t[i][2])  BY <2>2, <2>4 DEF PartsReadable
    <3>. DEFINE m == s[i][1]
                n == t[i][1]
                p == s[i][2]
                q == t[i][2]
    <3>2. /\ m \in Name /\ n \in Name /\ p \in Value /\ q \in Value /\ Readable(p, q)
          /\ MemberText(m, canonical[p]) \o x = MemberText(n, canonical[q]) \o y
      BY <2>3, <2>4, <3>1
    <3>. HIDE DEF m, n, p, q
    <3>3. MembersTell(m, p, x, n, q, y)  BY <3>2, MembersSeparate, Zenon
    <3>4. m = n /\ canonical[p] = canonical[q]  BY <3>2, <3>3 DEF MembersTell
    <3>. QED  BY <3>4 DEF m, n, p, q
  <2>5. ASSUME NEW i \in DOMAIN s, i \in DOMAIN t, NEW x \in Text, NEW y \in Text,
               TextsOf(v)[i] \o x = TextsOf(w)[i] \o y
        PROVE  TextsOf(v)[i] = TextsOf(w)[i]
    <3>1. /\ TextsOf(v)[i] = MemberText(s[i][1], canonical[s[i][2]])
          /\ TextsOf(w)[i] = MemberText(t[i][1], canonical[t[i][2]])
      BY <2>1, <2>5
    <3>2. s[i][1] = t[i][1] /\ canonical[s[i][2]] = canonical[t[i][2]]
      BY <2>4, <2>5, <3>1
    <3>. QED  BY <3>1, <3>2
  <2>6. DOMAIN TextsOf(v) = DOMAIN s /\ DOMAIN TextsOf(w) = DOMAIN t
    BY <2>1
  <2>. QED  BY <2>5, <2>6 DEF Separate
<1>. QED  BY <1>1, <1>2

\* Lists of the same texts, in the same brackets, mean the same.
LEMMA TextsMean ==
    ASSUME NEW v \in Json, NEW w \in Json, v[1] = w[1], v[1] = "array" \/ v[1] = "object",
           PartsReadable(v, w),
           TextsOf(v) = TextsOf(w)
    PROVE  Meant(v, Meaning) = Meant(w, Meaning)
<1>0. \A p \in Parts(v), q \in Parts(w) :
         canonical[p] = canonical[q] => Meaning[p] = Meaning[q]
  <2>. SUFFICES ASSUME NEW p \in Parts(v), NEW q \in Parts(w), canonical[p] = canonical[q]
                PROVE  Meaning[p] = Meaning[q]
    OBVIOUS
  <2>1. <<>> \in Text  BY DEF Text
  <2>2. canonical[p] \o <<>> = canonical[q] \o <<>>  OBVIOUS
  <2>3. Readable(p, q)  BY DEF PartsReadable
  <2>. QED  BY <2>1, <2>2, <2>3, Zenon DEF Readable
<1>1. CASE v[1] = "array"
  <2>. DEFINE a == v[2]
              b == w[2]
  <2>1. [i \in DOMAIN a |-> canonical[a[i]]] = [i \in DOMAIN b |-> canonical[b[i]]]
    BY <1>1 DEF TextsOf
  <2>2. /\ \A i \in DOMAIN a : a[i] \in Parts(v)
        /\ \A i \in DOMAIN b : b[i] \in Parts(w)
    BY <1>1, Kinds
  <2>. HIDE DEF a, b
  <2>3. DOMAIN a = DOMAIN b /\ \A i \in DOMAIN a : canonical[a[i]] = canonical[b[i]]
    BY <2>1
  <2>4. [i \in DOMAIN a |-> Meaning[a[i]]] = [i \in DOMAIN b |-> Meaning[b[i]]]
    BY <1>0, <2>2, <2>3
  <2>. QED  BY <1>1, <2>4 DEF Meant, a, b
<1>2. CASE v[1] = "object"
  <2>. DEFINE s == Sorted(v[2])
              t == Sorted(w[2])
              sText == [i \in DOMAIN s |-> MemberText(s[i][1], canonical[s[i][2]])]
              tText == [i \in DOMAIN t |-> MemberText(t[i][1], canonical[t[i][2]])]
  <2>1. sText = tText
    BY <1>2 DEF TextsOf
  <2>2. /\ s \in Seq(Members) /\ t \in Seq(Members)
        /\ ToSet(s) = ToSet(v[2]) /\ ToSet(t) = ToSet(w[2])
        /\ \A i \in DOMAIN s : s[i][2] \in Parts(v)
        /\ \A i \in DOMAIN t : t[i][2] \in Parts(w)
    BY <1>2, SortedMembers
  <2>. HIDE DEF s, t
  <2>3. /\ \A i \in DOMAIN s : s[i][1] \in Name /\ s[i][2] \in Value
        /\ \A i \in DOMAIN t : t[i][1] \in Name /\ t[i][2] \in Value
    BY <2>2 DEF Members
  <2>4. DOMAIN s = DOMAIN t
    <3>1. DOMAIN sText = DOMAIN s /\ DOMAIN tText = DOMAIN t  OBVIOUS
    <3>. HIDE DEF sText, tText
    <3>. QED  BY <2>1, <3>1
  <2>5. ASSUME NEW i \in DOMAIN s
        PROVE  s[i][1] = t[i][1] /\ Meaning[s[i][2]] = Meaning[t[i][2]]
    <3>1. /\ sText[i] = MemberText(s[i][1], canonical[s[i][2]])
          /\ tText[i] = MemberText(t[i][1], canonical[t[i][2]])
      BY <2>4
    <3>2. MemberText(s[i][1], canonical[s[i][2]]) = MemberText(t[i][1], canonical[t[i][2]])
      <4>. HIDE DEF sText, tText
      <4>. QED  BY <2>1, <3>1
    <3>3. Readable(s[i][2], t[i][2])  BY <2>2, <2>4 DEF PartsReadable
    <3>4. <<>> \in Text  BY DEF Text
    <3>5. /\ s[i][1] \in Name /\ t[i][1] \in Name /\ s[i][2] \in Value /\ t[i][2] \in Value
      BY <2>3, <2>4
    <3>6. MemberText(s[i][1], canonical[s[i][2]]) \o <<>>
          = MemberText(t[i][1], canonical[t[i][2]]) \o <<>>
      BY <3>2
    <3>7. s[i][1] = t[i][1] /\ canonical[s[i][2]] = canonical[t[i][2]]
      <4>. DEFINE m == s[i][1]
                  n == t[i][1]
                  p == s[i][2]
                  q == t[i][2]
      <4>1. /\ m \in Name /\ n \in Name /\ p \in Value /\ q \in Value /\ Readable(p, q)
            /\ MemberText(m, canonical[p]) \o <<>> = MemberText(n, canonical[q]) \o <<>>
        BY <3>3, <3>5, <3>6
      <4>. HIDE DEF m, n, p, q
      <4>2. MembersTell(m, p, <<>>, n, q, <<>>)  BY <3>4, <4>1, MembersSeparate, Zenon
      <4>3. m = n /\ canonical[p] = canonical[q]  BY <4>1, <4>2 DEF MembersTell
      <4>. QED  BY <4>3 DEF m, n, p, q
    <3>. QED  BY <1>0, <2>2, <2>4, <3>7
  <2>6. { <<m[1], Meaning[m[2]]>> : m \in ToSet(s) } = { <<m[1], Meaning[m[2]]>> : m \in ToSet(t) }
    <3>1. { <<m[1], Meaning[m[2]]>> : m \in ToSet(s) } = { <<s[i][1], Meaning[s[i][2]]>> : i \in DOMAIN s }
      BY DEF ToSet
    <3>2. { <<m[1], Meaning[m[2]]>> : m \in ToSet(t) } = { <<t[i][1], Meaning[t[i][2]]>> : i \in DOMAIN t }
      BY DEF ToSet
    <3>. QED  BY <2>4, <2>5, <3>1, <3>2
  <2>. QED  BY <1>2, <2>2, <2>6 DEF Meant
<1>. QED  BY <1>1, <1>2

Associate(x, y, z) == (x \o y) \o z = x \o (y \o z)

LEMMA Associated ==
    ASSUME NEW x \in Text, NEW y \in Text, NEW z \in Text
    PROVE  Associate(x, y, z)
BY Assoc DEF Associate

Unbracket(o, c, j, k, x, y) ==
    ((o \o j) \o c) \o x = ((o \o k) \o c) \o y => j \o (c \o x) = k \o (c \o y)

LEMMA Unbracketed ==
    ASSUME NEW o \in Text, NEW c \in Text, NEW j \in Text, NEW k \in Text,
           NEW x \in Text, NEW y \in Text
    PROVE  Unbracket(o, c, j, k, x, y)
<1>1. o \o j \in Text /\ o \o k \in Text /\ c \o x \in Text /\ c \o y \in Text
  BY Concat
<1>2. Associate(o \o j, c, x)  BY <1>1, Associated, Zenon
<1>3. Associate(o \o k, c, y)  BY <1>1, Associated, Zenon
<1>4. Associate(o, j, c \o x)  BY <1>1, Associated, Zenon
<1>5. Associate(o, k, c \o y)  BY <1>1, Associated, Zenon
<1>. DEFINE e == j \o (c \o x)
            f == k \o (c \o y)
<1>6. e \in Text /\ f \in Text  BY <1>1, Concat
<1>7. ((o \o j) \o c) \o x = o \o e  BY <1>2, <1>4 DEF Associate
<1>8. ((o \o k) \o c) \o y = o \o f  BY <1>3, <1>5 DEF Associate
<1>. HIDE DEF e, f
<1>9. o \o e = o \o f => e = f  BY <1>6, Cancel
<1>. QED  BY <1>7, <1>8, <1>9 DEF Unbracket, e, f

LEMMA ReadStep ==
    ASSUME NEW v \in Json, NEW w \in Json,
           \A p \in Parts(v) \cup Parts(w) : p \in Value,
           PartsReadable(v, w),
           NEW x \in Text, NEW y \in Text,
           Written(v, canonical) \o x = Written(w, canonical) \o y
    PROVE  Meant(v, Meaning) = Meant(w, Meaning)
<1>1. /\ \A p \in Parts(v) : Proper(canonical[p])
      /\ \A p \in Parts(w) : Proper(canonical[p])
  BY AllProper
<1>2. /\ Written(v, canonical) \in Text /\ Written(v, canonical) # <<>>
      /\ Written(v, canonical)[1] = Opening(v)
      /\ Written(w, canonical) \in Text /\ Written(w, canonical) # <<>>
      /\ Written(w, canonical)[1] = Opening(w)
  BY <1>1, WrittenProper DEF Proper
<1>3. Opening(v) = Opening(w)
  <2>. DEFINE t == Written(v, canonical)
              u == Written(w, canonical)
  <2>. HIDE DEF t, u
  <2>1. t \in Text /\ t # <<>> /\ t[1] = Opening(v) /\ t \o x = u \o y
    BY <1>2 DEF t, u
  <2>2. u \in Text /\ u # <<>> /\ u[1] = Opening(w)
    BY <1>2 DEF u
  <2>3. (t \o x)[1] = Opening(v)  BY <2>1, Concat
  <2>4. (u \o y)[1] = Opening(w)  BY <2>2, Concat
  <2>. QED  BY <2>1, <2>3, <2>4
<1>4. v[1] = w[1] /\ (v[1] = "scalar" => v = w)
  <2>1. /\ v[1] = "scalar" => Opening(v) = v[2] /\ Opening(v) \notin {"[", "{"} /\ v = <<"scalar", v[2]>>
        /\ w[1] = "scalar" => Opening(w) = w[2] /\ Opening(w) \notin {"[", "{"} /\ w = <<"scalar", w[2]>>
    BY Kinds, Mark DEF Opening
  <2>2. /\ v[1] = "array" => Opening(v) = "["
        /\ v[1] = "object" => Opening(v) = "{"
        /\ w[1] = "array" => Opening(w) = "["
        /\ w[1] = "object" => Opening(w) = "{"
    BY DEF Opening
  <2>3. /\ v[1] \in {"scalar", "array", "object"}
        /\ w[1] \in {"scalar", "array", "object"}
    BY Kinds
  <2>. QED  BY <1>3, <2>1, <2>2, <2>3, Mark
<1>5. CASE v[1] = "scalar"
  BY <1>4, <1>5
<1>6. CASE v[1] = "array" \/ v[1] = "object"
  <2>. DEFINE a == TextsOf(v)
              b == TextsOf(w)
              o == Opening(v)
              c == Closing(v)
  <2>1. /\ a \in Seq(Text) /\ NoneBegins(a, c)
        /\ Written(v, canonical) = (<<o>> \o Joined(a)) \o <<c>>
    BY <1>1, <1>6, Bracketed
  <2>2. /\ b \in Seq(Text) /\ NoneBegins(b, Closing(w))
        /\ Written(w, canonical) = (<<Opening(w)>> \o Joined(b)) \o <<Closing(w)>>
    BY <1>1, <1>4, <1>6, Bracketed
  <2>3. Closing(w) = c /\ c \in Symbol /\ c # Comma /\ o \in Symbol
    <3>1. Closing(w) = c /\ c \in {"]", "}"} /\ o \in {"[", "{"}
      BY <1>4, <1>6 DEF Opening, Closing
    <3>. HIDE DEF c, o
    <3>. QED  BY <3>1, Mark
  <2>4. Separate(a, b)  BY <1>4, <1>6, TextsSeparate
  <2>5. ((<<o>> \o Joined(a)) \o <<c>>) \o x = ((<<o>> \o Joined(b)) \o <<c>>) \o y
    BY <1>3, <2>1, <2>2, <2>3
  <2>6. NoneBegins(b, c)  BY <2>2, <2>3
  <2>. HIDE DEF a, b, o, c
  <2>7. a = b
    <3>1. Joined(a) \in Text /\ Joined(b) \in Text /\ <<o>> \in Text /\ <<c>> \in Text
      BY <2>1, <2>2, <2>3, JoinedType, Singles
    <3>2. Joined(a) \o (<<c>> \o x) = Joined(b) \o (<<c>> \o y)
      <4>. DEFINE j == Joined(a)
                  k == Joined(b)
                  O == <<o>>
                  C == <<c>>
      <4>. HIDE DEF j, k, O, C
      <4>1. j \in Text /\ k \in Text /\ O \in Text /\ C \in Text  BY <3>1 DEF j, k, O, C
      <4>2. ((O \o j) \o C) \o x = ((O \o k) \o C) \o y  BY <2>5 DEF j, k, O, C
      <4>3. Unbracket(O, C, j, k, x, y)  BY <4>1, Unbracketed, Zenon
      <4>4. j \o (C \o x) = k \o (C \o y)  BY <4>2, <4>3 DEF Unbracket
      <4>. QED  BY <4>4 DEF j, k, C
    <3>3. JoinedTell(a, b, c, x, y)
      BY <2>1, <2>2, <2>3, <2>4, <2>6, JoinedAlike, Zenon
    <3>. QED  BY <3>2, <3>3 DEF JoinedTell
  <2>. QED  BY <1>4, <1>6, <2>7, TextsMean DEF a, b
<1>. QED  BY <1>5, <1>6, Kinds

\* The text of one value is not the beginning of the text of another that means
\* something else.
LEMMA ReadBack ==
    \A v, w \in Value : Readable(v, w)
<1>. DEFINE Bad == { Depth(v) : v \in { u \in Value : \E w \in Value : ~Readable(u, w) } }
<1>. SUFFICES ASSUME Bad # {} PROVE FALSE
  OBVIOUS
<1>1. Bad \subseteq Nat  BY DepthType
<1>2. PICK d \in Bad : \A e \in Bad : d <= e
  <2>. HIDE DEF Bad
  <2>. QED  BY <1>1, SmallestOf
<1>3. PICK v \in Value, w \in Value : d = Depth(v) /\ ~Readable(v, w)
  BY <1>2
<1>4. ASSUME NEW p \in Parts(v), NEW q \in Parts(w), ~Readable(p, q) PROVE FALSE
  <2>1. p \in Value /\ q \in Value /\ Depth(p) \in Nat /\ Depth(p) < d
    BY <1>3, DepthType
  <2>2. Depth(p) \in Bad  BY <1>4, <2>1
  <2>3. d <= Depth(p)
    <3>. HIDE DEF Bad
    <3>. QED  BY <1>2, <2>2
  <2>. QED  BY <1>1, <2>1, <2>3
<1>5. PICK x \in Text, y \in Text : canonical[v] \o x = canonical[w] \o y /\ Meaning[v] # Meaning[w]
  BY <1>3 DEF Readable
<1>6. /\ canonical[v] = Written(v, canonical) /\ canonical[w] = Written(w, canonical)
      /\ Meaning[v] = Meant(v, Meaning) /\ Meaning[w] = Meant(w, Meaning)
  BY Recursion
<1>. QED  BY <1>4, <1>5, <1>6, DepthType, ReadStep DEF PartsReadable

-----------------------------------------------------------------------------
\* What createJobSchema returns is an object of four members.
LEMMA ParsedIs ==
    ASSUME NEW body \in RequestBody
    PROVE  /\ Parsed(body) \in Json
           /\ Meant(Parsed(body), Meaning)
              = <<"object", { <<"type", Scalar(body.type)>>,
                              <<"payload", Meaning[body.payload]>>,
                              <<"max_retries", Scalar(Effective(body.max_retries, "3"))>>,
                              <<"priority", Scalar(Effective(body.priority, "5"))>> }>>
<1>. DEFINE t == Scalar(body.type)
            p == body.payload
            r == Scalar(Effective(body.max_retries, "3"))
            q == Scalar(Effective(body.priority, "5"))
            members == << <<"type", t>>, <<"payload", p>>, <<"max_retries", r>>, <<"priority", q>> >>
<1>1. t \in Value /\ r \in Value /\ q \in Value /\ p \in Value
  <2>1. /\ body.type \in Types
        /\ Effective(body.max_retries, "3") \in Numbers \cup {"3", "5"}
        /\ Effective(body.priority, "5") \in Numbers \cup {"3", "5"}
        /\ p \in Value
    BY JsonAssumption DEF JsonAssumption, RequestBody, Effective
  <2>2. \A s \in Types \cup Numbers \cup {"3", "5"} : Scalar(s) \in Value
    BY JsonAssumption DEF JsonAssumption
  <2>. QED  BY <2>1, <2>2
<1>2. Meaning[t] = t /\ Meaning[r] = r /\ Meaning[q] = q
  <2>1. \A s : Scalar(s) \in Value => Meaning[Scalar(s)] = Scalar(s)
    BY Recursion DEF Meant, Scalar
  <2>. QED  BY <1>1, <2>1
<1>3. Parsed(body) = <<"object", members>>  BY DEF Parsed
<1>4. "type" \in Name /\ "payload" \in Name /\ "max_retries" \in Name /\ "priority" \in Name
  BY JsonAssumption DEF JsonAssumption
<1>. HIDE DEF t, p, r, q
<1>5. members \in Seq(Name \X Value)
  BY <1>1, <1>4
<1>6. \A i, j \in DOMAIN members : i # j => members[i][1] # members[j][1]
  OBVIOUS
<1>7. ToSet(members)
      = { <<"type", t>>, <<"payload", p>>, <<"max_retries", r>>, <<"priority", q>> }
  BY DEF ToSet
<1>. HIDE DEF members
<1>8. Parsed(body) \in Json
  BY <1>3, <1>5, <1>6 DEF Json, Object
<1>9. { <<m[1], Meaning[m[2]]>> : m \in ToSet(members) }
      = { <<"type", t>>, <<"payload", Meaning[p]>>, <<"max_retries", r>>, <<"priority", q>> }
  BY <1>2, <1>7
<1>10. Meant(Parsed(body), Meaning) = <<"object", { <<m[1], Meaning[m[2]]>> : m \in ToSet(members) }>>
  BY <1>3 DEF Meant
<1>. QED  BY <1>8, <1>9, <1>10 DEF t, p, r, q

\* Requests ask for the same exactly if their parsed bodies mean the same.
LEMMA AskedMeant ==
    ASSUME NEW b \in RequestBody, NEW c \in RequestBody
    PROVE  Asked(b) = Asked(c) <=> Meant(Parsed(b), Meaning) = Meant(Parsed(c), Meaning)
<1>. DEFINE Four(t, p, r, q) ==
              { <<"type", Scalar(t)>>, <<"payload", p>>,
                <<"max_retries", Scalar(r)>>, <<"priority", Scalar(q)>> }
            M(x) == Four(x.type, Meaning[x.payload], Effective(x.max_retries, "3"),
                         Effective(x.priority, "5"))
<1>1. /\ Meant(Parsed(b), Meaning) = <<"object", M(b)>>
      /\ Meant(Parsed(c), Meaning) = <<"object", M(c)>>
  BY ParsedIs
<1>2. ASSUME NEW t, NEW p, NEW r, NEW q, NEW u, NEW w, NEW x, NEW y,
             Four(t, p, r, q) = Four(u, w, x, y)
      PROVE  t = u /\ p = w /\ r = x /\ q = y
  <2>1. /\ <<"type", Scalar(t)>> \in Four(u, w, x, y)
        /\ <<"payload", p>> \in Four(u, w, x, y)
        /\ <<"max_retries", Scalar(r)>> \in Four(u, w, x, y)
        /\ <<"priority", Scalar(q)>> \in Four(u, w, x, y)
    BY <1>2
  <2>2. Scalar(t) = Scalar(u) /\ p = w /\ Scalar(r) = Scalar(x) /\ Scalar(q) = Scalar(y)
    BY <2>1
  <2>. QED  BY <2>2 DEF Scalar
<1>3. M(b) = M(c) <=> Asked(b) = Asked(c)
  <2>1. M(b) = M(c) => Asked(b) = Asked(c)
    <3>. HIDE DEF Four
    <3>. QED  BY <1>2 DEF Asked
  <2>2. Asked(b) = Asked(c) => M(b) = M(c)
    BY DEF Asked
  <2>. QED  BY <2>1, <2>2
<1>. HIDE DEF M
<1>. QED  BY <1>1, <1>3

\* The hash that createJob stores and compares is the same for two requests
\* exactly if they ask for the same: members may be in any order at any depth and
\* defaults written out or not, and no nesting of one is read as another's.
THEOREM RequestHashTells ==
    ASSUME NEW b \in RequestBody, NEW c \in RequestBody
    PROVE  RequestHash(b) = RequestHash(c) <=> Asked(b) = Asked(c)
<1>. DEFINE v == Parsed(b)
            w == Parsed(c)
<1>1. v \in Json /\ w \in Json  BY ParsedIs
<1>2. Parts(v) \subseteq Value /\ Parts(w) \subseteq Value  BY <1>1, Kinds
<1>3. Asked(b) = Asked(c) <=> Meant(v, Meaning) = Meant(w, Meaning)
  BY AskedMeant
<1>4. RequestHash(b) = Written(v, canonical) /\ RequestHash(c) = Written(w, canonical)
  BY DEF RequestHash
<1>. HIDE DEF v, w
<1>5. Meant(v, Meaning) = Meant(w, Meaning) => Written(v, canonical) = Written(w, canonical)
  <2>1. \A p \in Parts(v), q \in Parts(w) : Meaning[p] = Meaning[q] => canonical[p] = canonical[q]
    BY <1>2, SameText
  <2>. QED  BY <1>1, <2>1, SameTextUp
<1>6. Written(v, canonical) = Written(w, canonical) => Meant(v, Meaning) = Meant(w, Meaning)
  <2>1. PartsReadable(v, w)  BY <1>2, ReadBack DEF PartsReadable
  <2>2. \A p \in Parts(v) \cup Parts(w) : p \in Value  BY <1>2
  <2>3. <<>> \in Text  BY DEF Text
  <2>4. Written(v, canonical) = Written(w, canonical)
        => Written(v, canonical) \o <<>> = Written(w, canonical) \o <<>>
    OBVIOUS
  <2>. QED  BY <1>1, <2>1, <2>2, <2>3, <2>4, ReadStep
<1>. QED  BY <1>3, <1>4, <1>5, <1>6

-----------------------------------------------------------------------------
(***************************************************************************)
(* The inductive invariant.                                                *)
(***************************************************************************)
\* An id, and a key that is not NULL, names one row; a row has the hash of what
\* it was asked for.
RowsInv ==
    \A j \in jobs :
        /\ \E body \in Body : j.hash = hashed[body] /\ j.input = asked[body]
        /\ \A k \in jobs : (j.id = k.id \/ (j.key = k.key /\ j.key # NoKey)) => j = k

\* What holds of the request that connection n is handling.
RequestInv(n) ==
    /\ asked[conn[n].body] = ask[conn[n].client].input
    /\ conn[n].pc = "fetch" => Row(n) \in jobs
    /\ conn[n].pc # "fetch" => \A j \in jobs : j.id # conn[n].id
    /\ conn[n].pc = "commit" => ~Taken(n)
    /\ conn[n].pc = "duplicate" => Taken(n)

\* Two open requests have different ids, and no two hold the same key.
Apart(m, n) ==
    /\ conn[m].id # conn[n].id
    /\ Holding(m) /\ Holding(n) => KeyOf(m) = NoKey \/ KeyOf(m) # KeyOf(n)

OpenInv ==
    \A n \in Connection : conn[n] # Free =>
        /\ RequestInv(n)
        /\ \A m \in Connection : m # n /\ conn[m] # Free => Apart(m, n)

\* A conflict was about a key, which somebody else's row still has.
RefusedRightly ==
    \A c \in Client : [code |-> 409, id |-> NoId] \in answers[c] =>
        /\ ask[c].key # NoKey
        /\ \E j \in Keyed(ask[c].key) : j.input # ask[c].input

IInv == TypeOK /\ RowsInv /\ OpenInv /\ AcceptedIsStored /\ RefusedRightly

-----------------------------------------------------------------------------
RowType == [id: JobId, key: Key \cup {NoKey},
            hash: { hashed[body] : body \in Body }, input: Input]

LEMMA HashedTell ==
    ASSUME NEW b \in Body, NEW c \in Body
    PROVE  hashed[b] = hashed[c] <=> asked[b] = asked[c]
<1>1. b \in RequestBody /\ c \in RequestBody
  BY EnqueueAssumption DEF EnqueueAssumption
<1>. QED  BY <1>1, RequestHashTells DEF hashed, asked

LEMMA FreeIsNoRequest ==
    /\ Free \notin Request
    /\ \A r \in Request : r.pc # "free"
BY DEF Free, Request

LEMMA InitInv == Init => IInv
<1>. SUFFICES ASSUME Init  PROVE IInv  OBVIOUS
<1>1. TypeOK  BY EnqueueAssumption DEF Init, TypeOK, EnqueueAssumption
<1>2. RowsInv /\ OpenInv  BY DEF Init, RowsInv, OpenInv
<1>3. AcceptedIsStored /\ RefusedRightly  BY DEF Init, AcceptedIsStored, RefusedRightly
<1>. QED  BY <1>1, <1>2, <1>3 DEF IInv

AnswerType == [code: Final \cup {500}, id: JobId \cup {NoId}]

\* What client c may be told.
Right(c, a) ==
    /\ a.code = 202 =>
          \E j \in jobs : j.id = a.id /\ j.key = ask[c].key /\ j.input = ask[c].input
    /\ a.code = 409 =>
          /\ ask[c].key # NoKey
          /\ \E j \in Keyed(ask[c].key) : j.input # ask[c].input

\* Answers stay right when rows are added, and a new one is right if it says so.
LEMMA NewAnswer ==
    ASSUME IInv, NEW c \in Client, NEW a, jobs \subseteq jobs', UNCHANGED ask,
           answers' \in {answers, [answers EXCEPT ![c] = @ \cup {a}]}, Right(c, a)
    PROVE  AcceptedIsStored' /\ RefusedRightly'
<1>1. \A d \in Client : \A b : b \in answers'[d] => b \in answers[d] \/ (d = c /\ b = a)
  BY DEF IInv, TypeOK
<1>2. AcceptedIsStored'  BY <1>1 DEF IInv, AcceptedIsStored, Right
<1>3. RefusedRightly'  BY <1>1 DEF IInv, RefusedRightly, Keyed, Right
<1>. QED  BY <1>2, <1>3

LEMMA SameAnswers ==
    ASSUME IInv, jobs \subseteq jobs', UNCHANGED <<ask, answers>>
    PROVE  AcceptedIsStored' /\ RefusedRightly'
BY DEF IInv, AcceptedIsStored, RefusedRightly, Keyed

\* A request that is over takes nothing from the others.
LEMMA Released ==
    ASSUME IInv, NEW n \in Connection, conn' = [conn EXCEPT ![n] = Free],
           UNCHANGED <<ask, jobs>>
    PROVE  RowsInv' /\ OpenInv'
<1>1. RowsInv'  BY DEF IInv, RowsInv
<1>2. \A m \in Connection : conn'[m] # Free => m # n /\ conn'[m] = conn[m]
  BY DEF IInv, TypeOK
<1>3. OpenInv'
  BY <1>2 DEF IInv, OpenInv, RequestInv, Apart, Row, Taken, KeyOf, Keyed, Holding
<1>. QED  BY <1>1, <1>3

LEMMA AnswerTypes ==
    ASSUME TypeOK, NEW c \in Client,
           NEW a \in AnswerType,
           answers' \in {answers, [answers EXCEPT ![c] = @ \cup {a}]}
    PROVE  answers' \in [Client -> SUBSET AnswerType]
BY DEF TypeOK, AnswerType

LEMMA FaultType == ASSUME TypeOK, Fault \/ UNCHANGED faults  PROVE faults' \in 0 .. MaxFaults
BY EnqueueAssumption DEF TypeOK, Fault, EnqueueAssumption

-----------------------------------------------------------------------------
LEMMA ReceiveInv ==
    ASSUME IInv, NEW n \in Connection, NEW c \in Client, Receive(n, c)
    PROVE  IInv'
<1>1. PICK body \in Body, id \in JobId :
          /\ asked[body] = ask[c].input
          /\ \A j \in jobs : j.id # id
          /\ \A m \in Connection : conn[m].pc # "free" => conn[m].id # id
          /\ conn' = [conn EXCEPT ![n] = [pc |-> "insert", client |-> c,
                                          body |-> body, id |-> id]]
  BY DEF Receive
<1>2. UNCHANGED <<ask, jobs, answers, faults>>  BY DEF Receive
<1> DEFINE new == [pc |-> "insert", client |-> c, body |-> body, id |-> id]
<1>3. body \in Body /\ asked[body] = ask[c].input  BY <1>1
<1>4. new \in Request  BY <1>3 DEF Request
<1>5. conn'[n] = new /\ \A m \in Connection : m # n => conn'[m] = conn[m]
  BY <1>1 DEF IInv, TypeOK
<1>6. TypeOK'  BY <1>1, <1>2, <1>4 DEF IInv, TypeOK
<1>7. RowsInv'  BY <1>2 DEF IInv, RowsInv
<1>8. \A m \in Connection : m # n /\ conn[m] # Free => conn[m].id # id
  BY <1>1, FreeIsNoRequest DEF IInv, TypeOK
<1>9. OpenInv'
  <2>. SUFFICES ASSUME NEW m \in Connection, conn'[m] # Free
                PROVE  /\ RequestInv(m)'
                       /\ \A k \in Connection : k # m /\ conn'[k] # Free => Apart(k, m)'
    BY DEF OpenInv
  <2>1. CASE m = n
    <3>1. RequestInv(n)'  BY <1>1, <1>2, <1>3, <1>5 DEF RequestInv
    <3>2. \A k \in Connection : k # n /\ conn'[k] # Free => Apart(k, n)'
      BY <1>5, <1>8 DEF Apart, Holding
    <3>. QED  BY <2>1, <3>1, <3>2
  <2>2. CASE m # n
    <3>1. RequestInv(m)'
      BY <1>2, <1>5, <2>2 DEF IInv, OpenInv, RequestInv, Row, Taken, KeyOf, Keyed
    <3>2. \A k \in Connection : k # m /\ conn'[k] # Free => Apart(k, m)'
      BY <1>2, <1>5, <1>8, <2>2 DEF IInv, OpenInv, Apart, Holding, KeyOf
    <3>. QED  BY <3>1, <3>2
  <2>. QED  BY <2>1, <2>2
<1>10. AcceptedIsStored' /\ RefusedRightly'  BY <1>2, SameAnswers
<1>. QED  BY <1>6, <1>7, <1>9, <1>10 DEF IInv

LEMMA InsertInv ==
    ASSUME IInv, NEW n \in Connection, Insert(n) \/ InsertRefused(n)
    PROVE  IInv'
<1>1. UNCHANGED <<ask, jobs, answers, faults>>  BY DEF Insert, InsertRefused
<1>2. conn[n].pc = "insert" /\ conn[n] \in Request
  BY FreeIsNoRequest DEF Insert, InsertRefused, IInv, TypeOK, Free
<1>3. PICK pc \in {"commit", "duplicate"} :
          /\ conn' = [conn EXCEPT ![n].pc = pc]
          /\ pc = "commit" => ~Taken(n) /\ \A m \in Connection :
                Holding(m) => KeyOf(m) = NoKey \/ KeyOf(m) # KeyOf(n)
          /\ pc = "duplicate" => Taken(n)
  BY DEF Insert, InsertRefused
<1>4. /\ conn'[n] = [conn[n] EXCEPT !.pc = pc]
      /\ \A m \in Connection : m # n => conn'[m] = conn[m]
  BY <1>3 DEF IInv, TypeOK
<1>5. /\ conn'[n].pc = pc /\ conn'[n].client = conn[n].client
      /\ conn'[n].body = conn[n].body /\ conn'[n].id = conn[n].id
      /\ conn'[n] \in Request
  BY <1>2, <1>4 DEF Request
<1>6. TypeOK'  BY <1>1, <1>3, <1>4, <1>5 DEF IInv, TypeOK
<1>7. RowsInv'  BY <1>1 DEF IInv, RowsInv
<1>8. \A m \in Connection : KeyOf(m)' = KeyOf(m)
  BY <1>1, <1>4, <1>5 DEF KeyOf
<1>9. conn[n] # Free  BY <1>2, FreeIsNoRequest
<1>10. OpenInv'
  <2>. SUFFICES ASSUME NEW m \in Connection, conn'[m] # Free
                PROVE  /\ RequestInv(m)'
                       /\ \A k \in Connection : k # m /\ conn'[k] # Free => Apart(k, m)'
    BY DEF OpenInv
  <2>1. conn[m] # Free /\ \A k \in Connection : conn'[k] # Free => conn[k] # Free
    BY <1>4, <1>9
  <2>2. RequestInv(m)'
    BY <1>1, <1>2, <1>3, <1>4, <1>5, <1>8, <2>1
    DEF IInv, OpenInv, RequestInv, Row, Taken, Keyed
  <2>3. \A k \in Connection : k # m /\ conn'[k] # Free => Apart(k, m)'
    BY <1>1, <1>2, <1>3, <1>4, <1>5, <1>8, <2>1 DEF IInv, OpenInv, Apart, Holding
  <2>. QED  BY <2>2, <2>3
<1>11. AcceptedIsStored' /\ RefusedRightly'  BY <1>1, SameAnswers
<1>. QED  BY <1>6, <1>7, <1>10, <1>11 DEF IInv

\* The row that a commit adds is like no other: nobody had its id, and the index
\* has kept its key free since the INSERT.
LEMMA CommitsRow ==
    ASSUME IInv, NEW n \in Connection, Commits(n), UNCHANGED ask,
           conn' \in { [conn EXCEPT ![n] = Free], [conn EXCEPT ![n].pc = "fetch"] }
    PROVE  /\ jobs \subseteq jobs'
           /\ jobs' \subseteq RowType
           /\ conn' \in [Connection -> {Free} \cup Request]
           /\ RowsInv' /\ OpenInv'
<1>1. conn[n].pc = "commit" /\ conn[n] \in Request /\ conn[n] # Free
  BY FreeIsNoRequest DEF Commits, IInv, TypeOK, Free
<1> DEFINE row == Row(n)
<1>2. jobs' = jobs \cup {row}  BY DEF Commits
<1>3. /\ row.id = conn[n].id /\ row.key = KeyOf(n)
      /\ conn[n].body \in Body /\ row.hash = hashed[conn[n].body]
      /\ row.input = asked[conn[n].body]
      /\ row \in RowType
  <2>1. /\ conn[n].id \in JobId /\ conn[n].client \in Client /\ conn[n].body \in Body
        /\ KeyOf(n) \in Key \cup {NoKey}
    BY <1>1 DEF KeyOf, IInv, TypeOK, Request
  <2>2. /\ hashed[conn[n].body] \in { hashed[body] : body \in Body }
        /\ asked[conn[n].body] \in Input
    BY <2>1 DEF Input
  <2>. QED  BY <2>1, <2>2 DEF Row, RowType
<1>4. \A j \in jobs : j.id # row.id /\ (row.key # NoKey => j.key # row.key)
  BY <1>1, <1>3 DEF IInv, OpenInv, RequestInv, Taken, Keyed
<1> HIDE DEF row
<1>5. RowsInv'  BY <1>2, <1>3, <1>4 DEF IInv, RowsInv
<1>6. /\ conn'[n] = Free \/ (conn'[n] = [conn[n] EXCEPT !.pc = "fetch"])
      /\ \A m \in Connection : m # n => conn'[m] = conn[m]
  BY DEF IInv, TypeOK
<1>7. [conn[n] EXCEPT !.pc = "fetch"] \in Request  BY <1>1 DEF Request
<1>8. conn' \in [Connection -> {Free} \cup Request]  BY <1>7 DEF IInv, TypeOK
<1>9. ASSUME NEW m \in Connection, conn'[m] # Free, m # n  PROVE RequestInv(m)'
  <2>1. conn[m] # Free /\ conn[m] \in Request /\ RequestInv(m) /\ Apart(m, n)
    BY <1>1, <1>6, <1>9 DEF IInv, TypeOK, OpenInv
  <2>2. conn'[m] = conn[m] /\ KeyOf(m)' = KeyOf(m)  BY <1>6, <1>9 DEF KeyOf
  <2>3. conn[m].id # row.id  BY <2>1, <1>3 DEF Apart
  <2>4. conn[m].pc = "commit" => ~Taken(m)'
    BY <1>1, <1>2, <1>3, <2>1, <2>2 DEF RequestInv, Apart, Holding, Taken, Keyed
  <2>5. conn[m].pc = "duplicate" => Taken(m)'
    BY <1>2, <2>1, <2>2 DEF RequestInv, Taken, Keyed
  <2>6. Row(m)' = Row(m)  BY <2>2 DEF Row
  <2>. QED  BY <1>2, <2>1, <2>2, <2>3, <2>4, <2>5, <2>6 DEF RequestInv
<1>10. ASSUME conn'[n] # Free  PROVE RequestInv(n)'
  <2>1. conn'[n] = [conn[n] EXCEPT !.pc = "fetch"]  BY <1>6, <1>10
  <2>2. /\ conn'[n].pc = "fetch" /\ conn'[n].body = conn[n].body
        /\ conn'[n].client = conn[n].client /\ conn'[n].id = conn[n].id
    BY <1>1, <2>1 DEF Request
  <2>3. Row(n)' = row  BY <2>2 DEF Row, KeyOf, row
  <2>4. asked[conn[n].body] = ask[conn[n].client].input
    BY <1>1 DEF IInv, OpenInv, RequestInv
  <2>. QED  BY <1>2, <2>2, <2>3, <2>4 DEF RequestInv
<1>11. ASSUME NEW m \in Connection, conn'[m] # Free,
              NEW k \in Connection, k # m, conn'[k] # Free
       PROVE  Apart(k, m)'
  <2>1. conn[m] # Free /\ conn[k] # Free  BY <1>1, <1>6, <1>11
  <2>2. Apart(k, m)  BY <1>11, <2>1 DEF IInv, OpenInv
  <2>3. ASSUME NEW i \in Connection, conn'[i] # Free
        PROVE  /\ conn'[i].id = conn[i].id /\ KeyOf(i)' = KeyOf(i)
               /\ Holding(i)' => Holding(i)
    BY <1>1, <1>6, <2>3 DEF Request, KeyOf, Holding
  <2>. QED  BY <1>11, <2>2, <2>3 DEF Apart
<1>12. OpenInv'  BY <1>9, <1>10, <1>11 DEF OpenInv
<1>. QED  BY <1>2, <1>3, <1>5, <1>8, <1>12 DEF IInv, TypeOK, RowType

LEMMA CommitInv ==
    ASSUME IInv, NEW n \in Connection, Commit(n)
    PROVE  IInv'
<1>1. Commits(n) /\ UNCHANGED <<ask, answers, faults>>
      /\ conn' = [conn EXCEPT ![n].pc = "fetch"]
  BY DEF Commit
<1>2. AcceptedIsStored' /\ RefusedRightly'  BY <1>1, CommitsRow, SameAnswers
<1>3. TypeOK'  BY <1>1, CommitsRow DEF IInv, TypeOK, RowType
<1>. QED  BY <1>1, <1>2, <1>3, CommitsRow DEF IInv

LEMMA CommitReplyLostInv ==
    ASSUME IInv, NEW n \in Connection, CommitReplyLost(n)
    PROVE  IInv'
<1> DEFINE a == [code |-> 500, id |-> NoId]
           c == conn[n].client
<1>1. /\ Commits(n) /\ Fault /\ UNCHANGED ask
      /\ conn' = [conn EXCEPT ![n] = Free]
      /\ answers' = [answers EXCEPT ![c] = @ \cup {a}]
  BY DEF CommitReplyLost
<1>2. c \in Client
  BY <1>1, FreeIsNoRequest DEF Commits, IInv, TypeOK, Free, Request
<1>3. /\ jobs \subseteq jobs' /\ RowsInv' /\ OpenInv'
      /\ jobs' \subseteq RowType
      /\ conn' \in [Connection -> {Free} \cup Request]
  BY <1>1, CommitsRow
<1>4. a \in AnswerType /\ Right(c, a)  BY DEF AnswerType, Right
<1> HIDE DEF a, c
<1>5. AcceptedIsStored' /\ RefusedRightly'  BY <1>1, <1>2, <1>3, <1>4, NewAnswer
<1>6. TypeOK'
  <2>1. IInv => TypeOK  BY DEF IInv
  <2>2. answers' \in [Client -> SUBSET AnswerType]
    BY <1>1, <1>2, <1>4, <2>1, AnswerTypes
  <2>3. faults' \in 0 .. MaxFaults  BY <1>1, <2>1, FaultType
  <2>. QED  BY <1>1, <1>3, <2>2, <2>3 DEF IInv, TypeOK, AnswerType, RowType
<1>. QED  BY <1>3, <1>5, <1>6 DEF IInv

\* An answer of the handler, which arrives or not, and the end of its work.
Ends(n, a) ==
    /\ conn' = [conn EXCEPT ![n] = Free]
    /\ answers' \in {answers, [answers EXCEPT ![conn[n].client] = @ \cup {a}]}
    /\ Fault \/ UNCHANGED faults
    /\ UNCHANGED <<ask, jobs>>

LEMMA EndsInv ==
    ASSUME IInv, NEW n \in Connection, conn[n] # Free, NEW a \in AnswerType,
           Ends(n, a), Right(conn[n].client, a)
    PROVE  IInv'
<1>1. conn[n].client \in Client  BY DEF IInv, TypeOK, Request
<1>2. AcceptedIsStored' /\ RefusedRightly'  BY <1>1, NewAnswer DEF Ends
<1>3. RowsInv' /\ OpenInv'  BY Released DEF Ends
<1>4. TypeOK  BY DEF IInv
<1>5. answers' \in [Client -> SUBSET AnswerType]  BY <1>1, <1>4, AnswerTypes DEF Ends
<1>6. faults' \in 0 .. MaxFaults  BY <1>4, FaultType DEF Ends
<1>7. conn' \in [Connection -> {Free} \cup Request]  BY <1>4 DEF TypeOK, Ends
<1>8. TypeOK'  BY <1>4, <1>5, <1>6, <1>7 DEF TypeOK, AnswerType, Ends
<1>. QED  BY <1>2, <1>3, <1>8 DEF IInv

\* The hash of a body finds the rows that were asked for the same.
LEMMA HashFinds ==
    ASSUME IInv, NEW n \in Connection, conn[n] # Free, NEW j \in jobs
    PROVE  SameRequest(n, j) <=> j.input = ask[conn[n].client].input
<1>1. conn[n].body \in Body /\ asked[conn[n].body] = ask[conn[n].client].input
  BY DEF IInv, TypeOK, Request, OpenInv, RequestInv
<1>2. PICK body \in Body : j.hash = hashed[body] /\ j.input = asked[body]
  BY DEF IInv, RowsInv
<1>3. hashed[body] = hashed[conn[n].body] <=> asked[body] = asked[conn[n].body]
  BY <1>1, HashedTell
<1>. QED  BY <1>1, <1>2, <1>3 DEF SameRequest

\* What a handler tells its client at its end is right.
LEMMA HandledEnds ==
    ASSUME IInv, NEW n \in Connection,
           Accept(n) \/ AcceptAgain(n) \/ Refuse(n) \/ Fail(n)
    PROVE  /\ conn[n] # Free
           /\ \E a \in AnswerType : /\ Ends(n, a) /\ Right(conn[n].client, a)
                                    /\ a.code # 202 => a.id = NoId
<1> DEFINE c == conn[n].client
<1>0. conn[n] # Free
  BY DEF Accept, AcceptAgain, Refuse, Fail, Free
<1>1. conn[n] \in Request /\ RequestInv(n) /\ conn[n].id \in JobId
  BY <1>0 DEF IInv, TypeOK, OpenInv, Request
<1>2. CASE Accept(n)
  <2>1. PICK a : a = [code |-> 202, id |-> conn[n].id]  OBVIOUS
  <2>2. a \in AnswerType /\ a.code = 202 /\ a.id = conn[n].id
    BY <1>1, <2>1 DEF AnswerType, Final
  <2>3. Right(c, a)  BY <1>1, <1>2, <2>2 DEF Right, Accept, RequestInv, Row, KeyOf
  <2>4. Ends(n, a)  BY <1>2, <2>1 DEF Ends, Accept, Answer
  <2>. QED  BY <1>0, <2>2, <2>3, <2>4
<1>3. CASE AcceptAgain(n)
  <2>1. PICK j \in Keyed(KeyOf(n)) : SameRequest(n, j) /\ Answer(n, 202, j.id)
    BY <1>3 DEF AcceptAgain
  <2>2. PICK a : a = [code |-> 202, id |-> j.id]  OBVIOUS
  <2>3. j \in jobs /\ j.key = ask[c].key /\ j.id \in JobId
    BY <2>1 DEF Keyed, KeyOf, IInv, TypeOK
  <2>4. j.input = ask[c].input
    BY <1>0, <2>1, <2>3, HashFinds
  <2>5. a \in AnswerType /\ Right(c, a) /\ a.code = 202
    BY <2>2, <2>3, <2>4 DEF AnswerType, Right, Final
  <2>6. Ends(n, a)  BY <2>1, <2>2 DEF Ends, Answer
  <2>. QED  BY <1>0, <2>5, <2>6
<1>4. CASE Refuse(n)
  <2>1. PICK j \in Keyed(KeyOf(n)) : ~SameRequest(n, j) /\ Answer(n, 409, NoId)
    BY <1>4 DEF Refuse
  <2>2. PICK a : a = [code |-> 409, id |-> NoId]  OBVIOUS
  <2>3. j \in Keyed(ask[c].key) /\ j.input # ask[c].input
    <3>1. j \in jobs /\ j \in Keyed(ask[c].key)  BY <2>1 DEF Keyed, KeyOf
    <3>. QED  BY <1>0, <2>1, <3>1, HashFinds
  <2>4. ask[c].key # NoKey  BY <1>1, <1>4 DEF Refuse, RequestInv, Taken, KeyOf
  <2>5. a \in AnswerType /\ Right(c, a) /\ a.id = NoId
    BY <2>2, <2>3, <2>4 DEF AnswerType, Right, Final
  <2>6. Ends(n, a)  BY <2>1, <2>2 DEF Ends, Answer
  <2>. QED  BY <1>0, <2>5, <2>6
<1>5. CASE Fail(n)
  <2>1. PICK a : a = [code |-> 500, id |-> NoId]  OBVIOUS
  <2>2. a \in AnswerType /\ Right(c, a) /\ a.id = NoId  BY <2>1 DEF AnswerType, Right
  <2>3. Ends(n, a)  BY <1>5, <2>1 DEF Ends, Fail
  <2>. QED  BY <1>0, <2>2, <2>3
<1>. QED  BY <1>2, <1>3, <1>4, <1>5

LEMMA HandledInv ==
    ASSUME IInv, NEW n \in Connection,
           Accept(n) \/ AcceptAgain(n) \/ Refuse(n) \/ Fail(n)
    PROVE  IInv'
BY HandledEnds, EndsInv

-----------------------------------------------------------------------------
\* The inductive invariant holds in every reachable state.
THEOREM Invariance == Spec => []IInv
<1>1. Init => IInv  BY InitInv
<1>2. IInv /\ [Next]_vars => IInv'
  <2>. SUFFICES ASSUME IInv, [Next]_vars  PROVE IInv'  OBVIOUS
  <2>1. CASE UNCHANGED vars
    BY <2>1 DEF vars, IInv, TypeOK, RowsInv, OpenInv, RequestInv, Apart, Row, Taken, KeyOf,
                Keyed, Holding, AcceptedIsStored, RefusedRightly
  <2>2. ASSUME NEW n \in Connection, NEW c \in Client, Receive(n, c)  PROVE IInv'
    BY <2>2, ReceiveInv
  <2>3. ASSUME NEW n \in Connection, Handle(n) \/ Fail(n) \/ CommitReplyLost(n)
        PROVE  IInv'
    BY <2>3, InsertInv, CommitInv, HandledInv, CommitReplyLostInv DEF Handle
  <2>. QED  BY <2>1, <2>2, <2>3 DEF Next
<1>. QED  BY <1>1, <1>2, PTL DEF Spec

\* Every variable keeps its type.
THEOREM TypeCorrect == Spec => []TypeOK
<1>1. IInv => TypeOK  BY DEF IInv
<1>. QED  BY <1>1, Invariance, PTL

\* Whoever is told 202 has its very request in the table.
THEOREM AcceptedRequestsAreStored == Spec => []AcceptedIsStored
<1>1. IInv => AcceptedIsStored  BY DEF IInv
<1>. QED  BY <1>1, Invariance, PTL

\* An accepted row is the one of the request: ids name one row.
LEMMA AcceptedRow ==
    ASSUME IInv, NEW c \in Client, NEW j \in jobs, Accepted(c, j)
    PROVE  j.key = ask[c].key /\ j.input = ask[c].input
<1>1. PICK k \in jobs : k.id = j.id /\ k.key = ask[c].key /\ k.input = ask[c].input
  BY DEF Accepted, IInv, AcceptedIsStored
<1>. QED  BY <1>1 DEF IInv, RowsInv

\* All 202 answers for one key name one job.
THEOREM KeysNameOneJob == Spec => []SameKeySameJob
<1>1. IInv => SameKeySameJob
  <2>. SUFFICES ASSUME IInv, NEW c \in Client, NEW d \in Client,
                       NEW j \in jobs, NEW k \in jobs,
                       ask[c].key # NoKey, ask[c].key = ask[d].key,
                       Accepted(c, j), Accepted(d, k)
                PROVE  j = k
    BY DEF SameKeySameJob
  <2>1. j.key = ask[c].key /\ k.key = ask[d].key  BY AcceptedRow
  <2>. QED  BY <2>1 DEF IInv, RowsInv
<1>. QED  BY <1>1, Invariance, PTL

\* Nobody is refused for a retry of its own request.
THEOREM ConflictsAreReal == Spec => []ConflictIsReal
<1>1. IInv => ConflictIsReal
  <2>. SUFFICES ASSUME IInv, NEW c \in Client, [code |-> 409, id |-> NoId] \in answers[c]
                PROVE  /\ \E j \in Keyed(ask[c].key) : j.input # ask[c].input
                       /\ \A j \in jobs : ~Accepted(c, j)
    BY DEF ConflictIsReal
  <2>1. PICK k \in Keyed(ask[c].key) : k.input # ask[c].input
    BY DEF IInv, RefusedRightly
  <2>2. ask[c].key # NoKey /\ k \in jobs /\ k.key = ask[c].key
    BY <2>1 DEF IInv, RefusedRightly, Keyed
  <2>3. ASSUME NEW j \in jobs, Accepted(c, j)  PROVE FALSE
    <3>1. j.key = ask[c].key /\ j.input = ask[c].input  BY <2>3, AcceptedRow
    <3>. QED  BY <2>1, <2>2, <3>1 DEF IInv, RowsInv
  <2>. QED  BY <2>1, <2>3
<1>. QED  BY <1>1, Invariance, PTL

\* A request that meets the row of its key finds out, from the two hashes alone,
\* whether it is the same request, however either was written.
THEOREM HashesHaveTheMeaning == Spec => []HashIsMeaning
<1>1. IInv => HashIsMeaning
  <2>. SUFFICES ASSUME IInv, NEW n \in Connection, conn[n].pc = "duplicate",
                       NEW j \in Keyed(KeyOf(n))
                PROVE  SameRequest(n, j) <=> j.input = ask[conn[n].client].input
    BY DEF HashIsMeaning
  <2>1. conn[n] # Free /\ j \in jobs  BY DEF Free, Keyed
  <2>. QED  BY <2>1, HashFinds
<1>. QED  BY <1>1, Invariance, PTL

-----------------------------------------------------------------------------
(***************************************************************************)
(* The promise: requests as if decided one at a time.                      *)
(***************************************************************************)
Book == { Job(j) : j \in jobs }

LEMMA BookType ==
    \A j : /\ Job(j).id = j.id /\ Job(j).key = j.key /\ Job(j).input = j.input
           /\ j \in jobs => Job(j) \in Book
BY DEF Job, Book

\* The row of a request, at its commit, is a job nobody has entered.
LEMMA CommitEnters ==
    ASSUME IInv, NEW n \in Connection, Commits(n), UNCHANGED ask,
           NEW c, c = conn[n].client,
           UNCHANGED answers \/ Promise!Tell(c, 500, NoId)
    PROVE  Promise!Next
<1>1. conn[n].pc = "commit" /\ conn[n] \in Request /\ conn[n] # Free
  BY FreeIsNoRequest DEF Commits, IInv, TypeOK, Free
<1>2. PICK id \in JobId : id = conn[n].id  BY <1>1 DEF Request
<1>3. RequestInv(n) /\ c \in Client  BY <1>1 DEF IInv, OpenInv, Request
<1>4. Job(Row(n)) = [id |-> id, key |-> ask[c].key, input |-> ask[c].input]
  BY <1>2, <1>3 DEF Job, Row, KeyOf, RequestInv
<1>5. Book' = Book \cup {Job(Row(n))}
  BY Zenon DEF Book, Commits
<1>6. Promise!Keyed(c) = {}
  <2>1. \A j \in jobs : j.key # NoKey => j.key # ask[c].key
    BY <1>1, <1>3 DEF RequestInv, Taken, Keyed, KeyOf
  <2>2. \A b \in Book : b.key # NoKey => b.key # ask[c].key
    BY <2>1, BookType DEF Book
  <2>. QED  BY <2>2 DEF Promise!Keyed, Book
<1>7. \A b \in Book : b.id # id
  <2>1. \A j \in jobs : j.id # id  BY <1>1, <1>2, <1>3 DEF RequestInv
  <2>. QED  BY <2>1, BookType DEF Book
<1>8. Promise!Enter(c, id)
  BY <1>4, <1>5, <1>6, <1>7 DEF Promise!Enter, Book
<1>. QED  BY <1>2, <1>3, <1>8 DEF Promise!Next

\* A handler that ends its work tells its client what the book says, or nothing.
LEMMA AnswerTells ==
    ASSUME IInv, NEW n \in Connection, conn[n] # Free,
           NEW a \in AnswerType, Ends(n, a), Right(conn[n].client, a),
           a.code # 202 => a.id = NoId
    PROVE  [Promise!Next]_Promise!vars
<1>1. PICK c \in Client : c = conn[n].client  BY DEF IInv, TypeOK, Request
<1>2. Book' = Book  BY DEF Ends, Book
<1>3. CASE UNCHANGED answers
  BY <1>2, <1>3 DEF Ends, Book, Promise!vars
<1>4. CASE answers' = [answers EXCEPT ![c] = @ \cup {a}]
  <2>1. a = [code |-> a.code, id |-> a.id] /\ a.code \in {202, 409, 500}
    BY DEF AnswerType, Final
  <2>2. Promise!Tell(c, a.code, a.id) /\ UNCHANGED ask
    BY <1>4, <2>1 DEF Promise!Tell, Ends
  <2>3. CASE a.code = 202
    <3>1. PICK j \in jobs : j.id = a.id /\ j.key = ask[c].key /\ j.input = ask[c].input
      BY <1>1, <2>3 DEF Right
    <3>2. PICK b \in Book : b.id = a.id /\ b.key = ask[c].key /\ b.input = ask[c].input
      BY <3>1, BookType
    <3>3. Promise!Accept(c)  BY <1>2, <2>2, <2>3, <3>2 DEF Promise!Accept, Book
    <3>. QED  BY <2>2, <3>3, Zenon DEF Promise!Next
  <2>4. CASE a.code = 409
    <3>1. PICK j \in jobs : j.key = ask[c].key /\ j.key # NoKey /\ j.input # ask[c].input
      BY <1>1, <2>4 DEF Right, Keyed
    <3>2. PICK b \in Book : b.key = ask[c].key /\ b.key # NoKey /\ b.input # ask[c].input
      BY <3>1, BookType
    <3>3. b \in Promise!Keyed(c)  BY <3>2 DEF Promise!Keyed, Book
    <3>4. Promise!Refuse(c)
      BY <1>2, <2>2, <2>4, <3>2, <3>3 DEF Promise!Refuse, Book
    <3>. QED  BY <2>2, <3>4, Zenon DEF Promise!Next
  <2>5. CASE a.code = 500
    <3>1. Promise!Fail(c)  BY <1>2, <2>2, <2>5 DEF Promise!Fail, Book
    <3>. QED  BY <2>2, <3>1, Zenon DEF Promise!Next
  <2>. QED  BY <2>1, <2>3, <2>4, <2>5
<1>. QED  BY <1>1, <1>3, <1>4 DEF Ends

\* A step inside a handler tells nobody anything.
LEMMA SilentStep ==
    ASSUME UNCHANGED <<ask, jobs, answers>>  PROVE [Promise!Next]_Promise!vars
<1>1. Book' = Book  BY DEF Book
<1>. QED  BY <1>1 DEF Book, Promise!vars

\* However handlers of one key interleave and whatever fails, every request is
\* decided at one moment: its commit, or when the row of its key is found.
THEOREM RequestsOneAtATime == Spec => ImplementsPromise
<1>1. Init => Promise!Init
  <2>1. Init => Book = {}  BY DEF Init, Book
  <2>. QED  BY <2>1 DEF Init, Promise!Init, Book
<1>2. IInv /\ [Next]_vars => [Promise!Next]_Promise!vars
  <2>. SUFFICES ASSUME IInv, [Next]_vars  PROVE [Promise!Next]_Promise!vars  OBVIOUS
  <2>1. ASSUME NEW n \in Connection,
               (\E c \in Client : Receive(n, c)) \/ Insert(n) \/ InsertRefused(n)
        PROVE  [Promise!Next]_Promise!vars
    BY <2>1, SilentStep DEF Receive, Insert, InsertRefused
  <2>2. ASSUME NEW n \in Connection, Commit(n) \/ CommitReplyLost(n)
        PROVE  Promise!Next
    <3>1. PICK c : c = conn[n].client  OBVIOUS
    <3>2. UNCHANGED answers \/ Promise!Tell(c, 500, NoId)
      BY <2>2, <3>1 DEF Commit, CommitReplyLost, Promise!Tell
    <3>. QED  BY <2>2, <3>1, <3>2, CommitEnters DEF Commit, CommitReplyLost
  <2>3. ASSUME NEW n \in Connection, Accept(n) \/ AcceptAgain(n) \/ Refuse(n) \/ Fail(n)
        PROVE  [Promise!Next]_Promise!vars
    BY <2>3, HandledEnds, AnswerTells
  <2>4. CASE UNCHANGED vars  BY <2>4, SilentStep DEF vars
  <2>. QED  BY <2>1, <2>2, <2>3, <2>4 DEF Next, Handle
<1>. QED  BY <1>1, <1>2, Invariance, PTL DEF Spec, ImplementsPromise, Promise!Spec
=============================================================================
