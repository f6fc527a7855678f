------------------------------- MODULE UtilsProofs -------------------------------
(***************************************************************************)
(* Safety of the parts of Utils for any values of their constants: the     *)
(* names of UniqueName, the calls and the output of DockerExec, and the    *)
(* lines of LineWriter.  Each part goes from its inductive invariant over  *)
(* the steps of its own specification to the specification of Utils.       *)
(***************************************************************************)
EXTENDS Utils, FiniteSetTheorems, SequenceTheorems, WellFoundedInduction, TLAPS

-----------------------------------------------------------------------------
(* How many of the numbers from 1 to n are in a set: the frames of a       *)
(* stream among the first n frames, the newlines among the first n bytes.  *)

Rank(T, n) == Cardinality({m \in 1 .. n : m \in T})

\* The modules of DockerExec and LineWriter count as this one does.
LEMMA SameCardinality ==
  \A S : Exec!Cardinality(S) = Cardinality(S) /\ Lines!Cardinality(S) = Cardinality(S)
BY DEF Exec!Cardinality, Lines!Cardinality, Cardinality

LEMMA RankType ==
  ASSUME NEW T, NEW n \in Nat
  PROVE  IsFiniteSet({m \in 1 .. n : m \in T}) /\ Rank(T, n) \in Nat
<1>1. IsFiniteSet(1 .. n)
  BY FS_Interval
<1>2. IsFiniteSet({m \in 1 .. n : m \in T})
  BY <1>1, FS_Subset
<1> QED
  BY <1>2, FS_CardinalityType DEF Rank

LEMMA RankZero ==
  ASSUME NEW T
  PROVE  Rank(T, 0) = 0
<1>1. {m \in 1 .. 0 : m \in T} = {}
  OBVIOUS
<1> QED
  BY <1>1, FS_EmptySet DEF Rank

LEMMA RankStep ==
  ASSUME NEW T, NEW n \in Nat
  PROVE  Rank(T, n + 1) = IF n + 1 \in T THEN Rank(T, n) + 1 ELSE Rank(T, n)
<1> DEFINE S == {m \in 1 .. n : m \in T}
<1>1. IsFiniteSet(S) /\ n + 1 \notin S
  BY RankType
<1>2. CASE n + 1 \in T
  <2>1. {m \in 1 .. n + 1 : m \in T} = S \cup {n + 1}
    BY <1>2
  <2>2. Cardinality(S \cup {n + 1}) = Cardinality(S) + 1
    BY <1>1, FS_AddElement
  <2> QED
    BY <1>2, <2>1, <2>2 DEF Rank
<1>3. CASE n + 1 \notin T
  <2>1. {m \in 1 .. n + 1 : m \in T} = S
    BY <1>3
  <2> QED
    BY <1>3, <2>1 DEF Rank
<1> QED
  BY <1>2, <1>3

LEMMA RankMonotone ==
  ASSUME NEW T, NEW m \in Nat, NEW n \in Nat, m <= n
  PROVE  Rank(T, m) <= Rank(T, n)
<1>1. {i \in 1 .. m : i \in T} \in SUBSET {i \in 1 .. n : i \in T}
  OBVIOUS
<1>2. IsFiniteSet({i \in 1 .. n : i \in T})
  BY RankType
<1> QED
  BY <1>1, <1>2, FS_Subset DEF Rank

\* A member of the set has a rank of its own.
LEMMA RankOfMember ==
  ASSUME NEW T, NEW m \in Nat, NEW n \in Nat, m < n, n \in T
  PROVE  Rank(T, m) < Rank(T, n)
<1>1. n - 1 \in Nat /\ m <= n - 1 /\ (n - 1) + 1 = n
  OBVIOUS
<1>2. Rank(T, m) <= Rank(T, n - 1)
  BY <1>1, RankMonotone
<1>3. Rank(T, (n - 1) + 1) = Rank(T, n - 1) + 1
  BY <1>1, RankStep
<1>4. Rank(T, m) \in Nat /\ Rank(T, n - 1) \in Nat
  BY <1>1, RankType
<1> QED
  BY <1>1, <1>2, <1>3, <1>4

\* Only the members up to n count.
LEMMA RankSame ==
  ASSUME NEW T, NEW U, NEW n \in Nat, \A i \in 1 .. n : i \in T <=> i \in U
  PROVE  Rank(T, n) = Rank(U, n)
<1>1. {i \in 1 .. n : i \in T} = {i \in 1 .. n : i \in U}
  OBVIOUS
<1> QED
  BY <1>1 DEF Rank

LEMMA LeastNat ==
  ASSUME NEW T, T \subseteq Nat, T # {}
  PROVE  \E m \in T : \A n \in T : m <= n
<1> DEFINE R == OpToRel(<, Nat)
<1>1. IsWellFoundedOn(R, Nat)
  BY NatLessThanWellFounded
<1>2. \A m, n \in Nat : m < n => <<m, n>> \in R
  BY DEF OpToRel
<1> HIDE DEF R
<1>3. PICK m \in T : \A n \in T : ~ (<<n, m>> \in R)
  BY <1>1, WFMin
<1>4. ASSUME NEW n \in T PROVE m <= n
  <2>1. m \in Nat /\ n \in Nat /\ ~ (n < m)
    BY <1>2, <1>3
  <2> QED
    BY <2>1
<1> QED
  BY <1>4

\* Every rank up to that of n is the rank of a member up to n.
LEMMA RankReached ==
  ASSUME NEW T, NEW n \in Nat, NEW k \in 1 .. Rank(T, n)
  PROVE  \E m \in 1 .. n : m \in T /\ Rank(T, m) = k
<1> DEFINE L == {m \in Nat : Rank(T, m) >= k}
<1>8. Rank(T, n) \in Nat
  BY RankType
<1>0. k \in Nat /\ k >= 1 /\ Rank(T, n) >= k
  BY <1>8
<1>1. n \in L /\ L \subseteq Nat
  BY <1>0
<1>2. PICK m \in L : \A i \in L : m <= i
  BY <1>1, LeastNat
<1>3. m \in Nat /\ m <= n /\ m # 0 /\ Rank(T, m) >= k
  BY <1>0, <1>1, <1>2, RankZero
<1>4. m - 1 \in Nat /\ (m - 1) + 1 = m /\ m - 1 \notin L
  BY <1>2, <1>3
<1>5. Rank(T, m - 1) \in Nat /\ Rank(T, m - 1) < k
  <2>1. Rank(T, m - 1) \in Nat
    BY <1>4, RankType
  <2>2. ~ (Rank(T, m - 1) >= k)
    BY <1>4
  <2> QED
    BY <1>0, <2>1, <2>2
<1>6. Rank(T, m) = IF m \in T THEN Rank(T, m - 1) + 1 ELSE Rank(T, m - 1)
  <2>1. Rank(T, (m - 1) + 1) = IF (m - 1) + 1 \in T THEN Rank(T, m - 1) + 1 ELSE Rank(T, m - 1)
    BY <1>4, RankStep
  <2> QED
    BY <1>4, <2>1
<1>7. m \in T /\ Rank(T, m) = k
  BY <1>0, <1>3, <1>5, <1>6
<1> QED
  BY <1>3, <1>7

\* Ranks of two sets of which one is moved behind the other.
LEMMA RankJoined ==
  ASSUME NEW T, NEW U, NEW a \in Nat, NEW b \in Nat, \A j \in 1 .. b : a + j \in U <=> j \in T
  PROVE  \A j \in 0 .. b : Rank(U, a + j) = Rank(U, a) + Rank(T, j)
<1> DEFINE Wrong == {j \in 0 .. b : Rank(U, a + j) # Rank(U, a) + Rank(T, j)}
<1> SUFFICES ASSUME Wrong # {} PROVE FALSE
  OBVIOUS
<1>1. PICK j \in Wrong : \A i \in Wrong : j <= i
  <2>1. Wrong \subseteq Nat
    OBVIOUS
  <2> QED
    BY <2>1, LeastNat
<1>2. j \in 0 .. b /\ Rank(U, a + j) # Rank(U, a) + Rank(T, j)
  OBVIOUS
<1>3. Rank(U, a) \in Nat /\ Rank(T, 0) = 0
  BY RankType, RankZero
<1>4. j # 0
  BY <1>2, <1>3
<1>5. j - 1 \in 0 .. b /\ j - 1 \notin Wrong /\ j - 1 \in Nat /\ a + (j - 1) \in Nat
      /\ (j - 1) + 1 = j /\ (a + (j - 1)) + 1 = a + j
  BY <1>1, <1>2, <1>4
<1>6. Rank(U, a + (j - 1)) = Rank(U, a) + Rank(T, j - 1)
  BY <1>5
<1> HIDE DEF Wrong
<1>7. Rank(T, j) = IF j \in T THEN Rank(T, j - 1) + 1 ELSE Rank(T, j - 1)
  <2>1. Rank(T, (j - 1) + 1) =
          IF (j - 1) + 1 \in T THEN Rank(T, j - 1) + 1 ELSE Rank(T, j - 1)
    BY <1>5, RankStep
  <2> QED
    BY <1>5, <2>1
<1>8. Rank(U, a + j) =
        IF a + j \in U THEN Rank(U, a + (j - 1)) + 1 ELSE Rank(U, a + (j - 1))
  <2> DEFINE i == a + (j - 1)
  <2>1. i \in Nat /\ i + 1 = a + j
    BY <1>5
  <2> HIDE DEF i
  <2>2. Rank(U, i + 1) = IF i + 1 \in U THEN Rank(U, i) + 1 ELSE Rank(U, i)
    BY <2>1, RankStep
  <2> QED
    BY <2>1, <2>2 DEF i
<1>9. a + j \in U <=> j \in T
  BY <1>2, <1>4
<1>10. Rank(T, j - 1) \in Nat
  BY <1>5, RankType
<1> QED
  BY <1>2, <1>3, <1>6, <1>7, <1>8, <1>9, <1>10

-----------------------------------------------------------------------------
(* Parts of sequences.                                                     *)

LEMMA FunctionIsSeq ==
  ASSUME NEW S, NEW n \in Nat, NEW f \in [1 .. n -> S]
  PROVE  f \in Seq(S) /\ Len(f) = n
OBVIOUS

LEMMA SubSeqOfMoved ==
  ASSUME NEW S, NEW t \in Seq(S), NEW u, NEW a \in Nat, NEW m \in Int, NEW n \in Int,
         \A i \in m .. n : i \in 1 .. Len(t),
         \A i \in 1 .. Len(t) : u[a + i] = t[i]
  PROVE  SubSeq(u, a + m, a + n) = SubSeq(t, m, n)
<1> DEFINE v == SubSeq(t, m, n)
           w == SubSeq(u, a + m, a + n)
<1>1. \A i \in m .. n : t[i] \in S
  BY ElementOfSeq
<1>2. /\ v \in Seq(S) /\ Len(v) = IF m <= n THEN n - m + 1 ELSE 0
      /\ \A i \in 1 .. n - m + 1 : v[i] = t[m + i - 1]
  BY <1>1, SubSeqProperties
<1>3. a + m \in Int /\ a + n \in Int /\ (a + n) - (a + m) + 1 = n - m + 1
      /\ (a + m <= a + n <=> m <= n)
  OBVIOUS
<1>4. \A j \in a + m .. a + n : u[j] \in S
  <2> TAKE j \in a + m .. a + n
  <2>1. j - a \in m .. n /\ a + (j - a) = j
    OBVIOUS
  <2> QED
    BY <1>1, <2>1
<1> DEFINE p == a + m
           q == a + n
<1>5. p \in Int /\ q \in Int /\ \A j \in p .. q : u[j] \in S
  BY <1>3, <1>4
<1> HIDE DEF p, q
<1>6. /\ SubSeq(u, p, q) \in Seq(S)
      /\ Len(SubSeq(u, p, q)) = IF p <= q THEN q - p + 1 ELSE 0
      /\ \A i \in 1 .. q - p + 1 : SubSeq(u, p, q)[i] = u[p + i - 1]
  BY <1>5, SubSeqProperties
<1>7. w \in Seq(S) /\ Len(w) = Len(v)
      /\ \A i \in 1 .. n - m + 1 : w[i] = u[(a + m) + i - 1]
  BY <1>2, <1>3, <1>6 DEF p, q
<1>8. ASSUME NEW i \in 1 .. Len(v) PROVE w[i] = v[i]
  <2>1. m <= n /\ i \in 1 .. n - m + 1 /\ m + i - 1 \in m .. n
    BY <1>2
  <2>2. (a + m) + i - 1 = a + (m + i - 1)
    OBVIOUS
  <2>3. m + i - 1 \in 1 .. Len(t)
    BY <2>1
  <2>4. u[a + (m + i - 1)] = t[m + i - 1]
    BY <2>3
  <2> QED
    BY <1>2, <1>7, <2>1, <2>2, <2>4
<1> HIDE DEF v, w
<1>9. w = v
  BY <1>2, <1>7, <1>8, SeqEqual
<1> QED
  BY <1>9 DEF v, w

LEMMA SubSeqOfSame ==
  ASSUME NEW S, NEW s \in Seq(S), NEW u, NEW m \in Int, NEW n \in Int,
         \A i \in m .. n : i \in 1 .. Len(s),
         \A i \in 1 .. Len(s) : u[i] = s[i]
  PROVE  SubSeq(u, m, n) = SubSeq(s, m, n)
<1>1. \A i \in 1 .. Len(s) : u[0 + i] = s[i]
  OBVIOUS
<1>2. SubSeq(u, 0 + m, 0 + n) = SubSeq(s, m, n)
  BY <1>1, SubSeqOfMoved
<1> QED
  BY <1>2

LEMMA SubSeqAcross ==
  ASSUME NEW S, NEW s \in Seq(S), NEW t \in Seq(S),
         NEW m \in 1 .. Len(s) + 1, NEW n \in 0 .. Len(t)
  PROVE  SubSeq(s \o t, m, Len(s) + n) = SubSeq(s, m, Len(s)) \o SubSeq(t, 1, n)
<1> DEFINE u == s \o t
           q == Len(s) + n
           v == SubSeq(u, m, q)
           x == SubSeq(s, m, Len(s))
           y == SubSeq(t, 1, n)
<1>1. /\ u \in Seq(S) /\ Len(u) = Len(s) + Len(t) /\ Len(s) \in Nat /\ Len(t) \in Nat
      /\ \A i \in 1 .. Len(s) + Len(t) : u[i] = IF i <= Len(s) THEN s[i] ELSE t[i - Len(s)]
  BY ConcatProperties, LenProperties
<1> HIDE DEF u
<1>2. m \in Int /\ q \in Int /\ \A i \in m .. q : i \in 1 .. Len(u)
  BY <1>1
<1>3. \A i \in m .. q : u[i] \in S
  BY <1>1, <1>2, ElementOfSeq
<1>4. /\ v \in Seq(S) /\ Len(v) = IF m <= q THEN q - m + 1 ELSE 0
      /\ \A i \in 1 .. q - m + 1 : v[i] = u[m + i - 1]
  <2> HIDE DEF q
  <2> QED
    BY <1>2, <1>3, SubSeqProperties
<1>5. /\ x \in Seq(S) /\ Len(x) = IF m <= Len(s) THEN Len(s) - m + 1 ELSE 0
      /\ \A i \in 1 .. Len(s) - m + 1 : x[i] = s[m + i - 1]
  <2>1. Len(s) \in Int /\ \A i \in m .. Len(s) : s[i] \in S
    BY <1>1, ElementOfSeq
  <2> QED
    BY <1>2, <2>1, SubSeqProperties
<1>6. /\ y \in Seq(S) /\ Len(y) = IF 1 <= n THEN n - 1 + 1 ELSE 0
      /\ \A i \in 1 .. n - 1 + 1 : y[i] = t[1 + i - 1]
  <2>1. n \in Int /\ 1 \in Int /\ \A i \in 1 .. n : t[i] \in S
    BY <1>1, ElementOfSeq
  <2> QED
    BY <2>1, SubSeqProperties
<1> HIDE DEF v, x, y
<1>7. Len(x) = Len(s) - m + 1 /\ Len(y) = n /\ Len(v) = Len(s) + n - m + 1
      /\ Len(x) \in Nat
  BY <1>1, <1>4, <1>5, <1>6
<1>8. /\ x \o y \in Seq(S) /\ Len(x \o y) = Len(x) + Len(y)
      /\ \A i \in 1 .. Len(x) + Len(y) : (x \o y)[i] = IF i <= Len(x) THEN x[i] ELSE y[i - Len(x)]
  BY <1>5, <1>6, ConcatProperties
<1>9. ASSUME NEW i \in 1 .. Len(v) PROVE v[i] = (x \o y)[i]
  <2>1. /\ i \in 1 .. q - m + 1 /\ m + i - 1 \in 1 .. Len(s) + Len(t)
        /\ i \in 1 .. Len(x) + Len(y)
    BY <1>1, <1>7
  <2>2. v[i] = IF m + i - 1 <= Len(s) THEN s[m + i - 1] ELSE t[(m + i - 1) - Len(s)]
    <3> DEFINE j == m + i - 1
    <3>1. v[i] = u[j] /\ j \in 1 .. Len(s) + Len(t)
      BY <1>4, <2>1
    <3> HIDE DEF j
    <3>2. v[i] = IF j <= Len(s) THEN s[j] ELSE t[j - Len(s)]
      BY <1>1, <3>1
    <3> QED
      BY <3>2 DEF j
  <2>3. CASE i <= Len(x)
    <3>1. i \in 1 .. Len(s) - m + 1 /\ m + i - 1 <= Len(s)
      BY <1>1, <1>7, <2>3
    <3> QED
      BY <1>5, <1>8, <2>1, <2>2, <2>3, <3>1
  <2>4. CASE ~ (i <= Len(x))
    <3> DEFINE j == i - Len(x)
    <3>1. j \in 1 .. n - 1 + 1 /\ ~ (m + i - 1 <= Len(s)) /\ (m + i - 1) - Len(s) = j
          /\ 1 + j - 1 = j
      BY <1>1, <1>7, <2>4
    <3>2. (x \o y)[i] = y[j]
      BY <1>8, <2>1, <2>4
    <3> HIDE DEF j
    <3>3. y[j] = t[j] /\ v[i] = t[j]
      BY <1>6, <2>2, <3>1
    <3> QED
      BY <3>2, <3>3
  <2> QED
    BY <2>3, <2>4
<1>10. v = x \o y
  <2>1. Len(v) = Len(x \o y)
    BY <1>1, <1>7, <1>8
  <2> QED
    BY <1>4, <1>8, <1>9, <2>1, SeqEqual
<1> QED
  BY <1>10 DEF v, x, y, u, q

-----------------------------------------------------------------------------
(* UniqueName.                                                             *)

Numbered(p, n) == p \o <<Dash, [number |-> n]>>

\* A name that was given out has a number that its prefix has used up.
NamesInv ==
  /\ call \in [Calls -> {"start", "add", "done"}]
  /\ prefix \in [Calls -> Seq(Texts)]
  /\ counters \in [DOMAIN counters -> Nat]
  /\ name = [c \in Calls |-> name[c]]
  /\ \A c \in Calls : call[c] # "start" => prefix[c] \in DOMAIN counters
  /\ \A c \in Calls : call[c] = "done" =>
       \E n \in 1 .. counters[prefix[c]] : name[c] = Numbered(prefix[c], n)
  /\ Unique

\* A name tells its prefix and its number.
LEMMA NameTells ==
  ASSUME NEW p \in Seq(Texts), NEW q \in Seq(Texts), NEW m \in Nat, NEW n \in Nat,
         Numbered(p, m) = Numbered(q, n)
  PROVE  p = q /\ m = n
<1> DEFINE U == Texts \cup {Dash, [number |-> m], [number |-> n]}
           e == <<Dash, [number |-> m]>>
           f == <<Dash, [number |-> n]>>
<1>0. p \o e = q \o f
  BY DEF Numbered
<1>1. p \in Seq(U) /\ q \in Seq(U) /\ e \in Seq(U) /\ f \in Seq(U) /\ Len(e) = 2 /\ Len(f) = 2
  OBVIOUS
<1>2. /\ Len(p \o e) = Len(p) + 2
      /\ \A i \in 1 .. Len(p) + 2 : (p \o e)[i] = IF i <= Len(p) THEN p[i] ELSE e[i - Len(p)]
  BY <1>1, ConcatProperties
<1>3. /\ Len(q \o f) = Len(q) + 2
      /\ \A i \in 1 .. Len(q) + 2 : (q \o f)[i] = IF i <= Len(q) THEN q[i] ELSE f[i - Len(q)]
  BY <1>1, ConcatProperties
<1>4. Len(p) = Len(q) /\ Len(p) \in Nat
  BY <1>0, <1>1, <1>2, <1>3
<1>5. p = q
  BY <1>0, <1>2, <1>3, <1>4, SeqEqual
<1>6. e[2] = f[2]
  <2>1. (p \o e)[Len(p) + 2] = e[2]
    BY <1>2, <1>4
  <2>2. (q \o f)[Len(p) + 2] = f[2]
    BY <1>3, <1>4
  <2> QED
    BY <1>0, <2>1, <2>2
<1>7. [number |-> m].number = [number |-> n].number
  BY <1>6
<1> QED
  BY <1>5, <1>7

LEMMA PrefixIsText ==
  ASSUME NEW test \in TestNames, NEW hint \in Hints
  PROVE  Names!Prefix(test, hint) \in Seq(Texts)
<1> DEFINE parts == test \o (IF hint = <<>> THEN <<>> ELSE <<Dash>> \o hint)
<1>1. test \in Seq(Texts) /\ hint \in Seq(Texts) /\ <<Dash>> \in Seq(Texts) /\ Dash \in Texts
  BY TextsAssumption DEF Texts
<1>2. parts \in Seq(Texts)
  BY <1>1, ConcatProperties
<1> HIDE DEF parts
<1>3. [i \in DOMAIN parts |-> IF parts[i] = Slash THEN Dash ELSE parts[i]] \in Seq(Texts)
  BY <1>1, <1>2
<1> QED
  BY <1>3 DEF Names!Prefix, Names!Replaced, parts

LEMMA LoadOrStoreKeeps ==
  ASSUME NamesInv, NEW c \in Calls, NEW test \in TestNames, NEW hint \in Hints,
         Names!LoadOrStore(c, test, hint)
  PROVE  NamesInv'
<1> DEFINE p == Names!Prefix(test, hint)
<1>1. p \in Seq(Texts)
  BY PrefixIsText
<1> HIDE DEF p
<1>2. /\ call[c] = "start" /\ call' = [call EXCEPT ![c] = "add"] /\ name' = name
      /\ prefix' = [prefix EXCEPT ![c] = p]
      /\ counters' = [q \in DOMAIN counters \cup {p} |->
                        IF q \in DOMAIN counters THEN counters[q] ELSE 0]
  BY DEF Names!LoadOrStore, p
<1>3. /\ call' \in [Calls -> {"start", "add", "done"}] /\ prefix' \in [Calls -> Seq(Texts)]
      /\ counters' \in [DOMAIN counters' -> Nat] /\ DOMAIN counters \subseteq DOMAIN counters'
      /\ p \in DOMAIN counters'
      /\ \A q \in DOMAIN counters : counters'[q] = counters[q]
  BY <1>1, <1>2 DEF NamesInv
<1>4. \A d \in Calls : d # c => prefix'[d] = prefix[d] /\ call'[d] = call[d]
  BY <1>2 DEF NamesInv
<1>5. prefix'[c] = p /\ call'[c] = "add"
  BY <1>2 DEF NamesInv
<1>6. \A d \in Calls : call'[d] = "done" => call[d] = "done" /\ prefix'[d] = prefix[d]
  BY <1>4, <1>5
<1>7. Unique'
  BY <1>2, <1>6 DEF NamesInv, Unique, Names!Unique
<1>8. name' = [d \in Calls |-> name'[d]]
  BY <1>2 DEF NamesInv
<1>9. \A d \in Calls : call'[d] # "start" => prefix'[d] \in DOMAIN counters'
  BY <1>3, <1>4, <1>5 DEF NamesInv
<1>10. ASSUME NEW d \in Calls, call'[d] = "done"
       PROVE  \E n \in 1 .. counters'[prefix'[d]] : name'[d] = Numbered(prefix'[d], n)
  <2>1. call[d] = "done" /\ prefix'[d] = prefix[d] /\ prefix[d] \in DOMAIN counters
    BY <1>6, <1>10 DEF NamesInv
  <2>2. counters'[prefix'[d]] = counters[prefix[d]] /\ name'[d] = name[d]
    BY <1>2, <1>3, <2>1
  <2>3. \E n \in 1 .. counters[prefix[d]] : name[d] = Numbered(prefix[d], n)
    BY <2>1 DEF NamesInv
  <2> QED
    BY <2>1, <2>2, <2>3
<1> QED
  BY <1>3, <1>7, <1>8, <1>9, <1>10 DEF NamesInv

LEMMA AddKeeps ==
  ASSUME NamesInv, NEW c \in Calls, Names!Add(c)
  PROVE  NamesInv'
<1> DEFINE p == prefix[c]
           n == counters[p] + 1
<1>1. /\ call[c] = "add" /\ call' = [call EXCEPT ![c] = "done"] /\ prefix' = prefix
      /\ counters' = [counters EXCEPT ![p] = @ + 1] /\ p \in DOMAIN counters
      /\ p \in Seq(Texts) /\ counters[p] \in Nat
  BY DEF Names!Add, NamesInv
<1>2. /\ counters' \in [DOMAIN counters -> Nat] /\ counters'[p] = n /\ n \in Nat /\ n >= 1
      /\ \A q \in DOMAIN counters : counters[q] \in Nat /\ counters'[q] >= counters[q]
  BY <1>1 DEF NamesInv
<1>3. name' = [name EXCEPT ![c] = Numbered(p, n)]
  BY <1>2 DEF Names!Add, Numbered
<1>4. /\ name' = [d \in Calls |-> name'[d]] /\ name'[c] = Numbered(p, n)
      /\ \A d \in Calls : d # c => name'[d] = name[d]
  BY <1>3 DEF NamesInv
<1> prefix[c] = p
  OBVIOUS
<1> HIDE DEF p, n
<1>5. /\ call' \in [Calls -> {"start", "add", "done"}]
      /\ \A d \in Calls : d # c => call'[d] = call[d]
  BY <1>1 DEF NamesInv
<1>6. ASSUME NEW d \in Calls, d # c, call[d] = "done" PROVE name'[d] # name'[c]
  <2>1. PICK m \in 1 .. counters[prefix[d]] : name[d] = Numbered(prefix[d], m)
    BY <1>6 DEF NamesInv
  <2>2. prefix[d] \in Seq(Texts) /\ prefix[d] \in DOMAIN counters /\ m \in Nat
    BY <1>2, <1>6 DEF NamesInv
  <2>3. ASSUME name'[d] = name'[c] PROVE FALSE
    <3>1. Numbered(prefix[d], m) = Numbered(p, n)
      BY <1>4, <1>6, <2>1, <2>3
    <3>2. prefix[d] = p /\ m = n
      BY <1>1, <1>2, <2>2, <3>1, NameTells
    <3> QED
      BY <1>1, <2>1, <3>2 DEF n
  <2> QED
    BY <2>3
<1>7. Unique'
  BY <1>4, <1>5, <1>6 DEF NamesInv, Unique, Names!Unique
<1>8. ASSUME NEW d \in Calls, call'[d] = "done"
      PROVE  \E m \in 1 .. counters'[prefix'[d]] : name'[d] = Numbered(prefix'[d], m)
  <2>1. CASE d = c
    <3>1. prefix'[d] = p /\ n \in 1 .. counters'[p]
      BY <1>1, <1>2, <2>1
    <3>2. name'[d] = Numbered(p, n)
      BY <1>4, <2>1
    <3> QED
      BY <3>1, <3>2
  <2>2. CASE d # c
    <3>1. call[d] = "done" /\ prefix[d] \in DOMAIN counters
      BY <1>5, <1>8, <2>2 DEF NamesInv
    <3>2. PICK m \in 1 .. counters[prefix[d]] : name[d] = Numbered(prefix[d], m)
      BY <3>1 DEF NamesInv
    <3>3. m \in 1 .. counters'[prefix'[d]]
      BY <1>1, <1>2, <3>1, <3>2
    <3> QED
      BY <1>1, <1>4, <2>2, <3>2, <3>3
  <2> QED
    BY <2>1, <2>2
<1>9. \A d \in Calls : call'[d] # "start" => prefix'[d] \in DOMAIN counters'
  BY <1>1, <1>2, <1>5 DEF NamesInv
<1>10. prefix' \in [Calls -> Seq(Texts)] /\ counters' \in [DOMAIN counters' -> Nat]
  BY <1>1, <1>2 DEF NamesInv
<1> QED
  BY <1>4, <1>5, <1>7, <1>8, <1>9, <1>10 DEF NamesInv

LEMMA NextNamesInv == NamesInv /\ [UtilsNext]_allVars => NamesInv'
<1>1. NamesInv /\ UNCHANGED nameVars => NamesInv'
  BY DEF NamesInv, Unique, Names!Unique, nameVars
<1>2. NamesInv /\ Names!Next => NamesInv'
  BY <1>1, AddKeeps, LoadOrStoreKeeps DEF Names!Next, Names!Ended, Names!vars, nameVars
<1> QED
  BY <1>1, <1>2 DEF UtilsNext, allVars, Uses

\* No name is given out twice, by any number of calls, for any test names and
\* hints.
THEOREM NamesAreUnique == UtilsSpec => []Unique
<1>1. UtilsInit => NamesInv
  BY DEF UtilsInit, Names!Init, NamesInv, Unique, Names!Unique
<1>2. NamesInv => Unique
  BY DEF NamesInv
<1> QED
  BY <1>1, <1>2, NextNamesInv, PTL DEF UtilsSpec
-----------------------------------------------------------------------------
(* DockerExec.                                                             *)

CopyVars == <<main, cmd, copier, next, stdin, stdinOpen, outputOpen, file>>

\* The chunks of stdin are in the file and in the pipe, in their order, and
\* the command is not at its end before all of them are in the file.
CopyInv ==
  /\ next \in 1 .. InputLength + 1
  /\ stdin \in Seq(Nat) /\ file \in Seq(Nat)
  /\ Len(file) + Len(stdin) = next - 1
  /\ \A i \in 1 .. Len(file) : file[i] = i
  /\ \A i \in 1 .. Len(stdin) : stdin[i] = Len(file) + i
  /\ main = "attach" => copier = "off"
  /\ cmd = "tee" /\ copier \in {"close", "done"} => next = InputLength + 1
  /\ cmd = "tee" /\ ~stdinOpen => copier = "done"
  /\ cmd = "tee" /\ ~outputOpen => stdin = <<>> /\ ~stdinOpen

EndInv ==
  /\ running \in BOOLEAN
  /\ ~running => ~outputOpen
  /\ result = "nil" => ~running /\ code = 0

LEMMA ChunkCopied ==
  ASSUME CopyInv, Exec!Copy
  PROVE  CopyInv'
<1>1. /\ copier = "copy" /\ next <= InputLength
      /\ stdin' = Append(stdin, next) /\ next' = next + 1
      /\ UNCHANGED <<main, copier, stdinOpen, outputOpen, cmd, file>>
  BY DEF Exec!Copy, Exec!cmdVars
<1>2. next \in Nat /\ stdin \in Seq(Nat) /\ file \in Seq(Nat) /\ next' \in 1 .. InputLength + 1
  BY <1>1, InputAssumption DEF CopyInv
<1>3. /\ stdin' \in Seq(Nat) /\ Len(stdin') = Len(stdin) + 1
      /\ stdin'[Len(stdin) + 1] = next
      /\ \A i \in 1 .. Len(stdin) : stdin'[i] = stdin[i]
  BY <1>1, <1>2, AppendProperties
<1>4. Len(file) + Len(stdin') = next' - 1
  BY <1>1, <1>2, <1>3 DEF CopyInv
<1>5. ASSUME NEW i \in 1 .. Len(stdin') PROVE stdin'[i] = Len(file) + i
  <2>1. CASE i \in 1 .. Len(stdin)
    BY <1>3, <2>1 DEF CopyInv
  <2>2. CASE i = Len(stdin) + 1
    BY <1>2, <1>3, <2>2 DEF CopyInv
  <2> QED
    BY <1>2, <1>3, <2>1, <2>2
<1>6. cmd = "tee" => stdinOpen /\ outputOpen
  BY <1>1 DEF CopyInv
<1> QED
  BY <1>1, <1>2, <1>3, <1>4, <1>5, <1>6 DEF CopyInv

LEMMA ChunkTaken ==
  ASSUME CopyInv, Exec!TeeReads
  PROVE  CopyInv'
<1>1. /\ cmd = "tee" /\ stdin # <<>> /\ stdin' = Tail(stdin) /\ file' = Append(file, stdin[1])
      /\ UNCHANGED <<main, copier, next, stdinOpen, outputOpen, cmd>>
  BY DEF Exec!TeeReads, Exec!goVars
<1>2. next \in Nat /\ stdin \in Seq(Nat) /\ file \in Seq(Nat)
  BY InputAssumption DEF CopyInv
<1>3. /\ stdin' \in Seq(Nat) /\ Len(stdin') = Len(stdin) - 1 /\ Len(stdin) \in Nat \ {0}
      /\ stdin[1] \in Nat
      /\ \A i \in 1 .. Len(stdin') : stdin'[i] = stdin[i + 1]
  BY <1>1, <1>2, HeadTailProperties, EmptySeq
<1>4. /\ file' \in Seq(Nat) /\ Len(file') = Len(file) + 1 /\ Len(file) \in Nat
      /\ file'[Len(file) + 1] = stdin[1]
      /\ \A i \in 1 .. Len(file) : file'[i] = file[i]
  BY <1>1, <1>2, <1>3, AppendProperties
<1>5. Len(file') + Len(stdin') = next' - 1
  BY <1>1, <1>2, <1>3, <1>4 DEF CopyInv
<1>6. stdin[1] = Len(file) + 1
  BY <1>3 DEF CopyInv
<1>7. ASSUME NEW i \in 1 .. Len(file') PROVE file'[i] = i
  <2>1. CASE i \in 1 .. Len(file)
    BY <1>4, <2>1 DEF CopyInv
  <2>2. CASE i = Len(file) + 1
    BY <1>4, <1>6, <2>2
  <2> QED
    BY <1>4, <2>1, <2>2
<1>8. ASSUME NEW i \in 1 .. Len(stdin') PROVE stdin'[i] = Len(file') + i
  <2>1. i + 1 \in 1 .. Len(stdin)
    BY <1>3
  <2>2. stdin[i + 1] = Len(file) + (i + 1)
    BY <2>1 DEF CopyInv
  <2> QED
    BY <1>3, <1>4, <2>2
<1>9. outputOpen
  BY <1>1 DEF CopyInv
<1> QED
  BY <1>1, <1>2, <1>3, <1>4, <1>5, <1>7, <1>8, <1>9 DEF CopyInv

\* The steps that leave the chunks where they are.
LEMMA CopierMoves ==
  ASSUME CopyInv,
         \/ UNCHANGED CopyVars
         \/ Exec!Attach \/ Exec!CopyEnds \/ Exec!CloseWrite \/ Exec!CopyFails
         \/ Exec!Disconnect \/ Exec!Wait \/ Exec!Inspect \/ Exec!OutputEnds
  PROVE  CopyInv'
<1> USE InputAssumption
<1>1. CASE UNCHANGED CopyVars
  BY <1>1 DEF CopyInv, CopyVars
<1>2. CASE Exec!Attach
  BY <1>2 DEF CopyInv, Exec!Attach, Exec!Return, Exec!pipeVars, Exec!cmdVars
<1>3. CASE Exec!CopyEnds
  BY <1>3 DEF CopyInv, Exec!CopyEnds, Exec!pipeVars, Exec!cmdVars
<1>4. CASE Exec!CloseWrite
  BY <1>4 DEF CopyInv, Exec!CloseWrite, Exec!cmdVars
<1>5. CASE Exec!CopyFails
  BY <1>5 DEF CopyInv, Exec!CopyFails, Exec!pipeVars, Exec!cmdVars
<1>6. CASE Exec!Disconnect
  BY <1>6 DEF CopyInv, Exec!Disconnect, Exec!pipeVars, Exec!cmdVars
<1>7. CASE Exec!Wait
  BY <1>7 DEF CopyInv, Exec!Wait, Exec!Return, Exec!pipeVars, Exec!cmdVars
<1>8. CASE Exec!Inspect
  BY <1>8 DEF CopyInv, Exec!Inspect, Exec!Return, Exec!pipeVars, Exec!cmdVars
<1>9. CASE Exec!OutputEnds
  BY <1>9 DEF CopyInv, Exec!OutputEnds, Exec!goVars, Exec!cmdVars
<1> QED
  BY <1>1, <1>2, <1>3, <1>4, <1>5, <1>6, <1>7, <1>8, <1>9

LEMMA NextCopyInv ==
  ASSUME CopyInv, Exec!Next
  PROVE  CopyInv'
<1> USE DEF CopyVars, Exec!goVars, Exec!pipeVars, Exec!cmdVars
<1>1. CASE Exec!ReadFrame \/ Exec!ReadEnds \/ Exec!ReadFails \/ Exec!Ended
  <2>1. UNCHANGED CopyVars
    BY <1>1 DEF Exec!ReadFrame, Exec!ReadEnds, Exec!ReadFails, Exec!Ended, Exec!vars
  <2> QED
    BY <2>1, CopierMoves
<1>2. CASE Exec!Command
  <2>1. CASE Exec!TeeReads
    BY <2>1, ChunkTaken
  <2>2. CASE Exec!OutputEnds
    BY <2>2, CopierMoves
  <2>3. CASE \/ Exec!TeeWrites \/ Exec!TeeComplains \/ Exec!Exit
             \/ \E s \in Exec!Streams : Exec!ScriptWrites(s)
    <3>1. UNCHANGED CopyVars
      BY <2>3 DEF Exec!TeeWrites, Exec!TeeComplains, Exec!ScriptWrites, Exec!Write, Exec!Exit
    <3> QED
      BY <3>1, CopierMoves
  <2> QED
    BY <1>2, <2>1, <2>2, <2>3 DEF Exec!Command
<1> QED
  BY <1>1, <1>2, ChunkCopied, CopierMoves DEF Exec!Next, Exec!Goroutines

LEMMA NextEndInv ==
  ASSUME EndInv, Exec!Next
  PROVE  EndInv'
<1> USE DEF EndInv, Exec!goVars, Exec!pipeVars, Exec!cmdVars, Exec!Return
<1>1. CASE Exec!Attach
  BY <1>1 DEF Exec!Attach
<1>2. CASE Exec!Goroutines
  BY <1>2 DEF Exec!Goroutines, Exec!Copy, Exec!CopyEnds, Exec!CloseWrite, Exec!ReadFrame,
              Exec!ReadEnds
<1>3. CASE Exec!CopyFails \/ Exec!ReadFails \/ Exec!Disconnect \/ Exec!Ended
  BY <1>3 DEF Exec!CopyFails, Exec!ReadFails, Exec!Disconnect, Exec!Ended, Exec!vars
<1>4. CASE Exec!Wait
  BY <1>4 DEF Exec!Wait
<1>5. CASE Exec!Inspect
  BY <1>5 DEF Exec!Inspect
<1>6. CASE Exec!Command
  <2>1. CASE Exec!TeeReads
    BY <2>1 DEF Exec!TeeReads
  <2>2. CASE \/ Exec!TeeWrites \/ Exec!TeeComplains
             \/ \E s \in Exec!Streams : Exec!ScriptWrites(s)
    BY <2>2 DEF Exec!TeeWrites, Exec!TeeComplains, Exec!ScriptWrites, Exec!Write
  <2>3. CASE Exec!OutputEnds
    <3>1. outputOpen' = FALSE /\ UNCHANGED <<running, result, code>>
      BY <2>3 DEF Exec!OutputEnds
    <3> QED
      BY <3>1
  <2>4. CASE Exec!Exit
    <3>1. running' = FALSE /\ ~outputOpen /\ UNCHANGED <<outputOpen, result, code>>
      BY <2>4 DEF Exec!Exit
    <3> QED
      BY <3>1
  <2> QED
    BY <1>6, <2>1, <2>2, <2>3, <2>4 DEF Exec!Command
<1> QED
  BY <1>1, <1>2, <1>3, <1>4, <1>5, <1>6 DEF Exec!Next

LEMMA InitCopyInv == UtilsInit => CopyInv /\ EndInv
<1> SUFFICES ASSUME Exec!Init PROVE CopyInv /\ EndInv
  BY DEF UtilsInit
<1>1. next = 1 /\ stdin = <<>> /\ file = <<>> /\ stdinOpen = (cmd = "tee") /\ outputOpen
      /\ copier = "off" /\ running = TRUE /\ result = "none"
  BY DEF Exec!Init
<1>2. CopyInv
  <2>1. next \in 1 .. InputLength + 1 /\ stdin \in Seq(Nat) /\ file \in Seq(Nat)
        /\ Len(file) = 0 /\ Len(stdin) = 0
    BY <1>1, InputAssumption
  <2>2. cmd = "tee" => stdinOpen
    BY <1>1
  <2> QED
    BY <1>1, <2>1, <2>2 DEF CopyInv
<1>3. EndInv
  BY <1>1 DEF EndInv
<1> QED
  BY <1>2, <1>3

\* When nil is returned, the command has ended, and a tee with the whole of
\* its stdin in the file, for an input of any length and pipes of any size.
THEOREM NilIsDone == UtilsSpec => []NilMeansDone
<1>1. UtilsInit => CopyInv /\ EndInv
  BY InitCopyInv
<1>2. CopyInv /\ EndInv /\ [UtilsNext]_allVars => CopyInv' /\ EndInv'
  <2>1. CopyInv /\ EndInv /\ UNCHANGED execVars => CopyInv' /\ EndInv'
    BY DEF CopyInv, EndInv, execVars
  <2>2. CopyInv /\ EndInv /\ Exec!Next => CopyInv' /\ EndInv'
    BY NextCopyInv, NextEndInv
  <2> QED
    BY <2>1, <2>2 DEF UtilsNext, allVars, Uses
<1>3. CopyInv /\ EndInv => NilMeansDone
  <2> SUFFICES ASSUME CopyInv, EndInv, result = "nil"
               PROVE  ~running /\ code = 0 /\
                      (cmd = "tee" => file = [i \in 1 .. InputLength |-> i])
    BY DEF NilMeansDone, Exec!NilMeansDone
  <2>1. ~running /\ code = 0 /\ ~outputOpen
    BY DEF EndInv
  <2>2. ASSUME cmd = "tee" PROVE file = [i \in 1 .. InputLength |-> i]
    <3>1. stdin = <<>> /\ next = InputLength + 1
      BY <2>1, <2>2 DEF CopyInv
    <3>2. file \in Seq(Nat) /\ Len(file) = InputLength
      BY <3>1, InputAssumption DEF CopyInv
    <3>3. \A i \in 1 .. InputLength : file[i] = i
      BY <3>2 DEF CopyInv
    <3> QED
      BY <3>2, <3>3
  <2> QED
    BY <2>1, <2>2
<1> QED
  BY <1>1, <1>2, <1>3, PTL DEF UtilsSpec

\* How many frames the reader has taken from the pipe.
Taken == Len(produced) - Len(output)

FramesOf(frames, stream) == {m \in Nat : frames[m][1] = stream}

\* The reader has ended only when nothing is left to read, or was cut off.
ReaderInv ==
  /\ reader = "done" /\ connected => output = <<>> /\ ~outputOpen
  /\ main = "attach" => result = "none"
  /\ main = "inspect" \/ result \in {"nil", "exit code"} => reader = "done"

\* The pipe holds the frames that the reader has not taken.
PipeInv ==
  /\ held \in Nat /\ stdin \in Seq(Nat)
  /\ produced \in Seq(Exec!Streams \X Nat) /\ output \in Seq(Exec!Streams \X Nat)
  /\ Len(output) <= Len(produced)
  /\ \A k \in 1 .. Len(output) : output[k] = produced[Taken + k]

\* The writer of the stream has got the first n frames as far as they are its.
Written(s, n) ==
  /\ Len(out[s]) = Rank(FramesOf(produced, s), n)
  /\ \A m \in 1 .. n :
       produced[m][1] = s => out[s][Rank(FramesOf(produced, s), m)] = produced[m][2]

FrameInv ==
  /\ PipeInv
  /\ out \in [Exec!Streams -> Seq(Nat)]
  /\ \A s \in Exec!Streams : Written(s, Taken)

LEMMA NextReaderInv ==
  ASSUME ReaderInv, Exec!Next
  PROVE  ReaderInv'
<1> USE DEF ReaderInv, Exec!goVars, Exec!pipeVars, Exec!cmdVars, Exec!Return
<1>1. CASE Exec!Attach
  BY <1>1 DEF Exec!Attach
<1>2. CASE Exec!Goroutines
  <2>1. CASE Exec!Copy \/ Exec!CopyEnds \/ Exec!CloseWrite
    <3>1. UNCHANGED <<main, result, reader, output, outputOpen, connected>>
      BY <2>1 DEF Exec!Copy, Exec!CopyEnds, Exec!CloseWrite
    <3> QED
      BY <3>1
  <2>2. CASE Exec!ReadFrame
    BY <2>2 DEF Exec!ReadFrame
  <2>3. CASE Exec!ReadEnds
    BY <2>3 DEF Exec!ReadEnds
  <2> QED
    BY <1>2, <2>1, <2>2, <2>3 DEF Exec!Goroutines
<1>3. CASE Exec!CopyFails \/ Exec!ReadFails \/ Exec!Ended
  <2>1. /\ UNCHANGED <<main, result, output, outputOpen, connected>>
        /\ reader' = reader \/ (reader = "read" /\ reader' = "failed")
    BY <1>3 DEF Exec!CopyFails, Exec!ReadFails, Exec!Ended, Exec!vars
  <2> QED
    BY <2>1
<1>4. CASE Exec!Disconnect
  BY <1>4 DEF Exec!Disconnect
<1>5. CASE Exec!Wait
  BY <1>5 DEF Exec!Wait
<1>6. CASE Exec!Inspect
  BY <1>6 DEF Exec!Inspect
<1>7. CASE Exec!Command
  <2>1. CASE Exec!TeeReads
    BY <2>1 DEF Exec!TeeReads
  <2>2. CASE \/ Exec!TeeWrites \/ Exec!TeeComplains
             \/ \E s \in Exec!Streams : Exec!ScriptWrites(s)
    <3>1. outputOpen /\ UNCHANGED <<main, result, reader, outputOpen, connected>>
      BY <2>2 DEF Exec!TeeWrites, Exec!TeeComplains, Exec!ScriptWrites, Exec!Write
    <3> QED
      BY <3>1
  <2>3. CASE Exec!OutputEnds
    <3>1. outputOpen' = FALSE /\ UNCHANGED <<main, result, reader, output, connected>>
      BY <2>3 DEF Exec!OutputEnds
    <3> QED
      BY <3>1
  <2>4. CASE Exec!Exit
    BY <2>4 DEF Exec!Exit
  <2> QED
    BY <1>7, <2>1, <2>2, <2>3, <2>4 DEF Exec!Command
<1> QED
  BY <1>1, <1>2, <1>3, <1>4, <1>5, <1>6, <1>7 DEF Exec!Next

LEMMA FrameTaken ==
  ASSUME FrameInv, Exec!ReadFrame
  PROVE  FrameInv'
<1> DEFINE r == Taken
           f == output[1]
<1>1. /\ output # <<>> /\ output' = Tail(output)
      /\ out' = [out EXCEPT ![f[1]] = Append(@, f[2])]
      /\ UNCHANGED <<held, stdin, produced>>
  BY DEF Exec!ReadFrame, Exec!cmdVars
<1>2. /\ output \in Seq(Exec!Streams \X Nat) /\ produced \in Seq(Exec!Streams \X Nat)
      /\ out \in [Exec!Streams -> Seq(Nat)]
  BY DEF FrameInv, PipeInv
<1>3. /\ output' \in Seq(Exec!Streams \X Nat) /\ Len(output') = Len(output) - 1
      /\ Len(output) \in Nat \ {0}
      /\ \A i \in 1 .. Len(output') : output'[i] = output[i + 1]
  BY <1>1, <1>2, HeadTailProperties, EmptySeq
<1>4. r \in Nat /\ r + 1 \in 1 .. Len(produced) /\ Taken' = r + 1 /\ f = produced[r + 1]
  <2>1. Len(output) <= Len(produced) /\ Len(produced) \in Nat
    BY <1>2 DEF FrameInv, PipeInv
  <2>2. f = produced[r + 1]
    BY <1>3 DEF FrameInv, PipeInv
  <2> QED
    BY <1>1, <1>3, <2>1, <2>2 DEF Taken
<1>5. f \in Exec!Streams \X Nat /\ f[1] \in Exec!Streams /\ f[2] \in Nat
  BY <1>2, <1>4
<1>6. PipeInv'
  <2>1. Len(output') <= Len(produced')
    BY <1>1, <1>2, <1>3 DEF FrameInv, PipeInv
  <2>2. ASSUME NEW k \in 1 .. Len(output') PROVE output'[k] = produced'[Taken' + k]
    <3>1. k + 1 \in 1 .. Len(output)
      BY <1>3
    <3>2. output[k + 1] = produced[r + (k + 1)]
      BY <3>1 DEF FrameInv, PipeInv
    <3> QED
      BY <1>1, <1>3, <1>4, <3>2
  <2> QED
    BY <1>1, <1>2, <1>3, <2>1, <2>2 DEF FrameInv, PipeInv
<1> HIDE DEF r, f
<1>7. out' \in [Exec!Streams -> Seq(Nat)]
  <2>1. Append(out[f[1]], f[2]) \in Seq(Nat)
    BY <1>2, <1>5, AppendProperties
  <2> QED
    BY <1>1, <1>2, <2>1
<1>8. ASSUME NEW s \in Exec!Streams PROVE Written(s, Taken)'
  <2> DEFINE T == FramesOf(produced, s)
  <2>1. /\ Len(out[s]) = Rank(T, r) /\ out[s] \in Seq(Nat)
        /\ \A m \in 1 .. r : produced[m][1] = s => out[s][Rank(T, m)] = produced[m][2]
    BY <1>2 DEF FrameInv, Written, r
  <2>2. \A m \in 1 .. r + 1 : m \in T <=> produced[m][1] = s
    BY <1>4 DEF FramesOf
  <2> HIDE DEF T
  <2>3. r + 1 \in T <=> s = f[1]
    BY <1>4, <2>2
  <2>4. Rank(T, r) \in Nat
    BY <1>4, RankType
  <2>5. Rank(T, r + 1) = IF r + 1 \in T THEN Rank(T, r) + 1 ELSE Rank(T, r)
    BY <1>4, RankStep
  <2>6. CASE s = f[1]
    <3>1. out'[s] = Append(out[s], f[2])
      BY <1>1, <1>2, <2>6
    <3>2. /\ Len(out'[s]) = Len(out[s]) + 1 /\ out'[s][Len(out[s]) + 1] = f[2]
          /\ \A i \in 1 .. Len(out[s]) : out'[s][i] = out[s][i]
      BY <1>5, <2>1, <3>1, AppendProperties
    <3>3. Len(out'[s]) = Rank(T, r + 1)
      BY <2>1, <2>3, <2>5, <2>6, <3>2
    <3>4. ASSUME NEW m \in 1 .. r + 1, produced[m][1] = s
          PROVE  out'[s][Rank(T, m)] = produced[m][2]
      <4>1. CASE m = r + 1
        BY <1>4, <2>1, <2>3, <2>5, <2>6, <3>2, <4>1
      <4>2. CASE m \in 1 .. r
        <5> m \in Nat /\ m <= r /\ 0 \in Nat /\ 0 < m /\ r \in Nat /\ m \in T
          BY <1>4, <2>2, <3>4, <4>2
        <5>1. Rank(T, m) \in Nat /\ Rank(T, m) <= Rank(T, r)
          BY RankType, RankMonotone
        <5>2. Rank(T, 0) < Rank(T, m) /\ Rank(T, 0) = 0
          BY RankOfMember, RankZero
        <5>3. Rank(T, m) \in 1 .. Len(out[s])
          BY <2>1, <2>4, <5>1, <5>2
        <5> QED
          BY <2>1, <3>2, <3>4, <4>2, <5>3
      <4> QED
        BY <1>4, <4>1, <4>2
    <3> QED
      BY <1>1, <1>4, <3>3, <3>4 DEF Written, T
  <2>7. CASE s # f[1]
    <3>1. out'[s] = out[s]
      BY <1>1, <1>2, <2>7
    <3>2. Len(out'[s]) = Rank(T, r + 1)
      BY <2>1, <2>3, <2>5, <2>7, <3>1
    <3>3. ASSUME NEW m \in 1 .. r + 1, produced[m][1] = s
          PROVE  out'[s][Rank(T, m)] = produced[m][2]
      <4>1. m # r + 1
        BY <1>4, <2>7, <3>3
      <4>2. m \in 1 .. r
        BY <1>4, <4>1
      <4> QED
        BY <2>1, <3>1, <3>3, <4>2
    <3> QED
      BY <1>1, <1>4, <3>2, <3>3 DEF Written, T
  <2> QED
    BY <2>6, <2>7
<1> QED
  BY <1>6, <1>7, <1>8 DEF FrameInv

LEMMA FrameWritten ==
  ASSUME FrameInv, NEW stream \in Exec!Streams, NEW chunk \in Nat, Exec!Write(stream, chunk),
         held' \in Nat
  PROVE  FrameInv'
<1> DEFINE f == <<stream, chunk>>
<1>1. /\ output' = Append(output, f) /\ produced' = Append(produced, f)
      /\ UNCHANGED <<out, stdin>>
  BY DEF Exec!Write, Exec!goVars
<1>2. /\ output \in Seq(Exec!Streams \X Nat) /\ produced \in Seq(Exec!Streams \X Nat)
      /\ f \in Exec!Streams \X Nat /\ Len(output) <= Len(produced)
      /\ Len(output) \in Nat /\ Len(produced) \in Nat
  BY DEF FrameInv, PipeInv
<1> HIDE DEF f
<1>3. /\ output' \in Seq(Exec!Streams \X Nat) /\ Len(output') = Len(output) + 1
      /\ output'[Len(output) + 1] = f
      /\ \A i \in 1 .. Len(output) : output'[i] = output[i]
  BY <1>1, <1>2, AppendProperties
<1>4. /\ produced' \in Seq(Exec!Streams \X Nat) /\ Len(produced') = Len(produced) + 1
      /\ produced'[Len(produced) + 1] = f
      /\ \A i \in 1 .. Len(produced) : produced'[i] = produced[i]
  BY <1>1, <1>2, AppendProperties
<1>5. Taken \in 0 .. Len(produced) /\ Taken + Len(output) = Len(produced) /\ Taken' = Taken
  BY <1>2, <1>3, <1>4 DEF Taken
<1>6. ASSUME NEW k \in 1 .. Len(output') PROVE output'[k] = produced'[Taken' + k]
  <2>1. CASE k \in 1 .. Len(output)
    <3>1. Taken + k \in 1 .. Len(produced)
      BY <1>2, <1>5, <2>1
    <3>2. output[k] = produced[Taken + k]
      BY <2>1 DEF FrameInv, PipeInv
    <3> QED
      BY <1>3, <1>4, <1>5, <2>1, <3>1, <3>2
  <2>2. CASE k = Len(output) + 1
    <3>1. Taken + k = Len(produced) + 1
      BY <1>2, <1>5, <2>2
    <3> QED
      BY <1>3, <1>4, <1>5, <2>2, <3>1
  <2> QED
    BY <1>2, <1>3, <2>1, <2>2
<1>7. PipeInv'
  <2>1. Len(output') <= Len(produced') /\ stdin' \in Seq(Nat)
    BY <1>1, <1>2, <1>3, <1>4 DEF FrameInv, PipeInv
  <2> QED
    BY <1>3, <1>4, <1>6, <2>1 DEF PipeInv
<1>8. ASSUME NEW s \in Exec!Streams PROVE Written(s, Taken)'
  <2> DEFINE T == FramesOf(produced, s)
             U == FramesOf(produced', s)
  <2>1. /\ Len(out[s]) = Rank(T, Taken)
        /\ \A m \in 1 .. Taken : produced[m][1] = s => out[s][Rank(T, m)] = produced[m][2]
    BY DEF FrameInv, Written
  <2>2. ASSUME NEW m \in 1 .. Taken PROVE m \in T <=> m \in U
    <3>1. m \in 1 .. Len(produced)
      BY <1>2, <1>5
    <3>2. m \in Nat /\ produced'[m] = produced[m]
      BY <1>4, <3>1
    <3> QED
      BY <3>2 DEF FramesOf
  <2> HIDE DEF T, U
  <2>3. ASSUME NEW m \in 0 .. Taken PROVE Rank(T, m) = Rank(U, m)
    <3>1. m \in Nat /\ \A i \in 1 .. m : i \in T <=> i \in U
      BY <1>5, <2>2
    <3> QED
      BY <3>1, RankSame
  <2>4. Len(out[s]) = Rank(U, Taken)
    BY <1>5, <2>1, <2>3
  <2>5. ASSUME NEW m \in 1 .. Taken, produced'[m][1] = s
        PROVE  out[s][Rank(U, m)] = produced'[m][2]
    <3>1. produced'[m] = produced[m] /\ Rank(U, m) = Rank(T, m)
      BY <1>2, <1>4, <1>5, <2>3
    <3> QED
      BY <2>1, <2>5, <3>1
  <2> QED
    BY <1>1, <1>5, <2>4, <2>5 DEF Written, U
<1> QED
  BY <1>1, <1>7, <1>8 DEF FrameInv

LEMMA NextFrameInv ==
  ASSUME FrameInv, CopyInv, Exec!Next
  PROVE  FrameInv'
<1> USE DEF Exec!goVars, Exec!pipeVars, Exec!cmdVars
<1>1. ASSUME UNCHANGED <<held, stdin, output, produced, out>> PROVE FrameInv'
  BY <1>1 DEF FrameInv, PipeInv, Written, Taken, FramesOf
<1>2. ASSUME stdin' \in Seq(Nat), held' \in Nat, UNCHANGED <<output, produced, out>>
      PROVE  FrameInv'
  BY <1>2 DEF FrameInv, PipeInv, Written, Taken, FramesOf
<1>3. CASE \/ Exec!Attach \/ Exec!CopyFails \/ Exec!ReadFails \/ Exec!Disconnect
           \/ Exec!Wait \/ Exec!Inspect \/ Exec!Ended
  <2>1. UNCHANGED <<held, stdin, output, produced, out>>
    BY <1>3 DEF Exec!Attach, Exec!CopyFails, Exec!ReadFails, Exec!Disconnect, Exec!Wait,
                Exec!Inspect, Exec!Ended, Exec!vars
  <2> QED
    BY <1>1, <2>1
<1>4. CASE Exec!Goroutines
  <2>1. CASE Exec!CopyEnds \/ Exec!CloseWrite \/ Exec!ReadEnds
    <3>1. UNCHANGED <<held, stdin, output, produced, out>>
      BY <2>1 DEF Exec!CopyEnds, Exec!CloseWrite, Exec!ReadEnds
    <3> QED
      BY <1>1, <3>1
  <2>2. CASE Exec!Copy
    <3>1. stdin' = Append(stdin, next) /\ UNCHANGED <<held, output, produced, out>>
      BY <2>2 DEF Exec!Copy
    <3>2. stdin' \in Seq(Nat) /\ held' \in Nat
      BY <3>1, InputAssumption DEF FrameInv, PipeInv, CopyInv
    <3> QED
      BY <1>2, <3>1, <3>2
  <2> QED
    BY <1>4, <2>1, <2>2, FrameTaken DEF Exec!Goroutines
<1>5. CASE Exec!Command
  <2>1. CASE Exec!TeeReads
    <3>1. /\ stdin # <<>> /\ held' = stdin[1] /\ stdin' = Tail(stdin)
          /\ UNCHANGED <<output, produced, out>>
      BY <2>1 DEF Exec!TeeReads
    <3>2. stdin' \in Seq(Nat) /\ held' \in Nat
      BY <3>1 DEF FrameInv, PipeInv
    <3> QED
      BY <1>2, <3>1, <3>2
  <2>2. CASE Exec!TeeWrites
    <3>1. held \in Nat /\ held' \in Nat /\ Exec!Write("stdout", held)
          /\ "stdout" \in Exec!Streams
      BY <2>2 DEF Exec!TeeWrites, FrameInv, PipeInv, Exec!Streams
    <3> QED
      BY <3>1, FrameWritten
  <2>3. CASE Exec!TeeComplains
    <3>1. held' \in Nat /\ Exec!Write("stderr", 0) /\ "stderr" \in Exec!Streams
      BY <2>3 DEF Exec!TeeComplains, FrameInv, PipeInv, Exec!Streams
    <3> QED
      BY <3>1, FrameWritten
  <2>4. ASSUME NEW s \in Exec!Streams, Exec!ScriptWrites(s) PROVE FrameInv'
    <3>1. held' \in Nat /\ Exec!Write(s, Len(produced) + 1) /\ Len(produced) + 1 \in Nat
      BY <2>4 DEF Exec!ScriptWrites, FrameInv, PipeInv
    <3> QED
      BY <3>1, FrameWritten
  <2>5. CASE Exec!OutputEnds \/ Exec!Exit
    <3>1. UNCHANGED <<held, stdin, output, produced, out>>
      BY <2>5 DEF Exec!OutputEnds, Exec!Exit
    <3> QED
      BY <1>1, <3>1
  <2> QED
    BY <1>5, <2>1, <2>2, <2>3, <2>4, <2>5 DEF Exec!Command
<1> QED
  BY <1>3, <1>4, <1>5 DEF Exec!Next

LEMMA FramesRanked ==
  \A s : \A n \in Nat : Exec!Frames(s, n) = Rank(FramesOf(produced, s), n)
<1> SUFFICES ASSUME NEW s, NEW n \in Nat
             PROVE  Exec!Frames(s, n) = Rank(FramesOf(produced, s), n)
  OBVIOUS
<1> DEFINE F == {m \in 1 .. n : produced[m][1] = s}
           R == {m \in 1 .. n : m \in FramesOf(produced, s)}
<1>1. F = R
  BY DEF FramesOf
<1>2. Exec!Frames(s, n) = Exec!Cardinality(F) /\ Rank(FramesOf(produced, s), n) = Cardinality(R)
  BY DEF Exec!Frames, Rank
<1> HIDE DEF F, R
<1> QED
  BY <1>1, <1>2, SameCardinality

LEMMA FramesHaveArrived ==
  ASSUME FrameInv
  PROVE  /\ Taken \in 0 .. Len(produced) /\ Exec!Forwarded(Taken)
         /\ output = <<>> => Taken = Len(produced)
<1>1. /\ Taken \in 0 .. Len(produced)
      /\ output = <<>> => Taken = Len(produced)
  BY DEF FrameInv, PipeInv, Taken
<1>2. ASSUME NEW s \in Exec!Streams
      PROVE  /\ Len(out[s]) = Exec!Frames(s, Taken)
             /\ \A m \in 1 .. Taken :
                  produced[m][1] = s => out[s][Exec!Frames(s, m)] = produced[m][2]
  <2>1. Written(s, Taken)
    BY DEF FrameInv
  <2>2. \A n \in Nat : Exec!Frames(s, n) = Rank(FramesOf(produced, s), n)
    BY FramesRanked
  <2>3. Taken \in Nat
    BY <1>1
  <2> QED
    BY <2>1, <2>2, <2>3 DEF Written
<1> QED
  BY <1>1, <1>2 DEF Exec!Forwarded

\* When the exit code is reported, each writer has the output of its stream,
\* however the frames were spread over the pipe and over time: all of it, or
\* the beginning if the connection ended early.
THEOREM OutputIsComplete == UtilsSpec => []OutputComplete
<1> DEFINE Inv == CopyInv /\ ReaderInv /\ FrameInv
<1>1. UtilsInit => Inv
  <2> SUFFICES ASSUME Exec!Init PROVE ReaderInv /\ FrameInv
    BY InitCopyInv DEF UtilsInit
  <2>1. /\ main = "attach" /\ result = "none" /\ reader = "off"
        /\ out = [s \in Exec!Streams |-> <<>>] /\ stdin = <<>> /\ output = <<>>
        /\ held = 0 /\ produced = <<>>
    BY DEF Exec!Init
  <2>2. ReaderInv
    BY <2>1 DEF ReaderInv
  <2>3. Taken = 0 /\ PipeInv
    BY <2>1 DEF Taken, PipeInv
  <2>4. \A s \in Exec!Streams : Written(s, 0)
    BY <2>1, RankZero DEF Written
  <2>5. out \in [Exec!Streams -> Seq(Nat)]
    BY <2>1
  <2> QED
    BY <2>2, <2>3, <2>4, <2>5 DEF FrameInv
<1>2. Inv /\ [UtilsNext]_allVars => Inv'
  <2>1. Inv /\ UNCHANGED execVars => Inv'
    <3> SUFFICES ASSUME Inv, UNCHANGED execVars PROVE Inv'
      OBVIOUS
    <3>1. CopyInv' /\ ReaderInv'
      BY DEF CopyInv, ReaderInv, execVars
    <3>2. FrameInv'
      BY DEF FrameInv, PipeInv, Written, Taken, FramesOf, execVars
    <3> QED
      BY <3>1, <3>2
  <2>2. Inv /\ Exec!Next => Inv'
    BY NextCopyInv, NextReaderInv, NextFrameInv
  <2> QED
    BY <2>1, <2>2 DEF UtilsNext, allVars, Uses
<1>3. Inv => OutputComplete
  <2> SUFFICES ASSUME Inv, result \in {"nil", "exit code"}
               PROVE  \E n \in 0 .. Len(produced) :
                        Exec!Forwarded(n) /\ (connected => n = Len(produced))
    BY DEF OutputComplete, Exec!OutputComplete
  <2>1. Taken \in 0 .. Len(produced) /\ Exec!Forwarded(Taken)
    BY FramesHaveArrived
  <2>2. connected => output = <<>>
    BY DEF ReaderInv
  <2>3. output = <<>> => Taken = Len(produced)
    BY FramesHaveArrived
  <2> QED
    BY <2>1, <2>2, <2>3
<1> QED
  BY <1>1, <1>2, <1>3, PTL DEF UtilsSpec

-----------------------------------------------------------------------------
(* LineWriter: where lines end.                                            *)

Ends(text) == {i \in Nat : text[i] = Newline}

\* How many lines of the text are ended.
Ended(text) == Rank(Ends(text), Len(text))

\* Where the k-th line ends; the last one as if a newline followed the text.
EndOf(text, k) == Lines!Stop(Append(text, Newline), k)

LEMMA NewlinesRanked ==
  ASSUME NEW text, NEW n \in Nat
  PROVE  Lines!Newlines(text, n) = Rank(Ends(text), n)
<1> DEFINE F == {m \in 1 .. n : text[m] = Newline}
           R == {m \in 1 .. n : m \in Ends(text)}
<1>1. F = R
  BY DEF Ends
<1>2. Lines!Newlines(text, n) = Lines!Cardinality(F) /\ Rank(Ends(text), n) = Cardinality(R)
  BY DEF Lines!Newlines, Rank
<1> HIDE DEF F, R
<1> QED
  BY <1>1, <1>2, SameCardinality

LEMMA EndedType ==
  ASSUME NEW s \in Seq(Lines!Bytes)
  PROVE  Ended(s) \in Nat
<1>1. Len(s) \in Nat
  OBVIOUS
<1> QED
  BY <1>1, RankType DEF Ended

\* The text with a newline after it.
LEMMA EndedText ==
  ASSUME NEW s \in Seq(Lines!Bytes)
  PROVE  LET e == Append(s, Newline) IN
         /\ e \in Seq(Lines!Bytes) /\ Len(e) = Len(s) + 1 /\ Len(s) \in Nat
         /\ e[Len(s) + 1] = Newline
         /\ \A i \in 1 .. Len(s) : e[i] = s[i]
         /\ \A i \in 0 .. Len(s) : Rank(Ends(e), i) = Rank(Ends(s), i)
         /\ Rank(Ends(e), Len(e)) = Ended(s) + 1
<1> DEFINE e == Append(s, Newline)
<1>1. Newline \in Lines!Bytes
  BY DEF Lines!Bytes
<1>2. /\ e \in Seq(Lines!Bytes) /\ Len(e) = Len(s) + 1 /\ Len(s) \in Nat
      /\ e[Len(s) + 1] = Newline
      /\ \A i \in 1 .. Len(s) : e[i] = s[i]
  BY <1>1, AppendProperties, LenProperties
<1> HIDE DEF e
<1>3. ASSUME NEW i \in 0 .. Len(s) PROVE Rank(Ends(e), i) = Rank(Ends(s), i)
  <2>1. i \in Nat /\ \A j \in 1 .. i : j \in Ends(e) <=> j \in Ends(s)
    BY <1>2 DEF Ends
  <2> QED
    BY <2>1, RankSame
<1>4. Rank(Ends(e), Len(e)) = Ended(s) + 1
  <2>1. Len(s) + 1 \in Ends(e)
    BY <1>2 DEF Ends
  <2>2. Rank(Ends(e), Len(s) + 1) = Rank(Ends(e), Len(s)) + 1
    BY <1>2, <2>1, RankStep
  <2> QED
    BY <1>2, <1>3, <2>2 DEF Ended
<1> QED
  BY <1>2, <1>3, <1>4 DEF e

\* A newline of rank k is the end of the k-th line.
LEMMA StopIs ==
  ASSUME NEW e \in Seq(Lines!Bytes), NEW n \in 1 .. Len(e), e[n] = Newline
  PROVE  Lines!Stop(e, Rank(Ends(e), n)) = n
<1>1. DOMAIN e = 1 .. Len(e) /\ Len(e) \in Nat /\ n \in Nat /\ n \in Ends(e)
  BY LenProperties DEF Ends
<1>2. \A m \in 1 .. Len(e) : Lines!Newlines(e, m) = Rank(Ends(e), m)
  BY NewlinesRanked
<1>3. ASSUME NEW m \in 1 .. Len(e), e[m] = Newline, Rank(Ends(e), m) = Rank(Ends(e), n)
      PROVE  m = n
  <2>1. m \in Nat /\ m \in Ends(e)
    BY <1>3 DEF Ends
  <2>2. Rank(Ends(e), m) \in Nat
    BY <2>1, RankType
  <2>3. ~ (m < n) /\ ~ (n < m)
    BY <1>1, <1>3, <2>1, <2>2, RankOfMember
  <2> QED
    BY <1>1, <2>1, <2>3
<1>4. Rank(Ends(e), n) # 0
  <2>1. Rank(Ends(e), 0) < Rank(Ends(e), n)
    BY <1>1, RankOfMember
  <2> QED
    BY <2>1, RankZero
<1> DEFINE k == Rank(Ends(e), n)
<1> HIDE DEF k
<1>5. Lines!Stop(e, k) = CHOOSE m \in DOMAIN e : e[m] = Newline /\ Lines!Newlines(e, m) = k
  BY <1>4 DEF Lines!Stop, k
<1>6. n \in DOMAIN e /\ e[n] = Newline /\ Lines!Newlines(e, n) = k
  BY <1>1, <1>2 DEF k
<1>7. \A m \in DOMAIN e : e[m] = Newline /\ Lines!Newlines(e, m) = k => m = n
  BY <1>1, <1>2, <1>3 DEF k
<1>8. Lines!Stop(e, k) = n
  BY <1>5, <1>6, <1>7
<1> QED
  BY <1>8 DEF k

LEMMA EndIs ==
  ASSUME NEW s \in Seq(Lines!Bytes), NEW n \in 1 .. Len(s), s[n] = Newline
  PROVE  EndOf(s, Rank(Ends(s), n)) = n
<1> DEFINE e == Append(s, Newline)
<1>1. /\ e \in Seq(Lines!Bytes) /\ n \in 1 .. Len(e) /\ e[n] = Newline
      /\ Rank(Ends(e), n) = Rank(Ends(s), n)
  BY EndedText
<1> HIDE DEF e
<1>2. Lines!Stop(e, Rank(Ends(e), n)) = n
  BY <1>1, StopIs
<1> QED
  BY <1>1, <1>2 DEF EndOf, e

LEMMA EndExists ==
  ASSUME NEW s \in Seq(Lines!Bytes), NEW k \in 1 .. Ended(s)
  PROVE  /\ EndOf(s, k) \in 1 .. Len(s)
         /\ s[EndOf(s, k)] = Newline
         /\ Rank(Ends(s), EndOf(s, k)) = k
<1>1. Len(s) \in Nat
  OBVIOUS
<1>2. PICK n \in 1 .. Len(s) : n \in Ends(s) /\ Rank(Ends(s), n) = k
  BY <1>1, RankReached DEF Ended
<1>3. s[n] = Newline
  BY <1>2 DEF Ends
<1>4. EndOf(s, k) = n
  BY <1>2, <1>3, EndIs
<1> QED
  BY <1>2, <1>3, <1>4

LEMMA EndsOfText ==
  ASSUME NEW s \in Seq(Lines!Bytes)
  PROVE  EndOf(s, 0) = 0 /\ EndOf(s, Ended(s) + 1) = Len(s) + 1
<1> DEFINE e == Append(s, Newline)
<1>1. /\ e \in Seq(Lines!Bytes) /\ Len(s) + 1 \in 1 .. Len(e) /\ e[Len(s) + 1] = Newline
      /\ Len(e) = Len(s) + 1 /\ Rank(Ends(e), Len(e)) = Ended(s) + 1
  BY EndedText
<1> HIDE DEF e
<1>2. Lines!Stop(e, Rank(Ends(e), Len(s) + 1)) = Len(s) + 1
  BY <1>1, StopIs
<1>3. EndOf(s, 0) = 0
  BY DEF EndOf, Lines!Stop
<1> QED
  BY <1>1, <1>2, <1>3 DEF EndOf, e

\* Lines follow each other.
LEMMA EndsInOrder ==
  ASSUME NEW s \in Seq(Lines!Bytes), NEW k \in 1 .. Ended(s) + 1
  PROVE  /\ EndOf(s, k - 1) \in 0 .. Len(s) /\ EndOf(s, k) \in 1 .. Len(s) + 1
         /\ EndOf(s, k - 1) < EndOf(s, k)
<1>1. Len(s) \in Nat /\ Ended(s) \in Nat
  BY EndedType
<1>2. EndOf(s, k - 1) \in 0 .. Len(s)
  <2>1. CASE k = 1
    BY <1>1, <2>1, EndsOfText
  <2>2. CASE k # 1
    <3>1. k - 1 \in 1 .. Ended(s)
      BY <1>1, <2>2
    <3> QED
      BY <1>1, <3>1, EndExists
  <2> QED
    BY <2>1, <2>2
<1>3. CASE k = Ended(s) + 1
  BY <1>1, <1>2, <1>3, EndsOfText
<1>4. CASE k # Ended(s) + 1
  <2>1. k \in 1 .. Ended(s)
    BY <1>1, <1>4
  <2> DEFINE m == EndOf(s, k - 1)
             n == EndOf(s, k)
  <2>2. n \in 1 .. Len(s) /\ Rank(Ends(s), n) = k
    BY <2>1, EndExists
  <2>3. Rank(Ends(s), m) = k - 1
    <3>1. CASE k = 1
      BY <3>1, EndsOfText, RankZero
    <3>2. CASE k # 1
      <4>1. k - 1 \in 1 .. Ended(s)
        BY <1>1, <3>2
      <4> QED
        BY <4>1, EndExists
    <3> QED
      BY <3>1, <3>2
  <2>4. m \in 0 .. Len(s)
    BY <1>2
  <2> HIDE DEF m, n
  <2>5. ~ (n <= m)
    <3> SUFFICES ASSUME n <= m PROVE FALSE
      OBVIOUS
    <3>1. m \in Nat /\ n \in Nat
      BY <1>1, <2>2, <2>4
    <3>2. Rank(Ends(s), n) <= Rank(Ends(s), m)
      BY <3>1, RankMonotone
    <3> QED
      BY <2>2, <2>3, <3>2
  <2>6. m < n /\ n \in 1 .. Len(s) + 1
    BY <1>1, <2>2, <2>4, <2>5
  <2> QED
    BY <1>2, <2>6 DEF m, n
<1> QED
  BY <1>3, <1>4

\* The line that ends at its k-th end.
LineOf(s, k) == SubSeq(s, EndOf(s, k - 1) + 1, EndOf(s, k) - 1)

LEMMA PiecesAre ==
  ASSUME NEW s \in Seq(Lines!Bytes)
  PROVE  /\ Lines!Pieces(s) \in Seq(Seq(Lines!Bytes))
         /\ Len(Lines!Pieces(s)) = Ended(s) + 1
         /\ \A k \in 1 .. Ended(s) + 1 : Lines!Pieces(s)[k] = LineOf(s, k)
<1> DEFINE e == Append(s, Newline)
<1>1. Len(e) \in Nat /\ Rank(Ends(e), Len(e)) = Ended(s) + 1 /\ Ended(s) + 1 \in Nat
  BY EndedText, EndedType
<1>2. Lines!Newlines(e, Len(e)) = Ended(s) + 1
  BY <1>1, NewlinesRanked
<1>3. Lines!Pieces(s) = [k \in 1 .. Ended(s) + 1 |-> LineOf(s, k)]
  BY <1>2 DEF Lines!Pieces, LineOf, EndOf
<1>4. ASSUME NEW k \in 1 .. Ended(s) + 1 PROVE LineOf(s, k) \in Seq(Lines!Bytes)
  <2>1. EndOf(s, k - 1) \in 0 .. Len(s) /\ EndOf(s, k) \in 1 .. Len(s) + 1 /\ Len(s) \in Nat
    BY EndsInOrder, LenProperties
  <2> DEFINE m == EndOf(s, k - 1) + 1
             n == EndOf(s, k) - 1
  <2>2. m \in Int /\ n \in Int /\ \A i \in m .. n : i \in 1 .. Len(s)
    BY <2>1
  <2>3. \A i \in m .. n : s[i] \in Lines!Bytes
    BY <2>2, ElementOfSeq
  <2> HIDE DEF m, n
  <2>4. SubSeq(s, m, n) \in Seq(Lines!Bytes)
    BY <2>2, <2>3, SubSeqProperties
  <2> QED
    BY <2>4 DEF LineOf, m, n
<1> QED
  BY <1>1, <1>3, <1>4

\* What ends in two texts, one after the other.
LEMMA JoinedEnds ==
  ASSUME NEW s \in Seq(Lines!Bytes), NEW t \in Seq(Lines!Bytes)
  PROVE  /\ s \o t \in Seq(Lines!Bytes) /\ Len(s \o t) = Len(s) + Len(t)
         /\ Len(s) \in Nat /\ Len(t) \in Nat
         /\ \A i \in 1 .. Len(s) : (s \o t)[i] = s[i]
         /\ \A i \in 1 .. Len(t) : (s \o t)[Len(s) + i] = t[i]
         /\ \A i \in 0 .. Len(s) : Rank(Ends(s \o t), i) = Rank(Ends(s), i)
         /\ \A i \in 0 .. Len(t) :
              Rank(Ends(s \o t), Len(s) + i) = Ended(s) + Rank(Ends(t), i)
         /\ Ended(s \o t) = Ended(s) + Ended(t)
<1> DEFINE u == s \o t
<1>1. /\ u \in Seq(Lines!Bytes) /\ Len(u) = Len(s) + Len(t)
      /\ Len(s) \in Nat /\ Len(t) \in Nat
      /\ \A i \in 1 .. Len(s) + Len(t) : u[i] = IF i <= Len(s) THEN s[i] ELSE t[i - Len(s)]
  BY ConcatProperties, LenProperties
<1> HIDE DEF u
<1>2. \A i \in 1 .. Len(s) : u[i] = s[i]
  BY <1>1
<1>3. ASSUME NEW i \in 1 .. Len(t) PROVE u[Len(s) + i] = t[i]
  <2>1. Len(s) + i \in 1 .. Len(s) + Len(t) /\ ~ (Len(s) + i <= Len(s))
        /\ (Len(s) + i) - Len(s) = i
    BY <1>1
  <2> QED
    BY <1>1, <2>1
<1>4. ASSUME NEW i \in 0 .. Len(s) PROVE Rank(Ends(u), i) = Rank(Ends(s), i)
  <2>1. i \in Nat /\ \A j \in 1 .. i : j \in Ends(u) <=> j \in Ends(s)
    BY <1>1, <1>2 DEF Ends
  <2> QED
    BY <2>1, RankSame
<1>5. \A i \in 0 .. Len(t) : Rank(Ends(u), Len(s) + i) = Rank(Ends(u), Len(s)) + Rank(Ends(t), i)
  <2>1. ASSUME NEW j \in 1 .. Len(t) PROVE Len(s) + j \in Ends(u) <=> j \in Ends(t)
    <3>1. Len(s) + j \in Nat /\ j \in Nat
      BY <1>1
    <3> QED
      BY <1>3, <3>1 DEF Ends
  <2> QED
    BY <1>1, <2>1, RankJoined
<1>6. Rank(Ends(u), Len(s)) = Ended(s)
  BY <1>1, <1>4 DEF Ended
<1>7. Ended(u) = Ended(s) + Ended(t)
  BY <1>1, <1>5, <1>6 DEF Ended
<1> QED
  BY <1>1, <1>2, <1>3, <1>4, <1>5, <1>6, <1>7 DEF u

LEMMA JoinedEndOf ==
  ASSUME NEW s \in Seq(Lines!Bytes), NEW t \in Seq(Lines!Bytes)
  PROVE  /\ \A k \in 0 .. Ended(s) : EndOf(s \o t, k) = EndOf(s, k)
         /\ \A k \in 1 .. Ended(t) + 1 :
              EndOf(s \o t, Ended(s) + k) = Len(s) + EndOf(t, k)
<1> DEFINE u == s \o t
<1>1. /\ u \in Seq(Lines!Bytes) /\ Len(u) = Len(s) + Len(t)
      /\ Len(s) \in Nat /\ Len(t) \in Nat
      /\ \A i \in 1 .. Len(s) : u[i] = s[i]
      /\ \A i \in 1 .. Len(t) : u[Len(s) + i] = t[i]
      /\ \A i \in 0 .. Len(s) : Rank(Ends(u), i) = Rank(Ends(s), i)
      /\ \A i \in 0 .. Len(t) : Rank(Ends(u), Len(s) + i) = Ended(s) + Rank(Ends(t), i)
      /\ Ended(u) = Ended(s) + Ended(t)
  BY JoinedEnds
<1>2. Ended(s) \in Nat /\ Ended(t) \in Nat
  BY EndedType
<1> HIDE DEF u
<1>3. ASSUME NEW k \in 0 .. Ended(s) PROVE EndOf(u, k) = EndOf(s, k)
  <2>1. CASE k = 0
    BY <1>1, <2>1, EndsOfText
  <2>2. CASE k # 0
    <3> DEFINE n == EndOf(s, k)
    <3>1. k \in 1 .. Ended(s)
      BY <1>2, <2>2
    <3>2. n \in 1 .. Len(s) /\ s[n] = Newline /\ Rank(Ends(s), n) = k
      BY <3>1, EndExists
    <3> HIDE DEF n
    <3>3. n \in 1 .. Len(u) /\ u[n] = Newline /\ Rank(Ends(u), n) = k
      BY <1>1, <3>2
    <3>4. EndOf(u, Rank(Ends(u), n)) = n
      BY <1>1, <3>3, EndIs
    <3> QED
      BY <3>3, <3>4 DEF n
  <2> QED
    BY <2>1, <2>2
<1>4. ASSUME NEW k \in 1 .. Ended(t) + 1 PROVE EndOf(u, Ended(s) + k) = Len(s) + EndOf(t, k)
  <2>1. CASE k = Ended(t) + 1
    <3>1. Ended(s) + k = Ended(u) + 1
      BY <1>1, <1>2, <2>1
    <3>2. EndOf(u, Ended(u) + 1) = Len(u) + 1 /\ EndOf(t, k) = Len(t) + 1
      BY <1>1, <2>1, EndsOfText
    <3> QED
      BY <1>1, <3>1, <3>2
  <2>2. CASE k # Ended(t) + 1
    <3> DEFINE m == EndOf(t, k)
               n == Len(s) + m
    <3>1. k \in 1 .. Ended(t)
      BY <1>2, <2>2
    <3>2. m \in 1 .. Len(t) /\ t[m] = Newline /\ Rank(Ends(t), m) = k
      BY <3>1, EndExists
    <3> HIDE DEF m
    <3>3. n \in 1 .. Len(u) /\ u[n] = Newline /\ Rank(Ends(u), n) = Ended(s) + k
      BY <1>1, <3>2
    <3> HIDE DEF n
    <3>4. EndOf(u, Rank(Ends(u), n)) = n
      BY <1>1, <3>3, EndIs
    <3> QED
      BY <3>3, <3>4 DEF m, n
  <2> QED
    BY <2>1, <2>2
<1> QED
  BY <1>3, <1>4 DEF u

\* The lines of two texts: the first of the second one completes the last of
\* the first one.
LEMMA JoinedLines ==
  ASSUME NEW s \in Seq(Lines!Bytes), NEW t \in Seq(Lines!Bytes)
  PROVE  /\ \A k \in 1 .. Ended(s) : LineOf(s \o t, k) = LineOf(s, k)
         /\ LineOf(s \o t, Ended(s) + 1) = LineOf(s, Ended(s) + 1) \o LineOf(t, 1)
         /\ \A k \in 2 .. Ended(t) + 1 : LineOf(s \o t, Ended(s) + k) = LineOf(t, k)
<1> DEFINE u == s \o t
<1>1. /\ u \in Seq(Lines!Bytes) /\ Len(u) = Len(s) + Len(t)
      /\ Len(s) \in Nat /\ Len(t) \in Nat
      /\ \A i \in 1 .. Len(s) : u[i] = s[i]
      /\ \A i \in 1 .. Len(t) : u[Len(s) + i] = t[i]
      /\ Ended(u) = Ended(s) + Ended(t)
  BY JoinedEnds
<1>2. Ended(s) \in Nat /\ Ended(t) \in Nat
  BY EndedType
<1>3. /\ \A k \in 0 .. Ended(s) : EndOf(u, k) = EndOf(s, k)
      /\ \A k \in 1 .. Ended(t) + 1 : EndOf(u, Ended(s) + k) = Len(s) + EndOf(t, k)
  BY JoinedEndOf
<1> HIDE DEF u
<1>4. ASSUME NEW k \in 1 .. Ended(s) PROVE LineOf(u, k) = LineOf(s, k)
  <2> DEFINE m == EndOf(s, k - 1) + 1
             n == EndOf(s, k) - 1
  <2>1. k \in 1 .. Ended(s) + 1 /\ k - 1 \in 0 .. Ended(s) /\ k \in 0 .. Ended(s)
    BY <1>2
  <2>2. EndOf(u, k - 1) = EndOf(s, k - 1) /\ EndOf(u, k) = EndOf(s, k)
    BY <1>3, <2>1
  <2>3. EndOf(s, k - 1) \in 0 .. Len(s) /\ EndOf(s, k) \in 1 .. Len(s)
    BY <2>1, EndsInOrder, EndExists
  <2>4. m \in Int /\ n \in Int /\ \A i \in m .. n : i \in 1 .. Len(s)
    BY <1>1, <2>3
  <2> HIDE DEF m, n
  <2>5. SubSeq(u, m, n) = SubSeq(s, m, n)
    BY <1>1, <2>4, SubSeqOfSame
  <2> QED
    BY <2>2, <2>5 DEF LineOf, m, n
<1>5. LineOf(u, Ended(s) + 1) = LineOf(s, Ended(s) + 1) \o LineOf(t, 1)
  <2> DEFINE m == EndOf(s, Ended(s)) + 1
             n == EndOf(t, 1) - 1
  <2>1. /\ EndOf(u, Ended(s)) = EndOf(s, Ended(s))
        /\ EndOf(u, Ended(s) + 1) = Len(s) + EndOf(t, 1)
    BY <1>2, <1>3
  <2>2. EndOf(s, Ended(s)) \in 0 .. Len(s)
    <3>1. Ended(s) + 1 \in 1 .. Ended(s) + 1 /\ (Ended(s) + 1) - 1 = Ended(s)
      BY <1>2
    <3> QED
      BY <3>1, EndsInOrder
  <2>3. EndOf(s, Ended(s) + 1) = Len(s) + 1
    BY EndsOfText
  <2>4. EndOf(t, 1) \in 1 .. Len(t) + 1 /\ EndOf(t, 0) = 0
    <3>1. 1 \in 1 .. Ended(t) + 1
      BY <1>2
    <3> QED
      BY <3>1, EndsInOrder, EndsOfText
  <2>5. m \in 1 .. Len(s) + 1 /\ n \in 0 .. Len(t)
    BY <1>1, <2>2, <2>4
  <2>6. LineOf(u, Ended(s) + 1) = SubSeq(u, m, Len(s) + n)
    <3>1. (Ended(s) + 1) - 1 = Ended(s) /\ (Len(s) + EndOf(t, 1)) - 1 = Len(s) + (EndOf(t, 1) - 1)
      BY <1>1, <1>2, <2>4
    <3> QED
      BY <2>1, <3>1 DEF LineOf
  <2>7. LineOf(s, Ended(s) + 1) = SubSeq(s, m, Len(s))
    <3>1. (Ended(s) + 1) - 1 = Ended(s) /\ (Len(s) + 1) - 1 = Len(s)
      BY <1>1, <1>2
    <3> QED
      BY <2>3, <3>1 DEF LineOf
  <2>8. LineOf(t, 1) = SubSeq(t, 1, n)
    BY <2>4 DEF LineOf
  <2> HIDE DEF m, n
  <2>9. SubSeq(u, m, Len(s) + n) = SubSeq(s, m, Len(s)) \o SubSeq(t, 1, n)
    BY <1>1, <2>5, SubSeqAcross DEF u
  <2> QED
    BY <2>6, <2>7, <2>8, <2>9
<1>6. ASSUME NEW k \in 2 .. Ended(t) + 1 PROVE LineOf(u, Ended(s) + k) = LineOf(t, k)
  <2> DEFINE m == EndOf(t, k - 1) + 1
             n == EndOf(t, k) - 1
  <2>1. k \in 1 .. Ended(t) + 1 /\ k - 1 \in 1 .. Ended(t) + 1
    BY <1>2
  <2>2. /\ EndOf(u, Ended(s) + k) = Len(s) + EndOf(t, k)
        /\ EndOf(u, Ended(s) + (k - 1)) = Len(s) + EndOf(t, k - 1)
    BY <1>3, <2>1
  <2>3. EndOf(t, k - 1) \in 0 .. Len(t) /\ EndOf(t, k) \in 1 .. Len(t) + 1
    BY <2>1, EndsInOrder
  <2>4. m \in Int /\ n \in Int /\ \A i \in m .. n : i \in 1 .. Len(t)
    BY <1>1, <2>3
  <2>5. LineOf(u, Ended(s) + k) = SubSeq(u, Len(s) + m, Len(s) + n)
    <3>1. (Ended(s) + k) - 1 = Ended(s) + (k - 1)
      BY <1>2
    <3>2. (Len(s) + EndOf(t, k - 1)) + 1 = Len(s) + (EndOf(t, k - 1) + 1)
      BY <1>1, <2>3
    <3>3. (Len(s) + EndOf(t, k)) - 1 = Len(s) + (EndOf(t, k) - 1)
      BY <1>1, <2>3
    <3> QED
      BY <2>2, <3>1, <3>2, <3>3 DEF LineOf
  <2> HIDE DEF m, n
  <2>6. SubSeq(u, Len(s) + m, Len(s) + n) = SubSeq(t, m, n)
    BY <1>1, <2>4, SubSeqOfMoved
  <2> QED
    BY <2>5, <2>6 DEF LineOf, m, n
<1> QED
  BY <1>4, <1>5, <1>6 DEF u

\* One piece more than lines are ended in what was written; what comes after
\* it completes the last piece.
LEMMA PiecesJoin ==
  ASSUME NEW s \in Seq(Lines!Bytes), NEW t \in Seq(Lines!Bytes)
  PROVE  LET P == Lines!Pieces(s)
             Q == Lines!Pieces(t)
             R == Lines!Pieces(s \o t)
         IN  /\ P \in Seq(Seq(Lines!Bytes)) /\ Q \in Seq(Seq(Lines!Bytes))
             /\ R \in Seq(Seq(Lines!Bytes))
             /\ Len(P) \in Nat \ {0} /\ Len(Q) \in Nat \ {0} /\ Len(R) = Len(P) + Len(Q) - 1
             /\ \A k \in 1 .. Len(P) - 1 : R[k] = P[k]
             /\ R[Len(P)] = P[Len(P)] \o Q[1]
             /\ \A k \in 2 .. Len(Q) : R[Len(P) - 1 + k] = Q[k]
<1> DEFINE P == Lines!Pieces(s)
           Q == Lines!Pieces(t)
           R == Lines!Pieces(s \o t)
           u == s \o t
<1>1. Ended(s) \in Nat /\ Ended(t) \in Nat /\ u \in Seq(Lines!Bytes)
      /\ Ended(u) = Ended(s) + Ended(t)
  BY EndedType, JoinedEnds
<1>2. P \in Seq(Seq(Lines!Bytes)) /\ Len(P) = Ended(s) + 1
      /\ \A k \in 1 .. Ended(s) + 1 : P[k] = LineOf(s, k)
  BY PiecesAre
<1>3. Q \in Seq(Seq(Lines!Bytes)) /\ Len(Q) = Ended(t) + 1
      /\ \A k \in 1 .. Ended(t) + 1 : Q[k] = LineOf(t, k)
  BY PiecesAre
<1>4. /\ \A k \in 1 .. Ended(s) : LineOf(u, k) = LineOf(s, k)
      /\ LineOf(u, Ended(s) + 1) = LineOf(s, Ended(s) + 1) \o LineOf(t, 1)
      /\ \A k \in 2 .. Ended(t) + 1 : LineOf(u, Ended(s) + k) = LineOf(t, k)
  BY JoinedLines
<1>5. R \in Seq(Seq(Lines!Bytes)) /\ Len(R) = Ended(u) + 1
      /\ \A k \in 1 .. Ended(u) + 1 : R[k] = LineOf(u, k)
  <2> HIDE DEF u
  <2> SUFFICES LET V == Lines!Pieces(u)
               IN  V \in Seq(Seq(Lines!Bytes)) /\ Len(V) = Ended(u) + 1
                   /\ \A k \in 1 .. Ended(u) + 1 : V[k] = LineOf(u, k)
    BY DEF u
  <2> QED
    BY <1>1, PiecesAre
<1> HIDE DEF P, Q, R, u
<1>6. Len(P) \in Nat \ {0} /\ Len(Q) \in Nat \ {0} /\ Len(R) = Len(P) + Len(Q) - 1
  <2>1. Len(P) = Ended(s) + 1 /\ Len(Q) = Ended(t) + 1 /\ Len(R) = Ended(u) + 1
    BY <1>2, <1>3, <1>5
  <2>2. Len(P) \in Nat \ {0} /\ Len(Q) \in Nat \ {0}
    BY <1>1, <2>1
  <2>3. (Ended(s) + Ended(t)) + 1 = (Ended(s) + 1) + (Ended(t) + 1) - 1
    BY <1>1
  <2> QED
    BY <1>1, <2>1, <2>2, <2>3
<1>7. ASSUME NEW k \in 1 .. Len(P) - 1 PROVE R[k] = P[k]
  <2>1. k \in 1 .. Ended(s) /\ k \in 1 .. Ended(s) + 1 /\ k \in 1 .. Ended(u) + 1
    BY <1>1, <1>2
  <2> QED
    BY <1>2, <1>4, <1>5, <2>1
<1>8. R[Len(P)] = P[Len(P)] \o Q[1]
  <2>1. /\ Ended(s) + 1 \in 1 .. Ended(u) + 1 /\ Ended(s) + 1 \in 1 .. Ended(s) + 1
        /\ 1 \in 1 .. Ended(t) + 1
    BY <1>1
  <2> QED
    BY <1>2, <1>3, <1>4, <1>5, <2>1
<1>9. ASSUME NEW k \in 2 .. Len(Q) PROVE R[Len(P) - 1 + k] = Q[k]
  <2>1. /\ k \in 2 .. Ended(t) + 1 /\ k \in 1 .. Ended(t) + 1
        /\ Ended(s) + k \in 1 .. Ended(u) + 1 /\ Len(P) - 1 + k = Ended(s) + k
    <3>1. Len(P) = Ended(s) + 1 /\ Len(Q) = Ended(t) + 1
      BY <1>2, <1>3
    <3>2. k \in 2 .. Ended(t) + 1 /\ k \in 1 .. Ended(t) + 1
      BY <1>1, <3>1
    <3>3. Ended(s) + k \in 1 .. Ended(u) + 1
      BY <1>1, <3>2
    <3>4. Len(P) - 1 + k = Ended(s) + k
      BY <1>1, <3>1, <3>2
    <3> QED
      BY <3>2, <3>3, <3>4
  <2> QED
    BY <1>3, <1>4, <1>5, <2>1
<1> QED
  BY <1>2, <1>3, <1>5, <1>6, <1>7, <1>8, <1>9 DEF P, Q, R

-----------------------------------------------------------------------------
(* LineWriter: ends of lines.                                              *)

\* The n-th byte of a suffix is that many bytes from the end as in the whole.
LEMMA SuffixIs ==
  ASSUME NEW S, NEW a \in Seq(S), NEW b \in Seq(S)
  PROVE  Lines!IsSuffix(a, b) <=>
           /\ Len(a) <= Len(b)
           /\ \A i \in 1 .. Len(a) : a[i] = b[Len(b) - Len(a) + i]
<1> DEFINE m == Len(a)
           n == Len(b)
           ra == Lines!Reverse(a)
           rb == Lines!Reverse(b)
<1>1. m \in Nat /\ n \in Nat
  OBVIOUS
<1>2. /\ ra = [i \in 1 .. m |-> a[(m - i) + 1]] /\ ra \in Seq(S) /\ Len(ra) = m
      /\ rb = [i \in 1 .. n |-> b[(n - i) + 1]] /\ rb \in Seq(S) /\ Len(rb) = n
  <2>1. ra = [i \in 1 .. m |-> a[(m - i) + 1]] /\ rb = [i \in 1 .. n |-> b[(n - i) + 1]]
    BY DEF Lines!Reverse
  <2>2. /\ \A i \in 1 .. m : (m - i) + 1 \in 1 .. m
        /\ \A i \in 1 .. n : (n - i) + 1 \in 1 .. n
    BY <1>1
  <2>3. /\ \A i \in 1 .. m : a[(m - i) + 1] \in S
        /\ \A i \in 1 .. n : b[(n - i) + 1] \in S
    BY <2>2, ElementOfSeq
  <2> HIDE DEF m, n, ra, rb
  <2>4. ra \in [1 .. m -> S] /\ rb \in [1 .. n -> S]
    BY <2>1, <2>3
  <2>5. ra \in Seq(S) /\ Len(ra) = m
    BY <1>1, <2>4, FunctionIsSeq
  <2>6. rb \in Seq(S) /\ Len(rb) = n
    BY <1>1, <2>4, FunctionIsSeq
  <2> QED
    BY <2>1, <2>5, <2>6
<1> HIDE DEF ra, rb
<1>3. Lines!IsSuffix(a, b) <=> m <= n /\ SubSeq(ra, 1, m) = SubSeq(rb, 1, m)
  BY <1>2 DEF Lines!IsSuffix, Lines!IsPrefix, ra, rb
<1>4. SubSeq(ra, 1, m) = ra
  BY <1>2, SubSeqFull
<1>5. ASSUME m <= n
      PROVE  /\ SubSeq(rb, 1, m) \in Seq(S) /\ Len(SubSeq(rb, 1, m)) = m
             /\ \A i \in 1 .. m : SubSeq(rb, 1, m)[i] = rb[i]
  <2>1. 1 \in Int /\ m \in Int /\ \A i \in 1 .. m : i \in 1 .. Len(rb)
    BY <1>1, <1>2, <1>5
  <2>2. \A i \in 1 .. m : rb[i] \in S
    BY <1>2, <2>1, ElementOfSeq
  <2> HIDE DEF m
  <2>3. /\ SubSeq(rb, 1, m) \in Seq(S) /\ Len(SubSeq(rb, 1, m)) = IF 1 <= m THEN m - 1 + 1 ELSE 0
        /\ \A i \in 1 .. m - 1 + 1 : SubSeq(rb, 1, m)[i] = rb[1 + i - 1]
    BY <2>1, <2>2, SubSeqProperties
  <2> QED
    BY <1>1, <2>3
<1>6. ASSUME m <= n
      PROVE  (SubSeq(ra, 1, m) = SubSeq(rb, 1, m)) <=> (\A i \in 1 .. m : ra[i] = rb[i])
  <2>1. ASSUME \A i \in 1 .. m : ra[i] = rb[i] PROVE ra = SubSeq(rb, 1, m)
    <3> HIDE DEF m
    <3>1. \A i \in 1 .. Len(ra) : ra[i] = SubSeq(rb, 1, m)[i]
      BY <1>2, <1>5, <1>6, <2>1
    <3>2. SubSeq(rb, 1, m) \in Seq(S) /\ Len(ra) = Len(SubSeq(rb, 1, m))
      BY <1>2, <1>5, <1>6
    <3> QED
      BY <1>2, <3>1, <3>2, SeqEqual
  <2> HIDE DEF m
  <2>2. ASSUME ra = SubSeq(rb, 1, m) PROVE \A i \in 1 .. m : ra[i] = rb[i]
    BY <1>5, <1>6, <2>2
  <2> QED
    BY <1>4, <2>1, <2>2
<1>7. ASSUME m <= n
      PROVE  (\A i \in 1 .. m : ra[i] = rb[i]) <=> (\A i \in 1 .. m : a[i] = b[n - m + i])
  <2> HIDE DEF m, n
  <2>1. ASSUME \A i \in 1 .. m : ra[i] = rb[i], NEW i \in 1 .. m PROVE a[i] = b[n - m + i]
    <3>1. (m - i) + 1 \in 1 .. m /\ (m - i) + 1 \in 1 .. n
          /\ (m - ((m - i) + 1)) + 1 = i /\ (n - ((m - i) + 1)) + 1 = n - m + i
      BY <1>1, <1>7
    <3>2. ra[(m - i) + 1] = a[i] /\ rb[(m - i) + 1] = b[n - m + i]
      BY <1>2, <3>1
    <3> QED
      BY <2>1, <3>1, <3>2
  <2>2. ASSUME \A i \in 1 .. m : a[i] = b[n - m + i], NEW i \in 1 .. m PROVE ra[i] = rb[i]
    <3>1. (m - i) + 1 \in 1 .. m /\ i \in 1 .. n /\ n - m + ((m - i) + 1) = (n - i) + 1
      BY <1>1, <1>7
    <3>2. a[(m - i) + 1] = b[(n - i) + 1]
      BY <2>2, <3>1
    <3> QED
      BY <1>2, <3>1, <3>2
  <2> QED
    BY <2>1, <2>2
<1> QED
  BY <1>3, <1>6, <1>7

LEMMA SuffixExtends ==
  ASSUME NEW S, NEW a \in Seq(S), NEW b \in Seq(S), NEW c \in Seq(S), Lines!IsSuffix(a, b)
  PROVE  Lines!IsSuffix(a \o c, b \o c)
<1> DEFINE x == a \o c
           y == b \o c
<1>1. Len(a) \in Nat /\ Len(b) \in Nat /\ Len(c) \in Nat
  OBVIOUS
<1>2. Len(a) <= Len(b) /\ \A i \in 1 .. Len(a) : a[i] = b[Len(b) - Len(a) + i]
  BY SuffixIs
<1>3. /\ x \in Seq(S) /\ Len(x) = Len(a) + Len(c)
      /\ \A i \in 1 .. Len(a) + Len(c) : x[i] = IF i <= Len(a) THEN a[i] ELSE c[i - Len(a)]
  BY ConcatProperties
<1>4. /\ y \in Seq(S) /\ Len(y) = Len(b) + Len(c)
      /\ \A i \in 1 .. Len(b) + Len(c) : y[i] = IF i <= Len(b) THEN b[i] ELSE c[i - Len(b)]
  BY ConcatProperties
<1> HIDE DEF x, y
<1>5. Len(x) <= Len(y) /\ Len(y) - Len(x) = Len(b) - Len(a)
  BY <1>1, <1>2, <1>3, <1>4
<1>6. ASSUME NEW i \in 1 .. Len(x) PROVE x[i] = y[Len(y) - Len(x) + i]
  <2> DEFINE j == Len(b) - Len(a) + i
  <2>1. i \in 1 .. Len(a) + Len(c) /\ j \in 1 .. Len(b) + Len(c)
        /\ (i <= Len(a) <=> j <= Len(b)) /\ i - Len(a) = j - Len(b)
    BY <1>1, <1>2, <1>3
  <2>2. CASE i <= Len(a)
    <3>1. i \in 1 .. Len(a)
      BY <1>1, <2>1, <2>2
    <3>2. x[i] = a[i] /\ a[i] = b[j]
      BY <1>2, <1>3, <2>1, <2>2, <3>1
    <3> HIDE DEF j
    <3>3. y[j] = b[j]
      BY <1>4, <2>1, <2>2
    <3> QED
      BY <1>5, <3>2, <3>3 DEF j
  <2>3. CASE ~ (i <= Len(a))
    <3>1. x[i] = c[i - Len(a)]
      BY <1>3, <2>1, <2>3
    <3> HIDE DEF j
    <3>2. y[j] = c[j - Len(b)]
      BY <1>4, <2>1, <2>3
    <3>3. x[i] = y[j]
      BY <2>1, <3>1, <3>2
    <3> QED
      BY <1>5, <3>3 DEF j
  <2> QED
    BY <2>2, <2>3
<1>7. Lines!IsSuffix(x, y)
  BY <1>3, <1>4, <1>5, <1>6, SuffixIs
<1> QED
  BY <1>7 DEF x, y

LEMMA SuffixOfSelf ==
  ASSUME NEW S, NEW a \in Seq(S)
  PROVE  Lines!IsSuffix(a, a)
<1>1. Len(a) \in Nat /\ \A i \in 1 .. Len(a) : Len(a) - Len(a) + i = i
  OBVIOUS
<1> QED
  BY <1>1, SuffixIs

LEMMA SuffixOfJoined ==
  ASSUME NEW S, NEW b \in Seq(S), NEW c \in Seq(S)
  PROVE  Lines!IsSuffix(c, b \o c)
<1> DEFINE e == <<>>
<1>1. e \in Seq(S) /\ Len(e) = 0 /\ Len(b) \in Nat /\ e \o c = c
  BY EmptySeq, ConcatEmptySeq
<1> HIDE DEF e
<1>2. Len(e) <= Len(b) /\ \A i \in 1 .. Len(e) : e[i] = b[Len(b) - Len(e) + i]
  BY <1>1
<1>3. Lines!IsSuffix(e, b)
  BY <1>1, <1>2, SuffixIs
<1>4. Lines!IsSuffix(e \o c, b \o c)
  BY <1>1, <1>3, SuffixExtends
<1> QED
  BY <1>1, <1>4

-----------------------------------------------------------------------------
(* LineWriter.                                                             *)

\* While the writer is open: one call for each line that was ended, each with
\* an end of its line, and an end of the line that was not ended in the buffer,
\* which is empty only when that line is.
LineInv ==
  /\ sent \in Seq(Lines!Bytes) /\ buf \in Seq(Lines!Bytes)
  /\ delivered \in Seq(Seq(Lines!Bytes))
  /\ closed \in BOOLEAN
  /\ ~closed =>
       LET pieces == Lines!Pieces(sent) IN
       /\ Len(delivered) = Len(pieces) - 1
       /\ \A n \in 1 .. Len(delivered) : Lines!IsSuffix(delivered[n], pieces[n])
       /\ Lines!IsSuffix(buf, pieces[Len(pieces)])
       /\ buf = <<>> => pieces[Len(pieces)] = <<>>
  /\ Lines!OneCallPerLine

LEMMA FrontOf ==
  ASSUME NEW S, NEW q \in Seq(S), Len(q) \in Nat \ {0}
  PROVE  /\ Lines!Front(q) \in Seq(S) /\ Len(Lines!Front(q)) = Len(q) - 1
         /\ \A i \in 1 .. Len(q) - 1 : Lines!Front(q)[i] = q[i]
<1> DEFINE n == Len(q) - 1
<1>1. n \in Nat /\ n \in Int /\ 1 \in Int /\ \A i \in 1 .. n : i \in 1 .. Len(q)
  OBVIOUS
<1>2. \A i \in 1 .. n : q[i] \in S
  BY <1>1, ElementOfSeq
<1>3. Lines!Front(q) = SubSeq(q, 1, n)
  BY DEF Lines!Front
<1> HIDE DEF n
<1>4. /\ SubSeq(q, 1, n) \in Seq(S) /\ Len(SubSeq(q, 1, n)) = IF 1 <= n THEN n - 1 + 1 ELSE 0
      /\ \A i \in 1 .. n - 1 + 1 : SubSeq(q, 1, n)[i] = q[1 + i - 1]
  BY <1>1, <1>2, SubSeqProperties
<1>5. Len(SubSeq(q, 1, n)) = n /\ \A i \in 1 .. n : SubSeq(q, 1, n)[i] = q[i]
  BY <1>1, <1>4
<1> QED
  BY <1>3, <1>4, <1>5 DEF n

\* What Write delivers: the buffer with the first line, and the other lines.
LEMMA CompletedLines ==
  ASSUME NEW S, NEW b \in Seq(S), NEW lines \in Seq(Seq(S)), lines # <<>>
  PROVE  LET f == <<b \o Head(lines)>> \o Tail(lines) IN
         /\ f \in Seq(Seq(S)) /\ Len(f) = Len(lines)
         /\ f[1] = b \o lines[1]
         /\ \A i \in 2 .. Len(lines) : f[i] = lines[i]
<1> DEFINE g == <<b \o Head(lines)>>
           h == Tail(lines)
           f == g \o h
<1>1. /\ Head(lines) \in Seq(S) /\ h \in Seq(Seq(S)) /\ Len(h) = Len(lines) - 1
      /\ \A i \in 1 .. Len(h) : h[i] = lines[i + 1]
      /\ Len(lines) \in Nat \ {0} /\ Head(lines) = lines[1]
  BY HeadTailProperties, EmptySeq
<1>2. b \o Head(lines) \in Seq(S)
  BY <1>1, ConcatProperties
<1>3. g \in Seq(Seq(S)) /\ Len(g) = 1 /\ g[1] = b \o lines[1]
  BY <1>1, <1>2
<1> HIDE DEF g, h
<1>4. /\ f \in Seq(Seq(S)) /\ Len(f) = Len(g) + Len(h)
      /\ \A i \in 1 .. Len(g) + Len(h) : f[i] = IF i <= Len(g) THEN g[i] ELSE h[i - Len(g)]
  BY <1>1, <1>3, ConcatProperties
<1> HIDE DEF f
<1>5. Len(f) = Len(lines) /\ f[1] = b \o lines[1]
  <2>1. Len(g) + Len(h) = Len(lines) /\ 1 \in 1 .. Len(g) + Len(h)
    BY <1>1, <1>3
  <2> QED
    BY <1>3, <1>4, <2>1
<1>6. ASSUME NEW i \in 2 .. Len(lines) PROVE f[i] = lines[i]
  <2>1. i \in 1 .. Len(g) + Len(h) /\ ~ (i <= Len(g)) /\ i - Len(g) \in 1 .. Len(h)
        /\ (i - Len(g)) + 1 = i
    BY <1>1, <1>3
  <2>2. f[i] = h[i - Len(g)]
    BY <1>4, <2>1
  <2>3. h[i - Len(g)] = lines[(i - Len(g)) + 1]
    BY <1>1, <2>1
  <2> QED
    BY <2>1, <2>2, <2>3
<1> QED
  BY <1>4, <1>5, <1>6 DEF f, g, h

\* The conjuncts of OneCallPerLine and BufferIsCurrentLine while it is open.
LEMMA OpenLines ==
  ASSUME NEW P, NEW D, NEW b, NEW S, P \in Seq(Seq(S)), Len(P) \in Nat \ {0}, D \in Seq(Seq(S)),
         Len(D) = Len(P) - 1,
         \A n \in 1 .. Len(D) : Lines!IsSuffix(D[n], P[n])
  PROVE  /\ Len(D) = Len(Lines!Front(P))
         /\ \A n \in DOMAIN D : Lines!IsSuffix(D[n], Lines!Front(P)[n])
<1>1. Len(Lines!Front(P)) = Len(P) - 1 /\ \A i \in 1 .. Len(P) - 1 : Lines!Front(P)[i] = P[i]
  BY FrontOf
<1>2. DOMAIN D = 1 .. Len(D)
  BY LenProperties
<1> QED
  BY <1>1, <1>2

LEMMA WriteKeeps ==
  ASSUME LineInv, NEW in \in Seq(Lines!Bytes), Lines!Write(in)
  PROVE  LineInv'
<1> DEFINE P == Lines!Pieces(sent)
           Q == Lines!Pieces(in)
           R == Lines!Pieces(sent \o in)
           lines == Lines!Front(Q)
           rest == Lines!Last(Q)
           first == <<buf \o Head(lines)>> \o Tail(lines)
           B == Seq(Lines!Bytes)
<1>1. /\ ~closed /\ closed' = closed /\ sent' = sent \o in
      /\ delivered' = delivered \o (IF lines = <<>> THEN <<>> ELSE first)
      /\ buf' = IF rest = <<>> /\ lines = <<>> THEN buf ELSE rest
  BY DEF Lines!Write
<1>2. /\ sent \in B /\ buf \in B /\ delivered \in Seq(B)
      /\ Len(delivered) = Len(P) - 1
      /\ \A n \in 1 .. Len(delivered) : Lines!IsSuffix(delivered[n], P[n])
      /\ Lines!IsSuffix(buf, P[Len(P)])
      /\ buf = <<>> => P[Len(P)] = <<>>
  BY <1>1 DEF LineInv
<1>3. /\ P \in Seq(B) /\ Q \in Seq(B) /\ R \in Seq(B)
      /\ Len(P) \in Nat \ {0} /\ Len(Q) \in Nat \ {0} /\ Len(R) = Len(P) + Len(Q) - 1
      /\ \A k \in 1 .. Len(P) - 1 : R[k] = P[k]
      /\ R[Len(P)] = P[Len(P)] \o Q[1]
      /\ \A k \in 2 .. Len(Q) : R[Len(P) - 1 + k] = Q[k]
  BY <1>2, PiecesJoin
<1>4. sent \o in \in B /\ Lines!Pieces(sent') = R
  BY <1>1, <1>2, ConcatProperties
<1>5. rest = Q[Len(Q)]
  BY DEF Lines!Last
<1> HIDE DEF P, Q, R, rest
<1>6. /\ lines \in Seq(B) /\ Len(lines) = Len(Q) - 1
      /\ \A i \in 1 .. Len(Q) - 1 : lines[i] = Q[i]
  BY <1>3, FrontOf
<1> HIDE DEF lines
<1>7. rest \in B /\ P[Len(P)] \in B /\ Q[1] \in B
  <2>1. Len(Q) \in 1 .. Len(Q) /\ 1 \in 1 .. Len(Q) /\ Len(P) \in 1 .. Len(P)
    BY <1>3
  <2> QED
    BY <1>3, <1>5, <2>1, ElementOfSeq
<1>8. ASSUME NEW k \in 1 .. Len(P) - 1 PROVE Lines!IsSuffix(delivered[k], R[k])
  BY <1>2, <1>3
<1> DEFINE Good == /\ delivered' \in Seq(B) /\ buf' \in B
                   /\ Len(delivered') = Len(R) - 1
                   /\ \A n \in 1 .. Len(delivered') : Lines!IsSuffix(delivered'[n], R[n])
                   /\ Lines!IsSuffix(buf', R[Len(R)])
                   /\ buf' = <<>> => R[Len(R)] = <<>>
<1>9. ASSUME lines = <<>> PROVE Good
  <2>1. Len(Q) = 1
    <3>1. Len(lines) = 0
      BY <1>9, EmptySeq
    <3> QED
      BY <1>3, <1>6, <3>1
  <2>2. delivered' = delivered
    <3>1. delivered \o <<>> = delivered
      BY <1>2, ConcatEmptySeq
    <3> QED
      BY <1>1, <1>9, <3>1
  <2>3. Len(R) = Len(P) /\ R[Len(R)] = P[Len(P)] \o rest
    BY <1>3, <1>5, <2>1
  <2>4. delivered' \in Seq(B) /\ Len(delivered') = Len(R) - 1
        /\ \A n \in 1 .. Len(delivered') : Lines!IsSuffix(delivered'[n], R[n])
    BY <1>2, <1>8, <2>2, <2>3
  <2>5. CASE rest = <<>>
    <3>1. buf' = buf
      BY <1>1, <1>9, <2>5
    <3>2. P[Len(P)] \o rest = P[Len(P)]
      BY <1>7, <2>5, ConcatEmptySeq
    <3>3. R[Len(R)] = P[Len(P)]
      BY <2>3, <3>2
    <3> QED
      BY <1>2, <2>4, <3>1, <3>3
  <2>6. CASE rest # <<>>
    <3>1. buf' = rest
      BY <1>1, <2>6
    <3>2. Lines!IsSuffix(rest, P[Len(P)] \o rest)
      BY <1>7, SuffixOfJoined
    <3>3. buf' \in B /\ Lines!IsSuffix(buf', R[Len(R)]) /\ buf' # <<>>
      BY <1>7, <2>3, <2>6, <3>1, <3>2
    <3> QED
      BY <2>4, <3>3
  <2> QED
    BY <2>5, <2>6
<1>10. ASSUME lines # <<>> PROVE Good
  <2>1. Len(Q) >= 2 /\ Len(lines) \in Nat \ {0}
    <3>1. Len(lines) \in Nat \ {0}
      BY <1>6, <1>10, EmptySeq
    <3>2. Len(lines) = Len(Q) - 1 /\ Len(Q) \in Nat
      BY <1>3, <1>6
    <3> QED
      BY <3>1, <3>2
  <2>2. /\ first \in Seq(B) /\ Len(first) = Len(lines) /\ first[1] = buf \o lines[1]
        /\ \A i \in 2 .. Len(lines) : first[i] = lines[i]
    BY <1>2, <1>6, <1>10, CompletedLines
  <2>3. delivered' = delivered \o first /\ buf' = rest
    BY <1>1, <1>10
  <2> HIDE DEF first
  <2>4. /\ delivered' \in Seq(B) /\ Len(delivered') = Len(delivered) + Len(first)
        /\ \A i \in 1 .. Len(delivered) + Len(first) :
             delivered'[i] = IF i <= Len(delivered) THEN delivered[i]
                             ELSE first[i - Len(delivered)]
    <3> DEFINE d == delivered \o first
    <3>1. /\ d \in Seq(B) /\ Len(d) = Len(delivered) + Len(first)
          /\ \A i \in 1 .. Len(delivered) + Len(first) :
               d[i] = IF i <= Len(delivered) THEN delivered[i] ELSE first[i - Len(delivered)]
      BY <1>2, <2>2, ConcatProperties
    <3>2. delivered' = d
      BY <2>3
    <3> HIDE DEF d
    <3> QED
      BY <3>1, <3>2
  <2>5. Len(delivered') = Len(R) - 1
    BY <1>2, <1>3, <1>6, <2>2, <2>4
  <2>6. R[Len(R)] = rest
    <3>1. Len(Q) \in 2 .. Len(Q) /\ Len(P) - 1 + Len(Q) = Len(R)
      BY <1>3, <2>1
    <3> QED
      BY <1>3, <1>5, <3>1
  <2>7. ASSUME NEW n \in 1 .. Len(delivered') PROVE Lines!IsSuffix(delivered'[n], R[n])
    <3>0. n \in 1 .. Len(delivered) + Len(first) /\ Len(delivered) \in Nat /\ Len(first) \in Nat
      BY <1>2, <1>3, <2>1, <2>2, <2>4
    <3>1. CASE n <= Len(delivered)
      <4>1. n \in 1 .. Len(P) - 1
        BY <1>2, <3>0, <3>1
      <4>2. delivered'[n] = delivered[n]
        BY <2>4, <3>0, <3>1
      <4> QED
        BY <1>8, <4>1, <4>2
    <3>2. CASE n = Len(delivered) + 1
      <4>1. ~ (n <= Len(delivered)) /\ n - Len(delivered) = 1 /\ n = Len(P)
        BY <1>2, <1>3, <3>0, <3>2
      <4>2. delivered'[n] = first[n - Len(delivered)]
        BY <2>4, <3>0, <4>1
      <4>3. 1 \in 1 .. Len(Q) - 1
        BY <1>3, <2>1
      <4>4. delivered'[n] = buf \o Q[1]
        BY <1>6, <2>2, <4>1, <4>2, <4>3
      <4>5. Lines!IsSuffix(buf \o Q[1], P[Len(P)] \o Q[1])
        BY <1>2, <1>7, SuffixExtends
      <4> QED
        BY <1>3, <4>1, <4>4, <4>5
    <3>3. CASE n > Len(delivered) + 1
      <4> DEFINE i == n - Len(delivered)
      <4>1. ~ (n <= Len(delivered)) /\ i \in 2 .. Len(lines) /\ i \in 2 .. Len(Q)
            /\ i \in 1 .. Len(Q) - 1
        <5>1. Len(lines) = Len(Q) - 1 /\ Len(first) = Len(lines) /\ Len(Q) \in Nat
          BY <1>3, <1>6, <2>2
        <5> QED
          BY <3>0, <3>3, <5>1
      <4>2. delivered'[n] = first[i]
        BY <2>4, <3>0, <4>1
      <4>3. Len(P) - 1 + i = n
        BY <1>2, <1>3, <3>0
      <4> HIDE DEF i
      <4>4. delivered'[n] = Q[i] /\ R[n] = Q[i]
        BY <1>3, <1>6, <2>2, <4>1, <4>2, <4>3
      <4>5. Q[i] \in B
        <5>1. i \in 1 .. Len(Q)
          BY <4>1
        <5> QED
          BY <1>3, <5>1, ElementOfSeq
      <4>6. Lines!IsSuffix(Q[i], Q[i])
        BY <4>5, SuffixOfSelf
      <4> QED
        BY <4>4, <4>6
    <3> QED
      BY <3>0, <3>1, <3>2, <3>3
  <2>8. Lines!IsSuffix(buf', R[Len(R)])
    BY <1>7, <2>3, <2>6, SuffixOfSelf
  <2> QED
    BY <1>7, <2>3, <2>4, <2>5, <2>6, <2>7, <2>8
<1>11. Good
  BY <1>9, <1>10
<1>12. /\ Len(delivered') = Len(Lines!Front(R))
       /\ \A n \in DOMAIN delivered' : Lines!IsSuffix(delivered'[n], Lines!Front(R)[n])
  <2>1. Len(R) \in Nat \ {0}
    BY <1>3
  <2> QED
    BY <1>3, <1>11, <2>1, OpenLines
<1>13. Lines!OneCallPerLine'
  BY <1>1, <1>4, <1>12 DEF Lines!OneCallPerLine, Lines!Lines
<1> QED
  BY <1>1, <1>4, <1>11, <1>13 DEF LineInv

LEMMA CloseKeeps ==
  ASSUME LineInv, Lines!Close
  PROVE  LineInv'
<1> DEFINE P == Lines!Pieces(sent)
           B == Seq(Lines!Bytes)
<1>1. /\ ~closed /\ closed' = TRUE /\ sent' = sent /\ buf' = <<>>
      /\ delivered' = IF buf = <<>> THEN delivered ELSE Append(delivered, buf)
  BY DEF Lines!Close
<1>2. /\ sent \in B /\ buf \in B /\ delivered \in Seq(B)
      /\ Len(delivered) = Len(P) - 1
      /\ \A n \in 1 .. Len(delivered) : Lines!IsSuffix(delivered[n], P[n])
      /\ Lines!IsSuffix(buf, P[Len(P)])
      /\ buf = <<>> => P[Len(P)] = <<>>
  BY <1>1 DEF LineInv
<1>3. P \in Seq(B) /\ Len(P) \in Nat \ {0} /\ P[Len(P)] \in B
  <2>1. P \in Seq(B) /\ Len(P) = Ended(sent) + 1 /\ Ended(sent) \in Nat
    BY <1>2, PiecesAre, EndedType
  <2> HIDE DEF P
  <2>2. Len(P) \in Nat \ {0} /\ Len(P) \in 1 .. Len(P)
    BY <2>1
  <2> QED
    BY <2>1, <2>2, ElementOfSeq
<1>4. Lines!Pieces(sent') = P
  BY <1>1
<1> HIDE DEF P
<1>5. CASE buf = <<>>
  <2>1. delivered' = delivered /\ P[Len(P)] = <<>>
    BY <1>1, <1>2, <1>5
  <2>2. /\ Len(delivered) = Len(Lines!Front(P))
        /\ \A n \in DOMAIN delivered : Lines!IsSuffix(delivered[n], Lines!Front(P)[n])
    BY <1>2, <1>3, OpenLines
  <2>3. Lines!Lines' = Lines!Front(P)
    BY <1>4, <2>1 DEF Lines!Lines, Lines!Last
  <2>4. Lines!OneCallPerLine'
    BY <2>1, <2>2, <2>3 DEF Lines!OneCallPerLine
  <2> QED
    BY <1>1, <1>2, <1>5, <2>1, <2>4 DEF LineInv
<1>6. CASE buf # <<>>
  <2>1. P[Len(P)] # <<>>
    <3> SUFFICES ASSUME P[Len(P)] = <<>> PROVE FALSE
      OBVIOUS
    <3>1. Len(P[Len(P)]) = 0 /\ Len(buf) \in Nat \ {0}
      BY <1>2, <1>6, EmptySeq
    <3>2. Len(buf) <= Len(P[Len(P)])
      BY <1>2, <1>3, SuffixIs
    <3> QED
      BY <3>1, <3>2
  <2>2. Lines!Lines' = P
    BY <1>1, <1>4, <2>1 DEF Lines!Lines, Lines!Last
  <2> DEFINE d == Append(delivered, buf)
  <2>3. /\ d \in Seq(B) /\ Len(d) = Len(delivered) + 1 /\ d[Len(delivered) + 1] = buf
        /\ \A i \in 1 .. Len(delivered) : d[i] = delivered[i]
    BY <1>2, AppendProperties
  <2>4. delivered' = d
    BY <1>1, <1>6
  <2> HIDE DEF d
  <2>5. Len(d) = Len(P) /\ DOMAIN d = 1 .. Len(P) /\ Len(delivered) + 1 = Len(P)
    BY <1>2, <1>3, <2>3, LenProperties
  <2>6. ASSUME NEW n \in 1 .. Len(P) PROVE Lines!IsSuffix(d[n], P[n])
    <3>1. CASE n = Len(P)
      BY <1>2, <2>3, <2>5, <3>1
    <3>2. CASE n # Len(P)
      <4>1. n \in 1 .. Len(delivered)
        BY <1>2, <1>3, <3>2
      <4> QED
        BY <1>2, <2>3, <4>1
    <3> QED
      BY <3>1, <3>2
  <2>7. Lines!OneCallPerLine'
    BY <2>2, <2>4, <2>5, <2>6 DEF Lines!OneCallPerLine
  <2>8. buf' \in B /\ sent' \in B
    BY <1>1, <1>2, EmptySeq
  <2> QED
    BY <1>1, <2>3, <2>4, <2>7, <2>8 DEF LineInv
<1> QED
  BY <1>5, <1>6

LEMMA InitLineInv == UtilsInit => LineInv
<1> SUFFICES ASSUME Lines!Init PROVE LineInv
  BY DEF UtilsInit
<1> DEFINE P == Lines!Pieces(sent)
           e == <<>>
<1>1. buf = e /\ delivered = e /\ sent = e /\ closed = FALSE
  BY DEF Lines!Init
<1>2. /\ \A S : e \in Seq(S)
      /\ Len(e) = 0
  BY EmptySeq
<1> HIDE DEF e
<1>3. Ended(sent) = 0
  <2>1. Len(sent) = 0
    BY <1>1, <1>2
  <2> QED
    BY <2>1, RankZero DEF Ended
<1>4. sent \in Seq(Lines!Bytes) /\ buf \in Seq(Lines!Bytes)
  BY <1>1, <1>2
<1>5. P \in Seq(Seq(Lines!Bytes)) /\ Len(P) = 1 /\ P[1] = LineOf(sent, 1)
  <2>1. /\ P \in Seq(Seq(Lines!Bytes)) /\ Len(P) = Ended(sent) + 1
        /\ \A k \in 1 .. Ended(sent) + 1 : P[k] = LineOf(sent, k)
    BY <1>4, PiecesAre
  <2> HIDE DEF P
  <2> QED
    BY <1>3, <2>1
<1>6. LineOf(sent, 1) = <<>>
  <2>1. EndOf(sent, 0) = 0 /\ EndOf(sent, Ended(sent) + 1) = Len(sent) + 1
    BY <1>4, EndsOfText
  <2>2. Len(sent) = 0
    BY <1>1, <1>2
  <2>3. EndOf(sent, 0) = 0 /\ EndOf(sent, 1) = 1
    BY <1>3, <2>1, <2>2
  <2>4. LineOf(sent, 1) = SubSeq(sent, 1, 0)
    BY <2>3 DEF LineOf
  <2>5. SubSeq(sent, 1, 0) = <<>>
    BY SubSeqEmpty
  <2> QED
    BY <2>4, <2>5
<1>7. P[1] = e
  BY <1>5, <1>6 DEF e
<1> HIDE DEF P
<1>8. Lines!IsSuffix(e, e)
  BY <1>2, SuffixOfSelf
<1>9. Len(delivered) = Len(P) - 1 /\ delivered \in Seq(Seq(Lines!Bytes))
      /\ \A n \in 1 .. Len(delivered) : Lines!IsSuffix(delivered[n], P[n])
  BY <1>1, <1>2, <1>5
<1>10. Lines!OneCallPerLine
  <2>1. Len(P) \in Nat \ {0}
    BY <1>5
  <2>2. /\ Len(delivered) = Len(Lines!Front(P))
        /\ \A n \in DOMAIN delivered : Lines!IsSuffix(delivered[n], Lines!Front(P)[n])
    BY <1>5, <1>9, <2>1, OpenLines
  <2> QED
    BY <1>1, <2>2 DEF Lines!OneCallPerLine, Lines!Lines, P
<1> QED
  BY <1>1, <1>4, <1>5, <1>7, <1>8, <1>9, <1>10 DEF LineInv, P

LEMMA NextLineInv == LineInv /\ [UtilsNext]_allVars => LineInv'
<1>1. LineInv /\ UNCHANGED lineVars => LineInv'
  BY DEF LineInv, Lines!OneCallPerLine, Lines!Lines, lineVars
<1>2. LineInv /\ Lines!Next => LineInv'
  <2> SUFFICES ASSUME LineInv, Lines!Next PROVE LineInv'
    OBVIOUS
  <2>1. ASSUME NEW in \in Lines!BoundedSeq(Lines!Bytes, MaxBytes - Len(sent)), Lines!Write(in)
        PROVE  LineInv'
    <3>1. PICK m \in 0 .. (MaxBytes - Len(sent)) : in \in [1 .. m -> Lines!Bytes]
      BY DEF Lines!BoundedSeq, Lines!SeqOf
    <3>2. m \in Nat
      <4>1. MaxBytes - Len(sent) \in Int
        BY BytesAssumption DEF LineInv
      <4> QED
        BY <4>1
    <3>3. in \in Seq(Lines!Bytes)
      BY <3>1, <3>2, FunctionIsSeq
    <3> QED
      BY <2>1, <3>3, WriteKeeps
  <2> QED
    BY <2>1, CloseKeeps DEF Lines!Next
<1> QED
  BY <1>1, <1>2 DEF UtilsNext, allVars, Uses

\* The callback is called once for each line and in their order, however the
\* lines were cut into writes.
THEOREM CallsMatchLines == UtilsSpec => []OneCallPerLine
<1>1. LineInv => OneCallPerLine
  BY DEF LineInv, OneCallPerLine
<1> QED
  BY <1>1, InitLineInv, NextLineInv, PTL DEF UtilsSpec

\* What is buffered ends like the line that is still incomplete.
THEOREM BufferIsOfLine == UtilsSpec => []BufferIsCurrentLine
<1>1. LineInv => BufferIsCurrentLine
  BY DEF LineInv, BufferIsCurrentLine, Lines!BufferIsCurrentLine, Lines!Last
<1> QED
  BY <1>1, InitLineInv, NextLineInv, PTL DEF UtilsSpec

=============================================================================
