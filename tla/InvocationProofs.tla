-------------------------- MODULE InvocationProofs --------------------------
(***************************************************************************)
(* Proofs about the k6 invocations, for every set of specs and every       *)
(* answer of the k6 Cloud that satisfies the assumptions of K6Invocation:  *)
(* ParseCLI assigns every argument to its flag, a PLZ test run is never    *)
(* refused, what a user has set reaches k6 as it was set and the           *)
(* operator's own values win, the cloud token is seen by the log output    *)
(* only, and the segments of the runners tile the test.                    *)
(***************************************************************************)
EXTENDS InvocationProperties, FiniteSetTheorems, SequenceTheorems,
        WellFoundedInduction, TLAPS

(***************************************************************************)
(* Numbers, sequences and induction. A recursive function is reasoned      *)
(* about through the least position at which a claim fails (LeastNat);     *)
(* that the function exists at all is shown the same way.                  *)
(***************************************************************************)

(* Every non-empty set of natural numbers has a least element.              *)
LEMMA LeastNat ==
  ASSUME NEW T, T \subseteq Nat, T # {}
  PROVE  \E x \in T : \A y \in T : x =< y
<1> DEFINE R == {ss \in Nat \X Nat : ss[1] < ss[2]}
<1>1. IsWellFoundedOn(R, Nat)
  BY NatLessThanWellFounded DEF OpToRel
<1>2. \A x, y \in Nat : y < x => <<y, x>> \in R
  OBVIOUS
<1> HIDE DEF R
<1>3. PICK x \in T : \A y \in T : ~(<<y, x>> \in R)
  BY <1>1, WFMin
<1>4. ASSUME NEW y \in T PROVE x =< y
  <2>1. ~(<<y, x>> \in R) /\ x \in Nat /\ y \in Nat
    BY <1>3
  <2>2. ~(y < x)
    BY <1>2, <2>1, Zenon
  <2> QED
    BY <2>1, <2>2
<1> QED
  BY <1>4

(* Min of a non-empty set of natural numbers is its least member,          *)
LEMMA MinIs ==
  ASSUME NEW T, T \subseteq Nat, T # {}
  PROVE  Min(T) \in T /\ \A y \in T : Min(T) =< y
  BY LeastNat, Zenon DEF Min

(* and Max of a bounded one its greatest.                                  *)
LEMMA MaxIs ==
  ASSUME NEW n \in Nat, NEW T, T \subseteq 0 .. n, T # {}
  PROVE  Max(T) \in T /\ \A y \in T : Max(T) >= y
<1> DEFINE U == {n - x : x \in T}
<1>0. \A x \in T : x \in 0 .. n /\ n - x \in Nat
  OBVIOUS
<1>1. U \subseteq Nat /\ U # {}
  BY <1>0
<1>2. PICK u \in U : \A w \in U : u =< w
  BY <1>1, LeastNat
<1>3. PICK x \in T : u = n - x
  OBVIOUS
<1>4. ASSUME NEW y \in T PROVE x >= y
  <2>1. n - y \in U
    OBVIOUS
  <2> HIDE DEF U
  <2>2. n - x =< n - y
    BY <1>2, <1>3, <2>1
  <2>3. x \in Nat /\ y \in Nat
    OBVIOUS
  <2> QED
    BY <2>2, <2>3
<1>5. \E z \in T : \A y \in T : z >= y
  BY <1>4
<1> QED
  BY <1>5, Zenon DEF Max

(* Induction on the numbers up to a bound: a set that has 0, and n + 1 with *)
(* every n, has them all.                                                   *)
LEMMA InductionUpTo ==
  ASSUME NEW bound \in Nat, NEW G, 0 \in G,
         \A n \in 0 .. bound - 1 : n \in G => n + 1 \in G
  PROVE  \A n \in 0 .. bound : n \in G
<1> DEFINE Bad == {n \in 0 .. bound : n \notin G}
<1> SUFFICES ASSUME Bad # {} PROVE FALSE
  OBVIOUS
<1>0. Bad \subseteq Nat
  OBVIOUS
<1>1. PICK n \in Bad : \A m \in Bad : n =< m
  <2> HIDE DEF Bad
  <2> QED BY LeastNat, <1>0
<1>2. n # 0 /\ n \in 0 .. bound /\ n \notin G
  OBVIOUS
<1>3. n - 1 \in 0 .. bound - 1 /\ (n - 1) + 1 = n
  BY <1>2
<1>4. n - 1 \notin Bad
  <2>1. ~(n =< n - 1)
    BY <1>2
  <2> QED
    BY <1>1, <2>1
<1>5. n - 1 \in G
  BY <1>3, <1>4
<1> QED
  BY <1>2, <1>3, <1>5

(* The same downwards, from bound to 1.                                     *)
LEMMA InductionDownFrom ==
  ASSUME NEW bound \in Nat \ {0}, NEW G, bound \in G,
         \A n \in 1 .. bound - 1 : n + 1 \in G => n \in G
  PROVE  \A n \in 1 .. bound : n \in G
<1> DEFINE H == {m \in 0 .. bound - 1 : bound - m \in G}
<1>1. 0 \in H
  OBVIOUS
<1>2. ASSUME NEW m \in 0 .. (bound - 1) - 1, m \in H PROVE m + 1 \in H
  <2>1. bound - (m + 1) \in 1 .. bound - 1 /\ (bound - (m + 1)) + 1 = bound - m
    OBVIOUS
  <2>2. bound - m \in G
    BY <1>2
  <2>3. bound - (m + 1) \in G
    BY <2>1, <2>2
  <2> QED
    BY <2>3
<1>3. \A m \in 0 .. bound - 1 : m \in H
  <2> HIDE DEF H
  <2>1. bound - 1 \in Nat
    OBVIOUS
  <2> QED
    BY <1>1, <1>2, <2>1, InductionUpTo
<1>4. ASSUME NEW n \in 1 .. bound PROVE n \in G
  <2>1. bound - n \in 0 .. bound - 1 /\ bound - (bound - n) = n
    OBVIOUS
  <2>2. bound - (bound - n) \in G
    BY <1>3, <2>1
  <2> QED
    BY <2>1, <2>2
<1> QED
  BY <1>4
-----------------------------------------------------------------------------
(* flat is the concatenation of parts 1 .. n: part k begins after off[k - 1].*)
Joined(S, parts, n, flat, off) ==
  /\ off \in [0 .. n -> Nat] /\ off[0] = 0
  /\ \A k \in 1 .. n : off[k] = off[k - 1] + Len(parts[k])
  /\ \A k, m \in 0 .. n : k =< m => off[k] =< off[m]
  /\ flat \in Seq(S) /\ Len(flat) = off[n]
  /\ \A k \in 1 .. n : \A m \in 1 .. Len(parts[k]) : flat[off[k - 1] + m] = parts[k][m]
  /\ \A p \in 1 .. off[n] : \E k \in 1 .. n : \E m \in 1 .. Len(parts[k]) : p = off[k - 1] + m

(* The concatenation of no parts,                                          *)
LEMMA JoinedNone ==
  ASSUME NEW S, NEW parts
  PROVE  Joined(S, parts, 0, <<>>, [k \in 0 .. 0 |-> 0])
  BY DEF Joined

(* and of one part more.                                                   *)
LEMMA JoinedStep ==
  ASSUME NEW S, NEW parts, NEW n \in Nat, NEW flat, NEW off, Joined(S, parts, n, flat, off),
         parts[n + 1] \in Seq(S)
  PROVE  \E o : Joined(S, parts, n + 1, flat \o parts[n + 1], o)
<1> DEFINE part == parts[n + 1]
           o    == [k \in 0 .. n + 1 |-> IF k = n + 1 THEN off[n] + Len(part) ELSE off[k]]
           all  == flat \o part
<1>1. /\ off \in [0 .. n -> Nat] /\ off[0] = 0 /\ flat \in Seq(S) /\ Len(flat) = off[n]
      /\ part \in Seq(S) /\ Len(part) \in Nat /\ off[n] \in Nat
  BY DEF Joined
<1>2. o \in [0 .. n + 1 -> Nat] /\ o[0] = 0 /\ o[n + 1] = off[n] + Len(part)
      /\ \A k \in 0 .. n : o[k] = off[k]
  BY <1>1
<1>3. all \in Seq(S) /\ Len(all) = o[n + 1]
  <2> HIDE DEF o, part
  <2>1. flat \o part \in Seq(S) /\ Len(flat \o part) = Len(flat) + Len(part)
    BY <1>1, ConcatProperties
  <2>2. Len(flat) = off[n] /\ o[n + 1] = off[n] + Len(part)
    BY <1>1, <1>2
  <2> QED BY <2>1, <2>2
<1>4. /\ \A p \in 1 .. off[n] : all[p] = flat[p]
      /\ \A m \in 1 .. Len(part) : all[off[n] + m] = part[m]
  BY <1>1
<1> HIDE DEF o, all
<1>5. ASSUME NEW k \in 1 .. n + 1 PROVE o[k] = o[k - 1] + Len(parts[k])
  <2>1. CASE k = n + 1
    BY <1>1, <1>2, <2>1
  <2>2. CASE k \in 1 .. n
    BY <1>1, <1>2, <2>2 DEF Joined
  <2> QED BY <2>1, <2>2
<1>6. ASSUME NEW k \in 0 .. n + 1, NEW m \in 0 .. n + 1, k =< m PROVE o[k] =< o[m]
  <2>1. CASE k = n + 1
    BY <1>2, <1>6, <2>1
  <2>2. CASE k \in 0 .. n /\ m \in 0 .. n
    BY <1>2, <1>6, <2>2 DEF Joined
  <2>3. CASE k \in 0 .. n /\ m = n + 1
    <3>1. off[k] =< off[n] /\ off[k] \in Nat
      BY <2>3 DEF Joined
    <3> QED BY <1>1, <1>2, <2>3, <3>1
  <2> QED BY <2>1, <2>2, <2>3
<1>7. ASSUME NEW k \in 1 .. n + 1, NEW m \in 1 .. Len(parts[k])
      PROVE  all[o[k - 1] + m] = parts[k][m]
  <2>1. CASE k = n + 1
    BY <1>1, <1>2, <1>4, <2>1
  <2>2. CASE k \in 1 .. n
    <3>0. flat[off[k - 1] + m] = parts[k][m]
      BY <2>2 DEF Joined
    <3>1. /\ off[k] = off[k - 1] + Len(parts[k])
          /\ off[k] =< off[n] /\ off[k - 1] \in Nat /\ off[k] \in Nat
      <4>1. k \in 0 .. n /\ n \in 0 .. n /\ k - 1 \in 0 .. n /\ k =< n
        BY <2>2
      <4> QED BY <4>1, <2>2 DEF Joined
    <3>2. off[k - 1] + m \in 1 .. off[n]
      <4> HIDE DEF part
      <4> QED BY <3>1, <1>1, <2>2, SMTT(30)
    <3>3. o[k - 1] = off[k - 1]
      BY <1>2, <2>2
    <3> QED BY <1>4, <3>0, <3>1, <3>2, <3>3
  <2> QED BY <2>1, <2>2
<1>8. ASSUME NEW p \in 1 .. o[n + 1]
      PROVE  \E k \in 1 .. n + 1 : \E m \in 1 .. Len(parts[k]) : p = o[k - 1] + m
  <2>1. CASE p \in 1 .. off[n]
    <3>1. PICK k \in 1 .. n : \E m \in 1 .. Len(parts[k]) : p = off[k - 1] + m
      BY <2>1 DEF Joined
    <3>2. k \in 1 .. n + 1 /\ o[k - 1] = off[k - 1]
      BY <1>2
    <3> QED BY <3>1, <3>2
  <2>2. CASE p \in off[n] + 1 .. off[n] + Len(part)
    <3>1. p - off[n] \in 1 .. Len(parts[n + 1]) /\ p = o[(n + 1) - 1] + (p - off[n])
      BY <1>1, <1>2, <2>2, SMTT(30)
    <3> QED BY <3>1
  <2> QED BY <1>1, <1>2, <2>1, <2>2
<1>9. Joined(S, parts, n + 1, all, o)
  BY <1>2, <1>3, <1>5, <1>6, <1>7, <1>8 DEF Joined
<1> QED
  BY <1>9 DEF all

(* The recursive function by which FlattenSeq is defined exists.            *)
IsFlatten(f, parts, n) ==
  f = [k \in 1 .. n |-> IF k = 1 THEN parts[k] ELSE f[k - 1] \o parts[k]]

(* Each step needs the one before it only: by induction on n.              *)
LEMMA FlattenFunction ==
  ASSUME NEW n \in Nat \ {0}, NEW parts
  PROVE  \E f : IsFlatten(f, parts, n)
<1> DEFINE G == {c \in Nat : \E f : IsFlatten(f, parts, c + 1)}
<1>1. 0 \in G
  <2>1. IsFlatten([k \in 1 .. 1 |-> parts[1]], parts, 0 + 1)
    BY DEF IsFlatten
  <2> QED BY <2>1
<1>2. ASSUME NEW c \in Nat, c \in G PROVE c + 1 \in G
  <2>1. PICK f : IsFlatten(f, parts, c + 1)
    BY <1>2
  <2> DEFINE d == c + 2
             g == [k \in 1 .. d |-> IF k = d THEN f[d - 1] \o parts[k] ELSE f[k]]
  <2>2. ASSUME NEW k \in 1 .. d
        PROVE  g[k] = IF k = 1 THEN parts[k] ELSE g[k - 1] \o parts[k]
    <3>1. CASE k = d
      <4>1. k # 1 /\ d - 1 \in 1 .. d /\ d - 1 # d /\ d \in 1 .. d
        BY <3>1
      <4> HIDE DEF d
      <4>2. g[d - 1] = f[d - 1] /\ g[d] = f[d - 1] \o parts[d]
        BY <4>1, Zenon
      <4> QED BY <3>1, <4>1, <4>2, Zenon
    <3>2. CASE k \in 1 .. c + 1
      <4>1. g[k] = f[k] /\ (k # 1 => g[k - 1] = f[k - 1])
        BY <3>2
      <4>2. f[k] = IF k = 1 THEN parts[k] ELSE f[k - 1] \o parts[k]
        BY <2>1, <3>2 DEF IsFlatten
      <4> QED BY <4>1, <4>2
    <3> QED BY <3>1, <3>2
  <2>3. g = [k \in 1 .. d |-> g[k]]
    OBVIOUS
  <2> HIDE DEF g
  <2>4. IsFlatten(g, parts, d)
    BY <2>2, <2>3 DEF IsFlatten
  <2>5. d = (c + 1) + 1
    OBVIOUS
  <2>6. \E h : IsFlatten(h, parts, (c + 1) + 1)
    BY <2>4, <2>5
  <2> QED BY <2>6
<1>3. \A c \in 0 .. n - 1 : c \in G
  <2> HIDE DEF G
  <2>1. n - 1 \in Nat
    OBVIOUS
  <2> QED BY <1>1, <1>2, <2>1, InductionUpTo
<1>4. n - 1 \in G /\ (n - 1) + 1 = n
  BY <1>3
<1> QED
  BY <1>4

(* FlattenSeq concatenates its parts.                                       *)
LEMMA FlattenParts ==
  ASSUME NEW S, NEW n \in Nat, NEW parts, Len(parts) = n, n = 0 => parts = <<>>,
         \A k \in 1 .. n : parts[k] \in Seq(S)
  PROVE  \E off : Joined(S, parts, n, FlattenSeq(parts), off)
<1>1. CASE n = 0
  BY <1>1, JoinedNone DEF FlattenSeq
<1>2. CASE n # 0
  <2> DEFINE f == CHOOSE f : IsFlatten(f, parts, n)
  <2>1. IsFlatten(f, parts, n)
    BY <1>2, FlattenFunction
  <2>2. FlattenSeq(parts) = f[n]
    BY <1>2 DEF FlattenSeq, IsFlatten
  <2> HIDE DEF f
  <2>3. f[1] = parts[1] /\ \A k \in 2 .. n : f[k] = f[k - 1] \o parts[k]
    <3>1. \A k \in 1 .. n : f[k] = IF k = 1 THEN parts[k] ELSE f[k - 1] \o parts[k]
      <4> DEFINE value(k) == IF k = 1 THEN parts[k] ELSE f[k - 1] \o parts[k]
      <4>1. f = [k \in 1 .. n |-> value(k)]
        BY <2>1 DEF IsFlatten
      <4> HIDE DEF value
      <4>2. \A k \in 1 .. n : f[k] = value(k)
        BY <4>1
      <4> QED BY <4>2 DEF value
    <3>2. 1 \in 1 .. n /\ \A k \in 2 .. n : k \in 1 .. n /\ k # 1
      BY <1>2
    <3> QED BY <3>1, <3>2, Zenon
  <2> DEFINE G == {c \in Nat : \E off : Joined(S, parts, c + 1, f[c + 1], off)}
  <2>4. 0 \in G
    <3>1. parts[0 + 1] \in Seq(S)
      BY <1>2
    <3>2. \E o : Joined(S, parts, 0 + 1, <<>> \o parts[0 + 1], o)
      <4> HIDE DEF G
      <4> QED BY <3>1, JoinedNone, JoinedStep
    <3>3. <<>> \o parts[0 + 1] = f[0 + 1]
      BY <2>3, <3>1, ConcatEmptySeq
    <3>4. \E o : Joined(S, parts, 0 + 1, f[0 + 1], o)
      BY <3>2, <3>3
    <3> QED BY <3>4
  <2>5. ASSUME NEW c \in 0 .. (n - 1) - 1, c \in G PROVE c + 1 \in G
    <3>1. PICK off : Joined(S, parts, c + 1, f[c + 1], off)
      BY <2>5
    <3>2. PICK d \in Nat : d = c + 1
      OBVIOUS
    <3>3. d + 1 \in 2 .. n /\ d + 1 \in 1 .. n /\ (d + 1) - 1 = d
      BY <3>2
    <3>4. parts[d + 1] \in Seq(S) /\ f[d + 1] = f[d] \o parts[d + 1]
      BY <2>3, <3>3
    <3>5. \E o : Joined(S, parts, d + 1, f[d] \o parts[d + 1], o)
      <4> HIDE DEF G
      <4> QED BY <3>1, <3>2, <3>4, JoinedStep
    <3>6. \E o : Joined(S, parts, d + 1, f[d + 1], o)
      BY <3>4, <3>5
    <3> QED BY <3>2, <3>6
  <2>6. \A c \in 0 .. n - 1 : c \in G
    <3> HIDE DEF G
    <3>1. n - 1 \in Nat
      BY <1>2
    <3> QED BY <2>4, <2>5, <3>1, InductionUpTo
  <2>7. n - 1 \in G /\ (n - 1) + 1 = n
    <3>1. n - 1 \in 0 .. n - 1
      BY <1>2
    <3> HIDE DEF G
    <3> QED BY <2>6, <3>1
  <2> QED BY <2>2, <2>7
<1> QED
  BY <1>1, <1>2

(***************************************************************************)
(* ParseCLI: positions and their ranks, the groups of arguments that       *)
(* lastArgV finds, and one pass of the loop.                               *)
(***************************************************************************)

(* The members of a set of positions up to j; their number is the rank of  *)
(* j.                                                                      *)
UpTo(K, j) == {q \in K : q =< j}

(* A rank is a number.                                                     *)
LEMMA UpToFinite ==
  ASSUME NEW K, K \subseteq Nat, IsFiniteSet(K), NEW j
  PROVE  IsFiniteSet(UpTo(K, j)) /\ Cardinality(UpTo(K, j)) \in Nat
  BY FS_Subset, FS_CardinalityType, UpTo(K, j) \subseteq K DEF UpTo

(* Two members of a set have different ranks.                               *)
LEMMA RankInjective ==
  ASSUME NEW K, K \subseteq Nat, IsFiniteSet(K), NEW j \in K, NEW m \in K, j < m
  PROVE  Cardinality(UpTo(K, j)) # Cardinality(UpTo(K, m))
<1>1. UpTo(K, j) \subseteq UpTo(K, m)
  <2>1. \A q \in K : q =< j => q =< m
    OBVIOUS
  <2> QED BY <2>1 DEF UpTo
<1>2. m \in UpTo(K, m) /\ m \notin UpTo(K, j)
  BY DEF UpTo
<1> QED
  BY <1>1, <1>2, UpToFinite, FS_Subset

(* Nth finds a member by its rank.                                         *)
LEMMA NthIs ==
  ASSUME NEW K, K \subseteq Nat, IsFiniteSet(K), NEW j \in K
  PROVE  Nth(K, Cardinality(UpTo(K, j))) = j
<1> DEFINE n == Cardinality(UpTo(K, j))
           x == Nth(K, n)
<1>1. \E z \in K : Cardinality(UpTo(K, z)) = n
  OBVIOUS
<1>2. x \in K /\ Cardinality(UpTo(K, x)) = n
  BY <1>1 DEF Nth, UpTo
<1> HIDE DEF x
<1>3. ~(x < j) /\ ~(j < x)
  BY <1>2, RankInjective
<1>4. x \in Nat /\ j \in Nat
  BY <1>2
<1>5. x = j
  BY <1>3, <1>4
<1> QED
  BY <1>5 DEF x

(* Every rank up to the number of members is the rank of one.               *)
LEMMA NthRank ==
  ASSUME NEW b \in Nat, NEW K, K \subseteq 1 .. b, NEW n \in 1 .. Cardinality(K)
  PROVE  \E j \in K : Cardinality(UpTo(K, j)) = n
<1> DEFINE below(c) == K \cap (1 .. c)
           Good(c)  == \A m \in 1 .. Cardinality(below(c)) : \E j \in below(c) : Cardinality(UpTo(below(c), j)) = m
           G        == {c \in Nat : Good(c)}
<1>1. ASSUME NEW c \in Nat PROVE IsFiniteSet(below(c)) /\ Cardinality(below(c)) \in Nat
  <2>1. IsFiniteSet(1 .. c)
    BY FS_Interval
  <2>2. below(c) \in SUBSET (1 .. c)
    OBVIOUS
  <2> HIDE DEF below
  <2> QED BY <2>1, <2>2, FS_Subset, FS_CardinalityType
<1>2. 0 \in G
  <2>1. below(0) = {}
    OBVIOUS
  <2>2. Cardinality(below(0)) = 0
    BY <2>1, FS_EmptySet
  <2> QED BY <2>2
<1>3. ASSUME NEW c \in 0 .. b - 1, c \in G PROVE c + 1 \in G
  <2>1. CASE c + 1 \notin K
    <3>1. below(c + 1) = below(c)
      BY <2>1
    <3> QED BY <1>3, <3>1
  <2>2. CASE c + 1 \in K
    <3> DEFINE old == below(c)
               new == below(c + 1)
    <3>1. new = old \cup {c + 1} /\ c + 1 \notin old
      BY <2>2
    <3>2. /\ IsFiniteSet(old) /\ IsFiniteSet(new)
          /\ Cardinality(old) \in Nat /\ Cardinality(new) = Cardinality(old) + 1
      <4> HIDE DEF old, new
      <4>1. IsFiniteSet(old) /\ Cardinality(old) \in Nat
        BY <1>1 DEF old
      <4> QED BY <3>1, <4>1, FS_AddElement
    <3>3. \A j \in old : UpTo(new, j) = UpTo(old, j)
      <4>1. \A j \in old : j \in Nat /\ ~(c + 1 =< j)
        OBVIOUS
      <4> HIDE DEF old, new
      <4> QED BY <3>1, <4>1 DEF UpTo
    <3>4. UpTo(new, c + 1) = new
      <4>1. \A q \in new : q =< c + 1
        OBVIOUS
      <4> HIDE DEF new
      <4> QED BY <4>1 DEF UpTo
    <3>5. Good(c)
      BY <1>3
    <3>6. ASSUME NEW m \in 1 .. Cardinality(new) PROVE \E j \in new : Cardinality(UpTo(new, j)) = m
      <4>1. CASE m = Cardinality(new)
        BY <3>1, <3>4, <4>1
      <4>2. CASE m # Cardinality(new)
        <5>1. m \in 1 .. Cardinality(old)
          <6> HIDE DEF old, new
          <6> QED BY <3>2, <4>2
        <5>2. PICK j \in old : Cardinality(UpTo(old, j)) = m
          BY <3>5, <5>1
        <5> QED BY <3>1, <3>3, <5>2
      <4> QED BY <4>1, <4>2
    <3> QED BY <3>6
  <2> QED BY <2>1, <2>2
<1>4. b \in G
  <2> HIDE DEF G
  <2> QED BY <1>2, <1>3, InductionUpTo
<1>5. below(b) = K
  OBVIOUS
<1> QED
  BY <1>4, <1>5

(* Nth is defined for every rank that the set has.                         *)
LEMMA NthExists ==
  ASSUME NEW b \in Nat, NEW K, K \subseteq 1 .. b, NEW n \in 1 .. Cardinality(K)
  PROVE  Nth(K, n) \in K /\ Cardinality(UpTo(K, Nth(K, n))) = n
<1>1. \E j \in K : Cardinality(UpTo(K, j)) = n
  BY NthRank
<1> QED
  BY <1>1 DEF Nth, UpTo
-----------------------------------------------------------------------------
(* The positions of the first c arguments that are selected for k6         *)
(* archive.                                                                *)
Kept(argv, c) == {j \in 1 .. c : Archived(argv, j)}

(* What the loop has found in the first c arguments does not depend on the  *)
(* others.                                                                  *)
LEMMA CLIOfPrefix ==
  ASSUME NEW argv \in Seq(Argument), NEW c \in 0 .. Len(argv)
  PROVE  CLIOf(SubSeq(argv, 1, c)) =
           [ArchiveArgs |-> [n \in 1 .. Cardinality(Kept(argv, c)) |-> argv[Nth(Kept(argv, c), n)]],
            HasCloudOut |-> \E p \in 1 .. c - 1 :
                              IsExactly(argv[p], OutFlag) /\ argv[p + 1] = Word("cloud")]
<1> DEFINE pre == SubSeq(argv, 1, c)
<1>1. pre \in Seq(Argument) /\ Len(pre) = c /\ \A m \in 1 .. c : pre[m] = argv[m]
  OBVIOUS
<1> HIDE DEF pre
<1>2. ASSUME NEW j \in 1 .. c, NEW p \in 1 .. j PROVE BelongsTo(pre, j, p) <=> BelongsTo(argv, j, p)
  <2>1. p \in 1 .. c /\ \A k \in p + 1 .. j : k \in 1 .. c
    OBVIOUS
  <2>2. pre[p] = argv[p] /\ \A k \in p + 1 .. j : pre[k] = argv[k]
    BY <1>1, <2>1
  <2> QED BY <2>2 DEF BelongsTo
<1>3. ASSUME NEW j \in 1 .. c PROVE Archived(pre, j) <=> Archived(argv, j)
  <2>1. \A p \in 1 .. j : pre[p] = argv[p]
    BY <1>1
  <2> QED BY <1>2, <2>1, Zenon DEF Archived
<1>4. {j \in 1 .. Len(pre) : Archived(pre, j)} = Kept(argv, c)
  BY <1>1, <1>3 DEF Kept
<1> DEFINE K == Kept(argv, c)
<1>5. K \subseteq 1 .. c
  BY DEF Kept
<1> HIDE DEF K
<1>6. \A n \in 1 .. Cardinality(K) : pre[Nth(K, n)] = argv[Nth(K, n)]
  <2>1. c \in Nat
    OBVIOUS
  <2>2. \A n \in 1 .. Cardinality(K) : Nth(K, n) \in 1 .. c
    BY <1>5, <2>1, NthExists
  <2> QED BY <1>1, <2>2
<1>7. \A p \in 1 .. c - 1 : pre[p] = argv[p] /\ pre[p + 1] = argv[p + 1]
  <2>1. \A p \in 1 .. c - 1 : p \in 1 .. c /\ p + 1 \in 1 .. c
    OBVIOUS
  <2> QED BY <1>1, <2>1
<1>8. (\E p \in 1 .. Len(pre) - 1 : IsExactly(pre[p], OutFlag) /\ pre[p + 1] = Word("cloud"))
      <=> (\E p \in 1 .. c - 1 : IsExactly(argv[p], OutFlag) /\ argv[p + 1] = Word("cloud"))
  BY <1>1, <1>7
<1>9. [n \in 1 .. Cardinality(K) |-> pre[Nth(K, n)]] = [n \in 1 .. Cardinality(K) |-> argv[Nth(K, n)]]
  BY <1>6
<1> QED
  BY <1>4, <1>8, <1>9, Zenon DEF CLIOf, K, pre

(* No flag before takes the argument at p: the loop is between two groups.  *)
Boundary(argv, p) == p =< Len(argv) => \A q \in 1 .. p - 1 : ~BelongsTo(argv, p, q)

(* The empty argument and the output's name do not begin with a dash.      *)
LEMMA EmptyIsValue == ~IsFlag(EmptyArg) /\ ~IsFlag(Word("cloud"))
  BY DEF IsFlag, EmptyArg, Word, Value

(* The group that lastArgV finds for the flag at p.                         *)
LEMMA GroupEnd ==
  ASSUME NEW argv \in Seq(Argument), NEW p \in 1 .. Len(argv), IsFlag(argv[p]),
         NEW k, k = lastArgV(p + 1, argv)
  PROVE  /\ k \in p + 1 .. Len(argv) + 1
         /\ \A j \in p + 1 .. k - 1 :
              ~IsFlag(argv[j]) /\ (argv[j] = EmptyArg => j = p + 1 /\ k = p + 2)
         /\ Boundary(argv, k)
<1> DEFINE n == Len(argv)
<1>0. n \in Nat
  OBVIOUS
<1>1. CASE p + 1 =< n /\ argv[p + 1] = EmptyArg
  <2>1. k = (p + 1) + 1
    BY <1>1 DEF lastArgV
  <2>2. k = p + 2
    BY <2>1
  <2>3. \A j \in p + 1 .. k - 1 : j = p + 1
    BY <2>2
  <2>4. ASSUME k =< n, NEW q \in 1 .. k - 1, BelongsTo(argv, k, q) PROVE FALSE
    <3>1. CASE q < p
      <4>1. p \in q + 1 .. k
        BY <2>2, <3>1
      <4> QED BY <2>4, <4>1 DEF BelongsTo
    <3>2. CASE q = p
      <4>1. p + 1 \in q + 1 .. k /\ p + 1 # k
        BY <2>2, <3>2
      <4> QED BY <1>1, <2>4, <4>1 DEF BelongsTo
    <3>3. CASE q = p + 1
      BY <1>1, <2>4, <3>3, EmptyIsValue DEF BelongsTo
    <3> QED BY <2>2, <3>1, <3>2, <3>3
  <2> QED
    BY <1>1, <2>2, <2>3, <2>4, EmptyIsValue DEF Boundary
<1>2. CASE ~(p + 1 =< n /\ argv[p + 1] = EmptyArg)
  <2> DEFINE T == {m \in p + 1 .. n + 1 : m = n + 1 \/ IsFlag(argv[m]) \/ argv[m] = EmptyArg}
  <2>1. k = Min(T)
    BY <1>2 DEF lastArgV
  <2>2. T \subseteq Nat /\ n + 1 \in T
    OBVIOUS
  <2>3. k \in T /\ \A y \in T : k =< y
    <3> HIDE DEF T
    <3>1. T # {}
      BY <2>2
    <3> QED BY <2>1, <2>2, <3>1, MinIs
  <2>4. ASSUME NEW j \in p + 1 .. k - 1 PROVE ~IsFlag(argv[j]) /\ argv[j] # EmptyArg
    <3>1. j \in p + 1 .. n + 1 /\ ~(k =< j)
      BY <2>3
    <3>2. j \notin T
      <4> HIDE DEF T
      <4> QED BY <2>3, <3>1
    <3> QED BY <3>1, <3>2
  <2>5. ASSUME k =< n, NEW q \in 1 .. k - 1, BelongsTo(argv, k, q) PROVE FALSE
    <3>1. ~IsFlag(argv[k])
      <4>1. k \in q + 1 .. k
        BY <2>3
      <4> QED BY <2>5, <4>1 DEF BelongsTo
    <3>2. argv[k] = EmptyArg /\ k # p + 1
      BY <1>2, <2>3, <2>5, <3>1
    <3>3. CASE q < p
      <4>1. p \in q + 1 .. k
        BY <2>3, <3>3
      <4> QED BY <2>5, <4>1 DEF BelongsTo
    <3>4. CASE q = p
      <4>1. k \in q + 1 .. k
        BY <2>3
      <4> QED BY <2>5, <3>2, <3>4, <4>1 DEF BelongsTo
    <3>5. CASE q > p
      <4>1. q \in p + 1 .. k - 1
        BY <3>5
      <4> QED BY <2>4, <2>5, <4>1 DEF BelongsTo
    <3> QED BY <3>3, <3>4, <3>5
  <2> QED
    BY <2>3, <2>4, <2>5 DEF Boundary
<1> QED
  BY <1>1, <1>2

(* Its arguments belong to that flag and to no other.                       *)
LEMMA GroupBelongs ==
  ASSUME NEW argv \in Seq(Argument), NEW p \in 1 .. Len(argv), IsFlag(argv[p]),
         NEW k, k = lastArgV(p + 1, argv), NEW j \in p .. k - 1
  PROVE  /\ ~Positional(argv, j)
         /\ Archived(argv, j) <=> ForArchive(argv[p])
<1>1. /\ k \in p + 1 .. Len(argv) + 1
      /\ \A m \in p + 1 .. k - 1 :
           ~IsFlag(argv[m]) /\ (argv[m] = EmptyArg => m = p + 1 /\ k = p + 2)
  BY GroupEnd
<1>2. CASE j = p
  <2>1. ASSUME NEW q \in 1 .. j, BelongsTo(argv, j, q) PROVE FALSE
    <3>1. j \in q + 1 .. j
      BY <2>1 DEF BelongsTo
    <3> QED BY <1>2, <2>1, <3>1 DEF BelongsTo
  <2>2. p \in 1 .. j
    BY <1>2
  <2> QED BY <1>2, <2>1, <2>2 DEF Positional, Archived
<1>3. CASE j # p
  <2>0. j \in p + 1 .. k - 1 /\ j \in Nat
    BY <1>1, <1>3
  <2>1. BelongsTo(argv, j, p)
    <3>1. ASSUME NEW m \in p + 1 .. j
          PROVE  ~IsFlag(argv[m]) /\ (argv[m] = EmptyArg => m = p + 1 /\ m = j)
      <4>1. m \in p + 1 .. k - 1
        BY <2>0, <1>1
      <4>2. k = p + 2 => m = p + 1 /\ j = p + 1
        BY <4>1, <2>0
      <4> QED BY <1>1, <4>1, <4>2
    <3> QED BY <2>0, <3>1 DEF BelongsTo
  <2>2. ASSUME NEW q \in 1 .. j, BelongsTo(argv, j, q) PROVE q = p
    <3>1. CASE q < p
      <4>1. p \in q + 1 .. j
        BY <2>0, <3>1
      <4> QED BY <2>2, <4>1 DEF BelongsTo
    <3>2. CASE q > p
      <4>1. q \in p + 1 .. k - 1
        BY <1>1, <2>0, <3>2
      <4> QED BY <1>1, <2>2, <4>1 DEF BelongsTo
    <3> QED BY <3>1, <3>2
  <2>3. p \in 1 .. j /\ p \in 1 .. j - 1
    BY <2>0
  <2>4. ~IsFlag(argv[j])
    BY <1>1, <2>0
  <2>5. ~Positional(argv, j)
    BY <2>1, <2>3 DEF Positional
  <2>6. Archived(argv, j) => ForArchive(argv[p])
    <3> SUFFICES ASSUME NEW q \in 1 .. j, q = j \/ BelongsTo(argv, j, q), IsFlag(argv[q]),
                        ForArchive(argv[q])
                 PROVE  ForArchive(argv[p])
      BY DEF Archived
    <3>1. BelongsTo(argv, j, q)
      BY <2>4
    <3> QED BY <2>2, <3>1
  <2>7. ForArchive(argv[p]) => Archived(argv, j)
    BY <2>1, <2>3 DEF Archived
  <2> QED BY <2>5, <2>6, <2>7
<1> QED
  BY <1>2, <1>3

(* L has the members of K and, above them, p .. k - 1.                      *)
Longer(K, L, p, k) ==
  /\ Cardinality(K) \in Nat /\ Cardinality(L) = Cardinality(K) + (k - p)
  /\ \A n \in 1 .. Cardinality(K) : Nth(L, n) = Nth(K, n)
  /\ \A j \in p .. k - 1 : Nth(L, Cardinality(K) + (j - p) + 1) = j

(* The members added above all others take the ranks after theirs.          *)
LEMMA NthOfLonger ==
  ASSUME NEW K, NEW p \in Nat \ {0}, K \subseteq 1 .. p - 1, NEW k \in Nat, k > p,
         NEW L, L = K \cup (p .. k - 1)
  PROVE  Longer(K, L, p, k)
<1> DEFINE c == Cardinality(K)
<1>1. IsFiniteSet(K) /\ c \in Nat
  <2>1. IsFiniteSet(1 .. p - 1)
    BY FS_Interval
  <2>2. K \in SUBSET (1 .. p - 1)
    OBVIOUS
  <2> QED BY <2>1, <2>2, FS_Subset, FS_CardinalityType
<1>2. ASSUME NEW j \in p .. k - 1
      PROVE  /\ IsFiniteSet(K \cup (p .. j))
             /\ Cardinality(K \cup (p .. j)) = c + (j - p) + 1
  <2>1. IsFiniteSet(p .. j) /\ Cardinality(p .. j) = (j - p) + 1
    BY FS_Interval
  <2>2. K \cap (p .. j) = {}
    OBVIOUS
  <2>3. Cardinality(K \cap (p .. j)) = 0
    BY <2>2, FS_EmptySet
  <2>4. /\ IsFiniteSet(K \cup (p .. j))
        /\ Cardinality(K \cup (p .. j)) = Cardinality(K) + Cardinality(p .. j) - Cardinality(K \cap (p .. j))
    BY <1>1, <2>1, FS_Union
  <2> QED BY <1>1, <2>1, <2>3, <2>4
<1>3. IsFiniteSet(L) /\ Cardinality(L) = c + (k - p)
  <2>1. k - 1 \in p .. k - 1 /\ c + ((k - 1) - p) + 1 = c + (k - p)
    BY <1>1
  <2> QED BY <1>2, <2>1
<1>4. K \subseteq Nat /\ L \subseteq Nat
  OBVIOUS
<1>5. \A j \in K : UpTo(L, j) = UpTo(K, j)
  <2>1. \A j \in K : \A q \in p .. k - 1 : ~(q =< j)
    OBVIOUS
  <2> QED BY <2>1 DEF UpTo
<1>6. ASSUME NEW n \in 1 .. c PROVE Nth(L, n) = Nth(K, n)
  <2>1. Nth(K, n) \in K /\ Cardinality(UpTo(K, Nth(K, n))) = n
    <3>1. p - 1 \in Nat
      OBVIOUS
    <3> QED BY <3>1, NthExists
  <2>2. Cardinality(UpTo(L, Nth(K, n))) = n /\ Nth(K, n) \in L
    BY <1>5, <2>1
  <2> QED BY <1>3, <1>4, <2>2, NthIs
<1>7. ASSUME NEW j \in p .. k - 1 PROVE Nth(L, c + (j - p) + 1) = j
  <2>1. UpTo(L, j) = K \cup (p .. j)
    <3>1. \A q \in K : q =< j
      OBVIOUS
    <3>2. \A q \in p .. k - 1 : q =< j <=> q \in p .. j
      OBVIOUS
    <3>3. p .. j \subseteq p .. k - 1
      OBVIOUS
    <3> QED BY <3>1, <3>2, <3>3 DEF UpTo
  <2>2. j \in L
    OBVIOUS
  <2> QED BY <1>2, <1>3, <1>4, <2>1, <2>2, NthIs
<1> QED
  BY <1>1, <1>3, <1>6, <1>7 DEF Longer

(* The arguments at some positions, in their order.                         *)
Selected(argv, K) == [n \in 1 .. Cardinality(K) |-> argv[Nth(K, n)]]

(* Selecting a group after the arguments before it appends the group.      *)
LEMMA SelectedConcat ==
  ASSUME NEW argv \in Seq(Argument), NEW p \in 1 .. Len(argv), NEW k \in p + 1 .. Len(argv) + 1,
         NEW K, K \subseteq 1 .. p - 1, NEW L, Longer(K, L, p, k)
  PROVE  Selected(argv, L) = Selected(argv, K) \o SubSeq(argv, p, k - 1)
<1>1. PICK c \in Nat : c = Cardinality(K)
  BY DEF Longer
<1>2. PICK d : d = Cardinality(L)
  OBVIOUS
<1>3. d = c + (k - p) /\ \A n \in 1 .. c : Nth(L, n) = Nth(K, n)
  BY <1>1, <1>2 DEF Longer
<1>4. \A j \in p .. k - 1 : Nth(L, c + (j - p) + 1) = j
  BY <1>1, <1>2 DEF Longer
<1>5. \A n \in 1 .. c : Nth(K, n) \in 1 .. Len(argv)
  <2>1. p - 1 \in Nat /\ 1 .. p - 1 \subseteq 1 .. Len(argv)
    OBVIOUS
  <2>2. \A n \in 1 .. Cardinality(K) : Nth(K, n) \in K
    BY <2>1, NthExists
  <2> QED BY <1>1, <2>1, <2>2
<1> DEFINE old   == [n \in 1 .. c |-> argv[Nth(K, n)]]
           new   == [n \in 1 .. d |-> argv[Nth(L, n)]]
           group == SubSeq(argv, p, k - 1)
<1>6. d \in Nat
  BY <1>3
<1>7. old \in Seq(Argument) /\ Len(old) = c
  <2>1. \A n \in 1 .. c : argv[Nth(K, n)] \in Argument
    BY <1>5
  <2> QED BY <2>1
<1>8. /\ group \in Seq(Argument) /\ Len(group) = k - p
      /\ \A m \in 1 .. k - p : group[m] = argv[p + m - 1]
  OBVIOUS
<1>9. ASSUME NEW n \in 1 .. d, n > c
      PROVE  Nth(L, n) = p + (n - c) - 1 /\ n - c \in 1 .. k - p /\ Nth(L, n) \in 1 .. Len(argv)
  <2> DEFINE j == p + (n - c) - 1
  <2>1. j \in p .. k - 1 /\ c + (j - p) + 1 = n /\ n - c \in 1 .. k - p /\ j \in 1 .. Len(argv)
    BY <1>9, <1>3
  <2>2. Nth(L, c + (j - p) + 1) = j
    <3> HIDE DEF j
    <3> QED BY <2>1, <1>4
  <2> QED BY <2>1, <2>2
<1>10. new \in Seq(Argument) /\ Len(new) = d
  <2>1. ASSUME NEW n \in 1 .. d PROVE argv[Nth(L, n)] \in Argument
    <3>1. Nth(L, n) \in 1 .. Len(argv)
      <4>1. CASE n > c
        BY <1>9, <4>1
      <4>2. CASE ~(n > c)
        <5>1. n \in 1 .. c
          BY <1>6, <4>2
        <5> QED BY <5>1, <1>3, <1>5
      <4> QED BY <4>1, <4>2
    <3> QED BY <3>1
  <2> QED BY <1>6, <2>1
<1>11. \A n \in 1 .. c : new[n] = old[n]
  BY <1>3
<1>12. \A n \in 1 .. d : n > c => new[n] = group[n - c]
  <2> SUFFICES ASSUME NEW n \in 1 .. d, n > c PROVE new[n] = group[n - c]
    OBVIOUS
  <2>1. new[n] = argv[p + (n - c) - 1]
    BY <1>9
  <2> HIDE DEF new, group
  <2> QED BY <1>8, <1>9, <2>1
<1> HIDE DEF old, new, group
<1>13. /\ old \o group \in Seq(Argument) /\ Len(old \o group) = d
      /\ \A n \in 1 .. d : (old \o group)[n] = IF n =< c THEN old[n] ELSE group[n - c]
  <2>1. Len(old) + Len(group) = d
    BY <1>7, <1>8, <1>3
  <2> QED BY <1>7, <1>8, <2>1, ConcatProperties
<1>14. \A n \in 1 .. d : new[n] = (old \o group)[n]
  <2>1. \A n \in 1 .. d : IF n =< c THEN n \in 1 .. c ELSE n > c
    BY <1>6
  <2> QED BY <1>11, <1>12, <1>13, <2>1
<1> QED
  <2>1. new = old \o group
    BY <1>10, <1>13, <1>14, SeqEqual
  <2> QED BY <1>1, <1>2, <2>1 DEF old, new, group, Selected

(* One pass of ParseCLI's loop: what CLIOf finds up to the end of the group *)
(* is what it found before it and the group.                                *)
LEMMA ParseCLIStep ==
  ASSUME NEW argv \in Seq(Argument), NEW p \in 1 .. Len(argv), IsFlag(argv[p]),
         NEW k, k = lastArgV(p + 1, argv)
  PROVE  CLIOf(SubSeq(argv, 1, k - 1)) = AddGroup(CLIOf(SubSeq(argv, 1, p - 1)), argv, p, k)
<1> DEFINE K == Kept(argv, p - 1)
           L == Kept(argv, k - 1)
           old == Selected(argv, K)
           new == Selected(argv, L)
           cloud(c) == \E q \in 1 .. c - 1 : IsExactly(argv[q], OutFlag) /\ argv[q + 1] = Word("cloud")
           group == IF ForArchive(argv[p]) THEN SubSeq(argv, p, k - 1) ELSE <<>>
<1>1. /\ k \in p + 1 .. Len(argv) + 1
      /\ \A j \in p + 1 .. k - 1 : ~IsFlag(argv[j])
  BY GroupEnd
<1>2. p - 1 \in 0 .. Len(argv) /\ k - 1 \in 0 .. Len(argv) /\ k \in Nat /\ p \in Nat \ {0} /\ k > p
  BY <1>1
<1>3. /\ CLIOf(SubSeq(argv, 1, p - 1)) = [ArchiveArgs |-> old, HasCloudOut |-> cloud(p - 1)]
      /\ CLIOf(SubSeq(argv, 1, k - 1)) = [ArchiveArgs |-> new, HasCloudOut |-> cloud(k - 1)]
  <2> HIDE DEF K, L
  <2>1. CLIOf(SubSeq(argv, 1, p - 1)) = [ArchiveArgs |-> old, HasCloudOut |-> cloud(p - 1)]
    BY <1>2, CLIOfPrefix DEF K, Selected
  <2>2. CLIOf(SubSeq(argv, 1, k - 1)) = [ArchiveArgs |-> new, HasCloudOut |-> cloud(k - 1)]
    BY <1>2, CLIOfPrefix DEF L, Selected
  <2> QED BY <2>1, <2>2
<1>4. K \subseteq 1 .. p - 1 /\ K \subseteq 1 .. Len(argv)
  BY <1>2 DEF Kept
<1>5. Cardinality(K) \in Nat
  <2>1. IsFiniteSet(1 .. p - 1)
    BY <1>2, FS_Interval
  <2>2. K \in SUBSET (1 .. p - 1)
    BY <1>4
  <2> HIDE DEF K
  <2> QED BY <2>1, <2>2, FS_Subset, FS_CardinalityType
<1>6. old \in Seq(Argument) /\ Len(old) = Cardinality(K)
  <2> HIDE DEF K
  <2>1. p - 1 \in Nat
    OBVIOUS
  <2>2. \A n \in 1 .. Cardinality(K) : Nth(K, n) \in 1 .. Len(argv)
    BY <1>4, <2>1, NthExists
  <2>3. \A n \in 1 .. Cardinality(K) : argv[Nth(K, n)] \in Argument
    BY <2>2
  <2> QED BY <1>5, <2>3 DEF Selected
<1>7. new = old \o group
  <2>1. CASE ForArchive(argv[p])
    <3>1. L = K \cup (p .. k - 1)
      <4>1. \A j \in p .. k - 1 : Archived(argv, j)
        BY <2>1, GroupBelongs
      <4>2. 1 .. k - 1 = (1 .. p - 1) \cup (p .. k - 1)
        BY <1>2
      <4> QED BY <4>1, <4>2 DEF Kept
    <3> HIDE DEF K, L
    <3>2. Longer(K, L, p, k)
      BY <1>2, <1>4, <3>1, NthOfLonger
    <3>3. new = old \o SubSeq(argv, p, k - 1)
      BY <1>1, <1>4, <3>2, SelectedConcat
    <3> QED BY <2>1, <3>3
  <2>2. CASE ~ForArchive(argv[p])
    <3>1. L = K
      <4>1. \A j \in p .. k - 1 : ~Archived(argv, j)
        BY <2>2, GroupBelongs
      <4>2. 1 .. k - 1 = (1 .. p - 1) \cup (p .. k - 1)
        BY <1>2
      <4> QED BY <4>1, <4>2 DEF Kept
    <3>2. new = old
      <4> HIDE DEF K, L
      <4> QED BY <3>1
    <3> HIDE DEF old, new
    <3> QED BY <1>6, <2>2, <3>2, ConcatEmptySeq
  <2> QED BY <2>1, <2>2
<1>8. cloud(k - 1) <=> cloud(p - 1) \/ (IsExactly(argv[p], OutFlag) /\ p + 1 < k /\ argv[p + 1] = Word("cloud"))
  <2>1. ASSUME NEW q \in 1 .. (k - 1) - 1, IsExactly(argv[q], OutFlag), argv[q + 1] = Word("cloud")
        PROVE  q \in 1 .. (p - 1) - 1 \/ (q = p /\ p + 1 < k)
    <3>1. q # p - 1
      BY <2>1, EmptyIsValue
    <3>2. IsFlag(argv[q])
      BY <2>1 DEF IsExactly, OutFlag, IsFlag
    <3>3. ~(q > p)
      <4>1. q > p => q \in p + 1 .. k - 1
        BY <1>2
      <4> QED BY <1>1, <3>2, <4>1
    <3> QED BY <1>2, <3>1, <3>3
  <2>2. (1 .. (p - 1) - 1) \subseteq (1 .. (k - 1) - 1) /\ (p + 1 < k => p \in 1 .. (k - 1) - 1)
    BY <1>2
  <2> QED BY <2>1, <2>2
<1> HIDE DEF old, new, cloud, group
<1>9. AddGroup([ArchiveArgs |-> old, HasCloudOut |-> cloud(p - 1)], argv, p, k)
        = [ArchiveArgs |-> old \o group,
           HasCloudOut |-> cloud(p - 1) \/ (IsExactly(argv[p], OutFlag) /\ p + 1 < k /\ argv[p + 1] = Word("cloud"))]
  BY DEF AddGroup, group
<1>10. cloud(k - 1) = (cloud(p - 1) \/ (IsExactly(argv[p], OutFlag) /\ p + 1 < k /\ argv[p + 1] = Word("cloud")))
  BY <1>8 DEF cloud
<1> QED
  BY <1>3, <1>7, <1>9, <1>10

(***************************************************************************)
(* Texts: escapeKubeExpansion doubles what the kubelet halves; the         *)
(* arguments that are made of them.                                        *)
(***************************************************************************)

(* A text with two pieces before it.                                       *)
LEMMA Prefixed ==
  ASSUME NEW S, NEW a \in S, NEW b \in S, NEW t \in Seq(S), NEW u, u = <<a, b>> \o t
  PROVE  /\ u \in Seq(S) /\ Len(u) = Len(t) + 2 /\ u[1] = a /\ u[2] = b
         /\ \A k \in 1 .. Len(t) : u[k + 2] = t[k]
  OBVIOUS

(* e is t with every $ doubled: piece k of t ends at off[k] in e.           *)
EscapedBy(e, t, off) ==
  /\ e \in Text /\ t \in Text /\ off \in [0 .. Len(t) -> Nat]
  /\ off[0] = 0 /\ off[Len(t)] = Len(e)
  /\ \A k \in 1 .. Len(t) :
       /\ off[k] =< Len(e)
       /\ t[k] = "$" => /\ off[k] = off[k - 1] + 2
                        /\ e[off[k - 1] + 1] = "$" /\ e[off[k - 1] + 2] = "$"
       /\ t[k] # "$" => off[k] = off[k - 1] + 1 /\ e[off[k - 1] + 1] = t[k]

(* e is an escaped form of t.                                              *)
Escaped(e, t) == \E off : EscapedBy(e, t, off)

(* escapeKubeExpansion doubles every $.                                     *)
LEMMA EscapeKubeExpansion ==
  ASSUME NEW t \in Text
  PROVE  Escaped(escapeKubeExpansion(t), t)
<1> DEFINE n == Len(t)
           parts == [k \in DOMAIN t |-> IF t[k] = "$" THEN <<"$", "$">> ELSE <<t[k]>>]
           e == escapeKubeExpansion(t)
<1>1. t \in Seq(Piece) /\ n \in Nat /\ DOMAIN t = 1 .. n
  BY DEF Text
<1>2. \A k \in 1 .. n : /\ parts[k] \in Seq(Piece)
                        /\ t[k] = "$" => Len(parts[k]) = 2 /\ parts[k][1] = "$" /\ parts[k][2] = "$"
                        /\ t[k] # "$" => Len(parts[k]) = 1 /\ parts[k][1] = t[k]
  BY <1>1
<1>3. Len(parts) = n /\ (n = 0 => parts = <<>>)
  BY <1>1
<1>4. e = FlattenSeq(parts)
  BY DEF escapeKubeExpansion
<1> HIDE DEF parts, e
<1>5. PICK off : Joined(Piece, parts, n, e, off)
  BY <1>1, <1>2, <1>3, <1>4, FlattenParts
<1>6. e \in Seq(Piece) /\ Len(e) = off[n] /\ off \in [0 .. n -> Nat] /\ off[0] = 0
  BY <1>5 DEF Joined
<1>7. ASSUME NEW k \in 1 .. n
      PROVE  /\ off[k] =< Len(e) /\ off[k] = off[k - 1] + Len(parts[k])
             /\ \A m \in 1 .. Len(parts[k]) : e[off[k - 1] + m] = parts[k][m]
  <2>1. k \in 0 .. n /\ n \in 0 .. n /\ k =< n
    BY <1>1
  <2> QED BY <1>5, <1>6, <2>1 DEF Joined
<1>8. ASSUME NEW k \in 1 .. n
      PROVE  /\ off[k] =< Len(e)
             /\ t[k] = "$" => /\ off[k] = off[k - 1] + 2
                              /\ e[off[k - 1] + 1] = "$" /\ e[off[k - 1] + 2] = "$"
             /\ t[k] # "$" => off[k] = off[k - 1] + 1 /\ e[off[k - 1] + 1] = t[k]
  <2>1. CASE t[k] = "$"
    <3>1. Len(parts[k]) = 2 /\ parts[k][1] = "$" /\ parts[k][2] = "$"
      BY <1>2, <2>1
    <3>2. 1 \in 1 .. Len(parts[k]) /\ 2 \in 1 .. Len(parts[k])
      BY <3>1
    <3> QED BY <1>7, <2>1, <3>1, <3>2
  <2>2. CASE t[k] # "$"
    <3>1. Len(parts[k]) = 1 /\ parts[k][1] = t[k]
      BY <1>2, <2>2
    <3>2. 1 \in 1 .. Len(parts[k])
      BY <3>1
    <3> QED BY <1>7, <2>2, <3>1, <3>2
  <2> QED BY <2>1, <2>2
<1>9. EscapedBy(e, t, off)
  BY <1>6, <1>8 DEF EscapedBy, Text
<1> QED
  BY <1>9 DEF Escaped, e

(* A text without a $ is its own escaped form.                              *)
LEMMA PlainEscaped ==
  ASSUME NEW t \in Text, \A k \in 1 .. Len(t) : t[k] # "$"
  PROVE  Escaped(t, t)
<1> DEFINE off == [k \in 0 .. Len(t) |-> k]
<1>1. Len(t) \in Nat
  BY DEF Text
<1>2. EscapedBy(t, t, off)
  BY <1>1 DEF EscapedBy
<1> QED
  BY <1>2 DEF Escaped

(* key=value is escaped when the value is.                                  *)
LEMMA KeyValueEscaped ==
  ASSUME NEW e, NEW t, Escaped(e, t), NEW key \in Name
  PROVE  /\ Escaped(<<key, "=">> \o e, <<key, "=">> \o t)
         /\ KeyValue(key, e) \in Argument /\ KeyValue(key, t) \in Argument
<1>1. PICK off : EscapedBy(e, t, off)
  BY DEF Escaped
<1>2. e \in Seq(Piece) /\ t \in Seq(Piece) /\ key \in Piece /\ key # "$" /\ "=" \in Piece
  BY <1>1, WordsAssumption DEF EscapedBy, Text, Name, Special
<1> DEFINE e2 == <<key, "=">> \o e
           t2 == <<key, "=">> \o t
           o2 == [k \in 0 .. Len(t2) |-> IF k =< 2 THEN k ELSE off[k - 2] + 2]
<1> HIDE DEF e2, t2
<1>4. /\ e2 \in Seq(Piece) /\ Len(e2) = Len(e) + 2 /\ e2[1] = key /\ e2[2] = "="
      /\ \A k \in 1 .. Len(e) : e2[k + 2] = e[k]
  BY <1>2, Prefixed DEF e2
<1>5. /\ t2 \in Seq(Piece) /\ Len(t2) = Len(t) + 2 /\ t2[1] = key /\ t2[2] = "="
      /\ \A k \in 1 .. Len(t) : t2[k + 2] = t[k]
  BY <1>2, Prefixed DEF t2
<1>6. Len(t) \in Nat /\ Len(e) \in Nat
  BY <1>2
<1>7. off \in [0 .. Len(t) -> Nat] /\ off[0] = 0 /\ off[Len(t)] = Len(e)
  BY <1>1 DEF EscapedBy
<1>8. /\ o2 \in [0 .. Len(t2) -> Nat] /\ o2[0] = 0 /\ o2[1] = 1 /\ o2[2] = 2
      /\ \A k \in 0 .. Len(t) : o2[k + 2] = off[k] + 2
  <2>1. \A k \in 3 .. Len(t2) : k - 2 \in 0 .. Len(t)
    BY <1>5, <1>6
  <2>2. ASSUME NEW k \in 0 .. Len(t2) PROVE o2[k] \in Nat
    <3>1. CASE k =< 2
      BY <3>1
    <3>2. CASE ~(k =< 2)
      <4>1. k \in 3 .. Len(t2)
        BY <1>5, <1>6, <3>2
      <4>2. off[k - 2] \in Nat
        BY <1>7, <2>1, <4>1
      <4> QED BY <3>2, <4>2
    <3> QED BY <3>1, <3>2
  <2>3. ASSUME NEW k \in 0 .. Len(t) PROVE o2[k + 2] = off[k] + 2
    <3>1. k + 2 \in 0 .. Len(t2) /\ (k + 2) - 2 = k
      BY <1>5, <1>6
    <3>2. CASE k = 0
      BY <1>7, <3>1, <3>2
    <3>3. CASE k # 0
      BY <3>1, <3>3
    <3> QED BY <3>2, <3>3
  <2>4. 0 \in 0 .. Len(t2) /\ 1 \in 0 .. Len(t2) /\ 2 \in 0 .. Len(t2)
    BY <1>5, <1>6
  <2> QED BY <2>2, <2>3, <2>4
<1> HIDE DEF o2
<1>9. ASSUME NEW k \in 1 .. Len(t2)
      PROVE  /\ o2[k] =< Len(e2)
             /\ t2[k] = "$" => /\ o2[k] = o2[k - 1] + 2
                               /\ e2[o2[k - 1] + 1] = "$" /\ e2[o2[k - 1] + 2] = "$"
             /\ t2[k] # "$" => o2[k] = o2[k - 1] + 1 /\ e2[o2[k - 1] + 1] = t2[k]
  <2>1. CASE k = 1
    BY <1>2, <1>4, <1>5, <1>6, <1>8, <2>1
  <2>2. CASE k = 2
    BY <1>2, <1>4, <1>5, <1>6, <1>8, <2>2
  <2>3. CASE k > 2
    <3>1. PICK m \in 1 .. Len(t) : k = m + 2
      <4>1. k - 2 \in 1 .. Len(t) /\ k = (k - 2) + 2
        BY <1>5, <1>6, <2>3
      <4> QED BY <4>1
    <3>2. /\ off[m] =< Len(e)
          /\ t[m] = "$" => /\ off[m] = off[m - 1] + 2
                           /\ e[off[m - 1] + 1] = "$" /\ e[off[m - 1] + 2] = "$"
          /\ t[m] # "$" => off[m] = off[m - 1] + 1 /\ e[off[m - 1] + 1] = t[m]
      BY <1>1 DEF EscapedBy
    <3>3. /\ o2[k] = off[m] + 2 /\ o2[k - 1] = off[m - 1] + 2 /\ t2[k] = t[m]
          /\ off[m] \in Nat /\ off[m - 1] \in Nat
      <4>1. m \in 0 .. Len(t) /\ m - 1 \in 0 .. Len(t) /\ k - 1 = (m - 1) + 2
        BY <1>6, <3>1
      <4>2. o2[m + 2] = off[m] + 2 /\ o2[(m - 1) + 2] = off[m - 1] + 2
        BY <1>8, <4>1
      <4> QED BY <1>5, <1>7, <3>1, <4>1, <4>2
    <3>4. CASE t[m] = "$"
      <4> DEFINE a == off[m - 1]
                 c == off[m]
      <4>0. a \in Nat /\ c \in Nat /\ c = a + 2 /\ c =< Len(e)
        BY <3>2, <3>3, <3>4
      <4> HIDE DEF a, c
      <4>1. off[m - 1] + 1 \in 1 .. Len(e) /\ off[m - 1] + 2 \in 1 .. Len(e)
        <5>1. a + 1 \in 1 .. Len(e) /\ a + 2 \in 1 .. Len(e)
          BY <1>6, <4>0
        <5> QED BY <5>1 DEF a
      <4>2. e2[(off[m - 1] + 1) + 2] = "$" /\ e2[(off[m - 1] + 2) + 2] = "$"
        BY <1>4, <3>2, <3>4, <4>1
      <4>3. /\ (off[m - 1] + 1) + 2 = o2[k - 1] + 1 /\ (off[m - 1] + 2) + 2 = o2[k - 1] + 2
            /\ o2[k] = o2[k - 1] + 2 /\ o2[k] =< Len(e2)
        <5>1. o2[k] = c + 2 /\ o2[k - 1] = a + 2 /\ Len(e2) = Len(e) + 2
          BY <1>4, <3>3 DEF a, c
        <5>2. /\ (a + 1) + 2 = o2[k - 1] + 1 /\ (a + 2) + 2 = o2[k - 1] + 2
              /\ o2[k] = o2[k - 1] + 2 /\ o2[k] =< Len(e2)
          BY <1>6, <4>0, <5>1
        <5> QED BY <5>2 DEF a
      <4> QED BY <3>3, <3>4, <4>2, <4>3
    <3>5. CASE t[m] # "$"
      <4> DEFINE a == off[m - 1]
                 c == off[m]
      <4>0. a \in Nat /\ c \in Nat /\ c = a + 1 /\ c =< Len(e)
        BY <3>2, <3>3, <3>5
      <4> HIDE DEF a, c
      <4>1. off[m - 1] + 1 \in 1 .. Len(e)
        <5>1. a + 1 \in 1 .. Len(e)
          BY <1>6, <4>0
        <5> QED BY <5>1 DEF a
      <4>2. e2[(off[m - 1] + 1) + 2] = t[m]
        BY <1>4, <3>2, <3>5, <4>1
      <4>3. /\ (off[m - 1] + 1) + 2 = o2[k - 1] + 1
            /\ o2[k] = o2[k - 1] + 1 /\ o2[k] =< Len(e2)
        <5>1. o2[k] = c + 2 /\ o2[k - 1] = a + 2 /\ Len(e2) = Len(e) + 2
          BY <1>4, <3>3 DEF a, c
        <5>2. (a + 1) + 2 = o2[k - 1] + 1 /\ o2[k] = o2[k - 1] + 1 /\ o2[k] =< Len(e2)
          BY <1>6, <4>0, <5>1
        <5> QED BY <5>2 DEF a
      <4> QED BY <3>3, <3>5, <4>2, <4>3
    <3> QED BY <3>4, <3>5
  <2> QED BY <2>1, <2>2, <2>3
<1>10. o2[Len(t2)] = Len(e2)
  <2>1. Len(t) \in 0 .. Len(t)
    BY <1>6
  <2> QED BY <1>4, <1>5, <1>7, <1>8, <2>1
<1>11. EscapedBy(e2, t2, o2)
  BY <1>4, <1>5, <1>8, <1>9, <1>10 DEF EscapedBy, Text
<1>12. Escaped(<<key, "=">> \o e, <<key, "=">> \o t)
  BY <1>11 DEF Escaped, e2, t2
<1>13. "none" \in FlagName
  BY WordsAssumption
<1> QED
  BY <1>4, <1>5, <1>12, <1>13 DEF KeyValue, Value, Argument, Text, e2, t2

(* The arguments the operator writes.                                       *)
LEMMA FlagTyped ==
  ASSUME NEW f \in FlagName
  PROVE  /\ Flag(f) \in Argument /\ Flag(f).flag = f /\ Flag(f).text = <<>>
         /\ \A t \in Text : FlagWith(f, t) \in Argument /\ FlagWith(f, t).flag = f /\ FlagWith(f, t).text = t
<1>1. <<>> \in Text
  BY DEF Text
<1> QED
  BY <1>1 DEF Flag, FlagWith, Argument

(* An argument that is not a flag.                                         *)
LEMMA WordTyped ==
  ASSUME NEW w \in Piece
  PROVE  Word(w) \in Argument /\ Word(w).flag = "none" /\ Word(w).text = <<w>> /\ <<w>> \in Text
<1>1. <<w>> \in Text
  BY DEF Text
<1>2. "none" \in FlagName
  BY WordsAssumption
<1> QED
  BY <1>1, <1>2 DEF Word, Value, Argument

(* u is the text of key=t.                                                  *)
KeyText(u, key, t) ==
  /\ u \in Seq(Piece) /\ t \in Seq(Piece) /\ Len(u) = Len(t) + 2 /\ u[1] = key /\ u[2] = "="
  /\ \A k \in 1 .. Len(t) : u[k + 2] = t[k]

(* The argument key=text.                                                  *)
LEMMA KeyValueTyped ==
  ASSUME NEW key \in Name, NEW t \in Text
  PROVE  /\ KeyValue(key, t) \in Argument /\ KeyValue(key, t).flag = "none"
         /\ KeyValue(key, t).text = <<key, "=">> \o t
         /\ KeyText(KeyValue(key, t).text, key, t)
<1>1. key \in Piece /\ "=" \in Piece /\ "none" \in FlagName
  BY WordsAssumption DEF Name, Special
<1>2. t \in Seq(Piece)
  BY DEF Text
<1>3. PICK u : u = <<key, "=">> \o t
  OBVIOUS
<1>4. KeyText(u, key, t)
  <2>1. /\ u \in Seq(Piece) /\ Len(u) = Len(t) + 2 /\ u[1] = key /\ u[2] = "="
        /\ \A k \in 1 .. Len(t) : u[k + 2] = t[k]
    BY <1>1, <1>2, <1>3, Prefixed
  <2> QED BY <1>2, <2>1 DEF KeyText
<1>5. KeyValue(key, t) = [flag |-> "none", text |-> u]
  BY <1>3 DEF KeyValue, Value
<1>6. u \in Text
  BY <1>4 DEF KeyText, Text
<1>7. KeyValue(key, t) \in Argument /\ KeyValue(key, t).flag = "none" /\ KeyValue(key, t).text = u
  BY <1>1, <1>5, <1>6 DEF Argument
<1> QED
  BY <1>3, <1>4, <1>7

(* The first two elements of a sequence.                                   *)
LEMMA FirstTwo ==
  ASSUME NEW S, NEW u \in Seq(S), Len(u) >= 2
  PROVE  SubSeq(u, 1, 2) = <<u[1], u[2]>>
<1> DEFINE v == SubSeq(u, 1, 2)
           w == <<u[1], u[2]>>
<1>1. v \in Seq(S) /\ Len(v) = 2 /\ v[1] = u[1] /\ v[2] = u[2]
  OBVIOUS
<1>2. w \in Seq(S) /\ Len(w) = 2 /\ w[1] = u[1] /\ w[2] = u[2]
  OBVIOUS
<1> HIDE DEF v, w
<1>3. \A k \in 1 .. 2 : v[k] = w[k]
  BY <1>1, <1>2
<1>4. v = w
  BY <1>1, <1>2, <1>3, SeqEqual
<1> QED
  BY <1>4 DEF v, w

(* Equal pairs have equal parts.                                           *)
LEMMA TwoEqual ==
  ASSUME NEW a, NEW b, NEW c, NEW d, <<a, b>> = <<c, d>>
  PROVE  a = c /\ b = d
  OBVIOUS

(* The key and the value can be taken out of key=value.                     *)
LEMMA KeyAndValue ==
  ASSUME NEW key, NEW t, NEW u, KeyText(u, key, t)
  PROVE  /\ Len(u) >= 2
         /\ SubSeq(u, 1, 2) = <<key, "=">>
         /\ SubSeq(u, 3, Len(u)) = t
         /\ \A key2 : SubSeq(u, 1, 2) = <<key2, "=">> => key = key2
<1>1. /\ u \in Seq(Piece) /\ Len(u) = Len(t) + 2 /\ u[1] = key /\ u[2] = "=" /\ Len(t) \in Nat
      /\ t \in Seq(Piece) /\ \A k \in 1 .. Len(t) : u[k + 2] = t[k]
  BY DEF KeyText
<1>2. SubSeq(u, 1, 2) = <<key, "=">>
  <2>1. Len(u) >= 2
    BY <1>1
  <2> QED BY <1>1, <2>1, FirstTwo
<1>3. SubSeq(u, 3, Len(u)) = t
  <2> DEFINE v == SubSeq(u, 3, Len(u))
  <2>1. v \in Seq(Piece) /\ Len(v) = Len(t) /\ \A k \in 1 .. Len(t) : v[k] = u[k + 2]
    BY <1>1
  <2> HIDE DEF v
  <2>3. v = t
    BY <1>1, <2>1, SeqEqual
  <2> QED BY <2>3 DEF v
<1>4. ASSUME NEW key2, SubSeq(u, 1, 2) = <<key2, "=">> PROVE key = key2
  BY <1>2, <1>4, TwoEqual
<1> QED
  BY <1>1, <1>2, <1>3, <1>4
-----------------------------------------------------------------------------
(* A set of keys with their texts.                                          *)
KeyTexts == Name \X Text

(* At p a pair of the flag and key=value begins.                            *)
PairAt(a, p, flag, x) == a[p] = Flag(flag) /\ a[p + 1] = KeyValue(x[1], x[2])

(* a consists of pairs of the flag and a member of P, and has all of them.  *)
PairList(a, flag, P) ==
  /\ a \in Seq(Argument)
  /\ \A k \in 1 .. Len(a) : \E p \in 1 .. Len(a) - 1 :
       (k = p \/ k = p + 1) /\ \E x \in P : PairAt(a, p, flag, x)
  /\ \A x \in P : \E p \in 1 .. Len(a) - 1 : PairAt(a, p, flag, x)

(* Concatenating pairs of one flag gives the list of them.                 *)
LEMMA FlattenPairs ==
  ASSUME NEW flag \in FlagName, NEW P, P \subseteq KeyTexts,
         NEW n \in Nat, NEW parts, Len(parts) = n, n = 0 => parts = <<>>,
         \A m \in 1 .. n : parts[m] = <<>> \/ \E x \in P : parts[m] = Pair(flag, x[1], x[2]),
         \A x \in P : \E m \in 1 .. n : parts[m] = Pair(flag, x[1], x[2])
  PROVE  PairList(FlattenSeq(parts), flag, P)
<1> DEFINE a == FlattenSeq(parts)
<1>1. ASSUME NEW x \in P
      PROVE  /\ Pair(flag, x[1], x[2]) \in Seq(Argument) /\ Len(Pair(flag, x[1], x[2])) = 2
             /\ Pair(flag, x[1], x[2])[1] = Flag(flag)
             /\ Pair(flag, x[1], x[2])[2] = KeyValue(x[1], x[2])
  <2>1. x[1] \in Name /\ x[2] \in Text
    BY DEF KeyTexts
  <2>2. Flag(flag) \in Argument /\ KeyValue(x[1], x[2]) \in Argument
    BY <2>1, FlagTyped, KeyValueTyped
  <2> QED BY <2>2 DEF Pair
<1>2. ASSUME NEW m \in 1 .. n PROVE parts[m] \in Seq(Argument)
  <2>1. CASE parts[m] = <<>>
    BY <2>1
  <2>2. CASE \E x \in P : parts[m] = Pair(flag, x[1], x[2])
    BY <1>1, <2>2
  <2> QED BY <2>1, <2>2
<1>3. PICK off : Joined(Argument, parts, n, a, off)
  BY <1>2, FlattenParts
<1> HIDE DEF a
<1>4. a \in Seq(Argument) /\ Len(a) = off[n] /\ off \in [0 .. n -> Nat]
  BY <1>3 DEF Joined
<1>5. ASSUME NEW m \in 1 .. n, NEW x \in P, parts[m] = Pair(flag, x[1], x[2])
      PROVE  off[m - 1] \in Nat /\ off[m - 1] + 1 \in 1 .. Len(a) - 1 /\ PairAt(a, off[m - 1] + 1, flag, x)
  <2>1. off[m] = off[m - 1] + Len(parts[m]) /\ Len(parts[m]) = 2
    BY <1>1, <1>3, <1>5 DEF Joined
  <2>2. m - 1 \in 0 .. n /\ m \in 0 .. n /\ n \in 0 .. n /\ m =< n
    OBVIOUS
  <2>3. off[m - 1] \in Nat /\ off[m] \in Nat /\ off[n] \in Nat /\ off[m] =< off[n]
    BY <1>3, <2>2 DEF Joined
  <2>4. off[m - 1] + 1 \in 1 .. Len(a) - 1
    BY <1>4, <2>1, <2>3
  <2>5. 1 \in 1 .. Len(parts[m]) /\ 2 \in 1 .. Len(parts[m])
    BY <2>1
  <2>6. a[off[m - 1] + 1] = parts[m][1] /\ a[off[m - 1] + 2] = parts[m][2]
    BY <1>3, <2>5 DEF Joined
  <2>7. (off[m - 1] + 1) + 1 = off[m - 1] + 2
    BY <2>3
  <2> QED BY <1>1, <1>5, <2>3, <2>4, <2>6, <2>7 DEF PairAt
<1>6. ASSUME NEW k \in 1 .. Len(a)
      PROVE  \E p \in 1 .. Len(a) - 1 : (k = p \/ k = p + 1) /\ \E x \in P : PairAt(a, p, flag, x)
  <2>0. PICK m \in 1 .. n : \E r \in 1 .. Len(parts[m]) : k = off[m - 1] + r
    BY <1>3, <1>4 DEF Joined
  <2>1. PICK q \in 1 .. Len(parts[m]) : k = off[m - 1] + q
    BY <2>0
  <2>2. PICK x \in P : parts[m] = Pair(flag, x[1], x[2])
    <3>1. parts[m] # <<>>
      BY <2>1
    <3> QED BY <3>1
  <2>3. q = 1 \/ q = 2
    <3>1. Len(parts[m]) = 2
      BY <1>1, <2>2
    <3> QED BY <3>1
  <2>4. /\ off[m - 1] \in Nat /\ off[m - 1] + 1 \in 1 .. Len(a) - 1
        /\ PairAt(a, off[m - 1] + 1, flag, x)
    BY <1>5, <2>2
  <2>5. k = off[m - 1] + 1 \/ k = (off[m - 1] + 1) + 1
    <3>1. PICK c \in Nat : c = off[m - 1]
      BY <2>4
    <3>2. k = c + q
      BY <2>1, <3>1
    <3>3. k = c + 1 \/ k = (c + 1) + 1
      <4>1. CASE q = 1
        BY <3>2, <4>1
      <4>2. CASE q = 2
        BY <3>2, <4>2
      <4> QED BY <2>3, <4>1, <4>2
    <3> QED BY <3>1, <3>3
  <2> QED BY <2>4, <2>5
<1>7. ASSUME NEW x \in P
      PROVE  \E p \in 1 .. Len(a) - 1 : PairAt(a, p, flag, x)
  BY <1>5
<1>8. PairList(a, flag, P)
  BY <1>4, <1>6, <1>7 DEF PairList
<1> QED
  BY <1>8 DEF a

(* The pairs of a map are those of its keys, its texts escaped.             *)
EscapedPairs(map) == {<<key, escapeKubeExpansion(map[key])>> : key \in DOMAIN map}

(* Pairs lists the escaped pairs of the map, whatever order the keys are   *)
(* in.                                                                     *)
LEMMA PairsList ==
  ASSUME NEW flag \in FlagName, NEW map, DOMAIN map \subseteq ToSet(SortedKeys),
         \A key \in DOMAIN map : map[key] \in Text
  PROVE  /\ PairList(Pairs(flag, map), flag, EscapedPairs(map))
         /\ EscapedPairs(map) \subseteq KeyTexts
<1> DEFINE P == EscapedPairs(map)
           n == Len(SortedKeys)
           parts == [m \in DOMAIN SortedKeys |->
                       Given(SortedKeys[m] \in DOMAIN map,
                             Pair(flag, SortedKeys[m], escapeKubeExpansion(map[SortedKeys[m]])))]
<1>1. SortedKeys \in Seq(Name) /\ n \in Nat /\ DOMAIN SortedKeys = 1 .. n
  BY KeysAssumption
<1>2. \A key \in DOMAIN map : key \in Name /\ \E m \in 1 .. n : SortedKeys[m] = key
  BY <1>1 DEF ToSet
<1>3. \A key \in DOMAIN map : escapeKubeExpansion(map[key]) \in Text
  BY EscapeKubeExpansion DEF Escaped, EscapedBy
<1>4. P \subseteq KeyTexts
  BY <1>2, <1>3 DEF EscapedPairs, KeyTexts
<1>5. Len(parts) = n /\ (n = 0 => parts = <<>>)
  BY <1>1
<1>6. ASSUME NEW key \in DOMAIN map
      PROVE  <<key, escapeKubeExpansion(map[key])>> \in P
  BY DEF EscapedPairs
<1>7. ASSUME NEW m \in 1 .. n
      PROVE  parts[m] = <<>> \/ \E x \in P : parts[m] = Pair(flag, x[1], x[2])
  <2>1. CASE SortedKeys[m] \in DOMAIN map
    <3> DEFINE x == <<SortedKeys[m], escapeKubeExpansion(map[SortedKeys[m]])>>
    <3>1. x \in P /\ x[1] = SortedKeys[m] /\ x[2] = escapeKubeExpansion(map[SortedKeys[m]])
      BY <1>6, <2>1
    <3>2. parts[m] = Pair(flag, x[1], x[2])
      BY <1>1, <2>1, <3>1 DEF Given
    <3> QED BY <3>1, <3>2
  <2>2. CASE SortedKeys[m] \notin DOMAIN map
    BY <1>1, <2>2 DEF Given
  <2> QED BY <2>1, <2>2
<1>8. ASSUME NEW x \in P
      PROVE  \E m \in 1 .. n : parts[m] = Pair(flag, x[1], x[2])
  <2>1. PICK key \in DOMAIN map : x = <<key, escapeKubeExpansion(map[key])>>
    BY DEF EscapedPairs
  <2>2. PICK m \in 1 .. n : SortedKeys[m] = key
    BY <1>2
  <2>3. parts[m] = Pair(flag, key, escapeKubeExpansion(map[key]))
    BY <1>1, <2>2 DEF Given
  <2> QED BY <2>1, <2>3
<1>9. Pairs(flag, map) = FlattenSeq(parts)
  BY DEF Pairs
<1> HIDE DEF parts, P
<1>10. PairList(FlattenSeq(parts), flag, P)
  BY <1>1, <1>4, <1>5, <1>7, <1>8, FlattenPairs
<1> QED
  BY <1>4, <1>9, <1>10 DEF P

(* The kubelet's expansion from position p on, given that of the rest.      *)
ExpandStep(text, env, f, p) ==
  IF p > Len(text) THEN <<>>
  ELSE IF text[p] # "$" \/ p = Len(text) THEN <<text[p]>> \o f[p + 1]
  ELSE IF text[p + 1] = "$" THEN <<"$">> \o f[p + 2]
  ELSE LET close == {q \in p + 2 .. Len(text) : text[q] = ")"}
       IN  IF text[p + 1] # "(" \/ close = {} THEN <<"$", text[p + 1]>> \o f[p + 2]
           ELSE LET q == Min(close)
                IN  (IF q = p + 3 /\ text[p + 2] \in DOMAIN env THEN env[text[p + 2]]
                     ELSE SubSeq(text, p, q)) \o f[q + 1]

(* f is that function from position from on.                               *)
IsExpand(f, text, env, from) ==
  f = [p \in from .. Len(text) + 2 |-> ExpandStep(text, env, f, p)]

(* The positions that a step looks at are behind its own.                   *)
LEMMA ExpandLooksAhead ==
  ASSUME NEW text \in Text, NEW env, NEW f, NEW g, NEW p \in 1 .. Len(text) + 2,
         \A q \in p + 1 .. Len(text) + 2 : f[q] = g[q]
  PROVE  ExpandStep(text, env, f, p) = ExpandStep(text, env, g, p)
<1>1. Len(text) \in Nat
  BY DEF Text
<1>2. CASE p > Len(text)
  BY <1>2 DEF ExpandStep
<1>3. CASE p =< Len(text)
  <2>1. p + 1 \in p + 1 .. Len(text) + 2 /\ p + 2 \in p + 1 .. Len(text) + 2
    BY <1>1, <1>3
  <2>2. f[p + 1] = g[p + 1] /\ f[p + 2] = g[p + 2]
    BY <2>1
  <2> DEFINE close == {q \in p + 2 .. Len(text) : text[q] = ")"}
  <2>3. ASSUME close # {} PROVE f[Min(close) + 1] = g[Min(close) + 1]
    <3>1. close \subseteq Nat
      BY <1>1
    <3> HIDE DEF close
    <3>2. Min(close) \in close
      BY <2>3, <3>1, MinIs
    <3>3. Min(close) \in p + 2 .. Len(text)
      BY <3>2 DEF close
    <3>4. Min(close) + 1 \in p + 1 .. Len(text) + 2
      BY <1>1, <3>3
    <3> QED BY <3>4
  <2> QED BY <2>2, <2>3, Zenon DEF ExpandStep
<1> QED
  BY <1>1, <1>2, <1>3

(* The recursive function by which Expand is defined exists.                *)
LEMMA ExpandFunction ==
  ASSUME NEW text \in Text, NEW env
  PROVE  \E f : IsExpand(f, text, env, 1)
<1> DEFINE L == Len(text) + 2
           G == {n \in 1 .. L : \E f : IsExpand(f, text, env, n)}
<1>1. Len(text) \in Nat /\ L \in Nat \ {0} /\ L > Len(text)
  BY DEF Text
<1>2. L \in G
  <2> DEFINE f == [p \in L .. L |-> <<>>]
  <2>1. \A p \in L .. L : ExpandStep(text, env, f, p) = <<>>
    BY <1>1 DEF ExpandStep
  <2>2. f = [p \in L .. L |-> ExpandStep(text, env, f, p)]
    BY <2>1
  <2>3. IsExpand(f, text, env, L)
    BY <2>2 DEF IsExpand
  <2> QED BY <1>1, <2>3
<1>3. ASSUME NEW n \in 1 .. L - 1, n + 1 \in G PROVE n \in G
  <2>1. PICK f : IsExpand(f, text, env, n + 1)
    BY <1>3
  <2>2. f = [p \in n + 1 .. L |-> ExpandStep(text, env, f, p)]
    BY <2>1 DEF IsExpand
  <2> DEFINE g == [p \in n .. L |-> IF p = n THEN ExpandStep(text, env, f, n) ELSE f[p]]
  <2>3. \A q \in n + 1 .. L : g[q] = f[q]
    BY <1>1
  <2>4. ASSUME NEW p \in n .. L PROVE g[p] = ExpandStep(text, env, g, p)
    <3>1. p \in 1 .. Len(text) + 2 /\ \A q \in p + 1 .. Len(text) + 2 : f[q] = g[q]
      BY <1>1, <2>3
    <3> HIDE DEF g
    <3>2. ExpandStep(text, env, f, p) = ExpandStep(text, env, g, p)
      BY <3>1, ExpandLooksAhead
    <3>3. CASE p = n
      BY <3>2, <3>3 DEF g
    <3>4. CASE p # n
      <4>1. p \in n + 1 .. L
        BY <1>1, <3>4
      <4>2. f[p] = ExpandStep(text, env, f, p)
        BY <2>2, <4>1
      <4> QED BY <2>3, <3>2, <4>1, <4>2
    <3> QED BY <3>3, <3>4
  <2>5. g = [p \in n .. L |-> ExpandStep(text, env, g, p)]
    BY <2>4
  <2>6. IsExpand(g, text, env, n)
    BY <2>5 DEF IsExpand
  <2> QED BY <1>1, <2>6
<1> HIDE DEF G
<1>4. 1 \in G
  <2>1. \A n \in 1 .. L - 1 : n + 1 \in G => n \in G
    BY <1>3
  <2>2. \A n \in 1 .. L : n \in G
    BY <1>1, <1>2, <2>1, InductionDownFrom
  <2> QED BY <1>1, <2>2
<1> QED
  BY <1>4 DEF G

(* Expand is its value at the first position.                               *)
LEMMA ExpandIs ==
  ASSUME NEW text \in Text, NEW env
  PROVE  \E f : /\ Expand(text, env) = f[1]
                /\ \A p \in 1 .. Len(text) + 2 : f[p] = ExpandStep(text, env, f, p)
<1> DEFINE rest == CHOOSE f : IsExpand(f, text, env, 1)
<1>1. IsExpand(rest, text, env, 1)
  BY ExpandFunction
<1>2. Expand(text, env) = rest[1]
  BY DEF Expand, IsExpand, ExpandStep
<1> HIDE DEF rest
<1>3. \A p \in 1 .. Len(text) + 2 : rest[p] = ExpandStep(text, env, rest, p)
  <2>1. rest = [p \in 1 .. Len(text) + 2 |-> ExpandStep(text, env, rest, p)]
    BY <1>1 DEF IsExpand
  <2> QED BY ONLY <2>1
<1> QED
  BY <1>2, <1>3

(* The kubelet undoes the escaping, whatever the environment is.            *)
LEMMA EscapedExpand ==
  ASSUME NEW e, NEW t, Escaped(e, t), NEW env
  PROVE  Expand(e, env) = t /\ e \in Text /\ t \in Text
<1>1. PICK off : EscapedBy(e, t, off)
  BY DEF Escaped
<1>2. /\ e \in Text /\ t \in Text /\ off \in [0 .. Len(t) -> Nat] /\ off[0] = 0 /\ off[Len(t)] = Len(e)
      /\ e \in Seq(Piece) /\ t \in Seq(Piece) /\ Len(e) \in Nat /\ Len(t) \in Nat
  BY <1>1 DEF EscapedBy, Text
<1>3. PICK f : /\ Expand(e, env) = f[1]
               /\ \A p \in 1 .. Len(e) + 2 : f[p] = ExpandStep(e, env, f, p)
  BY <1>2, ExpandIs
<1> DEFINE N == Len(t) + 1
           G == {k \in 1 .. N : f[off[k - 1] + 1] = SubSeq(t, k, Len(t))}
<1>4. N \in Nat \ {0}
  BY <1>2
<1>5. N \in G
  <2>1. N - 1 = Len(t) /\ off[N - 1] + 1 = Len(e) + 1 /\ Len(e) + 1 \in 1 .. Len(e) + 2 /\ N \in 1 .. N
    BY <1>2
  <2>2. f[Len(e) + 1] = <<>>
    <3>1. Len(e) + 1 > Len(e)
      BY <1>2
    <3> QED BY <1>3, <2>1, <3>1 DEF ExpandStep
  <2>3. SubSeq(t, N, Len(t)) = <<>>
    BY <1>2
  <2> QED BY <2>1, <2>2, <2>3
<1>6. ASSUME NEW k \in 1 .. N - 1, k + 1 \in G PROVE k \in G
  <2>1. k \in 1 .. Len(t) /\ k - 1 \in 0 .. Len(t) /\ k \in 0 .. Len(t) /\ (k + 1) - 1 = k
    BY <1>2
  <2>2. PICK a \in Nat : a = off[k - 1]
    BY <1>2, <2>1
  <2>3. PICK c \in Nat : c = off[k]
    BY <1>2, <2>1
  <2>4. f[c + 1] = SubSeq(t, k + 1, Len(t))
    BY <1>6, <2>1, <2>3
  <2>5. SubSeq(t, k, Len(t)) = <<t[k]>> \o SubSeq(t, k + 1, Len(t))
    <3>1. k =< Len(t) /\ k \in 1 .. Len(t) + 1 /\ Len(t) \in k - 1 .. Len(t)
      BY <1>2, <2>1
    <3> QED BY <1>2, <2>1, <3>1, SubSeqRecursiveFirst
  <2>6. /\ c =< Len(e)
        /\ t[k] = "$" => c = a + 2 /\ e[a + 1] = "$" /\ e[a + 2] = "$"
        /\ t[k] # "$" => c = a + 1 /\ e[a + 1] = t[k]
    BY <1>1, <2>1, <2>2, <2>3 DEF EscapedBy
  <2>7. f[a + 1] = <<t[k]>> \o f[c + 1]
    <3>1. CASE t[k] = "$"
      <4>1. /\ a + 1 \in 1 .. Len(e) + 2 /\ ~(a + 1 > Len(e)) /\ a + 1 # Len(e)
            /\ (a + 1) + 1 = a + 2 /\ (a + 1) + 2 = c + 1
        BY <1>2, <2>6, <3>1
      <4>2. PICK b \in 1 .. Len(e) + 2 : b = a + 1
        BY <4>1
      <4>3. ~(b > Len(e)) /\ b # Len(e) /\ e[b] = "$" /\ e[b + 1] = "$" /\ b + 2 = c + 1
        BY <2>6, <3>1, <4>1, <4>2
      <4>4. ExpandStep(e, env, f, b) = <<"$">> \o f[b + 2]
        BY <4>3, Zenon DEF ExpandStep
      <4>5. f[b] = <<"$">> \o f[c + 1]
        BY <1>3, <4>3, <4>4, Zenon
      <4> QED BY <3>1, <4>2, <4>5, Zenon
    <3>2. CASE t[k] # "$"
      <4>1. a + 1 \in 1 .. Len(e) + 2 /\ ~(a + 1 > Len(e)) /\ (a + 1) + 1 = c + 1
        BY <1>2, <2>6, <3>2
      <4>2. PICK b \in 1 .. Len(e) + 2 : b = a + 1
        BY <4>1
      <4>3. ~(b > Len(e)) /\ e[b] = t[k] /\ e[b] # "$" /\ b + 1 = c + 1
        BY <2>6, <3>2, <4>1, <4>2
      <4>4. ExpandStep(e, env, f, b) = <<e[b]>> \o f[b + 1]
        BY <4>3, Zenon DEF ExpandStep
      <4>5. f[b] = <<t[k]>> \o f[c + 1]
        BY <1>3, <4>3, <4>4, Zenon
      <4> QED BY <4>2, <4>5, Zenon
    <3> QED BY <3>1, <3>2
  <2>8. f[off[k - 1] + 1] = SubSeq(t, k, Len(t))
    BY <2>2, <2>4, <2>5, <2>7, Zenon
  <2>9. k \in 1 .. N
    BY <1>2, <2>1
  <2> QED BY <2>8, <2>9
<1> HIDE DEF G
<1>7. 1 \in G
  <2>1. \A k \in 1 .. N - 1 : k + 1 \in G => k \in G
    BY <1>6
  <2>2. \A k \in 1 .. N : k \in G
    BY <1>4, <1>5, <2>1, InductionDownFrom
  <2> QED BY <1>4, <2>2
<1>8. f[off[1 - 1] + 1] = SubSeq(t, 1, Len(t))
  BY <1>7 DEF G
<1>9. off[1 - 1] + 1 = 1 /\ SubSeq(t, 1, Len(t)) = t
  BY <1>2
<1> QED
  BY <1>2, <1>3, <1>8, <1>9

(* Text without a $ stays as it is.                                         *)
LEMMA PlainExpand ==
  ASSUME NEW t \in Text, \A k \in 1 .. Len(t) : t[k] # "$", NEW env
  PROVE  Expand(t, env) = t
  BY PlainEscaped, EscapedExpand

(* The pieces of an expanded text are those of the text and the environment.*)
LEMMA ExpandPieces ==
  ASSUME NEW S, "$" \in S, NEW text \in Text, text \in Seq(S),
         NEW env, \A x \in DOMAIN env : env[x] \in Seq(S)
  PROVE  Expand(text, env) \in Seq(S)
<1>1. text \in Seq(S) /\ Len(text) \in Nat /\ "$" \in S
  OBVIOUS
<1>2. PICK f : /\ Expand(text, env) = f[1]
               /\ \A p \in 1 .. Len(text) + 2 : f[p] = ExpandStep(text, env, f, p)
  BY ExpandIs
<1> DEFINE L == Len(text) + 2
           G == {n \in 1 .. L : \A p \in n .. L : f[p] \in Seq(S)}
<1>3. L \in Nat \ {0}
  BY <1>1
<1>4. ASSUME NEW n \in 1 .. L, \A p \in n + 1 .. L : f[p] \in Seq(S)
      PROVE  f[n] \in Seq(S)
  <2> DEFINE close == {q \in n + 2 .. Len(text) : text[q] = ")"}
             m == Min(close)
  <2>1. f[n] = ExpandStep(text, env, f, n)
    BY <1>2
  <2>2. CASE n > Len(text)
    <3>1. f[n] = <<>>
      BY <2>1, <2>2 DEF ExpandStep
    <3> QED BY <3>1
  <2>3. ASSUME ~(n > Len(text)) PROVE /\ f[n + 1] \in Seq(S) /\ f[n + 2] \in Seq(S) /\ text[n] \in S
    BY <1>1, <1>4, <2>3
  <2>4. CASE ~(n > Len(text)) /\ (text[n] # "$" \/ n = Len(text))
    <3>1. f[n] = <<text[n]>> \o f[n + 1]
      BY <2>1, <2>4, Zenon DEF ExpandStep
    <3> QED BY <2>3, <2>4, <3>1
  <2>5. ASSUME ~(n > Len(text)), ~(text[n] # "$" \/ n = Len(text))
        PROVE  text[n + 1] \in S
    BY <1>1, <2>5
  <2>6. CASE ~(n > Len(text)) /\ ~(text[n] # "$" \/ n = Len(text)) /\ text[n + 1] = "$"
    <3>1. f[n] = <<"$">> \o f[n + 2]
      BY <2>1, <2>6, Zenon DEF ExpandStep
    <3> QED BY <1>1, <2>3, <2>6, <3>1
  <2>7. CASE /\ ~(n > Len(text)) /\ ~(text[n] # "$" \/ n = Len(text)) /\ text[n + 1] # "$"
             /\ (text[n + 1] # "(" \/ close = {})
    <3>1. f[n] = <<"$", text[n + 1]>> \o f[n + 2]
      BY <2>1, <2>7, Zenon DEF ExpandStep
    <3> QED BY <1>1, <2>3, <2>5, <2>7, <3>1
  <2>8. CASE /\ ~(n > Len(text)) /\ ~(text[n] # "$" \/ n = Len(text)) /\ text[n + 1] # "$"
             /\ ~(text[n + 1] # "(" \/ close = {})
    <3>1. m \in n + 2 .. Len(text)
      <4>1. close \subseteq Nat /\ close # {}
        BY <1>1, <2>8
      <4>2. close \subseteq n + 2 .. Len(text)
        OBVIOUS
      <4> HIDE DEF close
      <4> QED BY <4>1, <4>2, MinIs
    <3>2. f[n] = (IF m = n + 3 /\ text[n + 2] \in DOMAIN env THEN env[text[n + 2]]
                  ELSE SubSeq(text, n, m)) \o f[m + 1]
      BY <2>1, <2>8, Zenon DEF ExpandStep
    <3> HIDE DEF m
    <3>3. f[m + 1] \in Seq(S)
      <4>1. m + 1 \in n + 1 .. L
        BY <1>1, <3>1
      <4> QED BY <1>4, <4>1
    <3>4. SubSeq(text, n, m) \in Seq(S)
      BY <1>1, <3>1
    <3>5. (IF m = n + 3 /\ text[n + 2] \in DOMAIN env THEN env[text[n + 2]] ELSE SubSeq(text, n, m)) \in Seq(S)
      BY <3>4
    <3> QED BY <3>2, <3>3, <3>5
  <2> QED BY <2>2, <2>4, <2>6, <2>7, <2>8
<1>5. L \in G
  <2>1. \A p \in L + 1 .. L : f[p] \in Seq(S)
    BY <1>3
  <2>2. f[L] \in Seq(S)
    BY <1>3, <1>4, <2>1
  <2> QED BY <1>3, <2>2
<1>6. ASSUME NEW n \in 1 .. L - 1, n + 1 \in G PROVE n \in G
  <2>1. n \in 1 .. L /\ \A p \in n .. L : p = n \/ p \in n + 1 .. L
    BY <1>3
  <2>2. f[n] \in Seq(S)
    BY <1>4, <1>6, <2>1
  <2> QED BY <1>6, <2>1, <2>2
<1> HIDE DEF G
<1>7. 1 \in G
  <2>1. \A k \in 1 .. L - 1 : k + 1 \in G => k \in G
    BY <1>6
  <2>2. \A k \in 1 .. L : k \in G
    BY <1>3, <1>5, <2>1, InductionDownFrom
  <2> QED BY <1>3, <2>2
<1> QED
  BY <1>2, <1>3, <1>7 DEF G

(* An expanded text is a text.                                             *)
LEMMA ExpandText ==
  ASSUME NEW text \in Text, NEW env, \A x \in DOMAIN env : env[x] \in Text
  PROVE  Expand(text, env) \in Text
<1>1. "$" \in Piece
  BY ONLY WordsAssumption DEF Special
<1> QED
  BY <1>1, ExpandPieces DEF Text

(* The value of a variable is put in place of $(NAME).                      *)
RefEnds(text, p, name) ==
  /\ p + 3 = Len(text) /\ text[p] = "$" /\ text[p + 1] = "(" /\ text[p + 2] = name /\ text[p + 3] = ")"

(* Such a reference at the end of a text is the value and nothing else.    *)
LEMMA ExpandReference ==
  ASSUME NEW text \in Text, NEW env, NEW p \in Nat \ {0}, NEW name \in Name, name \in DOMAIN env,
         env[name] \in Text, RefEnds(text, p, name), NEW f,
         \A q \in 1 .. Len(text) + 2 : f[q] = ExpandStep(text, env, f, q)
  PROVE  f[p] = env[name]
<1>1. Len(text) \in Nat /\ p + 3 = Len(text) /\ name # ")"
  <2>1. name # ")"
    BY ONLY name \in Name DEF Name, Special
  <2> QED BY <2>1 DEF Text, RefEnds
<1> DEFINE close == {q \in p + 2 .. Len(text) : text[q] = ")"}
           m == Min(close)
<1>2. close \subseteq Nat /\ p + 3 \in close /\ p + 2 \notin close
  BY <1>1 DEF RefEnds
<1>3. \A q \in close : q >= p + 3
  BY <1>1, <1>2
<1> HIDE DEF close
<1>4. m = p + 3
  <2>1. m \in close /\ \A y \in close : m =< y
    BY <1>2, MinIs
  <2> HIDE DEF m
  <2> QED BY <1>2, <1>3, <2>1
<1>5. /\ ~(p > Len(text)) /\ p # Len(text) /\ text[p] = "$" /\ text[p + 1] = "(" /\ text[p + 1] # "$"
      /\ text[p + 2] = name /\ close # {} /\ p \in 1 .. Len(text) + 2
  BY <1>1, <1>2 DEF RefEnds
<1>6. ExpandStep(text, env, f, p) = env[name] \o f[m + 1]
  BY <1>4, <1>5, Zenon DEF ExpandStep, close, m
<1>7. f[m + 1] = <<>>
  <2>1. m + 1 > Len(text) /\ m + 1 \in 1 .. Len(text) + 2
    BY <1>1, <1>4
  <2> HIDE DEF m
  <2> QED BY <2>1 DEF ExpandStep
<1> HIDE DEF m
<1>8. f[p] = env[name] \o <<>>
  BY <1>5, <1>6, <1>7
<1> QED
  BY <1>8, ConcatEmptySeq DEF Text

(***************************************************************************)
(* The environment of a container, and what the pairs of a flag set.       *)
(***************************************************************************)

(* A variable of a container.                                              *)
Var == [name : Name, value : Text]

(* A container's environment after its first n variables.                   *)
EnvStep(env, f, n) ==
  IF n = 0 THEN <<>>
  ELSE Over([name \in {env[n].name} |-> Expand(env[n].value, f[n - 1])], f[n - 1])

(* f is that function up to n.                                             *)
IsEnv(f, env, n) == f = [m \in 0 .. n |-> EnvStep(env, f, m)]

(* The recursive function by which EnvMap is defined exists,               *)
LEMMA EnvFunction ==
  ASSUME NEW env, NEW bound \in Nat
  PROVE  \E f : IsEnv(f, env, bound)
<1> DEFINE G == {n \in 0 .. bound : \E f : IsEnv(f, env, n)}
<1>1. 0 \in G
  <2> DEFINE f == [m \in 0 .. 0 |-> <<>>]
  <2>1. f = [m \in 0 .. 0 |-> EnvStep(env, f, m)]
    BY DEF EnvStep
  <2>2. IsEnv(f, env, 0)
    BY <2>1 DEF IsEnv
  <2> QED BY <2>2
<1>2. ASSUME NEW n \in 0 .. bound - 1, n \in G PROVE n + 1 \in G
  <2>1. PICK f : IsEnv(f, env, n)
    BY <1>2
  <2>2. f = [m \in 0 .. n |-> EnvStep(env, f, m)]
    BY <2>1 DEF IsEnv
  <2> DEFINE g == [m \in 0 .. n + 1 |-> IF m = n + 1 THEN EnvStep(env, f, n + 1) ELSE f[m]]
  <2>3. \A m \in 0 .. n : g[m] = f[m]
    OBVIOUS
  <2>4. ASSUME NEW m \in 0 .. n + 1 PROVE g[m] = EnvStep(env, g, m)
    <3>1. EnvStep(env, f, m) = EnvStep(env, g, m)
      <4>1. CASE m = 0
        BY <4>1 DEF EnvStep
      <4>2. CASE m # 0
        <5>1. m - 1 \in 0 .. n
          BY <4>2
        <5>2. f[m - 1] = g[m - 1]
          BY <2>3, <5>1
        <5> HIDE DEF g
        <5> QED BY <4>2, <5>2, Zenon DEF EnvStep
      <4> QED BY <4>1, <4>2
    <3>2. CASE m = n + 1
      <4>1. g[m] = EnvStep(env, f, n + 1)
        BY <3>2
      <4> HIDE DEF g
      <4> QED BY <3>1, <3>2, <4>1
    <3>3. CASE m # n + 1
      <4>1. m \in 0 .. n
        BY <3>3
      <4>2. g[m] = f[m]
        BY <2>3, <4>1
      <4>3. f[m] = EnvStep(env, f, m)
        BY <2>2, <4>1
      <4> HIDE DEF g
      <4> QED BY <3>1, <4>2, <4>3
    <3> QED BY <3>2, <3>3
  <2>5. g = [m \in 0 .. n + 1 |-> EnvStep(env, g, m)]
    BY <2>4
  <2>6. IsEnv(g, env, n + 1)
    BY <2>5 DEF IsEnv
  <2> QED BY <2>6
<1> HIDE DEF G
<1>3. bound \in G
  <2>1. \A n \in 0 .. bound - 1 : n \in G => n + 1 \in G
    BY <1>2
  <2>2. \A n \in 0 .. bound : n \in G
    BY <1>1, <2>1, InductionUpTo
  <2> QED BY <2>2
<1> QED
  BY <1>3 DEF G

(* and EnvMap is its value at the last variable.                           *)
LEMMA EnvMapIs ==
  ASSUME NEW env \in Seq(Var)
  PROVE  \E f : /\ EnvMap(env) = f[Len(env)]
                /\ \A n \in 0 .. Len(env) : f[n] = EnvStep(env, f, n)
<1> DEFINE map == CHOOSE f : IsEnv(f, env, Len(env))
<1>1. IsEnv(map, env, Len(env))
  BY EnvFunction
<1>2. EnvMap(env) = map[Len(env)]
  BY DEF EnvMap, IsEnv, EnvStep
<1> HIDE DEF map
<1>3. \A n \in 0 .. Len(env) : map[n] = EnvStep(env, map, n)
  <2>1. map = [n \in 0 .. Len(env) |-> EnvStep(env, map, n)]
    BY <1>1 DEF IsEnv
  <2> QED BY ONLY <2>1
<1> QED
  BY <1>2, <1>3

(* The environment has the variables before n, with texts, ...              *)
LEMMA EnvMapTexts ==
  ASSUME NEW S, "$" \in S, NEW env \in Seq(Var), \A m \in 1 .. Len(env) : env[m].value \in Seq(S),
         NEW f, \A n \in 0 .. Len(env) : f[n] = EnvStep(env, f, n),
         NEW n \in 0 .. Len(env)
  PROVE  /\ DOMAIN f[n] = {env[m].name : m \in 1 .. n}
         /\ \A x \in DOMAIN f[n] : f[n][x] \in Seq(S)
<1> DEFINE Good(k) == /\ DOMAIN f[k] = {env[m].name : m \in 1 .. k}
                      /\ \A x \in DOMAIN f[k] : f[k][x] \in Seq(S)
           G == {k \in 0 .. Len(env) : Good(k)}
<1>1. Len(env) \in Nat
  OBVIOUS
<1>2. 0 \in G
  <2>1. f[0] = <<>>
    <3>1. f[0] = EnvStep(env, f, 0)
      BY <1>1
    <3> QED BY <3>1 DEF EnvStep
  <2> QED BY <1>1, <2>1
<1>3. ASSUME NEW k \in 0 .. Len(env) - 1, k \in G PROVE k + 1 \in G
  <2>1. PICK d \in 1 .. Len(env) : d = k + 1
    BY <1>1
  <2>2. d # 0 /\ d - 1 = k /\ d \in 0 .. Len(env)
    BY <1>1, <2>1
  <2> DEFINE x == env[d].name
             t == Expand(env[d].value, f[k])
  <2>3. f[d] = Over([name \in {x} |-> t], f[k])
    BY <2>2 DEF EnvStep
  <2>4. env[d] \in Var
    BY <2>1
  <2>5. t \in Seq(S)
    <3>1. env[d].value \in Text /\ env[d].value \in Seq(S)
      BY <2>4 DEF Var
    <3> QED BY <1>3, <3>1, ExpandPieces
  <2> HIDE DEF t, x
  <2>6. DOMAIN f[d] = {x} \cup DOMAIN f[k]
    BY <2>3 DEF Over
  <2>7. \A y \in DOMAIN f[d] : f[d][y] \in Seq(S)
    <3> TAKE y \in DOMAIN f[d]
    <3>1. CASE y = x
      BY <2>3, <2>5, <3>1 DEF Over
    <3>2. CASE y # x
      <4>1. y \in DOMAIN f[k]
        BY <2>6, <3>2
      <4>2. f[d][y] = f[k][y]
        BY <2>3, <3>2, <4>1 DEF Over
      <4> QED BY <1>3, <4>1, <4>2
    <3> QED BY <3>1, <3>2
  <2>8. DOMAIN f[d] = {env[m].name : m \in 1 .. d}
    <3>1. DOMAIN f[k] = {env[m].name : m \in 1 .. k}
      BY <1>3
    <3>2. 1 .. d = {d} \cup 1 .. k
      BY <2>1
    <3> QED BY <2>6, <3>1, <3>2 DEF x
  <2> QED BY <2>1, <2>2, <2>7, <2>8
<1> HIDE DEF G
<1>4. n \in G
  <2>1. \A k \in 0 .. Len(env) - 1 : k \in G => k + 1 \in G
    BY <1>3
  <2>2. \A k \in 0 .. Len(env) : k \in G
    BY <1>1, <1>2, <2>1, InductionUpTo
  <2> QED BY <2>2
<1> QED
  BY <1>4 DEF G

(* ... and of a name the value of the last one.                             *)
LastVar(env, x, e) ==
  \E m \in 1 .. Len(env) : /\ env[m].name = x /\ env[m].value = e
                           /\ \A q \in m + 1 .. Len(env) : env[q].name # x
NoVar(env, x) == \A m \in 1 .. Len(env) : env[m].name # x

(* The environment has the last variable of a name, its value expanded in  *)
(* the environment before it.                                              *)
LEMMA EnvMapLast ==
  ASSUME NEW env \in Seq(Var), NEW x, NEW e, LastVar(env, x, e)
  PROVE  /\ x \in DOMAIN EnvMap(env)
         /\ \E before : EnvMap(env)[x] = Expand(e, before)
<1>1. PICK f : /\ EnvMap(env) = f[Len(env)]
               /\ \A n \in 0 .. Len(env) : f[n] = EnvStep(env, f, n)
  BY EnvMapIs
<1>2. PICK m \in 1 .. Len(env) : /\ env[m].name = x /\ env[m].value = e
                                 /\ \A q \in m + 1 .. Len(env) : env[q].name # x
  BY DEF LastVar
<1> DEFINE N == Len(env)
           t == Expand(e, f[m - 1])
           Good(k) == k >= m => x \in DOMAIN f[k] /\ f[k][x] = t
           G == {k \in 0 .. N : Good(k)}
<1>3. N \in Nat /\ m \in Nat /\ m >= 1
  OBVIOUS
<1> HIDE DEF t
<1>4. 0 \in G
  BY <1>3
<1>5. ASSUME NEW k \in 0 .. N - 1, k \in G PROVE k + 1 \in G
  <2>1. PICK d \in 1 .. N : d = k + 1
    BY <1>3
  <2>2. d # 0 /\ d - 1 = k /\ d \in 0 .. N
    BY <1>3, <2>1
  <2> DEFINE y == env[d].name
             u == Expand(env[d].value, f[k])
  <2>3. f[d] = Over([name \in {y} |-> u], f[k])
    BY <1>1, <2>2 DEF EnvStep
  <2> HIDE DEF y, u
  <2>4. DOMAIN f[d] = {y} \cup DOMAIN f[k] /\ f[d][y] = u
    BY <2>3 DEF Over
  <2>5. CASE d = m
    <3>1. y = x /\ u = t
      BY <1>2, <2>2, <2>5 DEF y, u, t
    <3> QED BY <2>1, <2>2, <2>4, <3>1
  <2>6. CASE d > m
    <3>1. k >= m /\ d \in m + 1 .. N
      BY <1>3, <2>1, <2>6
    <3>2. y # x
      BY <1>2, <3>1 DEF y
    <3>3. x \in DOMAIN f[k] /\ f[k][x] = t
      BY <1>5, <3>1
    <3>4. f[d][x] = f[k][x]
      BY <2>3, <3>2, <3>3 DEF Over
    <3> QED BY <2>1, <2>2, <2>4, <3>3, <3>4
  <2>7. CASE d < m
    BY <1>3, <2>1, <2>2, <2>7
  <2> QED BY <1>3, <2>1, <2>5, <2>6, <2>7
<1> HIDE DEF G
<1>6. N \in G
  <2>1. \A k \in 0 .. N - 1 : k \in G => k + 1 \in G
    BY <1>5
  <2>2. \A k \in 0 .. N : k \in G
    BY <1>3, <1>4, <2>1, InductionUpTo
  <2> QED BY <1>3, <2>2
<1>7. x \in DOMAIN f[N] /\ f[N][x] = t
  BY <1>3, <1>6 DEF G
<1> QED
  BY <1>1, <1>7 DEF t

(* The environment has the names of its variables, and no pieces but       *)
(* theirs.                                                                 *)
LEMMA EnvMapPieces ==
  ASSUME NEW S, "$" \in S, NEW env \in Seq(Var), \A m \in 1 .. Len(env) : env[m].value \in Seq(S)
  PROVE  /\ DOMAIN EnvMap(env) = {env[m].name : m \in 1 .. Len(env)}
         /\ \A x \in DOMAIN EnvMap(env) : EnvMap(env)[x] \in Seq(S)
<1>1. PICK f : /\ EnvMap(env) = f[Len(env)]
               /\ \A n \in 0 .. Len(env) : f[n] = EnvStep(env, f, n)
  BY EnvMapIs
<1>2. Len(env) \in 0 .. Len(env)
  OBVIOUS
<1>3. /\ DOMAIN f[Len(env)] = {env[m].name : m \in 1 .. Len(env)}
      /\ \A x \in DOMAIN f[Len(env)] : f[Len(env)][x] \in Seq(S)
  BY <1>1, <1>2, EnvMapTexts
<1> QED
  BY <1>1, <1>3

(* Its values are texts.                                                   *)
LEMMA EnvMapOf ==
  ASSUME NEW env \in Seq(Var)
  PROVE  /\ DOMAIN EnvMap(env) = {env[m].name : m \in 1 .. Len(env)}
         /\ DOMAIN EnvMap(env) \subseteq Name
         /\ \A x \in DOMAIN EnvMap(env) : EnvMap(env)[x] \in Text
<1>1. "$" \in Piece
  BY ONLY WordsAssumption DEF Special
<1>2. \A m \in 1 .. Len(env) : env[m] \in Var
  OBVIOUS
<1>3. \A m \in 1 .. Len(env) : env[m].value \in Seq(Piece) /\ env[m].name \in Name
  BY <1>2 DEF Var, Text
<1>4. /\ DOMAIN EnvMap(env) = {env[m].name : m \in 1 .. Len(env)}
      /\ \A x \in DOMAIN EnvMap(env) : EnvMap(env)[x] \in Seq(Piece)
  BY <1>1, <1>3, EnvMapPieces
<1> QED
  BY <1>3, <1>4 DEF Text

(* The last variable of a name in two lists, one after the other.          *)
LEMMA LastVarConcat ==
  ASSUME NEW a \in Seq(Var), NEW b \in Seq(Var), NEW x, NEW e
  PROVE  /\ NoVar(a, x) /\ NoVar(b, x) => NoVar(a \o b, x)
         /\ LastVar(a, x, e) /\ NoVar(b, x) => LastVar(a \o b, x, e)
         /\ LastVar(b, x, e) => LastVar(a \o b, x, e)
<1> DEFINE c == a \o b
<1>1. /\ c \in Seq(Var) /\ Len(a) \in Nat /\ Len(b) \in Nat /\ Len(c) = Len(a) + Len(b)
      /\ \A k \in 1 .. Len(a) : c[k] = a[k]
      /\ \A k \in 1 .. Len(b) : c[Len(a) + k] = b[k]
  OBVIOUS
<1> HIDE DEF c
<1>2. ASSUME NEW k \in 1 .. Len(c) PROVE k \in 1 .. Len(a) \/ \E m \in 1 .. Len(b) : k = Len(a) + m
  <2>1. CASE k > Len(a)
    <3>1. k - Len(a) \in 1 .. Len(b) /\ k = Len(a) + (k - Len(a))
      BY <1>1, <2>1
    <3> QED BY <3>1
  <2> QED BY <1>1, <2>1
<1>3. ASSUME NoVar(a, x), NoVar(b, x) PROVE NoVar(c, x)
  BY <1>1, <1>2, <1>3 DEF NoVar
<1>4. ASSUME LastVar(a, x, e), NoVar(b, x) PROVE LastVar(c, x, e)
  <2>1. PICK m \in 1 .. Len(a) : /\ a[m].name = x /\ a[m].value = e
                                 /\ \A q \in m + 1 .. Len(a) : a[q].name # x
    BY <1>4 DEF LastVar
  <2>2. m \in 1 .. Len(c) /\ c[m] = a[m]
    BY <1>1
  <2>3. ASSUME NEW q \in m + 1 .. Len(c) PROVE c[q].name # x
    <3>1. q \in 1 .. Len(c)
      BY <1>1, <2>1
    <3>2. CASE q \in 1 .. Len(a)
      BY <1>1, <2>1, <3>2
    <3>3. CASE \E k \in 1 .. Len(b) : q = Len(a) + k
      BY <1>1, <1>4, <3>3 DEF NoVar
    <3> QED BY <1>2, <3>1, <3>2, <3>3
  <2> QED BY <2>1, <2>2, <2>3 DEF LastVar
<1>5. ASSUME LastVar(b, x, e) PROVE LastVar(c, x, e)
  <2>1. PICK m \in 1 .. Len(b) : /\ b[m].name = x /\ b[m].value = e
                                 /\ \A q \in m + 1 .. Len(b) : b[q].name # x
    BY <1>5 DEF LastVar
  <2>2. PICK d \in 1 .. Len(c) : d = Len(a) + m
    BY <1>1
  <2>3. c[d] = b[m]
    BY <1>1, <2>2
  <2>4. ASSUME NEW q \in d + 1 .. Len(c) PROVE c[q].name # x
    <3>1. PICK k \in 1 .. Len(b) : q = Len(a) + k
      <4>1. q \in 1 .. Len(c) /\ ~(q \in 1 .. Len(a))
        BY <1>1, <2>2
      <4> QED BY <1>2, <4>1
    <3>2. k \in m + 1 .. Len(b)
      BY <1>1, <2>2, <3>1
    <3> QED BY <1>1, <2>1, <3>1, <3>2
  <2> QED BY <2>1, <2>2, <2>3, <2>4 DEF LastVar
<1> QED
  BY <1>3, <1>4, <1>5 DEF c

(* No pair sets the key; the last argument does not wait for a value.       *)
None(a, f, key) == \A k \in 1 .. Len(a) - 1 : ~SetsKey(a, k, f, key)
Closed(a, f)    == \A k \in 1 .. Len(a) : k = Len(a) => a[k] # Flag(f)
NoFlag(a, f)    == \A k \in 1 .. Len(a) : a[k].flag # f

(* The value that the pair beginning at k sets.                            *)
ValueAt(a, k) == SubSeq(a[k + 1].text, 3, Len(a[k + 1].text))

(* The last pair that sets the key begins at k.                             *)
LastAt(a, k, f, key) ==
  /\ k \in 1 .. Len(a) - 1 /\ SetsKey(a, k, f, key)
  /\ \A j \in k + 1 .. Len(a) - 1 : ~SetsKey(a, j, f, key)

(* Without a pair for the key, it is not set.                              *)
LEMMA NoneUnset ==
  ASSUME NEW a, NEW f, NEW key, None(a, f, key)
  PROVE  Effective(a, f, key) = Unset
  BY DEF None, Effective

(* Effective takes the last pair with the key.                              *)
LEMMA EffectiveIs ==
  ASSUME NEW a \in Seq(Argument), NEW f, NEW key, NEW k, LastAt(a, k, f, key)
  PROVE  Effective(a, f, key) = ValueAt(a, k)
<1> DEFINE at == {j \in 1 .. Len(a) - 1 : SetsKey(a, j, f, key)}
<1>1. Len(a) \in Nat /\ k \in at /\ at \subseteq 0 .. Len(a)
  BY DEF LastAt
<1>2. \A j \in at : j =< k
  BY <1>1 DEF LastAt
<1>3. at \subseteq 1 .. Len(a) - 1
  OBVIOUS
<1>4. Effective(a, f, key) = IF at = {} THEN Unset ELSE SubSeq(a[Max(at) + 1].text, 3, Len(a[Max(at) + 1].text))
  BY DEF Effective
<1> HIDE DEF at
<1>5. Max(at) \in at /\ \A y \in at : Max(at) >= y
  BY <1>1, MaxIs
<1>6. Max(at) = k
  <2>1. PICK m \in 1 .. Len(a) - 1 : m = Max(at)
    BY <1>3, <1>5
  <2>2. m >= k /\ m =< k /\ k \in 1 .. Len(a) - 1
    BY <1>1, <1>2, <1>3, <1>5, <2>1
  <2>3. m = k
    BY <1>1, <2>2
  <2> QED BY <2>1, <2>3
<1> QED
  BY <1>1, <1>4, <1>6 DEF ValueAt

(* With one, there is a last one.                                          *)
LEMMA LastSets ==
  ASSUME NEW a \in Seq(Argument), NEW f, NEW key, ~None(a, f, key)
  PROVE  \E k : LastAt(a, k, f, key) /\ Effective(a, f, key) = ValueAt(a, k)
<1> DEFINE at == {j \in 1 .. Len(a) - 1 : SetsKey(a, j, f, key)}
<1>1. Len(a) \in Nat /\ at \subseteq 0 .. Len(a) /\ at # {}
  BY DEF None
<1>2. \A j \in 1 .. Len(a) - 1 : SetsKey(a, j, f, key) <=> j \in at
  OBVIOUS
<1>3. at \subseteq 1 .. Len(a) - 1
  OBVIOUS
<1> HIDE DEF at
<1>4. Max(at) \in at /\ \A y \in at : Max(at) >= y
  BY <1>1, MaxIs
<1>5. PICK k \in 1 .. Len(a) - 1 : k \in at /\ \A y \in at : k >= y
  BY <1>3, <1>4
<1>6. \A j \in k + 1 .. Len(a) - 1 : ~SetsKey(a, j, f, key)
  BY <1>1, <1>2, <1>5
<1>7. SetsKey(a, k, f, key)
  BY <1>2, <1>5
<1>8. LastAt(a, k, f, key)
  BY <1>6, <1>7 DEF LastAt
<1> QED
  BY <1>8, EffectiveIs

(* A pair of a concatenation is a pair of one of the parts.                 *)
PairsOfParts(a, b, c, f, key) ==
  /\ c \in Seq(Argument) /\ Len(c) = Len(a) + Len(b)
  /\ \A k \in 1 .. Len(a) - 1 : SetsKey(c, k, f, key) <=> SetsKey(a, k, f, key)
  /\ \A k \in 1 .. Len(a) - 1 : ValueAt(c, k) = ValueAt(a, k)
  /\ \A k \in 1 .. Len(b) - 1 : SetsKey(c, Len(a) + k, f, key) <=> SetsKey(b, k, f, key)
  /\ \A k \in 1 .. Len(b) - 1 : ValueAt(c, Len(a) + k) = ValueAt(b, k)
  /\ \A k \in 1 .. Len(c) - 1 : k = Len(a) => ~SetsKey(c, k, f, key)

(* A flag at the end of the first part would take its value from the       *)
(* second: Closed excludes it.                                             *)
LEMMA SetsKeyConcat ==
  ASSUME NEW a \in Seq(Argument), NEW b \in Seq(Argument), NEW f, NEW key, Closed(a, f),
         NEW c, c = a \o b
  PROVE  PairsOfParts(a, b, c, f, key)
<1>1. /\ c \in Seq(Argument) /\ Len(a) \in Nat /\ Len(b) \in Nat /\ Len(c) = Len(a) + Len(b)
      /\ \A k \in 1 .. Len(a) : c[k] = a[k]
      /\ \A k \in 1 .. Len(b) : c[Len(a) + k] = b[k]
  OBVIOUS
<1>2. ASSUME NEW k \in 1 .. Len(a) - 1 PROVE c[k] = a[k] /\ c[k + 1] = a[k + 1]
  BY <1>1
<1>3. ASSUME NEW k \in 1 .. Len(b) - 1 PROVE c[Len(a) + k] = b[k] /\ c[(Len(a) + k) + 1] = b[k + 1]
  <2>1. k \in 1 .. Len(b) /\ k + 1 \in 1 .. Len(b) /\ (Len(a) + k) + 1 = Len(a) + (k + 1)
    BY <1>1
  <2>2. c[Len(a) + (k + 1)] = b[k + 1]
    BY <1>1, <2>1
  <2> QED BY <1>1, <2>1, <2>2
<1>4. ASSUME NEW k \in 1 .. Len(c) - 1, k = Len(a) PROVE c[k] # Flag(f)
  BY <1>1, <1>4 DEF Closed
<1>5. /\ \A k \in 1 .. Len(a) - 1 : SetsKey(c, k, f, key) <=> SetsKey(a, k, f, key)
      /\ \A k \in 1 .. Len(a) - 1 : ValueAt(c, k) = ValueAt(a, k)
  BY <1>2, Zenon DEF SetsKey, ValueAt
<1>6. /\ \A k \in 1 .. Len(b) - 1 : SetsKey(c, Len(a) + k, f, key) <=> SetsKey(b, k, f, key)
      /\ \A k \in 1 .. Len(b) - 1 : ValueAt(c, Len(a) + k) = ValueAt(b, k)
  BY <1>3, Zenon DEF SetsKey, ValueAt
<1>7. \A k \in 1 .. Len(c) - 1 : k = Len(a) => ~SetsKey(c, k, f, key)
  BY <1>4, Zenon DEF SetsKey
<1> QED
  BY <1>1, <1>5, <1>6, <1>7 DEF PairsOfParts

(* What a concatenation sets is what its last part sets that has the key.   *)
LEMMA EffectiveConcat ==
  ASSUME NEW a \in Seq(Argument), NEW b \in Seq(Argument), NEW f, NEW key, Closed(a, f)
  PROVE  /\ None(b, f, key) => Effective(a \o b, f, key) = Effective(a, f, key)
         /\ ~None(b, f, key) => Effective(a \o b, f, key) = Effective(b, f, key)
         /\ None(a \o b, f, key) <=> None(a, f, key) /\ None(b, f, key)
         /\ Closed(b, f) => Closed(a \o b, f)
<1> DEFINE c == a \o b
<1>0. Closed(b, f) => Closed(c, f)
  <2>1. /\ c \in Seq(Argument) /\ Len(a) \in Nat /\ Len(b) \in Nat /\ Len(c) = Len(a) + Len(b)
        /\ \A k \in 1 .. Len(a) : c[k] = a[k]
        /\ \A k \in 1 .. Len(b) : c[Len(a) + k] = b[k]
    OBVIOUS
  <2> HIDE DEF c
  <2>2. CASE Len(b) = 0
    BY <2>1, <2>2 DEF Closed
  <2>3. CASE Len(b) # 0
    <3>1. Len(b) \in 1 .. Len(b) /\ c[Len(a) + Len(b)] = b[Len(b)]
      BY <2>1, <2>3
    <3> QED BY <2>1, <3>1 DEF Closed
  <2> QED BY <2>2, <2>3
<1> HIDE DEF c
<1>1. /\ c \in Seq(Argument) /\ Len(c) = Len(a) + Len(b)
      /\ \A k \in 1 .. Len(a) - 1 : SetsKey(c, k, f, key) <=> SetsKey(a, k, f, key)
      /\ \A k \in 1 .. Len(a) - 1 : ValueAt(c, k) = ValueAt(a, k)
      /\ \A k \in 1 .. Len(b) - 1 : SetsKey(c, Len(a) + k, f, key) <=> SetsKey(b, k, f, key)
      /\ \A k \in 1 .. Len(b) - 1 : ValueAt(c, Len(a) + k) = ValueAt(b, k)
      /\ \A k \in 1 .. Len(c) - 1 : k = Len(a) => ~SetsKey(c, k, f, key)
  <2>1. c = a \o b
    BY DEF c
  <2>2. PairsOfParts(a, b, c, f, key)
    BY <2>1, SetsKeyConcat
  <2> QED BY <2>2 DEF PairsOfParts
<1>2. Len(a) \in Nat /\ Len(b) \in Nat
  OBVIOUS
<1>3. ASSUME NEW k \in 1 .. Len(c) - 1
      PROVE  k \in 1 .. Len(a) - 1 \/ k = Len(a) \/ \E m \in 1 .. Len(b) - 1 : k = Len(a) + m
  <2>1. CASE k > Len(a)
    <3>1. k - Len(a) \in 1 .. Len(b) - 1 /\ k = Len(a) + (k - Len(a))
      BY <1>1, <1>2, <2>1
    <3> QED BY <3>1
  <2> QED BY <1>1, <1>2, <2>1
<1>4. ASSUME None(a, f, key), None(b, f, key) PROVE None(c, f, key)
  <2> SUFFICES ASSUME NEW k \in 1 .. Len(c) - 1 PROVE ~SetsKey(c, k, f, key)
    BY DEF None
  <2>1. CASE k \in 1 .. Len(a) - 1
    BY <1>1, <1>4, <2>1 DEF None
  <2>2. CASE k = Len(a)
    BY <1>1, <2>2
  <2>3. CASE \E m \in 1 .. Len(b) - 1 : k = Len(a) + m
    BY <1>1, <1>4, <2>3 DEF None
  <2> QED BY <1>3, <2>1, <2>2, <2>3
<1>5. ASSUME None(c, f, key) PROVE None(a, f, key) /\ None(b, f, key)
  <2>1. \A k \in 1 .. Len(a) - 1 : k \in 1 .. Len(c) - 1
    BY <1>1, <1>2
  <2>2. \A k \in 1 .. Len(b) - 1 : Len(a) + k \in 1 .. Len(c) - 1
    BY <1>1, <1>2
  <2> QED BY <1>1, <1>5, <2>1, <2>2 DEF None
<1>6. ASSUME ~None(b, f, key) PROVE Effective(c, f, key) = Effective(b, f, key)
  <2>0. PICK m : LastAt(b, m, f, key) /\ Effective(b, f, key) = ValueAt(b, m)
    BY <1>6, LastSets
  <2>1. /\ m \in 1 .. Len(b) - 1 /\ SetsKey(b, m, f, key)
        /\ \A j \in m + 1 .. Len(b) - 1 : ~SetsKey(b, j, f, key)
    BY <2>0 DEF LastAt
  <2>2. PICK d \in 1 .. Len(c) - 1 : d = Len(a) + m
    BY <1>1, <1>2, <2>1
  <2>3. SetsKey(c, d, f, key) /\ ValueAt(c, d) = ValueAt(b, m)
    BY <1>1, <2>1, <2>2
  <2>4. ASSUME NEW j \in d + 1 .. Len(c) - 1 PROVE ~SetsKey(c, j, f, key)
    <3>1. j \in 1 .. Len(c) - 1 /\ ~(j \in 1 .. Len(a) - 1) /\ j # Len(a)
      BY <1>1, <1>2, <2>1, <2>2
    <3>2. PICK q \in 1 .. Len(b) - 1 : j = Len(a) + q
      BY <1>3, <3>1
    <3>3. q \in m + 1 .. Len(b) - 1
      BY <1>1, <1>2, <2>1, <2>2, <3>2
    <3> QED BY <1>1, <2>1, <3>2, <3>3
  <2>5. Effective(c, f, key) = ValueAt(c, d)
    <3>1. LastAt(c, d, f, key)
      BY <2>2, <2>3, <2>4 DEF LastAt
    <3> QED BY <1>1, <3>1, EffectiveIs
  <2> QED BY <2>0, <2>3, <2>5
<1>7. ASSUME None(b, f, key) PROVE Effective(c, f, key) = Effective(a, f, key)
  <2>1. CASE None(a, f, key)
    BY <1>4, <1>7, <2>1, NoneUnset
  <2>2. CASE ~None(a, f, key)
    <3>0. PICK m : LastAt(a, m, f, key) /\ Effective(a, f, key) = ValueAt(a, m)
      BY <2>2, LastSets
    <3>1. /\ m \in 1 .. Len(a) - 1 /\ SetsKey(a, m, f, key)
          /\ \A j \in m + 1 .. Len(a) - 1 : ~SetsKey(a, j, f, key)
      BY <3>0 DEF LastAt
    <3>2. m \in 1 .. Len(c) - 1 /\ SetsKey(c, m, f, key) /\ ValueAt(c, m) = ValueAt(a, m)
      BY <1>1, <1>2, <3>1
    <3>3. ASSUME NEW j \in m + 1 .. Len(c) - 1 PROVE ~SetsKey(c, j, f, key)
      <4>1. j \in 1 .. Len(c) - 1
        BY <1>1, <1>2, <3>1
      <4>2. CASE j \in 1 .. Len(a) - 1
        <5>1. j \in m + 1 .. Len(a) - 1
          BY <1>2, <3>1, <4>2
        <5> QED BY <1>1, <3>1, <4>2, <5>1
      <4>3. CASE j = Len(a)
        BY <1>1, <4>1, <4>3
      <4>4. CASE \E q \in 1 .. Len(b) - 1 : j = Len(a) + q
        BY <1>1, <1>7, <4>4 DEF None
      <4> QED BY <1>3, <4>1, <4>2, <4>3, <4>4
    <3>4. Effective(c, f, key) = ValueAt(c, m)
      <4>1. LastAt(c, m, f, key)
        BY <3>2, <3>3 DEF LastAt
      <4> QED BY <1>1, <4>1, EffectiveIs
    <3> QED BY <3>0, <3>2, <3>4
  <2> QED BY <2>1, <2>2
<1> QED
  BY <1>0, <1>4, <1>5, <1>6, <1>7 DEF c

(* Arguments without the flag set nothing with it.                         *)
LEMMA NoFlagNone ==
  ASSUME NEW a \in Seq(Argument), NEW f, NoFlag(a, f)
  PROVE  Closed(a, f) /\ \A key : None(a, f, key)
<1>1. \A k \in 1 .. Len(a) : a[k] # Flag(f)
  BY DEF NoFlag, Flag
<1>2. \A k \in 1 .. Len(a) - 1 : k \in 1 .. Len(a)
  OBVIOUS
<1> QED
  BY <1>1, <1>2 DEF Closed, None, SetsKey

(* A list of pairs sets the keys of its pairs, and nothing else.            *)
OnlyPairs(b, flag, Q) ==
  /\ \A f \in FlagName \ {"none"} : Closed(b, f)
  /\ \A f \in FlagName \ {"none", flag} : \A key : None(b, f, key)
  /\ \A key : (\A x \in Q : x[1] # key) => None(b, flag, key)
  /\ \A x \in Q : (\A y \in Q : y[1] = x[1] => y[2] = x[2]) =>
       ~None(b, flag, x[1]) /\ Effective(b, flag, x[1]) = x[2]

(* By the keys and values of its pairs: a flag is never a value, and a     *)
(* value never a flag.                                                     *)
LEMMA PairListEffective ==
  ASSUME NEW flag \in FlagName, flag # "none", NEW Q, Q \subseteq KeyTexts, NEW b, PairList(b, flag, Q)
  PROVE  OnlyPairs(b, flag, Q)
<1>1. b \in Seq(Argument) /\ Len(b) \in Nat
  BY DEF PairList
<1>2. ASSUME NEW k \in 1 .. Len(b)
      PROVE  \/ k \in 1 .. Len(b) - 1 /\ \E x \in Q : PairAt(b, k, flag, x)
             \/ \E x \in Q : b[k] = KeyValue(x[1], x[2])
  <2>1. PICK p \in 1 .. Len(b) - 1 : (k = p \/ k = p + 1) /\ \E x \in Q : PairAt(b, p, flag, x)
    BY DEF PairList
  <2> QED BY <2>1 DEF PairAt
<1>3. ASSUME NEW x \in Q
      PROVE  /\ x[1] \in Name /\ x[2] \in Text /\ KeyValue(x[1], x[2]).flag = "none"
             /\ KeyText(KeyValue(x[1], x[2]).text, x[1], x[2])
  <2>1. x[1] \in Name /\ x[2] \in Text
    BY DEF KeyTexts
  <2> QED BY <2>1, KeyValueTyped
<1>4. ASSUME NEW f \in FlagName \ {"none"}, NEW k \in 1 .. Len(b), b[k] = Flag(f)
      PROVE  f = flag /\ k \in 1 .. Len(b) - 1 /\ \E x \in Q : PairAt(b, k, flag, x)
  <2>1. Flag(f).flag = f /\ Flag(flag).flag = flag
    BY DEF Flag
  <2>2. ~\E x \in Q : b[k] = KeyValue(x[1], x[2])
    BY <1>3, <1>4, <2>1
  <2>3. k \in 1 .. Len(b) - 1 /\ \E x \in Q : PairAt(b, k, flag, x)
    BY <1>2, <2>2
  <2> QED BY <1>4, <2>1, <2>3 DEF PairAt
<1>5. ASSUME NEW f \in FlagName \ {"none"} PROVE Closed(b, f)
  BY <1>1, <1>4 DEF Closed
<1>6. ASSUME NEW f \in FlagName \ {"none", flag}, NEW key PROVE None(b, f, key)
  <2>1. \A k \in 1 .. Len(b) - 1 : k \in 1 .. Len(b)
    BY <1>1
  <2>2. \A k \in 1 .. Len(b) : b[k] # Flag(f)
    BY <1>4, <1>6
  <2> QED BY <2>1, <2>2 DEF None, SetsKey
<1>7. ASSUME NEW key, NEW k \in 1 .. Len(b) - 1, SetsKey(b, k, flag, key)
      PROVE  \E x \in Q : x[1] = key /\ PairAt(b, k, flag, x)
  <2>1. k \in 1 .. Len(b) /\ b[k] = Flag(flag)
    BY <1>1, <1>7 DEF SetsKey
  <2>2. PICK x \in Q : PairAt(b, k, flag, x)
    BY <1>4, <2>1
  <2>3. b[k + 1] = KeyValue(x[1], x[2]) /\ SubSeq(b[k + 1].text, 1, 2) = <<key, "=">>
    BY <1>7, <2>2 DEF SetsKey, PairAt
  <2>4. SubSeq(KeyValue(x[1], x[2]).text, 1, 2) = <<key, "=">>
    BY <2>3
  <2>5. x[1] = key
    BY <1>3, <2>4, KeyAndValue
  <2> QED BY <2>2, <2>5
<1>8. ASSUME NEW key, \A x \in Q : x[1] # key PROVE None(b, flag, key)
  BY <1>7, <1>8 DEF None
<1>9. ASSUME NEW x \in Q, \A y \in Q : y[1] = x[1] => y[2] = x[2]
      PROVE  ~None(b, flag, x[1]) /\ Effective(b, flag, x[1]) = x[2]
  <2>1. PICK p \in 1 .. Len(b) - 1 : PairAt(b, p, flag, x)
    BY DEF PairList
  <2>2. SetsKey(b, p, flag, x[1])
    <3> DEFINE u == KeyValue(x[1], x[2]).text
    <3>1. Len(u) >= 2 /\ SubSeq(u, 1, 2) = <<x[1], "=">>
      BY <1>3, KeyAndValue
    <3>2. b[p] = Flag(flag) /\ b[p + 1].text = u
      BY <2>1 DEF PairAt
    <3> HIDE DEF u
    <3> QED BY <3>1, <3>2, Zenon DEF SetsKey
  <2>3. ~None(b, flag, x[1])
    BY <2>2 DEF None
  <2>4. PICK k \in 1 .. Len(b) - 1 : SetsKey(b, k, flag, x[1]) /\ Effective(b, flag, x[1]) = ValueAt(b, k)
    BY <1>1, <2>3, LastSets DEF LastAt
  <2>5. PICK y \in Q : y[1] = x[1] /\ PairAt(b, k, flag, y)
    BY <1>7, <2>4
  <2>6. y[2] = x[2]
    BY <1>9, <2>5
  <2> DEFINE u == KeyValue(y[1], y[2]).text
  <2>7. SubSeq(u, 3, Len(u)) = y[2]
    BY <1>3, KeyAndValue
  <2>8. b[k + 1].text = u
    BY <2>5 DEF PairAt
  <2> HIDE DEF u
  <2>9. ValueAt(b, k) = y[2]
    BY <2>7, <2>8 DEF ValueAt
  <2> QED BY <2>3, <2>4, <2>6, <2>9
<1> QED
  BY <1>5, <1>6, <1>8, <1>9 DEF OnlyPairs

(* Pairs stay pairs when each argument is replaced by itself.               *)
LEMMA PairListMapped ==
  ASSUME NEW flag, NEW P, NEW Q, NEW a, PairList(a, flag, P), NEW b \in Seq(Argument), Len(b) = Len(a),
         \A k \in 1 .. Len(a) : a[k] = Flag(flag) => b[k] = Flag(flag),
         \A x \in P : \E y \in Q : \A k \in 1 .. Len(a) :
           a[k] = KeyValue(x[1], x[2]) => b[k] = KeyValue(y[1], y[2]),
         \A y \in Q : \E x \in P : \A k \in 1 .. Len(a) :
           a[k] = KeyValue(x[1], x[2]) => b[k] = KeyValue(y[1], y[2])
  PROVE  PairList(b, flag, Q)
<1>1. Len(a) \in Nat /\ \A p \in 1 .. Len(a) - 1 : p \in 1 .. Len(a) /\ p + 1 \in 1 .. Len(a)
  BY DEF PairList
<1>2. ASSUME NEW k \in 1 .. Len(b)
      PROVE  \E p \in 1 .. Len(b) - 1 : (k = p \/ k = p + 1) /\ \E y \in Q : PairAt(b, p, flag, y)
  <2>1. PICK p \in 1 .. Len(a) - 1 : (k = p \/ k = p + 1) /\ \E x \in P : PairAt(a, p, flag, x)
    BY DEF PairList
  <2>2. PICK x \in P : PairAt(a, p, flag, x)
    BY <2>1
  <2>3. PICK y \in Q : \A q \in 1 .. Len(a) : a[q] = KeyValue(x[1], x[2]) => b[q] = KeyValue(y[1], y[2])
    OBVIOUS
  <2>4. PairAt(b, p, flag, y)
    BY <1>1, <2>2, <2>3 DEF PairAt
  <2> QED BY <2>1, <2>4
<1>3. ASSUME NEW y \in Q
      PROVE  \E p \in 1 .. Len(b) - 1 : PairAt(b, p, flag, y)
  <2>1. PICK x \in P : \A q \in 1 .. Len(a) : a[q] = KeyValue(x[1], x[2]) => b[q] = KeyValue(y[1], y[2])
    OBVIOUS
  <2>2. PICK p \in 1 .. Len(a) - 1 : PairAt(a, p, flag, x)
    BY DEF PairList
  <2>3. PairAt(b, p, flag, y)
    BY <1>1, <2>1, <2>2 DEF PairAt
  <2> QED BY <2>3
<1> QED
  BY <1>2, <1>3 DEF PairList

(***************************************************************************)
(* The kubelet's expansion of arguments, and the arguments of a PLZ test   *)
(* run.                                                                    *)
(***************************************************************************)

(* An environment gives every name that it has a text.                     *)
IsEnvironment(env) == \A x \in DOMAIN env : env[x] \in Text

Plain(t)     == \A m \in 1 .. Len(t) : t[m] # "$"
AllPlain(a)  == \A k \in 1 .. Len(a) : Plain(a[k].text)

(* The elements of a concatenation are those of its parts.                 *)
LEMMA ConcatParts ==
  ASSUME NEW S, NEW a \in Seq(S), NEW b \in Seq(S), NEW c, c = a \o b
  PROVE  /\ c \in Seq(S) /\ Len(a) \in Nat /\ Len(b) \in Nat /\ Len(c) = Len(a) + Len(b)
         /\ \A k \in 1 .. Len(a) : c[k] = a[k]
         /\ \A k \in 1 .. Len(b) : c[Len(a) + k] = b[k]
  OBVIOUS

(* The fields of an argument of a list.                                    *)
LEMMA ArgumentAt ==
  ASSUME NEW a \in Seq(Argument), NEW k \in 1 .. Len(a)
  PROVE  /\ a[k] \in Argument /\ a[k] \in [flag : FlagName, text : Text]
         /\ a[k].flag \in FlagName /\ a[k].text \in Text
<1>1. a[k] \in Argument
  OBVIOUS
<1> QED
  BY <1>1 DEF Argument

(* Expanded works on each argument by itself.                               *)
LEMMA ExpandedTyped ==
  ASSUME NEW a \in Seq(Argument), NEW env, IsEnvironment(env)
  PROVE  /\ Expanded(a, env) \in Seq(Argument) /\ Len(Expanded(a, env)) = Len(a)
         /\ \A k \in 1 .. Len(a) : /\ Expanded(a, env)[k].flag = a[k].flag
                                   /\ Expanded(a, env)[k].text = Expand(a[k].text, env)
                                   /\ Expanded(a, env)[k] = [flag |-> a[k].flag, text |-> Expand(a[k].text, env)]
<1>1. DOMAIN a = 1 .. Len(a) /\ Len(a) \in Nat
  OBVIOUS
<1> DEFINE b == [k \in DOMAIN a |-> [a[k] EXCEPT !.text = Expand(@, env)]]
<1>2. ASSUME NEW k \in 1 .. Len(a)
      PROVE  /\ b[k] \in Argument
             /\ b[k].flag = a[k].flag /\ b[k].text = Expand(a[k].text, env)
             /\ b[k] = [flag |-> a[k].flag, text |-> Expand(a[k].text, env)]
  <2>1. a[k] \in [flag : FlagName, text : Text]
    BY ArgumentAt
  <2> DEFINE t == Expand(a[k].text, env)
  <2>2. t \in Text
    BY <2>1, ExpandText DEF IsEnvironment
  <2>3. b[k] = [a[k] EXCEPT !.text = t]
    BY <1>1
  <2> HIDE DEF t, b
  <2>4. b[k] = [flag |-> a[k].flag, text |-> t] /\ a[k].flag \in FlagName
    BY <2>1, <2>3
  <2> QED BY <2>2, <2>4 DEF t, Argument
<1>3. Expanded(a, env) = b
  BY DEF Expanded
<1>4. b \in Seq(Argument) /\ Len(b) = Len(a)
  <2>1. DOMAIN b = 1 .. Len(a)
    BY <1>1
  <2>2. b = [k \in 1 .. Len(a) |-> b[k]]
    BY <1>1
  <2> HIDE DEF b
  <2> QED BY <1>1, <1>2, <2>1, <2>2
<1> HIDE DEF b
<1> QED
  BY <1>2, <1>3, <1>4

(* The expansion of a concatenation is that of its parts.                  *)
LEMMA ExpandedConcat ==
  ASSUME NEW a \in Seq(Argument), NEW b \in Seq(Argument), NEW env, IsEnvironment(env)
  PROVE  Expanded(a \o b, env) = Expanded(a, env) \o Expanded(b, env)
<1> DEFINE c == a \o b
           x == Expanded(a, env)
           y == Expanded(b, env)
           z == Expanded(c, env)
<1>1. /\ c \in Seq(Argument) /\ Len(a) \in Nat /\ Len(b) \in Nat /\ Len(c) = Len(a) + Len(b)
      /\ \A k \in 1 .. Len(a) : c[k] = a[k]
      /\ \A k \in 1 .. Len(b) : c[Len(a) + k] = b[k]
  OBVIOUS
<1> HIDE DEF c, x, y, z
<1>2. /\ x \in Seq(Argument) /\ Len(x) = Len(a)
      /\ \A k \in 1 .. Len(a) : x[k] = [flag |-> a[k].flag, text |-> Expand(a[k].text, env)]
  BY ExpandedTyped DEF x
<1>3. /\ y \in Seq(Argument) /\ Len(y) = Len(b)
      /\ \A k \in 1 .. Len(b) : y[k] = [flag |-> b[k].flag, text |-> Expand(b[k].text, env)]
  BY ExpandedTyped DEF y
<1>4. /\ z \in Seq(Argument) /\ Len(z) = Len(c)
      /\ \A k \in 1 .. Len(c) : z[k] = [flag |-> c[k].flag, text |-> Expand(c[k].text, env)]
  BY <1>1, ExpandedTyped DEF z
<1> DEFINE w == x \o y
<1>5. /\ w \in Seq(Argument) /\ Len(w) = Len(a) + Len(b)
      /\ \A k \in 1 .. Len(a) : w[k] = x[k]
      /\ \A k \in 1 .. Len(b) : w[Len(a) + k] = y[k]
  <2>1. PICK v : v = w
    OBVIOUS
  <2> HIDE DEF w
  <2>2. v = x \o y
    BY <2>1 DEF w
  <2>3. /\ v \in Seq(Argument) /\ Len(v) = Len(x) + Len(y)
        /\ \A k \in 1 .. Len(x) : v[k] = x[k]
        /\ \A k \in 1 .. Len(y) : v[Len(x) + k] = y[k]
    <3>1. x \in Seq(Argument) /\ y \in Seq(Argument)
      BY <1>2, <1>3
    <3> QED BY ONLY <2>2, <3>1, ConcatParts
  <2> QED BY <1>2, <1>3, <2>1, <2>3
<1> HIDE DEF w
<1>6. ASSUME NEW k \in 1 .. Len(z) PROVE z[k] = w[k]
  <2>1. CASE k \in 1 .. Len(a)
    <3>1. k \in 1 .. Len(c)
      BY <1>4
    <3> QED BY <1>1, <1>2, <1>4, <1>5, <2>1, <3>1, ZenonT(40)
  <2>2. CASE ~(k \in 1 .. Len(a))
    <3>1. PICK m \in 1 .. Len(b) : k = Len(a) + m
      <4>1. k - Len(a) \in 1 .. Len(b) /\ k = Len(a) + (k - Len(a))
        BY <1>1, <1>4, <2>2
      <4> QED BY <4>1
    <3>2. k \in 1 .. Len(c) /\ c[k] = b[m] /\ w[k] = y[m]
      BY <1>1, <1>4, <1>5, <3>1
    <3> QED BY <1>3, <1>4, <3>2
  <2> QED BY <2>1, <2>2
<1>7. z = w
  BY <1>1, <1>4, <1>5, <1>6, SeqEqual
<1> QED
  BY <1>7 DEF z, w, x, y, c

(* Arguments without a $ stay as they are.                                 *)
LEMMA ExpandedPlain ==
  ASSUME NEW a \in Seq(Argument), NEW env, IsEnvironment(env), AllPlain(a)
  PROVE  Expanded(a, env) = a
<1> DEFINE x == Expanded(a, env)
<1>1. /\ x \in Seq(Argument) /\ Len(x) = Len(a)
      /\ \A k \in 1 .. Len(a) : x[k] = [flag |-> a[k].flag, text |-> Expand(a[k].text, env)]
  BY ExpandedTyped
<1> HIDE DEF x
<1>2. ASSUME NEW k \in 1 .. Len(a) PROVE x[k] = a[k]
  <2>1. a[k] \in [flag : FlagName, text : Text]
    BY ArgumentAt
  <2>2. Expand(a[k].text, env) = a[k].text
    <3>1. a[k].text \in Text /\ \A m \in 1 .. Len(a[k].text) : a[k].text[m] # "$"
      BY <2>1 DEF AllPlain, Plain
    <3> QED BY <3>1, PlainExpand
  <2>3. x[k] = [flag |-> a[k].flag, text |-> a[k].text]
    BY <1>1, <2>2
  <2> QED BY <2>1, <2>3
<1>3. x = a
  BY <1>1, <1>2, SeqEqual
<1> QED
  BY <1>3 DEF x

(* Escaped pairs reach k6 as the map that they were made from.              *)
MapPairs(map) == {<<key, map[key]>> : key \in DOMAIN map}

(* What escapeKubeExpansion has doubled, the kubelet halves.               *)
LEMMA PairsExpanded ==
  ASSUME NEW flag \in FlagName, flag # "none", NEW map, DOMAIN map \subseteq ToSet(SortedKeys),
         \A key \in DOMAIN map : map[key] \in Text,
         NEW env, IsEnvironment(env)
  PROVE  /\ PairList(Expanded(Pairs(flag, map), env), flag, MapPairs(map))
         /\ Pairs(flag, map) \in Seq(Argument)
         /\ MapPairs(map) \subseteq KeyTexts
<1> DEFINE a == Pairs(flag, map)
           b == Expanded(a, env)
           P == EscapedPairs(map)
           Q == MapPairs(map)
           esc(key) == escapeKubeExpansion(map[key])
<1>1. PairList(a, flag, P) /\ P \subseteq KeyTexts
  BY PairsList
<1>2. a \in Seq(Argument)
  BY <1>1 DEF PairList
<1> HIDE DEF a, b
<1>3. /\ b \in Seq(Argument) /\ Len(b) = Len(a)
      /\ \A k \in 1 .. Len(a) : b[k] = [flag |-> a[k].flag, text |-> Expand(a[k].text, env)]
  BY <1>2, ExpandedTyped DEF b
<1>4. ASSUME NEW key \in DOMAIN map
      PROVE  /\ key \in Name /\ map[key] \in Text /\ Escaped(esc(key), map[key]) /\ esc(key) \in Text
  <2>1. key \in Name
    BY KeysAssumption DEF ToSet
  <2> QED BY <2>1, EscapeKubeExpansion DEF Escaped, EscapedBy
<1>5. Q \subseteq KeyTexts
  BY <1>4 DEF MapPairs, KeyTexts
<1>6. ASSUME NEW k \in 1 .. Len(a), a[k] = Flag(flag) PROVE b[k] = Flag(flag)
  <2>1. <<>> \in Text /\ \A m \in 1 .. Len(<<>>) : <<>>[m] # "$"
    BY DEF Text
  <2>2. Expand(<<>>, env) = <<>>
    BY <2>1, PlainExpand
  <2>3. b[k] = [flag |-> a[k].flag, text |-> Expand(a[k].text, env)] /\ a[k].flag = flag /\ a[k].text = <<>>
    BY <1>3, <1>6 DEF Flag
  <2> QED BY <2>2, <2>3 DEF Flag
<1>7. ASSUME NEW key \in DOMAIN map, NEW k \in 1 .. Len(a), a[k] = KeyValue(key, esc(key))
      PROVE  b[k] = KeyValue(key, map[key])
  <2>1. Escaped(<<key, "=">> \o esc(key), <<key, "=">> \o map[key])
    BY <1>4, KeyValueEscaped
  <2>2. Expand(<<key, "=">> \o esc(key), env) = <<key, "=">> \o map[key]
    BY <2>1, EscapedExpand
  <2>3. a[k].flag = "none" /\ a[k].text = <<key, "=">> \o esc(key)
    BY <1>4, <1>7, KeyValueTyped
  <2>4. b[k] = [flag |-> "none", text |-> Expand(<<key, "=">> \o esc(key), env)]
    BY <1>3, <2>3
  <2>5. b[k] = [flag |-> "none", text |-> <<key, "=">> \o map[key]]
    BY <2>2, <2>4, Zenon
  <2> QED BY <2>5, Zenon DEF KeyValue, Value
<1>8. ASSUME NEW x \in P
      PROVE  \E y \in Q : \A k \in 1 .. Len(a) : a[k] = KeyValue(x[1], x[2]) => b[k] = KeyValue(y[1], y[2])
  <2>1. PICK key \in DOMAIN map : x = <<key, esc(key)>>
    BY DEF EscapedPairs
  <2>2. PICK y \in Q : y = <<key, map[key]>>
    BY DEF MapPairs
  <2>3. x[1] = key /\ x[2] = esc(key) /\ y[1] = key /\ y[2] = map[key]
    BY <2>1, <2>2
  <2>4. \A k \in 1 .. Len(a) : a[k] = KeyValue(x[1], x[2]) => b[k] = KeyValue(y[1], y[2])
    BY <1>7, <2>3
  <2> QED BY <2>4
<1>9. ASSUME NEW y \in Q
      PROVE  \E x \in P : \A k \in 1 .. Len(a) : a[k] = KeyValue(x[1], x[2]) => b[k] = KeyValue(y[1], y[2])
  <2>1. PICK key \in DOMAIN map : y = <<key, map[key]>>
    BY DEF MapPairs
  <2>2. PICK x \in P : x = <<key, esc(key)>>
    BY DEF EscapedPairs
  <2>3. x[1] = key /\ x[2] = esc(key) /\ y[1] = key /\ y[2] = map[key]
    BY <2>1, <2>2
  <2>4. \A k \in 1 .. Len(a) : a[k] = KeyValue(x[1], x[2]) => b[k] = KeyValue(y[1], y[2])
    BY <1>7, <2>3
  <2> QED BY <2>4
<1> HIDE DEF P, Q
<1>10. PairList(b, flag, Q)
  BY <1>1, <1>3, <1>6, <1>8, <1>9, PairListMapped
<1> QED
  BY <1>2, <1>5, <1>10 DEF a, b, Q

(* Every value comes directly after its flag, and -e and --tag have one.    *)
WellFormed(a) ==
  /\ a \in Seq(Argument)
  /\ \A k \in 1 .. Len(a) : ~IsFlag(a[k]) => k - 1 \in 1 .. Len(a) /\ IsFlag(a[k - 1])
  /\ \A f \in {"-e", "--tag"} : \A k \in 1 .. Len(a) :
       a[k].flag = f => k + 1 \in 1 .. Len(a) /\ ~IsFlag(a[k + 1])

(* Well-formed lists stay so when they are concatenated,                   *)
LEMMA WellFormedConcat ==
  ASSUME NEW a, NEW b, WellFormed(a), WellFormed(b)
  PROVE  WellFormed(a \o b)
<1>1. PICK c : c = a \o b
  OBVIOUS
<1>2. a \in Seq(Argument) /\ b \in Seq(Argument)
  BY DEF WellFormed
<1>3. /\ c \in Seq(Argument) /\ Len(a) \in Nat /\ Len(b) \in Nat /\ Len(c) = Len(a) + Len(b)
      /\ \A k \in 1 .. Len(a) : c[k] = a[k]
      /\ \A k \in 1 .. Len(b) : c[Len(a) + k] = b[k]
  BY ONLY <1>1, <1>2, ConcatParts
<1>4. ASSUME NEW k \in 1 .. Len(c)
      PROVE  /\ ~IsFlag(c[k]) => k - 1 \in 1 .. Len(c) /\ IsFlag(c[k - 1])
             /\ \A f \in {"-e", "--tag"} : c[k].flag = f => k + 1 \in 1 .. Len(c) /\ ~IsFlag(c[k + 1])
  <2>1. CASE k \in 1 .. Len(a)
    <3>1. \A j \in 1 .. Len(a) : j \in 1 .. Len(c)
      BY <1>3
    <3> QED BY <1>3, <2>1, <3>1 DEF WellFormed
  <2>2. CASE ~(k \in 1 .. Len(a))
    <3>1. PICK m \in 1 .. Len(b) : k = Len(a) + m
      <4>1. k - Len(a) \in 1 .. Len(b) /\ k = Len(a) + (k - Len(a))
        BY <1>3, <2>2
      <4> QED BY <4>1
    <3>2. c[k] = b[m]
      BY <1>3, <3>1
    <3>3. ASSUME ~IsFlag(c[k]) PROVE k - 1 \in 1 .. Len(c) /\ IsFlag(c[k - 1])
      <4>1. m - 1 \in 1 .. Len(b) /\ IsFlag(b[m - 1])
        BY <3>2, <3>3 DEF WellFormed
      <4>2. k - 1 = Len(a) + (m - 1) /\ k - 1 \in 1 .. Len(c)
        BY <1>3, <3>1, <4>1
      <4>3. c[Len(a) + (m - 1)] = b[m - 1]
        BY <1>3, <4>1
      <4> QED BY <4>1, <4>2, <4>3
    <3>4. ASSUME NEW f \in {"-e", "--tag"}, c[k].flag = f PROVE k + 1 \in 1 .. Len(c) /\ ~IsFlag(c[k + 1])
      <4>1. m + 1 \in 1 .. Len(b) /\ ~IsFlag(b[m + 1])
        BY <3>2, <3>4 DEF WellFormed
      <4>2. k + 1 = Len(a) + (m + 1) /\ k + 1 \in 1 .. Len(c)
        BY <1>3, <3>1, <4>1
      <4>3. c[Len(a) + (m + 1)] = b[m + 1]
        BY <1>3, <4>1
      <4> QED BY <4>1, <4>2, <4>3
    <3> QED BY <3>3, <3>4
  <2> QED BY <2>1, <2>2
<1>5. WellFormed(c)
  BY <1>3, <1>4 DEF WellFormed
<1> QED
  BY <1>1, <1>5

(* and so is a list of pairs.                                              *)
LEMMA PairListWellFormed ==
  ASSUME NEW flag \in FlagName, flag # "none", NEW P, P \subseteq KeyTexts, NEW a, PairList(a, flag, P)
  PROVE  WellFormed(a)
<1>1. a \in Seq(Argument) /\ Len(a) \in Nat
  BY DEF PairList
<1>2. ASSUME NEW x \in P PROVE KeyValue(x[1], x[2]).flag = "none"
  <2>1. x[1] \in Name /\ x[2] \in Text
    BY DEF KeyTexts
  <2> QED BY <2>1, KeyValueTyped
<1>3. Flag(flag).flag = flag
  BY DEF Flag
<1>4. ASSUME NEW k \in 1 .. Len(a)
      PROVE  /\ ~IsFlag(a[k]) => k - 1 \in 1 .. Len(a) /\ IsFlag(a[k - 1])
             /\ IsFlag(a[k]) => k + 1 \in 1 .. Len(a) /\ ~IsFlag(a[k + 1])
  <2>1. PICK p \in 1 .. Len(a) - 1 : (k = p \/ k = p + 1) /\ \E x \in P : PairAt(a, p, flag, x)
    BY DEF PairList
  <2>2. IsFlag(a[p]) /\ ~IsFlag(a[p + 1])
    BY <1>2, <1>3, <2>1 DEF PairAt, IsFlag
  <2>3. CASE k = p
    BY <1>1, <2>2, <2>3
  <2>4. CASE k = p + 1
    <3>1. k - 1 = p /\ p \in 1 .. Len(a)
      BY <1>1, <2>4
    <3> QED BY <2>2, <2>4, <3>1
  <2> QED BY <2>1, <2>3, <2>4
<1>5. \A k \in 1 .. Len(a) : \A f \in {"-e", "--tag"} : a[k].flag = f => IsFlag(a[k])
  BY DEF IsFlag
<1> QED
  BY <1>1, <1>4, <1>5 DEF WellFormed

(* A list of flags other than -e and --tag.                                 *)
LEMMA FlagsWellFormed ==
  ASSUME NEW a \in Seq(Argument), \A k \in 1 .. Len(a) : IsFlag(a[k]) /\ a[k].flag \notin {"-e", "--tag"}
  PROVE  WellFormed(a)
  BY DEF WellFormed
-----------------------------------------------------------------------------
(* The parts of the arguments of a PLZ test run.                            *)
OutArgs    == <<Flag("--out"), Word("cloud")>>
LogArgs    == <<Flag("--no-thresholds"), FlagWith("--log-output", <<"loki">> \o TokenRef)>>
(* The last arguments of plzk6Args: whether k6 reads its environment, and  *)
(* what it prints.                                                         *)
SystemArgs(d) == <<FlagWith("--include-system-env-vars", <<IF d.systemEnv THEN "true" ELSE "false">>)>>
QuietArgs(d)  == Given(~d.systemEnv, <<Flag("--verbose"), FlagWith("--summary-mode", <<"disabled">>)>>)

(* The tags that plzk6Args passes: the user's that are not empty, and the  *)
(* load zone.                                                              *)
Tags(d) ==
  LET tags == Over([load_zone |-> LZName], d.tags)
  IN  [k \in {t \in DOMAIN tags : tags[t] # <<>>} |-> tags[k]]

(* The arguments of a PLZ test run, part by part.                          *)
LEMMA PLZParts ==
  ASSUME NEW d
  PROVE  plzk6Args(d) = OutArgs \o Pairs("--tag", Tags(d)) \o LogArgs \o Pairs("-e", Environment(d))
                        \o SystemArgs(d) \o QuietArgs(d)
  BY DEF plzk6Args, OutArgs, TagArgs, Tags, LogArgs, SystemArgs, QuietArgs

(* A map that Preprocess makes: its keys are sorted, its texts are a user's *)
(* or the operator's.                                                       *)
IsMap(m) ==
  /\ DOMAIN m \subseteq ToSet(SortedKeys) /\ DOMAIN m \subseteq Name
  /\ \A k \in DOMAIN m : m[k] \in Text /\ "token" \notin ToSet(m[k])

(* The names that the operator has for the load zone and the test run are  *)
(* texts without the token.                                                *)
LEMMA OwnTexts ==
  /\ LZName \in Text /\ LZLabel \in Text /\ TestRunIDText \in Text
  /\ "token" \notin ToSet(LZName) /\ "token" \notin ToSet(LZLabel) /\ "token" \notin ToSet(TestRunIDText)
  /\ LZName # <<>>
<1>1. "zone" \in Piece /\ "label" \in Piece /\ "id" \in Piece
  BY WordsAssumption
<1> QED
  BY <1>1 DEF LZName, LZLabel, TestRunIDText, Text, ToSet

(* The tags are a map; the user's are in it unless they are empty or the   *)
(* load zone's.                                                            *)
LEMMA TagsMap ==
  ASSUME NEW d \in CloudData
  PROVE  /\ IsMap(Tags(d))
         /\ "load_zone" \in DOMAIN Tags(d) /\ Tags(d)["load_zone"] = LZName
         /\ \A k \in DOMAIN d.tags \ ReservedTags :
              /\ d.tags[k] = <<>> => k \notin DOMAIN Tags(d)
              /\ d.tags[k] # <<>> => k \in DOMAIN Tags(d) /\ Tags(d)[k] = d.tags[k]
<1> DEFINE tags == Over([load_zone |-> LZName], d.tags)
<1>1. DOMAIN tags = {"load_zone"} \cup DOMAIN d.tags
  BY DEF Over
<1>2. tags["load_zone"] = LZName /\ \A k \in DOMAIN d.tags \ {"load_zone"} : tags[k] = d.tags[k]
  BY DEF Over
<1>3. Tags(d) = [k \in {t \in DOMAIN tags : tags[t] # <<>>} |-> tags[k]]
  BY DEF Tags
<1> HIDE DEF tags
<1>4. IsUserMap(d.tags)
  BY CloudAssumption
<1>5. ToSet(SortedKeys) \subseteq Name /\ "load_zone" \in ToSet(SortedKeys)
  BY KeysAssumption DEF ToSet
<1>6. \A k \in DOMAIN tags : tags[k] \in Text /\ "token" \notin ToSet(tags[k])
  BY <1>1, <1>2, <1>4, OwnTexts DEF IsUserMap, IsUserText
<1>7. DOMAIN tags \subseteq ToSet(SortedKeys)
  BY <1>1, <1>4, <1>5 DEF IsUserMap
<1>8. \A k \in DOMAIN Tags(d) : k \in DOMAIN tags /\ Tags(d)[k] = tags[k]
  BY <1>3
<1>9. IsMap(Tags(d))
  BY <1>5, <1>6, <1>7, <1>8 DEF IsMap
<1>10. "load_zone" \in DOMAIN Tags(d) /\ Tags(d)["load_zone"] = LZName
  BY <1>1, <1>2, <1>3, OwnTexts
<1>11. ASSUME NEW k \in DOMAIN d.tags \ ReservedTags
       PROVE  /\ d.tags[k] = <<>> => k \notin DOMAIN Tags(d)
              /\ d.tags[k] # <<>> => k \in DOMAIN Tags(d) /\ Tags(d)[k] = d.tags[k]
  <2>1. k \in DOMAIN tags /\ tags[k] = d.tags[k]
    BY <1>1, <1>2 DEF ReservedTags
  <2> QED BY <1>3, <2>1
<1> QED
  BY <1>9, <1>10, <1>11

(* The variables are a map; the user's are in it unless they are reserved, *)
(* and the reserved ones have the operator's values.                       *)
LEMMA EnvironmentMap ==
  ASSUME NEW d \in CloudData
  PROVE  /\ IsMap(Environment(d))
         /\ "K6_CLOUDRUN_INSTANCE_ID" \notin DOMAIN Environment(d)
         /\ {"K6_CLOUDRUN_LOAD_ZONE", "K6_CLOUDRUN_DISTRIBUTION", "K6_CLOUDRUN_TEST_RUN_ID"}
              \subseteq DOMAIN Environment(d)
         /\ Environment(d)["K6_CLOUDRUN_LOAD_ZONE"] = LZName
         /\ Environment(d)["K6_CLOUDRUN_DISTRIBUTION"] = LZLabel
         /\ Environment(d)["K6_CLOUDRUN_TEST_RUN_ID"] = TestRunIDText
         /\ \A k \in DOMAIN d.env \ Reserved : k \in DOMAIN Environment(d) /\ Environment(d)[k] = d.env[k]
         /\ \A k \in DOMAIN Environment(d) : k \in Reserved \/ k \in DOMAIN d.env
<1> DEFINE own == [K6_CLOUDRUN_LOAD_ZONE |-> LZName, K6_CLOUDRUN_DISTRIBUTION |-> LZLabel,
                   K6_CLOUDRUN_TEST_RUN_ID |-> TestRunIDText]
           all == Over(own, d.env)
           keys == {"K6_CLOUDRUN_LOAD_ZONE", "K6_CLOUDRUN_DISTRIBUTION", "K6_CLOUDRUN_TEST_RUN_ID"}
<1>0. /\ DOMAIN own = keys /\ own["K6_CLOUDRUN_LOAD_ZONE"] = LZName
      /\ own["K6_CLOUDRUN_DISTRIBUTION"] = LZLabel /\ own["K6_CLOUDRUN_TEST_RUN_ID"] = TestRunIDText
  OBVIOUS
<1>3. Environment(d) = [k \in DOMAIN all \ {"K6_CLOUDRUN_INSTANCE_ID"} |-> all[k]]
  BY DEF Environment
<1> HIDE DEF own
<1>1. DOMAIN all = keys \cup DOMAIN d.env
  BY <1>0 DEF Over
<1>2. /\ all["K6_CLOUDRUN_LOAD_ZONE"] = LZName
      /\ all["K6_CLOUDRUN_DISTRIBUTION"] = LZLabel /\ all["K6_CLOUDRUN_TEST_RUN_ID"] = TestRunIDText
      /\ \A k \in DOMAIN d.env \ keys : all[k] = d.env[k]
  BY <1>0 DEF Over
<1> HIDE DEF all
<1>4. IsUserMap(d.env)
  BY CloudAssumption
<1>5. ToSet(SortedKeys) \subseteq Name /\ keys \subseteq ToSet(SortedKeys)
  BY KeysAssumption DEF ToSet
<1>6. \A k \in DOMAIN all : all[k] \in Text /\ "token" \notin ToSet(all[k])
  BY <1>1, <1>2, <1>4, OwnTexts DEF IsUserMap, IsUserText
<1>7. DOMAIN all \subseteq ToSet(SortedKeys)
  BY <1>1, <1>4, <1>5 DEF IsUserMap
<1>8. \A k \in DOMAIN Environment(d) : k \in DOMAIN all /\ Environment(d)[k] = all[k]
  BY <1>3
<1>9. IsMap(Environment(d))
  BY <1>5, <1>6, <1>7, <1>8 DEF IsMap
<1>10. "K6_CLOUDRUN_INSTANCE_ID" \notin DOMAIN Environment(d) /\ keys \subseteq DOMAIN Environment(d)
  BY <1>1, <1>3
<1>11. /\ Environment(d)["K6_CLOUDRUN_LOAD_ZONE"] = LZName
       /\ Environment(d)["K6_CLOUDRUN_DISTRIBUTION"] = LZLabel
       /\ Environment(d)["K6_CLOUDRUN_TEST_RUN_ID"] = TestRunIDText
  BY <1>2, <1>8, <1>10
<1>12. \A k \in DOMAIN d.env \ Reserved : k \in DOMAIN Environment(d) /\ Environment(d)[k] = d.env[k]
  BY <1>1, <1>2, <1>3 DEF Reserved
<1>13. \A k \in DOMAIN Environment(d) : k \in Reserved \/ k \in DOMAIN d.env
  BY <1>1, <1>8 DEF Reserved
<1> QED
  BY <1>9, <1>10, <1>11, <1>12, <1>13
-----------------------------------------------------------------------------
(* A list of two arguments.                                                *)
LEMMA PairTyped ==
  ASSUME NEW a \in Argument, NEW b \in Argument
  PROVE  <<a, b>> \in Seq(Argument) /\ Len(<<a, b>>) = 2 /\ <<a, b>>[1] = a /\ <<a, b>>[2] = b
  OBVIOUS

(* The value of --log-output, with its reference to the token, is a text.  *)
LEMMA LogText == <<"loki">> \o TokenRef \in Text
<1>1. "loki" \in Piece /\ "$" \in Piece /\ "(" \in Piece /\ "K6_CLOUD_TOKEN" \in Piece /\ ")" \in Piece
  BY WordsAssumption DEF Special
<1>2. TokenRef \in Seq(Piece)
  BY <1>1 DEF TokenRef
<1>3. <<"loki">> \in Seq(Piece)
  BY <1>1
<1> QED
  BY <1>2, <1>3, ConcatProperties DEF Text

(* --out cloud is well-formed,                                             *)
LEMMA OutArgsFacts ==
  /\ OutArgs \in Seq(Argument) /\ Len(OutArgs) = 2 /\ OutArgs[1] = Flag("--out") /\ OutArgs[2] = Word("cloud")
  /\ WellFormed(OutArgs)
<1>1. "--out" \in FlagName /\ "cloud" \in Piece
  BY WordsAssumption
<1>2. /\ Flag("--out") \in Argument /\ Flag("--out").flag = "--out"
      /\ Word("cloud") \in Argument /\ Word("cloud").flag = "none"
  BY <1>1, FlagTyped, WordTyped
<1>3. /\ OutArgs \in Seq(Argument) /\ Len(OutArgs) = 2
      /\ OutArgs[1] = Flag("--out") /\ OutArgs[2] = Word("cloud")
  BY <1>2, PairTyped DEF OutArgs
<1>4. IsFlag(OutArgs[1]) /\ ~IsFlag(OutArgs[2])
  BY <1>2, <1>3 DEF IsFlag
<1>5. \A f \in {"-e", "--tag"} : \A k \in 1 .. 2 : OutArgs[k].flag # f
  <2>1. \A k \in 1 .. 2 : OutArgs[k].flag \in {"--out", "none"}
    BY <1>2, <1>3
  <2> QED BY <2>1
<1>6. \A k \in 1 .. 2 : ~IsFlag(OutArgs[k]) => k - 1 \in 1 .. 2 /\ IsFlag(OutArgs[k - 1])
  BY <1>4
<1> QED
  BY <1>3, <1>5, <1>6 DEF WellFormed

(* as is the log output,                                                   *)
LEMMA LogArgsFacts ==
  /\ LogArgs \in Seq(Argument) /\ Len(LogArgs) = 2
  /\ LogArgs[1] = Flag("--no-thresholds") /\ LogArgs[2] = FlagWith("--log-output", <<"loki">> \o TokenRef)
  /\ WellFormed(LogArgs)
<1>1. "--no-thresholds" \in FlagName /\ "--log-output" \in FlagName
  BY WordsAssumption
<1> DEFINE t == <<"loki">> \o TokenRef
<1>2. t \in Text
  BY LogText
<1>3. LogArgs = <<Flag("--no-thresholds"), FlagWith("--log-output", t)>>
  BY DEF LogArgs
<1> HIDE DEF t
<1>4. /\ Flag("--no-thresholds") \in Argument /\ Flag("--no-thresholds").flag = "--no-thresholds"
      /\ FlagWith("--log-output", t) \in Argument /\ FlagWith("--log-output", t).flag = "--log-output"
  BY <1>1, <1>2, FlagTyped
<1>5. /\ LogArgs \in Seq(Argument) /\ Len(LogArgs) = 2
      /\ LogArgs[1] = Flag("--no-thresholds") /\ LogArgs[2] = FlagWith("--log-output", t)
  BY <1>3, <1>4, PairTyped
<1>6. \A k \in 1 .. 2 : LogArgs[k].flag \in {"--no-thresholds", "--log-output"}
  BY <1>4, <1>5
<1>7. \A k \in 1 .. Len(LogArgs) : IsFlag(LogArgs[k]) /\ LogArgs[k].flag \notin {"-e", "--tag"}
  BY <1>5, <1>6 DEF IsFlag
<1> QED
  BY <1>5, <1>7, FlagsWellFormed DEF t

(* and the flag for the environment,                                       *)
LEMMA SystemArgsFacts ==
  ASSUME NEW d
  PROVE  /\ SystemArgs(d) \in Seq(Argument) /\ Len(SystemArgs(d)) = 1
         /\ SystemArgs(d)[1].flag = "--include-system-env-vars"
         /\ \E t \in {<<"true">>, <<"false">>} : SystemArgs(d)[1].text = t
         /\ WellFormed(SystemArgs(d))
<1>1. "--include-system-env-vars" \in FlagName /\ "true" \in Piece /\ "false" \in Piece
  BY WordsAssumption
<1>2. PICK t \in {<<"true">>, <<"false">>} : t = <<IF d.systemEnv THEN "true" ELSE "false">>
  OBVIOUS
<1>3. t \in Text
  <2>1. <<"true">> \in Text /\ <<"false">> \in Text
    BY <1>1, WordTyped
  <2> QED BY <2>1
<1> DEFINE a == FlagWith("--include-system-env-vars", t)
<1>4. a \in Argument /\ a.flag = "--include-system-env-vars" /\ a.text = t
  BY <1>1, <1>3, FlagTyped
<1>5. SystemArgs(d) = <<a>>
  BY <1>2 DEF SystemArgs
<1> HIDE DEF a
<1>6. SystemArgs(d) \in Seq(Argument) /\ Len(SystemArgs(d)) = 1 /\ SystemArgs(d)[1] = a
  BY <1>4, <1>5
<1>7. \A k \in 1 .. Len(SystemArgs(d)) : IsFlag(SystemArgs(d)[k]) /\ SystemArgs(d)[k].flag \notin {"-e", "--tag"}
  BY <1>4, <1>6 DEF IsFlag
<1> QED
  BY <1>4, <1>6, <1>7, FlagsWellFormed

(* and the flags for what k6 prints,                                       *)
LEMMA QuietArgsFacts ==
  ASSUME NEW d
  PROVE  /\ QuietArgs(d) \in Seq(Argument)
         /\ \A k \in 1 .. Len(QuietArgs(d)) : /\ QuietArgs(d)[k].flag \in {"--verbose", "--summary-mode"}
                                              /\ QuietArgs(d)[k].text \in {<<>>, <<"disabled">>}
         /\ WellFormed(QuietArgs(d))
<1>1. "--verbose" \in FlagName /\ "--summary-mode" \in FlagName /\ "disabled" \in Piece
  BY WordsAssumption
<1>2. <<"disabled">> \in Text
  BY <1>1 DEF Text
<1> DEFINE a == Flag("--verbose")
           b == FlagWith("--summary-mode", <<"disabled">>)
<1>3. /\ a \in Argument /\ a.flag = "--verbose" /\ a.text = <<>>
      /\ b \in Argument /\ b.flag = "--summary-mode" /\ b.text = <<"disabled">>
  BY <1>1, <1>2, FlagTyped
<1>4. QuietArgs(d) = <<>> \/ QuietArgs(d) = <<a, b>>
  BY DEF QuietArgs, Given
<1> HIDE DEF a, b
<1>5. <<a, b>> \in Seq(Argument) /\ Len(<<a, b>>) = 2 /\ <<a, b>>[1] = a /\ <<a, b>>[2] = b
  BY <1>3, PairTyped
<1>6. /\ QuietArgs(d) \in Seq(Argument)
      /\ \A k \in 1 .. Len(QuietArgs(d)) : QuietArgs(d)[k] = a \/ QuietArgs(d)[k] = b
  <2>1. CASE QuietArgs(d) = <<>>
    BY <2>1
  <2>2. CASE QuietArgs(d) = <<a, b>>
    <3>1. PICK c : c = <<a, b>>
      OBVIOUS
    <3>2. c \in Seq(Argument) /\ Len(c) = 2 /\ c[1] = a /\ c[2] = b
      BY <1>5, <3>1
    <3>3. QuietArgs(d) = c
      BY <2>2, <3>1
    <3>4. \A k \in 1 .. Len(c) : c[k] = a \/ c[k] = b
      BY ONLY <3>2
    <3> QED BY <3>2, <3>3, <3>4
  <2> QED BY <1>4, <2>1, <2>2
<1>7. \A k \in 1 .. Len(QuietArgs(d)) : IsFlag(QuietArgs(d)[k]) /\ QuietArgs(d)[k].flag \notin {"-e", "--tag"}
  BY <1>3, <1>6 DEF IsFlag
<1> QED
  BY <1>3, <1>6, <1>7, FlagsWellFormed

(* and the pairs of tags and variables.                                    *)
LEMMA PLZPairs ==
  ASSUME NEW d \in CloudData
  PROVE  /\ PairList(Pairs("--tag", Tags(d)), "--tag", EscapedPairs(Tags(d)))
         /\ PairList(Pairs("-e", Environment(d)), "-e", EscapedPairs(Environment(d)))
         /\ EscapedPairs(Tags(d)) \subseteq KeyTexts /\ EscapedPairs(Environment(d)) \subseteq KeyTexts
         /\ WellFormed(Pairs("--tag", Tags(d))) /\ WellFormed(Pairs("-e", Environment(d)))
<1>1. IsMap(Tags(d)) /\ IsMap(Environment(d))
  BY TagsMap, EnvironmentMap
<1>2. "-e" \in FlagName /\ "--tag" \in FlagName
  BY WordsAssumption
<1>3. /\ PairList(Pairs("--tag", Tags(d)), "--tag", EscapedPairs(Tags(d)))
      /\ EscapedPairs(Tags(d)) \subseteq KeyTexts
  BY <1>1, <1>2, PairsList DEF IsMap
<1>4. /\ PairList(Pairs("-e", Environment(d)), "-e", EscapedPairs(Environment(d)))
      /\ EscapedPairs(Environment(d)) \subseteq KeyTexts
  BY <1>1, <1>2, PairsList DEF IsMap
<1>5. WellFormed(Pairs("--tag", Tags(d)))
  BY <1>2, <1>3, PairListWellFormed
<1>6. WellFormed(Pairs("-e", Environment(d)))
  BY <1>2, <1>4, PairListWellFormed
<1> QED
  BY <1>3, <1>4, <1>5, <1>6

(* The arguments of a PLZ test run are well-formed and begin with the cloud *)
(* output.                                                                  *)
LEMMA PLZArgs ==
  ASSUME NEW d \in CloudData
  PROVE  /\ WellFormed(plzk6Args(d))
         /\ Len(plzk6Args(d)) >= 2
         /\ plzk6Args(d)[1] = Flag("--out") /\ plzk6Args(d)[2] = Word("cloud")
<1> DEFINE x == Pairs("--tag", Tags(d)) 
           y == Pairs("-e", Environment(d))
<1>1. WellFormed(OutArgs) /\ WellFormed(LogArgs) /\ WellFormed(SystemArgs(d)) /\ WellFormed(QuietArgs(d))
  BY OutArgsFacts, LogArgsFacts, SystemArgsFacts, QuietArgsFacts
<1>2. WellFormed(x) /\ WellFormed(y)
  BY PLZPairs
<1> HIDE DEF x, y
<1>3. WellFormed(OutArgs \o x) /\ WellFormed(OutArgs \o x \o LogArgs) /\ WellFormed(OutArgs \o x \o LogArgs \o y)
  BY <1>1, <1>2, WellFormedConcat
<1>4. WellFormed(OutArgs \o x \o LogArgs \o y \o SystemArgs(d))
  BY <1>1, <1>3, WellFormedConcat
<1>5. WellFormed(OutArgs \o x \o LogArgs \o y \o SystemArgs(d) \o QuietArgs(d))
  BY <1>1, <1>4, WellFormedConcat
<1>6. plzk6Args(d) = OutArgs \o x \o LogArgs \o y \o SystemArgs(d) \o QuietArgs(d)
  BY PLZParts DEF x, y
<1>7. ASSUME NEW a, NEW b, WellFormed(a), WellFormed(b),
             Len(a) >= 2, a[1] = Flag("--out"), a[2] = Word("cloud")
      PROVE  Len(a \o b) >= 2 /\ (a \o b)[1] = Flag("--out") /\ (a \o b)[2] = Word("cloud")
  <2>1. PICK c : c = a \o b
    OBVIOUS
  <2>2. a \in Seq(Argument) /\ b \in Seq(Argument)
    BY <1>7 DEF WellFormed
  <2>3. /\ Len(a) \in Nat /\ Len(b) \in Nat /\ Len(c) = Len(a) + Len(b) /\ \A k \in 1 .. Len(a) : c[k] = a[k]
    BY ONLY <2>1, <2>2, ConcatParts
  <2>4. Len(c) >= 2 /\ c[1] = a[1] /\ c[2] = a[2]
    BY <1>7, <2>3
  <2> QED BY <1>7, <2>1, <2>4
<1> DEFINE Begins(a) == Len(a) >= 2 /\ a[1] = Flag("--out") /\ a[2] = Word("cloud")
<1>8. Begins(OutArgs)
  BY OutArgsFacts
<1>9. Begins(OutArgs \o x)
  BY <1>1, <1>2, <1>7, <1>8
<1>10. Begins(OutArgs \o x \o LogArgs)
  BY <1>1, <1>3, <1>7, <1>9
<1>11. Begins(OutArgs \o x \o LogArgs \o y)
  BY <1>2, <1>3, <1>7, <1>10
<1>12. Begins(OutArgs \o x \o LogArgs \o y \o SystemArgs(d))
  BY <1>1, <1>3, <1>7, <1>11
<1>13. Begins(OutArgs \o x \o LogArgs \o y \o SystemArgs(d) \o QuietArgs(d))
  BY <1>1, <1>4, <1>7, <1>12
<1> QED
  BY <1>5, <1>6, <1>13

(***************************************************************************)
(* The inductive invariants: where the spec comes from, ParseCLI's loop,   *)
(* and the containers.                                                     *)
(***************************************************************************)

(* What Fields leaves are arguments, none of them empty.                    *)
LEMMA FieldsTyped ==
  ASSUME NEW a \in Seq(Argument)
  PROVE  /\ Fields(a) \in Seq(Argument)
         /\ \A k \in 1 .. Len(Fields(a)) : Fields(a)[k] # EmptyArg
<1> DEFINE n == Len(a)
           parts == [m \in DOMAIN a |-> Given(a[m] # EmptyArg, <<a[m]>>)]
           b == Fields(a)
<1>1. n \in Nat /\ DOMAIN a = 1 .. n
  OBVIOUS
<1>2. ASSUME NEW m \in 1 .. n
      PROVE  /\ parts[m] \in Seq(Argument)
             /\ \A k \in 1 .. Len(parts[m]) : parts[m][k] # EmptyArg
  <2>1. parts[m] = Given(a[m] # EmptyArg, <<a[m]>>)
    BY <1>1
  <2> HIDE DEF parts
  <2>2. CASE a[m] # EmptyArg
    <3>1. PICK p : p = <<a[m]>>
      OBVIOUS
    <3>2. p \in Seq(Argument) /\ Len(p) = 1 /\ p[1] = a[m]
      BY <1>1, <3>1
    <3>3. parts[m] = p
      BY <2>1, <2>2, <3>1 DEF Given
    <3>4. \A k \in 1 .. Len(p) : p[k] = a[m]
      BY ONLY <3>2
    <3> QED BY <2>2, <3>2, <3>3, <3>4
  <2>3. CASE a[m] = EmptyArg
    <3>1. parts[m] = <<>>
      BY <2>1, <2>3 DEF Given
    <3> QED BY <3>1
  <2> QED BY <2>2, <2>3
<1>3. Len(parts) = n /\ (n = 0 => parts = <<>>)
  BY <1>1
<1>4. b = FlattenSeq(parts)
  BY DEF Fields
<1> HIDE DEF parts, b
<1>5. PICK off : Joined(Argument, parts, n, b, off)
  BY <1>1, <1>2, <1>3, <1>4, FlattenParts
<1>6. ASSUME NEW k \in 1 .. Len(b) PROVE b[k] # EmptyArg
  <2>1. PICK m \in 1 .. n : \E q \in 1 .. Len(parts[m]) : k = off[m - 1] + q
    BY <1>5 DEF Joined
  <2>2. PICK q \in 1 .. Len(parts[m]) : k = off[m - 1] + q
    BY <2>1
  <2>3. b[off[m - 1] + q] = parts[m][q]
    BY <1>5 DEF Joined
  <2> QED BY <1>2, <2>2, <2>3
<1>7. b \in Seq(Argument)
  BY <1>5 DEF Joined
<1> QED
  BY <1>6, <1>7 DEF b
-----------------------------------------------------------------------------
(* The steps before Initialize has a spec to read.                         *)
Early == {"handle", "complete", "dropped"}

(* The spec that PLZWorker.complete makes.                                  *)
SpecOf(d) ==
  [args |-> plzk6Args(d), arguments |-> <<>>, parallelism |-> d.instances,
   script |-> {"LocalFile"}, disabled |-> FALSE, env |-> RunnerEnvVars(d)]

(* Where the spec comes from.                                               *)
OriginInv ==
  /\ pc \in Early => trd \in CloudData /\ spec = NoSpec
  /\ pc \notin Early => \/ trd \in CloudData /\ spec = SpecOf(trd)
                        \/ trd = NoData /\ spec \in UserSpecs

(* ParseCLI's loop: it is between two groups; what it has found is what     *)
(* CLIOf finds in the arguments before i, none of which is positional; when *)
(* it has ended, it has seen them all.                                      *)
LoopInv ==
  pc \notin Early =>
    /\ i \in 1 .. Len(Argv) + 1 /\ Boundary(Argv, i)
    /\ cli = CLIOf(SubSeq(Argv, 1, i - 1))
    /\ \A j \in 1 .. i - 1 : ~Positional(Argv, j)
    /\ pc = "invalid" => i =< Len(Argv) /\ Positional(Argv, i)
    /\ pc \notin {"parse", "invalid"} => i = Len(Argv) + 1

(* It holds when nothing has happened,                                     *)
LEMMA OriginInit == Init => OriginInv
  BY DEF Init, OriginInv, Early

(* and after every step: only complete makes a spec, and nothing changes   *)
(* it.                                                                     *)
LEMMA OriginStep == OriginInv /\ [Next]_vars => OriginInv'
<1> SUFFICES ASSUME OriginInv, [Next]_vars PROVE OriginInv'
  OBVIOUS
<1>1. CASE UNCHANGED vars
  BY <1>1 DEF OriginInv, vars
<1>2. CASE Preprocess
  BY <1>2 DEF OriginInv, Preprocess, Early
<1>3. CASE Complete
  <2>1. trd \in CloudData /\ trd' = trd /\ spec' = SpecOf(trd) /\ pc' = "parse"
    BY <1>3 DEF OriginInv, Complete, Early, SpecOf
  <2>2. SpecOf(trd)' = SpecOf(trd')
    BY DEF SpecOf
  <2> QED BY <2>1, <2>2 DEF OriginInv, Early
<1>4. CASE ParseGroup \/ ParsePositional \/ ParseEnd \/ InitializeJobs \/ CreateRunner
  <2>1. /\ pc \notin Early /\ pc' \notin Early /\ trd' = trd /\ spec' = spec
    BY <1>4 DEF ParseGroup, ParsePositional, ParseEnd, InitializeJobs, CreateRunner, Early
  <2> QED BY <2>1 DEF OriginInv
<1> QED
  BY <1>1, <1>2, <1>3, <1>4 DEF Next

(* ParseCLI of no arguments.                                               *)
LEMMA NoArgs == SubSeq(<<>>, 1, 0) = <<>> /\ CLIOf(<<>>) = NoCLI
<1>1. {j \in 1 .. Len(<<>>) : Archived(<<>>, j)} = {}
  OBVIOUS
<1>2. Cardinality({}) = 0
  BY FS_EmptySet
<1> DEFINE K == {j \in 1 .. Len(<<>>) : Archived(<<>>, j)}
<1>3. CLIOf(<<>>) = [ArchiveArgs |-> [n \in 1 .. Cardinality(K) |-> <<>>[Nth(K, n)]],
                     HasCloudOut |-> \E p \in 1 .. Len(<<>>) - 1 :
                         IsExactly(<<>>[p], OutFlag) /\ <<>>[p + 1] = Word("cloud")]
  BY DEF CLIOf
<1>4. Cardinality(K) = 0
  BY <1>1, <1>2
<1> HIDE DEF K
<1>5. [n \in 1 .. Cardinality(K) |-> <<>>[Nth(K, n)]] = <<>>
  BY <1>4
<1>6. ~\E p \in 1 .. Len(<<>>) - 1 : IsExactly(<<>>[p], OutFlag) /\ <<>>[p + 1] = Word("cloud")
  OBVIOUS
<1>7. CLIOf(<<>>) = [ArchiveArgs |-> <<>>, HasCloudOut |-> FALSE]
  BY <1>3, <1>5, <1>6, Zenon
<1>8. SubSeq(<<>>, 1, 0) = <<>>
  OBVIOUS
<1> QED
  BY <1>7, <1>8 DEF NoCLI

(* A PLZ test run has its arguments in the spec's Args list.               *)
LEMMA PLZSpecArgs ==
  ASSUME NEW d \in CloudData
  PROVE  SpecOf(d).args = plzk6Args(d) /\ plzk6Args(d) \in Seq(Argument) /\ plzk6Args(d) # <<>>
<1>1. WellFormed(plzk6Args(d)) /\ Len(plzk6Args(d)) >= 2
  BY PLZArgs
<1> QED
  BY <1>1 DEF SpecOf, WellFormed

(* Between the two, the arguments are arguments.                            *)
LEMMA ArgvTyped ==
  ASSUME OriginInv, pc \notin Early
  PROVE  Argv \in Seq(Argument)
<1>1. CASE trd \in CloudData /\ spec = SpecOf(trd)
  <2>2. spec.args = plzk6Args(trd) /\ plzk6Args(trd) \in Seq(Argument) /\ plzk6Args(trd) # <<>>
    BY <1>1, PLZSpecArgs
  <2> QED BY <2>2 DEF Argv, UsesArgs
<1>2. CASE trd = NoData /\ spec \in UserSpecs
  <2>1. spec.args \in Seq(Argument) /\ spec.arguments \in Seq(Argument)
    BY <1>2, UserAssumption
  <2> QED BY <2>1, FieldsTyped DEF Argv
<1> QED
  BY <1>1, <1>2 DEF OriginInv

(* Before the first argument the loop has found nothing.                   *)
LEMMA LoopStart ==
  ASSUME NEW argv \in Seq(Argument)
  PROVE  /\ 1 \in 1 .. Len(argv) + 1 /\ Boundary(argv, 1)
         /\ NoCLI = CLIOf(SubSeq(argv, 1, 1 - 1))
         /\ \A j \in 1 .. 1 - 1 : ~Positional(argv, j)
<1>1. SubSeq(argv, 1, 1 - 1) = <<>>
  OBVIOUS
<1>2. 1 \in 1 .. Len(argv) + 1
  OBVIOUS
<1>3. Boundary(argv, 1)
  BY DEF Boundary
<1>4. \A j \in 1 .. 1 - 1 : ~Positional(argv, j)
  OBVIOUS
<1>5. NoCLI = CLIOf(SubSeq(argv, 1, 1 - 1))
  BY <1>1, NoArgs
<1> QED
  BY <1>2, <1>3, <1>4, <1>5

(* LoopInv holds initially,                                                *)
LEMMA LoopInit == Init => LoopInv
<1> SUFFICES ASSUME Init, pc \notin Early PROVE LoopInv
  BY DEF LoopInv
<1>1. i = 1 /\ cli = NoCLI /\ pc = "parse"
  BY DEF Init, Early
<1>2. Argv \in Seq(Argument)
  BY ArgvTyped, OriginInit
<1> QED
  BY <1>1, <1>2, LoopStart DEF LoopInv

(* and after every step: ParseGroup takes a whole group (ParseCLIStep),    *)
(* and refuses an argument that no flag takes.                             *)
LEMMA LoopStep == OriginInv /\ LoopInv /\ [Next]_vars => LoopInv'
<1> SUFFICES ASSUME OriginInv, LoopInv, [Next]_vars PROVE LoopInv'
  OBVIOUS
<1>0. ASSUME spec' = spec PROVE Argv' = Argv
  BY <1>0 DEF Argv, UsesArgs
<1>1. CASE UNCHANGED vars
  <2>1. spec' = spec /\ i' = i /\ cli' = cli /\ pc' = pc
    BY <1>1 DEF vars
  <2>2. Argv' = Argv
    BY <1>0, <2>1
  <2> QED BY <2>1, <2>2 DEF LoopInv
<1>2. CASE Preprocess
  BY <1>2 DEF LoopInv, Preprocess, Early
<1>3. CASE Complete
  <2>1. i' = 1 /\ cli' = NoCLI /\ pc' = "parse" /\ pc' \notin Early
    BY <1>3 DEF Complete, Early
  <2>2. Argv' \in Seq(Argument)
    <3>1. trd \in CloudData /\ spec' = SpecOf(trd)
      BY <1>3 DEF Complete, OriginInv, Early, SpecOf
    <3>2. spec'.args \in Seq(Argument) /\ spec'.args # <<>>
      BY <3>1, PLZSpecArgs
    <3> QED BY <3>2 DEF Argv, UsesArgs
  <2> QED BY <2>1, <2>2, LoopStart DEF LoopInv
<1>4. CASE ParseGroup
  <2>1. /\ pc = "parse" /\ i =< Len(Argv) /\ IsFlag(Argv[i]) /\ pc' = pc /\ spec' = spec
        /\ i' = lastArgV(i + 1, Argv) /\ cli' = AddGroup(cli, Argv, i, i')
    BY <1>4 DEF ParseGroup
  <2>2. /\ Argv' = Argv /\ Argv \in Seq(Argument) /\ pc \notin Early
    BY <1>0, <2>1, ArgvTyped DEF Early
  <2>3. i \in 1 .. Len(Argv) /\ cli = CLIOf(SubSeq(Argv, 1, i - 1)) /\ \A j \in 1 .. i - 1 : ~Positional(Argv, j)
    BY <2>1, <2>2 DEF LoopInv
  <2>4. i' \in i + 1 .. Len(Argv) + 1 /\ Boundary(Argv, i')
    BY <2>1, <2>2, <2>3, GroupEnd
  <2>5. cli' = CLIOf(SubSeq(Argv, 1, i' - 1))
    BY <2>1, <2>2, <2>3, ParseCLIStep
  <2>6. ASSUME NEW j \in 1 .. i' - 1 PROVE ~Positional(Argv, j)
    <3>1. CASE j \in i .. i' - 1
      BY <2>1, <2>2, <2>3, <3>1, GroupBelongs
    <3>2. CASE j \in 1 .. i - 1
      BY <2>3, <3>2
    <3>3. j \in i .. i' - 1 \/ j \in 1 .. i - 1
      <4>1. PICK n \in Nat : n = i'
        BY <2>2, <2>3, <2>4
      <4>2. j \in 1 .. n - 1 /\ i \in Nat
        <5>1. j \in 1 .. n - 1
          BY <4>1, Zenon
        <5> QED BY <2>3, <5>1
      <4>3. j \in i .. n - 1 \/ j \in 1 .. i - 1
        BY <4>2
      <4> QED BY <4>1, <4>3
    <3> QED BY <3>1, <3>2, <3>3
  <2>7. i' \in 1 .. Len(Argv) + 1
    BY <2>3, <2>4
  <2> QED BY <2>1, <2>2, <2>4, <2>5, <2>6, <2>7 DEF LoopInv
<1>5. CASE ParsePositional
  <2>1. /\ pc = "parse" /\ i =< Len(Argv) /\ ~IsFlag(Argv[i]) /\ pc' = "invalid"
        /\ spec' = spec /\ i' = i /\ cli' = cli
    BY <1>5 DEF ParsePositional
  <2>2. Argv' = Argv /\ pc \notin Early
    BY <1>0, <2>1 DEF Early
  <2>3. Positional(Argv, i)
    BY <2>1, <2>2 DEF LoopInv, Boundary, Positional
  <2> QED BY <2>1, <2>2, <2>3 DEF LoopInv
<1>6. CASE ParseEnd
  <2>1. /\ pc = "parse" /\ i > Len(Argv) /\ pc' \notin {"parse", "invalid"}
        /\ spec' = spec /\ i' = i /\ cli' = cli
    BY <1>6 DEF ParseEnd
  <2>2. Argv' = Argv /\ pc \notin Early /\ pc' # "invalid"
    BY <1>0, <2>1 DEF Early
  <2>3. i = Len(Argv) + 1
    BY <2>1, <2>2 DEF LoopInv
  <2> QED BY <2>1, <2>2, <2>3 DEF LoopInv
<1>7. CASE InitializeJobs \/ CreateRunner
  <2>1. /\ pc \in {"initializer", "runners"} /\ pc' \in {"runners", "noscript"}
        /\ spec' = spec /\ i' = i /\ cli' = cli
    BY <1>7 DEF InitializeJobs, CreateRunner
  <2>2. Argv' = Argv /\ pc \notin Early /\ pc' # "invalid" /\ pc \notin {"parse", "invalid"}
    BY <1>0, <2>1 DEF Early
  <2> QED BY <2>1, <2>2 DEF LoopInv
<1> QED
  BY <1>1, <1>2, <1>3, <1>4, <1>5, <1>6, <1>7 DEF Next

(* Both hold always.                                                       *)
LEMMA Loop == Spec => [](OriginInv /\ LoopInv)
  BY OriginInit, OriginStep, LoopInit, LoopStep, PTL DEF Spec

(* ParseCLI assigns every argument to the flag it belongs to, at every point *)
(* of its loop and for every list of arguments.                             *)
THEOREM ParseCLIGroups == Spec => []ParsesGroups
<1>1. OriginInv /\ LoopInv => ParsesGroups
  BY DEF OriginInv, LoopInv, ParsesGroups
<1> QED
  BY <1>1, Loop, PTL

(* In well-formed arguments nothing is positional.                          *)
LEMMA WellFormedAccepted ==
  ASSUME NEW a, WellFormed(a), NEW k \in 1 .. Len(a)
  PROVE  ~Positional(a, k)
<1>1. CASE IsFlag(a[k])
  BY <1>1 DEF Positional
<1>2. CASE ~IsFlag(a[k])
  <2>1. PICK p \in 1 .. Len(a) : p = k - 1 /\ IsFlag(a[p])
    BY <1>2 DEF WellFormed
  <2>2. p < k /\ p \in 1 .. k - 1 /\ p + 1 = k
    BY <2>1
  <2>3. BelongsTo(a, k, p)
    BY <1>2, <2>1, <2>2 DEF BelongsTo
  <2> QED BY <2>2, <2>3 DEF Positional
<1> QED
  BY <1>1, <1>2

(* The arguments that Initialize reads for a PLZ test run are the ones     *)
(* complete has written.                                                   *)
LEMMA PLZArgv ==
  ASSUME OriginInv, pc \notin Early, trd.plz
  PROVE  /\ trd \in CloudData /\ spec = SpecOf(trd) /\ Argv = plzk6Args(trd)
         /\ spec.args = Argv /\ UsesArgs
<1>1. trd \in CloudData /\ spec = SpecOf(trd)
  BY DEF OriginInv, NoData
<1>3. spec.args = plzk6Args(trd) /\ plzk6Args(trd) # <<>>
  BY <1>1, PLZSpecArgs
<1> QED
  BY <1>1, <1>3 DEF Argv, UsesArgs

(* A PLZ test run is never refused by the validation of its own arguments,  *)
(* and is found to be a cloud test run, whatever its user has set.          *)
THEOREM PLZRunsAccepted == Spec => []PLZAccepted
<1>1. OriginInv /\ LoopInv => PLZAccepted
  <2> SUFFICES ASSUME OriginInv, LoopInv, trd.plz
               PROVE  pc # "invalid" /\ (pc \in {"initializer", "runners"} => cli.HasCloudOut)
    BY DEF PLZAccepted
  <2>1. CASE pc \in Early
    BY <2>1 DEF Early
  <2>2. CASE pc \notin Early
    <3>1. trd \in CloudData /\ Argv = plzk6Args(trd)
      BY <2>2, PLZArgv
    <3>2. /\ WellFormed(Argv) /\ Len(Argv) >= 2 /\ Argv \in Seq(Argument)
          /\ Argv[1] = Flag("--out") /\ Argv[2] = Word("cloud")
      BY <3>1, PLZArgs DEF WellFormed
    <3>3. pc # "invalid"
      BY <2>2, <3>2, WellFormedAccepted DEF LoopInv
    <3>4. ASSUME pc \in {"initializer", "runners"} PROVE cli.HasCloudOut
      <4>1. i = Len(Argv) + 1 /\ cli = CLIOf(SubSeq(Argv, 1, i - 1))
        BY <2>2, <3>4 DEF LoopInv
      <4>2. i - 1 = Len(Argv) /\ SubSeq(Argv, 1, Len(Argv)) = Argv /\ 1 \in 1 .. Len(Argv) - 1
        BY <3>2, <4>1
      <4>3. cli = CLIOf(Argv)
        BY <4>1, <4>2
      <4>4. IsExactly(Argv[1], OutFlag) /\ Argv[1 + 1] = Word("cloud")
        BY <3>2 DEF IsExactly, OutFlag, Flag
      <4>5. CLIOf(Argv).HasCloudOut
        BY <4>2, <4>4 DEF CLIOf
      <4> QED BY <4>3, <4>5
    <3> QED BY <3>3, <3>4
  <2> QED BY <2>1, <2>2
<1> QED
  BY <1>1, Loop, PTL

(* The containers are built from the spec and from what ParseCLI has found, *)
(* which do not change once there is a container.                           *)
CommandsInv ==
  /\ Made(archive) => pc \in {"runners", "noscript"} /\ archive = NewInitializerJob
  /\ pc \notin {"runners", "noscript"} => runners = <<>>
  /\ runners \in Seq(ToSet(runners))
  /\ \A r \in 1 .. Len(runners) : r =< spec.parallelism /\ runners[r] = NewRunnerJob(r)

(* No runners are a sequence of none.                                      *)
LEMMA NoRunners == <<>> \in Seq(ToSet(<<>>)) /\ Len(<<>>) = 0
  BY DEF ToSet

(* Initially there is no container.                                        *)
LEMMA CommandsInit == Init => CommandsInv
  BY NoRunners DEF Init, CommandsInv, Made

(* A command depends on trd, spec and cli only.                             *)
LEMMA SameCommands ==
  ASSUME trd' = trd, spec' = spec, cli' = cli
  PROVE  /\ NewInitializerJob' = NewInitializerJob
         /\ \A r : NewRunnerJob(r)' = NewRunnerJob(r)
<1>1. /\ NeedsShellCmd' = NeedsShellCmd /\ Argv' = Argv /\ ScriptType' = ScriptType /\ CloudEnv' = CloudEnv
  BY DEF NeedsShellCmd, UsesArgs, Argv, ScriptType, CloudEnv
<1>2. NewInitializerJob' = NewInitializerJob
  BY <1>1 DEF NewInitializerJob
<1>3. ASSUME NEW r PROVE NewRunnerJob(r)' = NewRunnerJob(r)
  BY <1>1 DEF NewRunnerJob
<1> QED
  BY <1>2, <1>3

(* CommandsInv is inductive: CreateRunner appends the runner of the next    *)
(* index.                                                                   *)
LEMMA CommandsStep == OriginInv /\ CommandsInv /\ [Next]_vars => CommandsInv'
<1> SUFFICES ASSUME OriginInv, CommandsInv, [Next]_vars PROVE CommandsInv'
  OBVIOUS
<1>1. CASE UNCHANGED vars
  <2>1. UNCHANGED <<trd, spec, pc, cli, archive, runners>>
    BY <1>1 DEF vars
  <2> QED BY <2>1, SameCommands DEF CommandsInv, Made
<1>2. CASE Preprocess \/ Complete \/ ParseGroup \/ ParsePositional \/ ParseEnd
  <2>1. /\ pc \notin {"runners", "noscript"} /\ archive' = archive /\ runners' = runners
    BY <1>2 DEF Preprocess, Complete, ParseGroup, ParsePositional, ParseEnd
  <2>2. runners' = <<>> /\ ~Made(archive')
    BY <2>1 DEF CommandsInv
  <2> QED BY <2>2, NoRunners DEF CommandsInv, Made
<1>3. CASE InitializeJobs
  <2>1. /\ runners = <<>> /\ runners' = runners /\ ~Made(archive) /\ pc' \in {"runners", "noscript"}
        /\ archive' = archive \/ archive' = NewInitializerJob
        /\ NewInitializerJob' = NewInitializerJob
    BY <1>3, SameCommands DEF InitializeJobs, CommandsInv
  <2> QED BY <2>1, NoRunners DEF CommandsInv, Made
<1>4. CASE CreateRunner
  <2> DEFINE index == Len(runners) + 1
             job   == NewRunnerJob(index)
  <2>1. /\ pc = "runners" /\ pc' \in {"runners", "noscript"} /\ index =< spec.parallelism
        /\ UNCHANGED <<trd, spec, cli, archive>>
        /\ runners' = runners \/ runners' = Append(runners, job)
    BY <1>4 DEF CreateRunner
  <2>2. /\ NewInitializerJob' = NewInitializerJob /\ \A r : NewRunnerJob(r)' = NewRunnerJob(r)
    BY <2>1, SameCommands
  <2>3. CASE runners' = runners
    BY <2>1, <2>2, <2>3 DEF CommandsInv, Made
  <2>4. CASE runners' = Append(runners, job)
    <3> HIDE DEF job
    <3>3. /\ Len(runners) \in Nat /\ Len(runners') = index
          /\ runners' \in Seq(ToSet(runners) \cup {job})
          /\ \A r \in 1 .. Len(runners) : runners'[r] = runners[r]
          /\ runners'[index] = job
      BY <2>4 DEF CommandsInv
    <3>4. runners' \in Seq(ToSet(runners'))
      BY <3>3 DEF ToSet
    <3>5. \A r \in 1 .. Len(runners') : r =< spec'.parallelism /\ runners'[r] = NewRunnerJob(r)'
      <4>1. ASSUME NEW r \in 1 .. Len(runners') PROVE r =< spec'.parallelism /\ runners'[r] = NewRunnerJob(r)
        <5>1. CASE r = index
          BY <2>1, <3>3, <5>1 DEF job
        <5>2. CASE r \in 1 .. Len(runners)
          BY <2>1, <3>3, <5>2 DEF CommandsInv
        <5> QED BY <3>3, <5>1, <5>2
      <4> QED BY <2>2, <4>1
    <3> QED BY <2>1, <2>2, <3>4, <3>5 DEF CommandsInv, Made
  <2> QED BY <2>1, <2>3, <2>4
<1> QED
  BY <1>1, <1>2, <1>3, <1>4 DEF Next

(* The three together hold always.                                         *)
LEMMA Commands == Spec => [](OriginInv /\ LoopInv /\ CommandsInv)
<1>1. Spec => []CommandsInv
  BY CommandsInit, CommandsStep, OriginInit, OriginStep, PTL DEF Spec
<1> QED
  BY <1>1, Loop, PTL

(***************************************************************************)
(* The segments of the runners.                                            *)
(***************************************************************************)

(* The parts of the sequence: part k + 1 is k/total, written as 0 or 1 at   *)
(* the ends.                                                                *)
LEMMA SequencePart ==
  ASSUME NEW total \in Nat \ {0}, NEW k \in 0 .. total
  PROVE  SegmentSequence(total)[k + 1] = SegmentPart(k, total)
<1> DEFINE middle == [m \in 1 .. total - 1 |-> <<m, total>>]
<1>1. middle \in Seq(Nat \X Nat) /\ Len(middle) = total - 1
  OBVIOUS
<1>2. beginning \in Nat \X Nat /\ end \in Nat \X Nat
  BY DEF beginning, end
<1>3. <<beginning>> \o middle \in Seq(Nat \X Nat) /\ Len(<<beginning>> \o middle) = total
  BY <1>1, <1>2
<1>4. CASE k = 0
  BY <1>1, <1>2, <1>3, <1>4 DEF SegmentSequence, SegmentPart
<1>5. CASE k = total
  BY <1>1, <1>2, <1>3, <1>5 DEF SegmentSequence, SegmentPart
<1>6. CASE k \in 1 .. total - 1
  <2>1. (<<beginning>> \o middle)[k + 1] = middle[k]
    BY <1>1, <1>2, <1>6
  <2> QED
    BY <1>1, <1>2, <1>3, <1>6, <2>1 DEF SegmentSequence, SegmentPart
<1> QED
  BY <1>4, <1>5, <1>6

(* Every segment is as long as the others: 1/total.                         *)
LEMMA SegmentShare ==
  ASSUME NEW total \in Nat \ {0}, NEW index \in 1 .. total
  PROVE  EqualShare(Segment(index, total), total)
<1>1. CASE total = 1
  BY <1>1 DEF EqualShare, Segment, SegmentPart, beginning, end
<1>2. CASE total > 1 /\ index = 1
  BY <1>2 DEF EqualShare, Segment, SegmentPart, beginning, end
<1>3. CASE total > 1 /\ index = total
  <2>1. total * (1 * total - (total - 1) * 1) = total * 1
    OBVIOUS
  <2> QED
    BY <1>3, <2>1 DEF EqualShare, Segment, SegmentPart, beginning, end
<1>4. CASE total > 1 /\ index \in 2 .. total - 1
  <2>1. index * total - (index - 1) * total = total
    OBVIOUS
  <2> QED
    BY <1>4, <2>1 DEF EqualShare, Segment, SegmentPart
<1> QED
  BY <1>1, <1>2, <1>3, <1>4

(* The segments that NewCommandFragments computes for the runners 1 .. total *)
(* of a distributed test tile it: they are the steps of the common sequence, *)
(* from 0 to 1, without gap or overlap, and equally long.                   *)
THEOREM SegmentsTileAll ==
  \A total \in Nat \ {0} :
    Tile([r \in 1 .. total |-> Segment(r, total)], SegmentSequence(total), total)
<1> SUFFICES ASSUME NEW total \in Nat \ {0}
             PROVE  Tile([r \in 1 .. total |-> Segment(r, total)], SegmentSequence(total), total)
  OBVIOUS
<1> DEFINE segment == [r \in 1 .. total |-> Segment(r, total)]
<1>1. segment[1][1] = beginning /\ segment[total][2] = end
  BY DEF Segment, SegmentPart
<1>2. \A r \in 1 .. total - 1 : segment[r][2] = segment[r + 1][1]
  BY DEF Segment
<1>3. ASSUME NEW r \in 1 .. total
      PROVE  /\ segment[r] = <<SegmentSequence(total)[r], SegmentSequence(total)[r + 1]>>
             /\ EqualShare(segment[r], total)
  <2>1. SegmentSequence(total)[r] = SegmentPart(r - 1, total)
    <3>1. r - 1 \in 0 .. total /\ (r - 1) + 1 = r
      OBVIOUS
    <3> QED
      BY ONLY <3>1, SequencePart, total \in Nat \ {0}
  <2>2. SegmentSequence(total)[r + 1] = SegmentPart(r, total)
    BY SequencePart
  <2> QED
    BY <2>1, <2>2, SegmentShare DEF Segment
<1> QED
  BY <1>1, <1>2, <1>3 DEF Tile
(* The runners of every distributed test, a user's or of a load zone, are   *)
(* given segments that tile it.                                             *)
THEOREM RunnersTile == Spec => []SegmentsTile
<1>1. OriginInv /\ CommandsInv => SegmentsTile
  <2> SUFFICES ASSUME OriginInv, CommandsInv, spec # NoSpec, spec.parallelism > 1,
                      Len(runners) = spec.parallelism
               PROVE  Tile([r \in DOMAIN runners |-> runners[r].segment], runners[1].sequence,
                           spec.parallelism)
    BY DEF SegmentsTile
  <2> DEFINE n == spec.parallelism
  <2>1. n \in Nat \ {0}
    BY UserAssumption, CloudAssumption DEF OriginInv, SpecOf
  <2>2. DOMAIN runners = 1 .. n
    BY DEF CommandsInv
  <2>3. \A r \in 1 .. n : /\ runners[r].segment = Segment(r, n)
                          /\ runners[r].sequence = SegmentSequence(n)
    <3> TAKE r \in 1 .. n
    <3>1. runners[r] = NewRunnerJob(r)
      BY DEF CommandsInv
    <3>2. /\ NewRunnerJob(r).segment = Given(n > 1, Segment(r, n))
          /\ NewRunnerJob(r).sequence = Given(n > 1, SegmentSequence(n))
      BY DEF NewRunnerJob
    <3> QED
      BY <3>1, <3>2 DEF Given
  <2>4. /\ [r \in DOMAIN runners |-> runners[r].segment] = [r \in 1 .. n |-> Segment(r, n)]
        /\ runners[1].sequence = SegmentSequence(n)
    BY <2>1, <2>2, <2>3
  <2> QED
    BY <2>1, <2>4, SegmentsTileAll
<1> QED
  BY <1>1, Commands, PTL

(***************************************************************************)
(* What k6 is given: the maps that a command's pairs set after the         *)
(* expansion.                                                              *)
(***************************************************************************)

(* The pairs of flag f in the arguments a set exactly the map m.            *)
Sets(a, f, m) ==
  /\ a \in Seq(Argument) /\ Closed(a, f)
  /\ \A key \in DOMAIN m : ~None(a, f, key) /\ Effective(a, f, key) = m[key]
  /\ \A key : key \notin DOMAIN m => None(a, f, key)

(* They set nothing.                                                        *)
SetsNothing(a, f) == a \in Seq(Argument) /\ Closed(a, f) /\ \A key : None(a, f, key)

(* Later pairs win over earlier ones.                                      *)
LEMMA SetsConcat ==
  ASSUME NEW a, NEW b, NEW f, NEW m, NEW n, Sets(a, f, m), Sets(b, f, n)
  PROVE  Sets(a \o b, f, Over(n, m))
<1>1. a \in Seq(Argument) /\ b \in Seq(Argument) /\ Closed(a, f) /\ Closed(b, f)
  BY DEF Sets
<1>2. PICK c : c = a \o b
  OBVIOUS
<1>3. /\ c \in Seq(Argument) /\ Closed(c, f)
      /\ \A key : /\ None(b, f, key) => Effective(c, f, key) = Effective(a, f, key)
                  /\ ~None(b, f, key) => Effective(c, f, key) = Effective(b, f, key)
                  /\ None(c, f, key) <=> None(a, f, key) /\ None(b, f, key)
  BY <1>1, <1>2, EffectiveConcat, ConcatProperties
<1>4. PICK o : o = Over(n, m)
  OBVIOUS
<1>5. /\ DOMAIN o = DOMAIN n \cup DOMAIN m
      /\ \A key \in DOMAIN n : o[key] = n[key]
      /\ \A key \in DOMAIN m \ DOMAIN n : o[key] = m[key]
  BY <1>4 DEF Over
<1>6. Sets(c, f, o)
  <2>1. ASSUME NEW key \in DOMAIN o PROVE ~None(c, f, key) /\ Effective(c, f, key) = o[key]
    <3>1. CASE key \in DOMAIN n
      BY <1>3, <1>5, <3>1 DEF Sets
    <3>2. CASE key \in DOMAIN m \ DOMAIN n
      BY <1>3, <1>5, <3>2 DEF Sets
    <3> QED BY <1>5, <3>1, <3>2
  <2>2. ASSUME NEW key, key \notin DOMAIN o PROVE None(c, f, key)
    BY <1>3, <1>5, <2>2 DEF Sets
  <2> QED BY <1>3, <2>1, <2>2 DEF Sets
<1> QED
  BY <1>2, <1>4, <1>6

(* Arguments that set nothing do not matter.                               *)
LEMMA SetsMore ==
  ASSUME NEW a, NEW b, NEW f
  PROVE  /\ SetsNothing(a, f) /\ SetsNothing(b, f) => SetsNothing(a \o b, f)
         /\ \A m : Sets(a, f, m) /\ SetsNothing(b, f) => Sets(a \o b, f, m)
         /\ \A m : SetsNothing(a, f) /\ Sets(b, f, m) => Sets(a \o b, f, m)
<1> SUFFICES ASSUME a \in Seq(Argument), b \in Seq(Argument), Closed(a, f), Closed(b, f)
             PROVE  /\ SetsNothing(a, f) /\ SetsNothing(b, f) => SetsNothing(a \o b, f)
                    /\ \A m : Sets(a, f, m) /\ SetsNothing(b, f) => Sets(a \o b, f, m)
                    /\ \A m : SetsNothing(a, f) /\ Sets(b, f, m) => Sets(a \o b, f, m)
  BY DEF Sets, SetsNothing
<1>2. PICK c : c = a \o b
  OBVIOUS
<1>3. /\ c \in Seq(Argument) /\ Closed(c, f)
      /\ \A key : /\ None(b, f, key) => Effective(c, f, key) = Effective(a, f, key)
                  /\ ~None(b, f, key) => Effective(c, f, key) = Effective(b, f, key)
                  /\ None(c, f, key) <=> None(a, f, key) /\ None(b, f, key)
  BY <1>2, EffectiveConcat, ConcatProperties
<1>4. SetsNothing(a, f) /\ SetsNothing(b, f) => SetsNothing(c, f)
  BY <1>3 DEF SetsNothing
<1>5. ASSUME NEW m, Sets(a, f, m), SetsNothing(b, f) PROVE Sets(c, f, m)
  BY <1>3, <1>5 DEF SetsNothing, Sets
<1>6. ASSUME NEW m, SetsNothing(a, f), Sets(b, f, m) PROVE Sets(c, f, m)
  BY <1>3, <1>6 DEF SetsNothing, Sets
<1> QED
  BY <1>2, <1>4, <1>5, <1>6
-----------------------------------------------------------------------------
(* After the kubelet's expansion, a sets the map m, or nothing.             *)
Delivers(a, env, f, m) == a \in Seq(Argument) /\ Sets(Expanded(a, env), f, m)
Passes(a, env, f)      == a \in Seq(Argument) /\ SetsNothing(Expanded(a, env), f)

(* The same for the arguments before the expansion,                        *)
LEMMA DeliversConcat ==
  ASSUME NEW a, NEW b, NEW env, IsEnvironment(env), NEW f, NEW m, NEW n,
         Delivers(a, env, f, m), Delivers(b, env, f, n)
  PROVE  Delivers(a \o b, env, f, Over(n, m))
<1>1. a \in Seq(Argument) /\ b \in Seq(Argument)
  BY DEF Delivers
<1>2. a \o b \in Seq(Argument)
  BY <1>1, ConcatProperties
<1>3. Expanded(a \o b, env) = Expanded(a, env) \o Expanded(b, env)
  BY <1>1, ExpandedConcat
<1>4. Sets(Expanded(a, env) \o Expanded(b, env), f, Over(n, m))
  BY SetsConcat DEF Delivers
<1> QED
  BY <1>2, <1>3, <1>4 DEF Delivers

(* with and without a map.                                                 *)
LEMMA DeliversMore ==
  ASSUME NEW a, NEW b, NEW env, IsEnvironment(env), NEW f
  PROVE  /\ Passes(a, env, f) /\ Passes(b, env, f) => Passes(a \o b, env, f)
         /\ \A m : Delivers(a, env, f, m) /\ Passes(b, env, f) => Delivers(a \o b, env, f, m)
         /\ \A m : Passes(a, env, f) /\ Delivers(b, env, f, m) => Delivers(a \o b, env, f, m)
<1> SUFFICES ASSUME a \in Seq(Argument), b \in Seq(Argument)
             PROVE  /\ Passes(a, env, f) /\ Passes(b, env, f) => Passes(a \o b, env, f)
                    /\ \A m : Delivers(a, env, f, m) /\ Passes(b, env, f) => Delivers(a \o b, env, f, m)
                    /\ \A m : Passes(a, env, f) /\ Delivers(b, env, f, m) => Delivers(a \o b, env, f, m)
  BY DEF Delivers, Passes
<1>2. a \o b \in Seq(Argument)
  BY ConcatProperties
<1>3. Expanded(a \o b, env) = Expanded(a, env) \o Expanded(b, env)
  BY ExpandedConcat
<1> QED
  BY <1>2, <1>3, SetsMore DEF Delivers, Passes

(* Arguments without the flag set nothing with it after the expansion      *)
(* either.                                                                 *)
LEMMA NoFlagPasses ==
  ASSUME NEW a \in Seq(Argument), NEW env, IsEnvironment(env), NEW f, NoFlag(a, f)
  PROVE  Passes(a, env, f)
<1>1. /\ Expanded(a, env) \in Seq(Argument) /\ Len(Expanded(a, env)) = Len(a)
      /\ \A k \in 1 .. Len(a) : Expanded(a, env)[k].flag = a[k].flag
  BY ExpandedTyped
<1>2. NoFlag(Expanded(a, env), f)
  BY <1>1 DEF NoFlag
<1>3. Closed(Expanded(a, env), f) /\ \A key : None(Expanded(a, env), f, key)
  BY <1>1, <1>2, NoFlagNone
<1> QED
  BY <1>1, <1>3 DEF Passes, SetsNothing

(* A list of pairs that is a map sets that map, and nothing else.           *)
LEMMA PairListSets ==
  ASSUME NEW flag \in FlagName, flag # "none", NEW map, MapPairs(map) \subseteq KeyTexts,
         NEW a, PairList(a, flag, MapPairs(map))
  PROVE  /\ Sets(a, flag, map)
         /\ \A f \in FlagName \ {"none", flag} : SetsNothing(a, f)
<1> DEFINE Q == MapPairs(map)
<1>0. Q \subseteq KeyTexts /\ PairList(a, flag, Q) /\ a \in Seq(Argument)
  BY DEF PairList
<1>1. /\ a \in Seq(Argument)
      /\ \A f \in FlagName \ {"none"} : Closed(a, f)
      /\ \A f \in FlagName \ {"none", flag} : \A key : None(a, f, key)
      /\ \A key : (\A x \in Q : x[1] # key) => None(a, flag, key)
      /\ \A x \in Q : (\A y \in Q : y[1] = x[1] => y[2] = x[2]) =>
           ~None(a, flag, x[1]) /\ Effective(a, flag, x[1]) = x[2]
  <2> HIDE DEF Q
  <2>1. OnlyPairs(a, flag, Q)
    BY <1>0, PairListEffective
  <2> QED BY <1>0, <2>1 DEF OnlyPairs
<1>2. ASSUME NEW key \in DOMAIN map PROVE ~None(a, flag, key) /\ Effective(a, flag, key) = map[key]
  <2>1. PICK x : x = <<key, map[key]>> /\ x \in Q
    BY DEF MapPairs
  <2>3. x[1] = key /\ x[2] = map[key]
    BY <2>1
  <2>2. \A y \in Q : y[1] = x[1] => y[2] = x[2]
    BY <2>3 DEF MapPairs
  <2> HIDE DEF Q
  <2> QED BY <1>1, <2>1, <2>2, <2>3
<1>3. ASSUME NEW key, key \notin DOMAIN map PROVE None(a, flag, key)
  <2>1. \A x \in Q : x[1] # key
    BY <1>3 DEF MapPairs
  <2> HIDE DEF Q
  <2> QED BY <1>1, <2>1
<1> HIDE DEF Q
<1>4. Sets(a, flag, map)
  BY <1>1, <1>2, <1>3 DEF Sets
<1>5. \A f \in FlagName \ {"none", flag} : SetsNothing(a, f)
  BY <1>1 DEF SetsNothing
<1> QED
  BY <1>4, <1>5

(* Pairs of Preprocess, one pair without a $.                               *)
LEMMA PairsDeliver ==
  ASSUME NEW flag \in FlagName, flag # "none", NEW map, DOMAIN map \subseteq ToSet(SortedKeys),
         \A key \in DOMAIN map : map[key] \in Text,
         NEW env, IsEnvironment(env)
  PROVE  /\ Delivers(Pairs(flag, map), env, flag, map)
         /\ \A f \in FlagName \ {"none", flag} : Passes(Pairs(flag, map), env, f)
<1>1. /\ PairList(Expanded(Pairs(flag, map), env), flag, MapPairs(map))
      /\ Pairs(flag, map) \in Seq(Argument)
      /\ MapPairs(map) \subseteq KeyTexts
  BY PairsExpanded
<1> QED
  BY <1>1, PairListSets DEF Delivers, Passes

(* The two arguments of a pair.                                            *)
LEMMA OnePair ==
  ASSUME NEW flag \in FlagName, flag # "none", NEW key \in Name, NEW t \in Text
  PROVE  /\ Pair(flag, key, t) \in Seq(Argument) /\ Len(Pair(flag, key, t)) = 2
         /\ Pair(flag, key, t)[1] = Flag(flag) /\ Pair(flag, key, t)[2] = KeyValue(key, t)
<1>1. Flag(flag) \in Argument /\ KeyValue(key, t) \in Argument
  BY FlagTyped, KeyValueTyped
<1> QED
  BY <1>1, PairTyped DEF Pair

(* One pair is a list of pairs.                                             *)
LEMMA PairIsList ==
  ASSUME NEW flag \in FlagName, flag # "none", NEW key \in Name, NEW t \in Text
  PROVE  /\ PairList(Pair(flag, key, t), flag, MapPairs([x \in {key} |-> t]))
         /\ MapPairs([x \in {key} |-> t]) \subseteq KeyTexts
<1> DEFINE a == Pair(flag, key, t)
           m == [x \in {key} |-> t]
           Q == MapPairs(m)
<1>1. a \in Seq(Argument) /\ Len(a) = 2 /\ a[1] = Flag(flag) /\ a[2] = KeyValue(key, t)
  BY OnePair
<1>2. Q \subseteq KeyTexts /\ \A y \in Q : y[1] = key /\ y[2] = t
  BY DEF MapPairs, KeyTexts
<1>3. \E y \in Q : TRUE
  BY DEF MapPairs
<1> HIDE DEF a, m, Q
<1>4. \A y \in Q : PairAt(a, 1, flag, y)
  BY <1>1, <1>2 DEF PairAt
<1>5. 1 \in 1 .. Len(a) - 1 /\ \A k \in 1 .. Len(a) : k = 1 \/ k = 1 + 1
  BY <1>1
<1>6. PairList(a, flag, Q)
  BY <1>1, <1>3, <1>4, <1>5 DEF PairList
<1> QED
  BY <1>2, <1>6 DEF a, m, Q

(* A pair without a $ stays as it is,                                      *)
LEMMA PlainPairExpanded ==
  ASSUME NEW flag \in FlagName, flag # "none", NEW key \in Name, NEW t \in Text, Plain(t),
         NEW env, IsEnvironment(env)
  PROVE  /\ Pair(flag, key, t) \in Seq(Argument)
         /\ Expanded(Pair(flag, key, t), env) = Pair(flag, key, t)
         /\ PairList(Pair(flag, key, t), flag, MapPairs([x \in {key} |-> t]))
         /\ MapPairs([x \in {key} |-> t]) \subseteq KeyTexts
<1> DEFINE a == Pair(flag, key, t)
           m == [x \in {key} |-> t]
           Q == MapPairs(m)
<1>1. a \in Seq(Argument) /\ Len(a) = 2 /\ a[1] = Flag(flag) /\ a[2] = KeyValue(key, t)
  BY OnePair
<1>2. PairList(a, flag, Q) /\ Q \subseteq KeyTexts
  BY PairIsList
<1> HIDE DEF a, m, Q
<1>3. AllPlain(a)
  <2>1. Plain(a[1].text)
    BY <1>1, FlagTyped DEF Plain
  <2>2. Plain(a[2].text)
    <3>1. PICK u : u = a[2].text
      OBVIOUS
    <3>2. KeyText(u, key, t)
      BY <1>1, <3>1, KeyValueTyped
    <3>3. key # "$"
      BY DEF Name, Special
    <3>4. ASSUME NEW k \in 1 .. Len(u) PROVE u[k] # "$"
      <4>1. CASE k = 1
        BY <3>2, <3>3, <4>1 DEF KeyText
      <4>2. CASE k = 2
        BY <3>2, <4>2 DEF KeyText
      <4>3. CASE k > 2
        <5>1. PICK q \in 1 .. Len(t) : k = q + 2
          <6>1. k - 2 \in 1 .. Len(t) /\ k = (k - 2) + 2
            BY <3>2, <4>3 DEF KeyText
          <6> QED BY <6>1
        <5>2. u[q + 2] = t[q]
          BY <3>2 DEF KeyText
        <5> QED BY <5>1, <5>2 DEF Plain
      <4>4. k \in Nat
        OBVIOUS
      <4> QED BY <4>1, <4>2, <4>3, <4>4
    <3> QED BY <3>1, <3>4 DEF Plain
  <2>3. \A k \in 1 .. Len(a) : k = 1 \/ k = 2
    BY <1>1
  <2> QED BY <2>1, <2>2, <2>3 DEF AllPlain
<1>4. Expanded(a, env) = a
  BY <1>1, <1>3, ExpandedPlain
<1> QED
  BY <1>1, <1>2, <1>4 DEF a, m, Q

(* and sets its key.                                                       *)
LEMMA PlainPairDelivers ==
  ASSUME NEW flag \in FlagName, flag # "none", NEW key \in Name, NEW t \in Text, Plain(t),
         NEW env, IsEnvironment(env)
  PROVE  /\ Delivers(Pair(flag, key, t), env, flag, [x \in {key} |-> t])
         /\ \A f \in FlagName \ {"none", flag} : Passes(Pair(flag, key, t), env, f)
<1> DEFINE a == Pair(flag, key, t)
           m == [x \in {key} |-> t]
<1>1. /\ a \in Seq(Argument) /\ Expanded(a, env) = a
      /\ PairList(a, flag, MapPairs(m)) /\ MapPairs(m) \subseteq KeyTexts
  BY PlainPairExpanded
<1> HIDE DEF a, m
<1>2. Sets(a, flag, m) /\ \A f \in FlagName \ {"none", flag} : SetsNothing(a, f)
  BY <1>1, PairListSets
<1>3. Delivers(a, env, flag, m) /\ \A f \in FlagName \ {"none", flag} : Passes(a, env, f)
  BY <1>1, <1>2 DEF Delivers, Passes
<1> QED
  BY <1>3 DEF a, m

(* A list of three arguments.                                              *)
LEMMA TripleTyped ==
  ASSUME NEW a \in Argument, NEW b \in Argument, NEW c \in Argument
  PROVE  /\ <<a, b, c>> \in Seq(Argument) /\ Len(<<a, b, c>>) = 3
         /\ \A k \in 1 .. 3 : <<a, b, c>>[k] = a \/ <<a, b, c>>[k] = b \/ <<a, b, c>>[k] = c
  OBVIOUS

(* The parts of a runner's command.                                         *)
RunnerHead == <<Word("k6"), Word("run"), Flag("--quiet")>>
ScriptArgs == <<Script, FlagWith("--address", <<"0.0.0.0:6565">>), Flag("--paused")>>
PLZFlags   == <<Flag("--no-setup"), Flag("--no-teardown"), Flag("--linger")>>

(* A shell's reference to a variable is ${NAME}.                            *)
Opening == "${"
Closing == "}"

(* Its pieces are not the kubelet's, and no name is one of them.           *)
LEMMA ShellRefPieces ==
  /\ Opening \in Piece /\ Closing \in Piece /\ Opening # "$" /\ Closing # "$" /\ "=" # Opening
  /\ \A x \in Name : x # Opening /\ x # "$" /\ x \in Piece
  BY ONLY WordsAssumption, Zenon DEF Special, Name, Opening, Closing

(* A name, as a text.                                                      *)
LEMMA NameText ==
  ASSUME NEW w \in Name
  PROVE  /\ w \in Piece /\ <<w>> \in Text /\ Plain(<<w>>)
         /\ "token" \notin ToSet(<<w>>) /\ Opening \notin ToSet(<<w>>)
<1>1. w \in Piece /\ w # "$" /\ w # "token"
  BY DEF Name, Special
<1>2. w # Opening
  BY ShellRefPieces
<1> QED
  BY <1>1, <1>2, WordTyped DEF Plain, ToSet

(* Of an argument of these, and of the ones around the pairs.               *)
Own(arg) ==
  /\ arg \in Argument
  /\ arg.flag \in {"none", "--quiet", "--address", "--paused", "--no-setup", "--no-teardown", "--linger", "-O",
                   "--out", "--no-thresholds", "--include-system-env-vars", "--verbose", "--summary-mode"}
  /\ Plain(arg.text) /\ "token" \notin ToSet(arg.text)
  /\ Opening \notin ToSet(arg.text) /\ arg # EmptyArg

(* The flags,                                                              *)
LEMMA OwnFlag ==
  ASSUME NEW f \in {"--quiet", "--paused", "--no-setup", "--no-teardown", "--linger", "-O", "--out",
                    "--no-thresholds", "--verbose"}
  PROVE  Own(Flag(f))
<1>1. f \in FlagName
  BY WordsAssumption
<1>2. Flag(f) \in Argument /\ Flag(f).flag = f /\ Flag(f).text = <<>>
  BY <1>1, FlagTyped
<1>3. Flag(f) # EmptyArg
  BY <1>2 DEF EmptyArg, Value
<1> QED
  BY <1>2, <1>3 DEF Own, Plain, ToSet

(* the words                                                               *)
LEMMA OwnWord ==
  ASSUME NEW w \in {"k6", "run", "archive", "archived", "script", "cloud"}
  PROVE  Own(Word(w))
<1>1. w \in Name
  BY ONLY WordsAssumption, w \in {"k6", "run", "archive", "archived", "script", "cloud"} DEF Special, Name
<1>2. /\ w \in Piece /\ Plain(<<w>>) /\ "token" \notin ToSet(<<w>>) /\ Opening \notin ToSet(<<w>>)
  BY <1>1, NameText
<1>3. Word(w) \in Argument /\ Word(w).flag = "none" /\ Word(w).text = <<w>>
  BY <1>2, WordTyped
<1>4. Word(w) # EmptyArg
  BY <1>3 DEF EmptyArg, Value
<1> QED
  BY <1>2, <1>3, <1>4 DEF Own

(* and the flags with a value that the operator writes.                    *)
LEMMA OwnFlagWith ==
  ASSUME NEW f \in {"--address", "--include-system-env-vars", "--summary-mode"},
         NEW w \in {"0.0.0.0:6565", "true", "false", "disabled"}
  PROVE  Own(FlagWith(f, <<w>>))
<1>0. w \in Name
  BY ONLY WordsAssumption, w \in {"0.0.0.0:6565", "true", "false", "disabled"} DEF Special, Name
<1>1. f \in FlagName
  BY WordsAssumption
<1>2. <<w>> \in Text /\ Plain(<<w>>) /\ "token" \notin ToSet(<<w>>) /\ Opening \notin ToSet(<<w>>)
  BY <1>0, NameText
<1>3. FlagWith(f, <<w>>) \in Argument /\ FlagWith(f, <<w>>).flag = f /\ FlagWith(f, <<w>>).text = <<w>>
  BY <1>1, <1>2, FlagTyped
<1>4. FlagWith(f, <<w>>) # EmptyArg
  BY <1>3 DEF EmptyArg, Value
<1> QED
  BY <1>2, <1>3, <1>4 DEF Own

(* A list of them.                                                          *)
AllOwn(a) == a \in Seq(Argument) /\ \A k \in 1 .. Len(a) : Own(a[k])

(* Three of them,                                                          *)
LEMMA OwnTriple ==
  ASSUME NEW a, NEW b, NEW c, Own(a), Own(b), Own(c)
  PROVE  AllOwn(<<a, b, c>>)
<1>1. PICK x : x = <<a, b, c>>
  OBVIOUS
<1>2. a \in Argument /\ b \in Argument /\ c \in Argument
  BY DEF Own
<1>3. x \in Seq(Argument) /\ Len(x) = 3 /\ \A k \in 1 .. 3 : x[k] = a \/ x[k] = b \/ x[k] = c
  BY ONLY <1>1, <1>2, TripleTyped
<1>4. AllOwn(x)
  BY <1>3 DEF AllOwn
<1> QED BY <1>1, <1>4

(* and two.                                                                *)
LEMMA OwnPair ==
  ASSUME NEW a, NEW b, Own(a), Own(b)
  PROVE  AllOwn(<<a, b>>)
<1>1. PICK x : x = <<a, b>>
  OBVIOUS
<1>2. a \in Argument /\ b \in Argument
  BY DEF Own
<1>3. x \in Seq(Argument) /\ Len(x) = 2 /\ x[1] = a /\ x[2] = b
  BY ONLY <1>1, <1>2, PairTyped
<1>4. \A k \in 1 .. Len(x) : x[k] = a \/ x[k] = b
  BY ONLY <1>3
<1>5. AllOwn(x)
  BY <1>3, <1>4 DEF AllOwn
<1> QED BY <1>1, <1>5

(* A runner's command has only such parts around its arguments.            *)
LEMMA RunnerOwn == AllOwn(RunnerHead) /\ AllOwn(ScriptArgs) /\ AllOwn(PLZFlags)
<1>1. AllOwn(RunnerHead)
  BY OwnTriple, OwnWord, OwnFlag DEF RunnerHead
<1>2. AllOwn(ScriptArgs)
  BY OwnTriple, OwnWord, OwnFlagWith, OwnFlag DEF ScriptArgs, Script
<1>3. AllOwn(PLZFlags)
  BY OwnTriple, OwnFlag DEF PLZFlags
<1> QED
  BY <1>1, <1>2, <1>3

(* They set neither a variable nor a tag.                                  *)
LEMMA OwnPasses ==
  ASSUME NEW a, AllOwn(a), NEW env, IsEnvironment(env), NEW f \in {"-e", "--tag", "--log-output"}
  PROVE  Passes(a, env, f)
<1>1. a \in Seq(Argument) /\ NoFlag(a, f)
  BY DEF AllOwn, Own, NoFlag
<1> QED
  BY <1>1, NoFlagPasses
-----------------------------------------------------------------------------
(* What is set by the arguments of a PLZ test run.                          *)
LEMMA PLZArgsDeliver ==
  ASSUME NEW d \in CloudData, NEW env, IsEnvironment(env)
  PROVE  /\ Delivers(plzk6Args(d), env, "-e", Environment(d))
         /\ Delivers(plzk6Args(d), env, "--tag", Tags(d))
<1> DEFINE x == Pairs("--tag", Tags(d))
           y == Pairs("-e", Environment(d))
           s == SystemArgs(d)
           q == QuietArgs(d)
<1>1. /\ OutArgs \in Seq(Argument) /\ LogArgs \in Seq(Argument) /\ s \in Seq(Argument) /\ q \in Seq(Argument)
  BY OutArgsFacts, LogArgsFacts, SystemArgsFacts, QuietArgsFacts
<1>2. ASSUME NEW f \in {"-e", "--tag"}
      PROVE  NoFlag(OutArgs, f) /\ NoFlag(LogArgs, f) /\ NoFlag(s, f) /\ NoFlag(q, f)
  <2>1. NoFlag(OutArgs, f)
    <3>1. Len(OutArgs) = 2 /\ OutArgs[1].flag = "--out" /\ OutArgs[2].flag = "none"
      BY OutArgsFacts DEF Flag, Word, Value
    <3> QED BY <3>1 DEF NoFlag
  <2>2. NoFlag(LogArgs, f)
    <3>1. Len(LogArgs) = 2 /\ LogArgs[1].flag = "--no-thresholds" /\ LogArgs[2].flag = "--log-output"
      BY LogArgsFacts DEF Flag, FlagWith
    <3> QED BY <3>1 DEF NoFlag
  <2>3. NoFlag(s, f)
    BY SystemArgsFacts DEF NoFlag
  <2>4. NoFlag(q, f)
    BY QuietArgsFacts DEF NoFlag
  <2> QED BY <2>1, <2>2, <2>3, <2>4
<1>3. ASSUME NEW f \in {"-e", "--tag"}
      PROVE  Passes(OutArgs, env, f) /\ Passes(LogArgs, env, f) /\ Passes(s, env, f) /\ Passes(q, env, f)
  BY <1>1, <1>2, NoFlagPasses
<1>4. "-e" \in FlagName \ {"none", "--tag"} /\ "--tag" \in FlagName \ {"none", "-e"}
  BY WordsAssumption
<1>5. Delivers(x, env, "--tag", Tags(d)) /\ Passes(x, env, "-e")
  <2>1. DOMAIN Tags(d) \subseteq ToSet(SortedKeys) /\ \A key \in DOMAIN Tags(d) : Tags(d)[key] \in Text
    BY TagsMap DEF IsMap
  <2> QED BY <1>4, <2>1, PairsDeliver
<1>6. Delivers(y, env, "-e", Environment(d)) /\ Passes(y, env, "--tag")
  <2>1. DOMAIN Environment(d) \subseteq ToSet(SortedKeys) /\ \A key \in DOMAIN Environment(d) : Environment(d)[key] \in Text
    BY EnvironmentMap DEF IsMap
  <2> QED BY <1>4, <2>1, PairsDeliver
<1>7. plzk6Args(d) = OutArgs \o x \o LogArgs \o y \o s \o q
  BY PLZParts
<1> HIDE DEF x, y, s, q
<1>8. Delivers(OutArgs \o x \o LogArgs \o y \o s \o q, env, "-e", Environment(d))
  <2>1. Passes(OutArgs \o x, env, "-e")
    BY <1>3, <1>5, DeliversMore
  <2>2. Passes(OutArgs \o x \o LogArgs, env, "-e")
    BY <1>3, <2>1, DeliversMore
  <2>3. Delivers(OutArgs \o x \o LogArgs \o y, env, "-e", Environment(d))
    BY <1>6, <2>2, DeliversMore
  <2>4. Delivers(OutArgs \o x \o LogArgs \o y \o s, env, "-e", Environment(d))
    BY <1>3, <2>3, DeliversMore
  <2> QED BY <1>3, <2>4, DeliversMore
<1>9. Delivers(OutArgs \o x \o LogArgs \o y \o s \o q, env, "--tag", Tags(d))
  <2>1. Delivers(OutArgs \o x, env, "--tag", Tags(d))
    BY <1>3, <1>5, DeliversMore
  <2>2. Delivers(OutArgs \o x \o LogArgs, env, "--tag", Tags(d))
    BY <1>3, <2>1, DeliversMore
  <2>3. Delivers(OutArgs \o x \o LogArgs \o y, env, "--tag", Tags(d))
    BY <1>6, <2>2, DeliversMore
  <2>4. Delivers(OutArgs \o x \o LogArgs \o y \o s, env, "--tag", Tags(d))
    BY <1>3, <2>3, DeliversMore
  <2> QED BY <1>3, <2>4, DeliversMore
<1> QED
  BY <1>7, <1>8, <1>9

(* A runner of a PLZ test run.                                              *)
RunnerArgs(argv, instance) ==
  RunnerHead \o argv \o ScriptArgs \o Pair("--tag", "instance_id", instance)
  \o Pair("--tag", "testrun_name", <<"name">>) \o PLZFlags
  \o Pair("-e", "K6_CLOUDRUN_INSTANCE_ID", instance)

(* The variables and the tags of one instance.                             *)
InstanceEnvironment(d, instance) == Over([x \in {"K6_CLOUDRUN_INSTANCE_ID"} |-> instance], Environment(d))
InstanceTags(d, instance) ==
  Over([x \in {"testrun_name"} |-> <<"name">>], Over([x \in {"instance_id"} |-> instance], Tags(d)))

(* A runner's command sets those of its instance.                          *)
LEMMA RunnerArgsDeliver ==
  ASSUME NEW d \in CloudData, NEW env, IsEnvironment(env), NEW w \in Name
  PROVE  /\ Delivers(RunnerArgs(plzk6Args(d), <<w>>), env, "-e", InstanceEnvironment(d, <<w>>))
         /\ Delivers(RunnerArgs(plzk6Args(d), <<w>>), env, "--tag", InstanceTags(d, <<w>>))
<1> DEFINE a == plzk6Args(d)
           p == Pair("--tag", "instance_id", <<w>>)
           n == Pair("--tag", "testrun_name", <<"name">>)
           e == Pair("-e", "K6_CLOUDRUN_INSTANCE_ID", <<w>>)
           P == [x \in {"instance_id"} |-> <<w>>]
           N == [x \in {"testrun_name"} |-> <<"name">>]
           E == [x \in {"K6_CLOUDRUN_INSTANCE_ID"} |-> <<w>>]
<1>1. {"instance_id", "testrun_name", "name", "K6_CLOUDRUN_INSTANCE_ID"} \subseteq Name
  BY ONLY WordsAssumption DEF Special, Name
<1>2. /\ <<w>> \in Text /\ Plain(<<w>>) /\ <<"name">> \in Text /\ Plain(<<"name">>)
  BY <1>1, NameText
<1>3. "-e" \in FlagName \ {"none", "--tag"} /\ "--tag" \in FlagName \ {"none", "-e"}
  BY WordsAssumption
<1>4. Delivers(p, env, "--tag", P) /\ Passes(p, env, "-e")
  BY <1>1, <1>2, <1>3, PlainPairDelivers
<1>5. Delivers(n, env, "--tag", N) /\ Passes(n, env, "-e")
  BY <1>1, <1>2, <1>3, PlainPairDelivers
<1>6. Delivers(e, env, "-e", E) /\ Passes(e, env, "--tag")
  BY <1>1, <1>2, <1>3, PlainPairDelivers
<1>7. ASSUME NEW f \in {"-e", "--tag"}
      PROVE  Passes(RunnerHead, env, f) /\ Passes(ScriptArgs, env, f) /\ Passes(PLZFlags, env, f)
  BY RunnerOwn, OwnPasses
<1>8. Delivers(a, env, "-e", Environment(d)) /\ Delivers(a, env, "--tag", Tags(d))
  BY PLZArgsDeliver
<1>9. /\ RunnerArgs(plzk6Args(d), <<w>>) = RunnerHead \o a \o ScriptArgs \o p \o n \o PLZFlags \o e
      /\ InstanceEnvironment(d, <<w>>) = Over(E, Environment(d))
      /\ InstanceTags(d, <<w>>) = Over(N, Over(P, Tags(d)))
  BY DEF RunnerArgs, InstanceEnvironment, InstanceTags
<1> HIDE DEF a, p, n, e, P, N, E
<1>10. Delivers(RunnerHead \o a \o ScriptArgs \o p \o n \o PLZFlags \o e, env, "-e", Over(E, Environment(d)))
  <2>1. Delivers(RunnerHead \o a, env, "-e", Environment(d))
    BY <1>7, <1>8, DeliversMore
  <2>2. Delivers(RunnerHead \o a \o ScriptArgs, env, "-e", Environment(d))
    BY <1>7, <2>1, DeliversMore
  <2>3. Delivers(RunnerHead \o a \o ScriptArgs \o p, env, "-e", Environment(d))
    BY <1>4, <2>2, DeliversMore
  <2>4. Delivers(RunnerHead \o a \o ScriptArgs \o p \o n, env, "-e", Environment(d))
    BY <1>5, <2>3, DeliversMore
  <2>5. Delivers(RunnerHead \o a \o ScriptArgs \o p \o n \o PLZFlags, env, "-e", Environment(d))
    BY <1>7, <2>4, DeliversMore
  <2> QED BY <1>6, <2>5, DeliversConcat
<1>11. Delivers(RunnerHead \o a \o ScriptArgs \o p \o n \o PLZFlags \o e, env, "--tag", Over(N, Over(P, Tags(d))))
  <2>1. Delivers(RunnerHead \o a, env, "--tag", Tags(d))
    BY <1>7, <1>8, DeliversMore
  <2>2. Delivers(RunnerHead \o a \o ScriptArgs, env, "--tag", Tags(d))
    BY <1>7, <2>1, DeliversMore
  <2>3. Delivers(RunnerHead \o a \o ScriptArgs \o p, env, "--tag", Over(P, Tags(d)))
    BY <1>4, <2>2, DeliversConcat
  <2>4. Delivers(RunnerHead \o a \o ScriptArgs \o p \o n, env, "--tag", Over(N, Over(P, Tags(d))))
    BY <1>5, <2>3, DeliversConcat
  <2>5. Delivers(RunnerHead \o a \o ScriptArgs \o p \o n \o PLZFlags, env, "--tag", Over(N, Over(P, Tags(d))))
    BY <1>7, <2>4, DeliversMore
  <2> QED BY <1>6, <2>5, DeliversMore
<1> QED
  BY <1>9, <1>10, <1>11

(* Variables with names in N and values without the cloud token.            *)
VarsOf(a, N) ==
  /\ a \in Seq(Var)
  /\ \A m \in 1 .. Len(a) : a[m].name \in N /\ "token" \notin ToSet(a[m].value)

(* Two lists of such variables, one after the other,                       *)
LEMMA VarsConcat ==
  ASSUME NEW N, NEW a, NEW b, VarsOf(a, N), VarsOf(b, N)
  PROVE  VarsOf(a \o b, N)
<1>1. PICK c : c = a \o b
  OBVIOUS
<1>2. a \in Seq(Var) /\ b \in Seq(Var)
  BY DEF VarsOf
<1>3. /\ c \in Seq(Var) /\ Len(a) \in Nat /\ Len(b) \in Nat /\ Len(c) = Len(a) + Len(b)
      /\ \A k \in 1 .. Len(a) : c[k] = a[k]
      /\ \A k \in 1 .. Len(b) : c[Len(a) + k] = b[k]
  BY ONLY <1>1, <1>2, ConcatParts
<1>4. ASSUME NEW m \in 1 .. Len(c) PROVE c[m].name \in N /\ "token" \notin ToSet(c[m].value)
  <2>1. CASE m \in 1 .. Len(a)
    BY <1>3, <2>1 DEF VarsOf
  <2>2. CASE ~(m \in 1 .. Len(a))
    <3>1. PICK k \in 1 .. Len(b) : m = Len(a) + k
      <4>1. m - Len(a) \in 1 .. Len(b) /\ m = Len(a) + (m - Len(a))
        BY <1>3, <2>2
      <4> QED BY <4>1
    <3> QED BY <1>3, <3>1 DEF VarsOf
  <2> QED BY <2>1, <2>2
<1>5. VarsOf(c, N)
  BY <1>3, <1>4 DEF VarsOf
<1> QED
  BY <1>1, <1>5

(* one variable,                                                           *)
LEMMA EnvVarTyped ==
  ASSUME NEW x \in Name, NEW t \in Text
  PROVE  EnvVar(x, t) \in Var /\ EnvVar(x, t).name = x /\ EnvVar(x, t).value = t
  BY DEF EnvVar, Var

(* as a list,                                                              *)
LEMMA OneVar ==
  ASSUME NEW N, NEW x \in Name, x \in N, NEW t \in Text, "token" \notin ToSet(t)
  PROVE  VarsOf(<<EnvVar(x, t)>>, N)
<1>1. PICK v \in Var : v = EnvVar(x, t) /\ v.name = x /\ v.value = t
  BY EnvVarTyped
<1>2. <<v>> \in Seq(Var) /\ Len(<<v>>) = 1 /\ <<v>>[1] = v
  OBVIOUS
<1> QED
  BY <1>1, <1>2 DEF VarsOf

(* and none.                                                               *)
LEMMA NoVars ==
  ASSUME NEW N
  PROVE  VarsOf(<<>>, N)
  BY DEF VarsOf

(* $ -> $$ adds no other piece.                                             *)
LEMMA EscapedPieces ==
  ASSUME NEW t \in Text
  PROVE  /\ escapeKubeExpansion(t) \in Text
         /\ \A w : w # "$" /\ w \notin ToSet(t) => w \notin ToSet(escapeKubeExpansion(t))
<1> DEFINE e == escapeKubeExpansion(t)
<1>1. PICK off : EscapedBy(e, t, off)
  BY EscapeKubeExpansion DEF Escaped
<1> HIDE DEF e
<1>2. e \in Text /\ t \in Text /\ Len(t) \in Nat /\ Len(e) \in Nat /\ off \in [0 .. Len(t) -> Nat]
      /\ off[0] = 0 /\ off[Len(t)] = Len(e)
  BY <1>1 DEF EscapedBy, Text
<1>3. ASSUME NEW q \in 1 .. Len(e)
      PROVE  e[q] = "$" \/ \E k \in 1 .. Len(t) : e[q] = t[k]
  <2> DEFINE T == {k \in 0 .. Len(t) : off[k] >= q}
  <2>1. Len(t) \in T /\ T \subseteq Nat
    BY <1>2
  <2>2. PICK k \in T : \A y \in T : k =< y
    BY <2>1, LeastNat
  <2>3. k \in 1 .. Len(t) /\ k - 1 \in 0 .. Len(t) /\ off[k] >= q /\ off[k - 1] < q
    <3>1. k # 0
      BY <1>2
    <3>2. k - 1 \in 0 .. Len(t) /\ k - 1 \notin T
      BY <1>2, <2>2, <3>1
    <3> QED BY <1>2, <3>1, <3>2
  <2> HIDE DEF T
  <2>4. off[k] \in Nat /\ off[k - 1] \in Nat
    BY <1>2, <2>3
  <2>5. PICK o \in Nat : o = off[k - 1]
    BY <2>4
  <2>6. CASE t[k] = "$"
    <3>1. off[k] = o + 2 /\ e[o + 1] = "$" /\ e[o + 2] = "$"
      BY <1>1, <2>3, <2>5, <2>6 DEF EscapedBy
    <3>2. q = o + 1 \/ q = o + 2
      BY <2>3, <2>5, <3>1, SMTT(30)
    <3> QED BY <3>1, <3>2
  <2>7. CASE t[k] # "$"
    <3>1. off[k] = o + 1 /\ e[o + 1] = t[k]
      BY <1>1, <2>3, <2>5, <2>7 DEF EscapedBy
    <3>2. q = o + 1
      BY <2>3, <2>5, <3>1
    <3> QED BY <2>3, <3>1, <3>2
  <2> QED BY <2>6, <2>7
<1>4. ASSUME NEW w, w # "$", w \notin ToSet(t) PROVE w \notin ToSet(e)
  <2>1. DOMAIN e = 1 .. Len(e) /\ DOMAIN t = 1 .. Len(t)
    BY <1>2 DEF Text
  <2>2. \A q \in 1 .. Len(e) : e[q] # w
    BY <1>3, <1>4, <2>1 DEF ToSet
  <2> QED BY <2>1, <2>2 DEF ToSet
<1> QED
  BY <1>2, <1>4 DEF e
-----------------------------------------------------------------------------
(* The names of the variables that a PLZ test run sets for the k6 process.  *)
OwnVars == {"K6_CLOUD_AGGREGATION_PERIOD", "K6_SECRET_SOURCE", "K6_SECRET_SOURCE_URL_URL_TEMPLATE",
            "K6_CLOUD_HOST"}

(* None of the variables that the cloud sends for the k6 process is passed. *)
LEMMA NoReservedEnvVars ==
  ASSUME NEW d, d.gck6 \in Seq(Name)
  PROVE  ReservedEnvVars(d) = <<>>
<1> DEFINE g == d.gck6
           parts == [n \in DOMAIN g |-> Given(g[n] \in ReservedGCk6EnvVars, <<EnvVar(g[n], <<"gck6">>)>>)]
<1>1. DOMAIN g = 1 .. Len(g) /\ Len(g) \in Nat
  OBVIOUS
<1>2. \A n \in 1 .. Len(g) : parts[n] = <<>>
  BY <1>1 DEF Given, ReservedGCk6EnvVars
<1>3. Len(parts) = Len(g) /\ (Len(g) = 0 => parts = <<>>)
  BY <1>1
<1>4. ReservedEnvVars(d) = FlattenSeq(parts)
  BY DEF ReservedEnvVars
<1> HIDE DEF parts, g
<1>5. \A n \in 1 .. Len(g) : parts[n] \in Seq(Var) /\ Len(parts[n]) = 0
  <2>1. <<>> \in Seq(Var) /\ Len(<<>>) = 0
    OBVIOUS
  <2> QED BY <1>2, <2>1, Zenon
<1>6. PICK off : Joined(Var, parts, Len(g), FlattenSeq(parts), off)
  BY <1>1, <1>3, <1>5, FlattenParts
<1>7. FlattenSeq(parts) \in Seq(Var) /\ Len(FlattenSeq(parts)) = 0
  <2>1. FlattenSeq(parts) \in Seq(Var) /\ Len(FlattenSeq(parts)) = off[Len(g)] /\ off[Len(g)] \in Nat
    BY <1>1, <1>6 DEF Joined
  <2>2. off[Len(g)] = 0
    <3>1. ASSUME off[Len(g)] > 0 PROVE FALSE
      <4>1. 1 \in 1 .. off[Len(g)]
        BY <2>1, <3>1
      <4>2. PICK k \in 1 .. Len(g) : \E m \in 1 .. Len(parts[k]) : 1 = off[k - 1] + m
        BY <1>6, <4>1 DEF Joined
      <4> QED BY <1>5, <4>2
    <3> QED BY <2>1, <3>1
  <2> QED BY <2>1, <2>2
<1> QED
  BY <1>4, <1>7, EmptySeq

(* The environment that complete gives a PLZ test run: its own variables   *)
(* and the user agent, escaped.                                            *)
LEMMA PLZVars ==
  ASSUME NEW d \in CloudData
  PROVE  /\ VarsOf(RunnerEnvVars(d), {"K6_USER_AGENT"} \cup OwnVars)
         /\ d.userAgent # <<>> => LastVar(RunnerEnvVars(d), "K6_USER_AGENT", escapeKubeExpansion(d.userAgent))
<1> DEFINE N == {"K6_USER_AGENT"} \cup OwnVars
           t == escapeKubeExpansion(d.userAgent)
           h == Given(d.userAgent # <<>>, <<EnvVar("K6_USER_AGENT", t)>>)
           s == SecretsEnvVars(d)
           c == <<EnvVar("K6_CLOUD_HOST", <<"host">>)>>
<1>1. /\ N \subseteq Name /\ {"3s", "url", "endpoint", "host"} \subseteq Name
  BY ONLY WordsAssumption DEF Special, Name, OwnVars
<1>2. ASSUME NEW w \in {"3s", "url", "endpoint", "host"} PROVE <<w>> \in Text /\ "token" \notin ToSet(<<w>>)
  BY <1>1, NameText
<1>3. IsUserText(d.userAgent) /\ d.gck6 \in Seq(Name)
  BY CloudAssumption
<1>4. t \in Text /\ "token" \notin ToSet(t)
  BY <1>3, EscapedPieces DEF IsUserText
<1>5. VarsOf(AggregationEnvVars, OwnVars)
  BY <1>1, <1>2, OneVar DEF AggregationEnvVars, OwnVars
<1>6. VarsOf(c, OwnVars)
  BY <1>1, <1>2, OneVar DEF OwnVars
<1>7. VarsOf(s, OwnVars)
  <2> DEFINE u == EnvVar("K6_SECRET_SOURCE", <<"url">>)
             v == EnvVar("K6_SECRET_SOURCE_URL_URL_TEMPLATE", <<"endpoint">>)
  <2>1. /\ u \in Var /\ u.name = "K6_SECRET_SOURCE" /\ u.value = <<"url">>
        /\ v \in Var /\ v.name = "K6_SECRET_SOURCE_URL_URL_TEMPLATE" /\ v.value = <<"endpoint">>
    BY <1>1, <1>2, EnvVarTyped DEF OwnVars
  <2>2. s = <<>> \/ s = <<u, v>>
    BY DEF SecretsEnvVars, Given
  <2> HIDE DEF u, v
  <2>3. <<u, v>> \in Seq(Var) /\ Len(<<u, v>>) = 2 /\ <<u, v>>[1] = u /\ <<u, v>>[2] = v
    BY <2>1
  <2>4. VarsOf(<<u, v>>, OwnVars)
    <3>1. PICK x : x = <<u, v>>
      OBVIOUS
    <3>2. x \in Seq(Var) /\ Len(x) = 2 /\ x[1] = u /\ x[2] = v
      BY <2>3, <3>1
    <3>3. \A m \in 1 .. Len(x) : x[m] = u \/ x[m] = v
      BY ONLY <3>2
    <3>4. VarsOf(x, OwnVars)
      BY <1>2, <2>1, <3>2, <3>3 DEF VarsOf, OwnVars
    <3> QED BY <3>1, <3>4
  <2> QED BY <2>2, <2>4, NoVars
<1>8. VarsOf(h, N)
  BY <1>1, <1>4, OneVar, NoVars DEF Given
<1>9. ASSUME d.userAgent # <<>> PROVE LastVar(h, "K6_USER_AGENT", t)
  <2>1. PICK v \in Var : v = EnvVar("K6_USER_AGENT", t) /\ v.name = "K6_USER_AGENT" /\ v.value = t
    BY <1>1, <1>4, EnvVarTyped
  <2>2. h = <<v>>
    BY <1>9, <2>1 DEF Given
  <2>3. Len(h) = 1 /\ h[1] = v
    BY <2>2
  <2> HIDE DEF h, t
  <2>4. 1 \in 1 .. Len(h) /\ \A q \in 1 + 1 .. Len(h) : h[q].name # "K6_USER_AGENT"
    BY <2>3
  <2> QED BY <2>1, <2>3, <2>4 DEF LastVar
<1>10. RunnerEnvVars(d) = h \o AggregationEnvVars \o s \o <<>> \o c
  BY <1>3, NoReservedEnvVars DEF RunnerEnvVars
<1> HIDE DEF t, h, s, c
<1>11. ASSUME NEW a, VarsOf(a, OwnVars) PROVE VarsOf(a, N) /\ NoVar(a, "K6_USER_AGENT") /\ a \in Seq(Var)
  BY <1>11 DEF VarsOf, NoVar, OwnVars
<1>12. VarsOf(<<>>, OwnVars)
  BY NoVars
<1>13. ASSUME NEW a, NEW b, VarsOf(a, N), VarsOf(b, OwnVars)
       PROVE  /\ VarsOf(a \o b, N)
              /\ LastVar(a, "K6_USER_AGENT", t) => LastVar(a \o b, "K6_USER_AGENT", t)
  <2>1. a \in Seq(Var) /\ b \in Seq(Var) /\ NoVar(b, "K6_USER_AGENT") /\ VarsOf(b, N)
    BY <1>11, <1>13 DEF VarsOf
  <2> HIDE DEF N
  <2> QED BY <1>13, <2>1, VarsConcat, LastVarConcat
<1> HIDE DEF N
<1> DEFINE A == h \o AggregationEnvVars
           B == A \o s
           C == B \o <<>>
           D == C \o c
<1>14. VarsOf(A, N) /\ (LastVar(h, "K6_USER_AGENT", t) => LastVar(A, "K6_USER_AGENT", t))
  BY <1>5, <1>8, <1>13
<1>15. VarsOf(B, N) /\ (LastVar(A, "K6_USER_AGENT", t) => LastVar(B, "K6_USER_AGENT", t))
  BY <1>7, <1>13, <1>14
<1>16. VarsOf(C, N) /\ (LastVar(B, "K6_USER_AGENT", t) => LastVar(C, "K6_USER_AGENT", t))
  BY <1>12, <1>13, <1>15
<1>17. VarsOf(D, N) /\ (LastVar(C, "K6_USER_AGENT", t) => LastVar(D, "K6_USER_AGENT", t))
  BY <1>6, <1>13, <1>16
<1>18. RunnerEnvVars(d) = D
  BY <1>10
<1> HIDE DEF A, B, C, D
<1>19. VarsOf(RunnerEnvVars(d), N)
  BY <1>17, <1>18
<1>20. d.userAgent # <<>> => LastVar(RunnerEnvVars(d), "K6_USER_AGENT", t)
  BY <1>9, <1>14, <1>15, <1>16, <1>17, <1>18
<1> QED
  BY <1>19, <1>20 DEF N, t

(* The references of the initializer's command to a variable.               *)
KubeRef(x)    == <<"$", "(", x, ")">>
ShellRef(x)   == <<Opening, x, Closing>>
(* How the initializer refers to a variable: the kubelet replaces $(NAME), *)
(* a shell ${NAME}.                                                        *)
Ref(x, shell) == IF shell THEN ShellRef(x) ELSE KubeRef(x)

(* The pieces of $(NAME).                                                  *)
LEMMA KubeRefText ==
  ASSUME NEW x \in Name, NEW r, r = KubeRef(x)
  PROVE  /\ r \in Text /\ Len(r) = 4
         /\ r[1] = "$" /\ r[2] = "(" /\ r[3] = x /\ r[4] = ")"
<1>1. "$" \in Piece /\ "(" \in Piece /\ ")" \in Piece /\ x \in Piece
  BY ONLY WordsAssumption, x \in Name DEF Special, Name
<1> QED
  BY <1>1 DEF KubeRef, Text

(* A sequence of three.                                                    *)
LEMMA ThreePieces ==
  ASSUME NEW S, NEW a \in S, NEW b \in S, NEW c \in S, NEW r, r = <<a, b, c>>
  PROVE  r \in Seq(S) /\ Len(r) = 3 /\ r[1] = a /\ r[2] = b /\ r[3] = c
  OBVIOUS

(* The pieces of ${NAME}.                                                  *)
LEMMA ShellRefText ==
  ASSUME NEW x \in Name, NEW r, r = ShellRef(x)
  PROVE  /\ r \in Text /\ Len(r) = 3
         /\ r[1] = Opening /\ r[2] = x /\ r[3] = Closing
<1>1. Opening \in Piece /\ Closing \in Piece /\ x \in Piece
  BY ShellRefPieces
<1> QED
  BY <1>1, ThreePieces DEF ShellRef, Text

(* Two pieces put before a text one by one.                                *)
LEMMA ConcatOnes ==
  ASSUME NEW S, NEW a \in S, NEW b \in S, NEW t \in Seq(S)
  PROVE  <<a>> \o (<<b>> \o t) = <<a, b>> \o t
<1>1. PICK u : u = <<b>> \o t
  OBVIOUS
<1>2. u \in Seq(S) /\ Len(u) = Len(t) + 1 /\ u[1] = b /\ \A k \in 1 .. Len(t) : u[k + 1] = t[k]
  BY <1>1
<1>3. PICK v : v = <<a>> \o u
  OBVIOUS
<1>4. v \in Seq(S) /\ Len(v) = Len(u) + 1 /\ v[1] = a /\ \A k \in 1 .. Len(u) : v[k + 1] = u[k]
  BY <1>2, <1>3
<1>5. PICK w : w = <<a, b>> \o t
  OBVIOUS
<1>6. w \in Seq(S) /\ Len(w) = Len(t) + 2 /\ w[1] = a /\ w[2] = b /\ \A k \in 1 .. Len(t) : w[k + 2] = t[k]
  BY ONLY <1>5, a \in S, b \in S, t \in Seq(S), Prefixed
<1>7. Len(t) \in Nat
  OBVIOUS
<1>8. ASSUME NEW k \in 1 .. Len(v) PROVE v[k] = w[k]
  <2>1. CASE k = 1
    BY <1>4, <1>6, <2>1
  <2>2. CASE k = 2
    <3>1. 1 \in 1 .. Len(u) /\ v[1 + 1] = u[1]
      BY <1>2, <1>4, <1>7
    <3> QED BY <1>2, <1>6, <2>2, <3>1
  <2>3. CASE k > 2
    <3>1. PICK q \in 1 .. Len(t) : k = q + 2
      <4>1. k - 2 \in 1 .. Len(t) /\ k = (k - 2) + 2
        BY <1>2, <1>4, <1>7, <2>3
      <4> QED BY <4>1
    <3>2. PICK j \in Nat : j = q + 1
      OBVIOUS
    <3>3. j \in 1 .. Len(u) /\ k = j + 1
      BY <1>2, <1>7, <3>1, <3>2
    <3>4. v[j + 1] = u[j] /\ u[q + 1] = t[q] /\ w[q + 2] = t[q]
      BY <1>2, <1>4, <1>6, <3>3
    <3> QED BY <3>1, <3>2, <3>3, <3>4
  <2> QED BY <2>1, <2>2, <2>3
<1>9. v = w
  BY <1>2, <1>4, <1>6, <1>7, <1>8, SeqEqual
<1> QED
  BY <1>1, <1>3, <1>5, <1>9

(* `NAME=$(NAME)` becomes the variable's value.                             *)
LEMMA KeyRefExpand ==
  ASSUME NEW x \in Name, NEW env, x \in DOMAIN env, env[x] \in Text
  PROVE  Expand(<<x, "=">> \o KubeRef(x), env) = <<x, "=">> \o env[x]
<1>1. PICK r : r = KubeRef(x)
  OBVIOUS
<1>2. r \in Seq(Piece) /\ Len(r) = 4 /\ r[1] = "$" /\ r[2] = "(" /\ r[3] = x /\ r[4] = ")"
  BY <1>1, KubeRefText DEF Text
<1>3. "=" \in Piece /\ x \in Piece /\ x # "$" /\ "=" # "$"
  BY ONLY WordsAssumption, x \in Name DEF Special, Name
<1>4. PICK u : u = <<x, "=">> \o r
  OBVIOUS
<1>5. u \in Seq(Piece) /\ Len(u) = Len(r) + 2 /\ u[1] = x /\ u[2] = "=" /\ \A k \in 1 .. Len(r) : u[k + 2] = r[k]
  <2>1. r \in Text
    BY <1>2 DEF Text
  <2>2. KeyValue(x, r).text = u /\ KeyText(u, x, r)
    BY <1>4, <2>1, KeyValueTyped
  <2> QED BY <2>2 DEF KeyText
<1>6. Len(u) = 6
  BY <1>2, <1>5
<1>7. u[1 + 2] = "$" /\ u[2 + 2] = "(" /\ u[3 + 2] = x /\ u[4 + 2] = ")"
  <2>1. 1 \in 1 .. Len(r) /\ 2 \in 1 .. Len(r) /\ 3 \in 1 .. Len(r) /\ 4 \in 1 .. Len(r)
    BY <1>2
  <2> QED BY <1>2, <1>5, <2>1
<1>8. RefEnds(u, 3, x)
  BY <1>6, <1>7 DEF RefEnds
<1>9. u \in Text
  BY <1>5 DEF Text
<1>10. PICK f : /\ Expand(u, env) = f[1]
                /\ \A p \in 1 .. Len(u) + 2 : f[p] = ExpandStep(u, env, f, p)
  BY <1>9, ExpandIs
<1>11. f[3] = env[x]
  BY <1>8, <1>9, <1>10, ExpandReference
<1>12. f[2] = <<"=">> \o f[3]
  <2>1. 2 \in 1 .. Len(u) + 2 /\ ~(2 > Len(u)) /\ u[2] # "$" /\ 2 + 1 = 3
    BY <1>3, <1>5, <1>6
  <2>2. f[2] = ExpandStep(u, env, f, 2)
    BY <1>10, <2>1
  <2>3. ExpandStep(u, env, f, 2) = <<u[2]>> \o f[2 + 1]
    BY <2>1, Zenon DEF ExpandStep
  <2> QED BY <1>5, <2>1, <2>2, <2>3
<1>13. f[1] = <<x>> \o f[2]
  <2>1. 1 \in 1 .. Len(u) + 2 /\ ~(1 > Len(u)) /\ u[1] # "$" /\ 1 + 1 = 2
    BY <1>3, <1>5, <1>6
  <2>2. f[1] = ExpandStep(u, env, f, 1)
    BY <1>10, <2>1
  <2>3. ExpandStep(u, env, f, 1) = <<u[1]>> \o f[1 + 1]
    BY <2>1, Zenon DEF ExpandStep
  <2> QED BY <1>5, <2>1, <2>2, <2>3
<1>14. env[x] \in Seq(Piece)
  BY DEF Text
<1>15. <<x>> \o (<<"=">> \o env[x]) = <<x, "=">> \o env[x]
  BY ONLY <1>3, <1>14, ConcatOnes
<1>16. f[1] = <<x, "=">> \o env[x]
  BY <1>11, <1>12, <1>13, <1>15, Zenon
<1> QED
  BY <1>1, <1>4, <1>10, <1>16

(* The pairs -e NAME=ref(NAME) of the initializer.                          *)
EnvArgs(env, shell) ==
  FlattenSeq([n \in DOMAIN env |-> <<Flag("-e"), KeyValue(env[n].name, Ref(env[n].name, shell))>>])

EnvNames(env)    == {env[m].name : m \in 1 .. Len(env)}
(* Their keys and texts.                                                   *)
Refs(env, shell) == {<<x, Ref(x, shell)>> : x \in EnvNames(env)}

(* A reference is a text.                                                  *)
LEMMA RefText ==
  ASSUME NEW x \in Name, NEW shell \in BOOLEAN
  PROVE  Ref(x, shell) \in Text
  BY KubeRefText, ShellRefText DEF Ref

(* The fields of a variable of a list.                                     *)
LEMMA VarAt ==
  ASSUME NEW env \in Seq(Var), NEW m \in 1 .. Len(env)
  PROVE  env[m] \in Var /\ env[m].name \in Name /\ env[m].value \in Text
<1>1. env[m] \in Var
  OBVIOUS
<1> QED
  BY <1>1 DEF Var

(* The initializer passes one reference for every name.                    *)
LEMMA EnvArgsPairs ==
  ASSUME NEW env \in Seq(Var), NEW shell \in BOOLEAN
  PROVE  /\ PairList(EnvArgs(env, shell), "-e", Refs(env, shell))
         /\ Refs(env, shell) \subseteq KeyTexts
<1> DEFINE part(x) == <<Flag("-e"), KeyValue(x, Ref(x, shell))>>
           parts == [n \in DOMAIN env |-> <<Flag("-e"), KeyValue(env[n].name, Ref(env[n].name, shell))>>]
           P == Refs(env, shell)
<1>1. DOMAIN env = 1 .. Len(env) /\ Len(env) \in Nat /\ "-e" \in FlagName
  BY WordsAssumption
<1>2. \A m \in 1 .. Len(env) : parts[m] = part(env[m].name)
  BY <1>1
<1>3. Len(parts) = Len(env) /\ (Len(env) = 0 => parts = <<>>)
  BY <1>1
<1>4. EnvArgs(env, shell) = FlattenSeq(parts)
  BY DEF EnvArgs
<1> HIDE DEF parts
<1>5. P \subseteq KeyTexts
  <2>1. \A m \in 1 .. Len(env) : env[m].name \in Name
    BY VarAt
  <2>2. \A x \in Name : Ref(x, shell) \in Text
    BY RefText
  <2> QED BY <2>1, <2>2 DEF Refs, EnvNames, KeyTexts
<1>6. \A y \in P : part(y[1]) = Pair("-e", y[1], y[2])
  BY DEF Pair, Refs
<1>7. ASSUME NEW m \in 1 .. Len(env) PROVE \E y \in P : parts[m] = Pair("-e", y[1], y[2])
  <2>1. PICK y : y = <<env[m].name, Ref(env[m].name, shell)>> /\ y \in P
    BY DEF Refs, EnvNames
  <2>2. y[1] = env[m].name
    BY <2>1
  <2> QED BY <1>2, <1>6, <2>1, <2>2
<1>8. ASSUME NEW y \in P PROVE \E m \in 1 .. Len(env) : parts[m] = Pair("-e", y[1], y[2])
  <2>1. PICK m \in 1 .. Len(env) : y = <<env[m].name, Ref(env[m].name, shell)>>
    BY DEF Refs, EnvNames
  <2>2. y[1] = env[m].name
    BY <2>1
  <2> QED BY <1>2, <1>6, <2>2
<1> HIDE DEF P
<1>9. PairList(FlattenSeq(parts), "-e", P)
  BY <1>1, <1>3, <1>5, <1>7, <1>8, FlattenPairs
<1> QED
  BY <1>4, <1>5, <1>9 DEF P

(* They deliver the environment itself.                                     *)
LEMMA KubeEnvArgsDeliver ==
  ASSUME NEW env \in Seq(Var)
  PROVE  /\ IsEnvironment(EnvMap(env))
         /\ Delivers(EnvArgs(env, FALSE), EnvMap(env), "-e", EnvMap(env))
         /\ Passes(EnvArgs(env, FALSE), EnvMap(env), "--tag")
<1> DEFINE E == EnvMap(env)
           a == EnvArgs(env, FALSE)
           b == Expanded(a, E)
           P == Refs(env, FALSE)
           Q == MapPairs(E)
<1>1. DOMAIN E = EnvNames(env) /\ DOMAIN E \subseteq Name /\ \A x \in DOMAIN E : E[x] \in Text
  BY EnvMapOf DEF EnvNames
<1>2. PairList(a, "-e", P) /\ P \subseteq KeyTexts
  BY EnvArgsPairs
<1> HIDE DEF E
<1>3. IsEnvironment(E)
  BY <1>1 DEF IsEnvironment
<1>4. a \in Seq(Argument)
  BY <1>2 DEF PairList
<1> HIDE DEF a, b
<1>5. /\ b \in Seq(Argument) /\ Len(b) = Len(a)
      /\ \A k \in 1 .. Len(a) : b[k] = [flag |-> a[k].flag, text |-> Expand(a[k].text, E)]
  BY <1>3, <1>4, ExpandedTyped DEF b
<1>6. ASSUME NEW k \in 1 .. Len(a), a[k] = Flag("-e") PROVE b[k] = Flag("-e")
  <2>1. <<>> \in Text /\ \A m \in 1 .. Len(<<>>) : <<>>[m] # "$"
    BY DEF Text
  <2>2. Expand(<<>>, E) = <<>>
    BY <2>1, PlainExpand
  <2>3. b[k] = [flag |-> a[k].flag, text |-> Expand(a[k].text, E)] /\ a[k].flag = "-e" /\ a[k].text = <<>>
    BY <1>5, <1>6 DEF Flag
  <2> QED BY <2>2, <2>3 DEF Flag
<1>7. ASSUME NEW x \in DOMAIN E, NEW k \in 1 .. Len(a), a[k] = KeyValue(x, KubeRef(x))
      PROVE  b[k] = KeyValue(x, E[x])
  <2>1. x \in Name /\ E[x] \in Text
    BY <1>1
  <2>2. Expand(<<x, "=">> \o KubeRef(x), E) = <<x, "=">> \o E[x]
    BY <2>1, KeyRefExpand
  <2>3. a[k].flag = "none" /\ a[k].text = <<x, "=">> \o KubeRef(x)
    BY <1>7, <2>1, KeyValueTyped, KubeRefText, SMTT(30)
  <2>4. b[k] = [flag |-> "none", text |-> Expand(<<x, "=">> \o KubeRef(x), E)]
    BY <1>5, <2>3
  <2>5. b[k] = [flag |-> "none", text |-> <<x, "=">> \o E[x]]
    BY <2>2, <2>4, Zenon
  <2> QED BY <2>5, Zenon DEF KeyValue, Value
<1>8. ASSUME NEW y \in P
      PROVE  \E z \in Q : \A k \in 1 .. Len(a) : a[k] = KeyValue(y[1], y[2]) => b[k] = KeyValue(z[1], z[2])
  <2>1. PICK x \in DOMAIN E : y = <<x, KubeRef(x)>>
    BY <1>1 DEF Refs, Ref
  <2>2. PICK z \in Q : z = <<x, E[x]>>
    BY DEF MapPairs
  <2>3. y[1] = x /\ y[2] = KubeRef(x) /\ z[1] = x /\ z[2] = E[x]
    BY <2>1, <2>2
  <2>4. \A k \in 1 .. Len(a) : a[k] = KeyValue(y[1], y[2]) => b[k] = KeyValue(z[1], z[2])
    BY <1>7, <2>3
  <2> QED BY <2>4
<1>9. ASSUME NEW z \in Q
      PROVE  \E y \in P : \A k \in 1 .. Len(a) : a[k] = KeyValue(y[1], y[2]) => b[k] = KeyValue(z[1], z[2])
  <2>1. PICK x \in DOMAIN E : z = <<x, E[x]>>
    BY DEF MapPairs
  <2>2. PICK y \in P : y = <<x, KubeRef(x)>>
    BY <1>1 DEF Refs, Ref
  <2>3. y[1] = x /\ y[2] = KubeRef(x) /\ z[1] = x /\ z[2] = E[x]
    BY <2>1, <2>2
  <2>4. \A k \in 1 .. Len(a) : a[k] = KeyValue(y[1], y[2]) => b[k] = KeyValue(z[1], z[2])
    BY <1>7, <2>3
  <2> QED BY <2>4
<1>10. Q \subseteq KeyTexts
  BY <1>1 DEF MapPairs, KeyTexts
<1> HIDE DEF P, Q
<1>11. PairList(b, "-e", Q)
  BY <1>2, <1>5, <1>6, <1>8, <1>9, PairListMapped
<1>12. "-e" \in FlagName /\ "-e" # "none" /\ "--tag" \in FlagName \ {"none", "-e"}
  BY WordsAssumption
<1>13. Sets(b, "-e", E) /\ SetsNothing(b, "--tag")
  BY <1>10, <1>11, <1>12, PairListSets DEF Q
<1>14. Delivers(a, E, "-e", E) /\ Passes(a, E, "--tag")
  BY <1>4, <1>13 DEF Delivers, Passes, b
<1> QED
  BY <1>3, <1>14 DEF a, E

(***************************************************************************)
(* ParseCLI keeps every variable and tag of a PLZ test run for the         *)
(* archive.                                                                *)
(***************************************************************************)

(* x and y set the same with flag f.                                        *)
Agree(x, y, f) ==
  /\ x \in Seq(Argument) /\ y \in Seq(Argument) /\ Closed(x, f) /\ Closed(y, f)
  /\ \A key : (None(x, f, key) <=> None(y, f, key)) /\ Effective(x, f, key) = Effective(y, f, key)

(* Lists that agree still do when the same is appended to both, or what    *)
(* sets nothing to one.                                                    *)
LEMMA AgreeConcat ==
  ASSUME NEW x, NEW y, NEW f, Agree(x, y, f), NEW z \in Seq(Argument), Closed(z, f)
  PROVE  /\ Agree(x \o z, y \o z, f)
         /\ SetsNothing(z, f) => Agree(x, y \o z, f)
<1>1. x \in Seq(Argument) /\ y \in Seq(Argument) /\ Closed(x, f) /\ Closed(y, f)
  BY DEF Agree
<1>2. PICK u : u = x \o z
  OBVIOUS
<1>3. PICK v : v = y \o z
  OBVIOUS
<1>4. /\ u \in Seq(Argument) /\ Closed(u, f)
      /\ \A key : /\ None(z, f, key) => Effective(u, f, key) = Effective(x, f, key)
                  /\ ~None(z, f, key) => Effective(u, f, key) = Effective(z, f, key)
                  /\ None(u, f, key) <=> None(x, f, key) /\ None(z, f, key)
  BY <1>1, <1>2, EffectiveConcat, ConcatProperties
<1>5. /\ v \in Seq(Argument) /\ Closed(v, f)
      /\ \A key : /\ None(z, f, key) => Effective(v, f, key) = Effective(y, f, key)
                  /\ ~None(z, f, key) => Effective(v, f, key) = Effective(z, f, key)
                  /\ None(v, f, key) <=> None(y, f, key) /\ None(z, f, key)
  BY <1>1, <1>3, EffectiveConcat, ConcatProperties
<1>6. Agree(u, v, f)
  BY <1>4, <1>5 DEF Agree
<1>7. SetsNothing(z, f) => Agree(x, v, f)
  BY <1>1, <1>5 DEF Agree, SetsNothing
<1> QED
  BY <1>2, <1>3, <1>6, <1>7

(* A group, and the arguments up to its end.                               *)
LEMMA SubSeqParts ==
  ASSUME NEW s \in Seq(Argument), NEW p \in 1 .. Len(s), NEW k \in p + 1 .. Len(s) + 1,
         NEW g, g = SubSeq(s, p, k - 1)
  PROVE  /\ g \in Seq(Argument) /\ Len(g) = k - p
         /\ \A m \in 1 .. Len(g) : g[m] = s[p + m - 1]
         /\ SubSeq(s, 1, k - 1) = SubSeq(s, 1, p - 1) \o g
         /\ SubSeq(s, 1, p - 1) \in Seq(Argument)
<1>1. g \in Seq(Argument) /\ Len(g) = k - p /\ \A m \in 1 .. Len(g) : g[m] = s[p + m - 1]
  OBVIOUS
<1>2. SubSeq(s, 1, p - 1) \in Seq(Argument)
  OBVIOUS
<1>3. SubSeq(s, 1, k - 1) = SubSeq(s, 1, p - 1) \o g
  <2>1. PICK q \in Nat : q = p - 1
    OBVIOUS
  <2>2. PICK n \in Nat : n = k - 1
    OBVIOUS
  <2>3. 1 \in 1 .. Len(s) + 1 /\ q \in 1 - 1 .. Len(s) /\ n \in q .. Len(s) /\ q + 1 = p
    BY <2>1, <2>2
  <2>4. SubSeq(s, 1, q) \o SubSeq(s, q + 1, n) = SubSeq(s, 1, n)
    BY ONLY <2>3, s \in Seq(Argument), ConcatAdjacentSubSeq
  <2> QED BY <2>1, <2>2, <2>3, <2>4
<1> QED
  BY <1>1, <1>2, <1>3

(* A group of well-formed arguments ends with the value of its flag.        *)
LEMMA GroupClosed ==
  ASSUME NEW argv, WellFormed(argv), NEW p \in 1 .. Len(argv), IsFlag(argv[p]),
         NEW k, k = lastArgV(p + 1, argv), NEW f \in {"-e", "--tag"},
         NEW env, IsEnvironment(env)
  PROVE  Closed(Expanded(SubSeq(argv, p, k - 1), env), f)
<1>1. argv \in Seq(Argument) /\ Len(argv) \in Nat
  BY DEF WellFormed
<1>2. /\ k \in p + 1 .. Len(argv) + 1
      /\ \A j \in p + 1 .. k - 1 : ~IsFlag(argv[j])
      /\ Boundary(argv, k)
  BY <1>1, GroupEnd
<1>3. PICK g : g = SubSeq(argv, p, k - 1)
  OBVIOUS
<1>4. g \in Seq(Argument) /\ Len(g) = k - p /\ \A m \in 1 .. Len(g) : g[m] = argv[p + m - 1]
  <2>1. k \in p + 1 .. Len(argv) + 1
    BY <1>2
  <2> QED BY ONLY <1>1, <1>3, <2>1, p \in 1 .. Len(argv), SubSeqParts
<1>5. PICK G : G = Expanded(g, env)
  OBVIOUS
<1>6. G \in Seq(Argument) /\ Len(G) = Len(g) /\ \A m \in 1 .. Len(g) : G[m].flag = g[m].flag
  BY <1>4, <1>5, ExpandedTyped
<1>7. ASSUME NEW m \in 1 .. Len(G), m = Len(G), G[m] = Flag(f) PROVE FALSE
  <2>1. argv[k - 1].flag = f
    <3>1. p + m - 1 = k - 1
      BY <1>2, <1>4, <1>6, <1>7
    <3>2. G[m].flag = f
      BY <1>7 DEF Flag
    <3> QED BY <1>4, <1>6, <3>1, <3>2
  <2>2. k - 1 = p
    <3>1. IsFlag(argv[k - 1])
      BY <2>1 DEF IsFlag
    <3>2. k - 1 \in p .. Len(argv)
      BY <1>1, <1>2
    <3> QED BY <1>2, <3>1, <3>2
  <2>3. k = p + 1 /\ k \in 1 .. Len(argv) /\ ~IsFlag(argv[k])
    <3>1. k = p + 1 /\ argv[p].flag = f
      BY <1>2, <2>1, <2>2
    <3>2. p + 1 \in 1 .. Len(argv) /\ ~IsFlag(argv[p + 1])
      BY <3>1 DEF WellFormed
    <3> QED BY <3>1, <3>2
  <2>4. BelongsTo(argv, k, p)
    BY <2>3 DEF BelongsTo
  <2>5. p \in 1 .. k - 1 /\ k =< Len(argv)
    BY <1>1, <2>3
  <2> QED BY <1>2, <2>4, <2>5 DEF Boundary
<1> QED
  BY <1>3, <1>5, <1>7 DEF Closed

(* A group that is not for the archive has neither flag.                    *)
LEMMA GroupNotArchived ==
  ASSUME NEW argv \in Seq(Argument), NEW p \in 1 .. Len(argv), IsFlag(argv[p]), ~ForArchive(argv[p]),
         NEW k, k = lastArgV(p + 1, argv), NEW f \in {"-e", "--tag"}
  PROVE  NoFlag(SubSeq(argv, p, k - 1), f)
<1>1. /\ k \in p + 1 .. Len(argv) + 1
      /\ \A j \in p + 1 .. k - 1 : ~IsFlag(argv[j])
  BY GroupEnd
<1>2. PICK g : g = SubSeq(argv, p, k - 1)
  OBVIOUS
<1>3. Len(g) = k - p /\ \A m \in 1 .. Len(g) : g[m] = argv[p + m - 1]
  BY <1>1, <1>2, SubSeqParts
<1>4. argv[p].flag # f
  BY DEF ForArchive, NotForArchive, IsExactly, OutFlag, Skipped
<1>5. ASSUME NEW m \in 1 .. Len(g) PROVE g[m].flag # f
  <2>1. CASE m = 1
    <3>1. p + m - 1 = p
      BY <2>1
    <3> QED BY <1>3, <1>4, <3>1
  <2>2. CASE m # 1
    <3>1. p + m - 1 \in p + 1 .. k - 1
      BY <1>1, <1>3, <2>2
    <3> QED BY <1>1, <1>3, <3>1 DEF IsFlag
  <2> QED BY <2>1, <2>2
<1> QED
  BY <1>2, <1>5 DEF NoFlag

(* One pass of the loop: a group with -e or --tag is selected, any other   *)
(* sets nothing.                                                           *)
LEMMA AgreeStep ==
  ASSUME NEW argv, WellFormed(argv), NEW p \in 1 .. Len(argv), IsFlag(argv[p]),
         NEW k, k = lastArgV(p + 1, argv), NEW f \in {"-e", "--tag"}, NEW env, IsEnvironment(env),
         NEW a \in Seq(Argument), Agree(Expanded(a, env), Expanded(SubSeq(argv, 1, p - 1), env), f),
         NEW b, b = a \o IF ForArchive(argv[p]) THEN SubSeq(argv, p, k - 1) ELSE <<>>
  PROVE  Agree(Expanded(b, env), Expanded(SubSeq(argv, 1, k - 1), env), f)
<1>1. argv \in Seq(Argument)
  BY DEF WellFormed
<1>2. k \in p + 1 .. Len(argv) + 1
  BY <1>1, GroupEnd
<1>3. PICK g : g = SubSeq(argv, p, k - 1)
  OBVIOUS
<1>4. PICK h : h = SubSeq(argv, 1, p - 1)
  OBVIOUS
<1>5. g \in Seq(Argument) /\ h \in Seq(Argument) /\ SubSeq(argv, 1, k - 1) = h \o g
  BY <1>1, <1>2, <1>3, <1>4, SubSeqParts, ZenonT(40)
<1>6. Expanded(h \o g, env) = Expanded(h, env) \o Expanded(g, env)
  BY <1>5, ExpandedConcat
<1>7. Expanded(g, env) \in Seq(Argument) /\ Closed(Expanded(g, env), f)
  BY <1>3, <1>5, GroupClosed, ExpandedTyped, ZenonT(40)
<1>8. Agree(Expanded(a, env), Expanded(h, env), f)
  BY <1>4
<1>9. CASE ForArchive(argv[p])
  <2>1. b = a \o g
    BY <1>3, <1>9
  <2>2. Expanded(b, env) = Expanded(a, env) \o Expanded(g, env)
    BY <1>5, <2>1, ExpandedConcat, ZenonT(40)
  <2>3. Agree(Expanded(a, env) \o Expanded(g, env), Expanded(h, env) \o Expanded(g, env), f)
    BY <1>7, <1>8, AgreeConcat
  <2> QED BY <1>5, <1>6, <2>2, <2>3
<1>10. CASE ~ForArchive(argv[p])
  <2>1. b = a \o <<>>
    BY <1>10
  <2>2. b = a
    BY <2>1, ConcatEmptySeq
  <2>3. NoFlag(g, f)
    BY <1>1, <1>3, <1>10, GroupNotArchived
  <2>4. SetsNothing(Expanded(g, env), f)
    BY <1>5, <2>3, NoFlagPasses DEF Passes
  <2>5. Agree(Expanded(a, env), Expanded(h, env) \o Expanded(g, env), f)
    BY <1>7, <1>8, <2>4, AgreeConcat
  <2> QED BY <1>5, <1>6, <2>2, <2>5
<1> QED
  BY <1>9, <1>10

(* ParseCLI's loop over the arguments of a PLZ test run: of the variables   *)
(* and tags seen so far, it has kept all.                                   *)
KeepsAll(a, argv, p) ==
  /\ a \in Seq(Argument)
  /\ \A env : IsEnvironment(env) =>
       \A f \in {"-e", "--tag"} : Agree(Expanded(a, env), Expanded(SubSeq(argv, 1, p - 1), env), f)

(* It does so at every pass.                                               *)
AgreeInv == trd.plz /\ pc \notin Early => KeepsAll(cli.ArchiveArgs, Argv, i)

(* Before the first argument there is nothing to keep.                     *)
LEMMA KeepsStart ==
  ASSUME NEW argv \in Seq(Argument)
  PROVE  KeepsAll(<<>>, argv, 1)
<1>1. SubSeq(argv, 1, 1 - 1) = <<>> /\ <<>> \in Seq(Argument)
  OBVIOUS
<1>2. ASSUME NEW env, IsEnvironment(env), NEW f \in {"-e", "--tag"}
      PROVE  Agree(Expanded(<<>>, env), Expanded(<<>>, env), f)
  <2>1. NoFlag(<<>>, f)
    BY DEF NoFlag
  <2>2. SetsNothing(Expanded(<<>>, env), f)
    BY <1>1, <1>2, <2>1, NoFlagPasses DEF Passes
  <2> QED BY <2>2 DEF SetsNothing, Agree
<1> QED
  BY <1>1, <1>2 DEF KeepsAll

(* AgreeInv holds initially,                                               *)
LEMMA AgreeInit == Init => AgreeInv
  BY CloudAssumption DEF Init, AgreeInv, Early, NoData

(* and after every step,                                                   *)
LEMMA AgreeInvStep == OriginInv /\ LoopInv /\ AgreeInv /\ [Next]_vars => AgreeInv'
<1> SUFFICES ASSUME OriginInv, LoopInv, AgreeInv, [Next]_vars, trd'.plz, pc' \notin Early
             PROVE  KeepsAll(cli'.ArchiveArgs, Argv', i')
  BY DEF AgreeInv
<1>0. ASSUME spec' = spec PROVE Argv' = Argv
  BY <1>0 DEF Argv, UsesArgs
<1>1. CASE UNCHANGED vars \/ ParsePositional \/ ParseEnd \/ InitializeJobs \/ CreateRunner
  <2>1. spec' = spec /\ i' = i /\ cli' = cli /\ trd' = trd /\ pc \notin Early
    BY <1>1 DEF vars, ParsePositional, ParseEnd, InitializeJobs, CreateRunner, Early
  <2>2. Argv' = Argv
    BY <1>0, <2>1
  <2> QED BY <2>1, <2>2 DEF AgreeInv
<1>2. CASE Preprocess
  BY <1>2 DEF Preprocess, Early
<1>3. CASE Complete
  <2>1. i' = 1 /\ cli' = NoCLI
    BY <1>3 DEF Complete
  <2>2. Argv' \in Seq(Argument)
    <3>1. trd \in CloudData /\ spec' = SpecOf(trd)
      BY <1>3 DEF Complete, OriginInv, Early, SpecOf
    <3>2. spec'.args \in Seq(Argument) /\ spec'.args # <<>>
      BY <3>1, PLZSpecArgs
    <3> QED BY <3>2 DEF Argv, UsesArgs
  <2>3. cli'.ArchiveArgs = <<>>
    BY <2>1 DEF NoCLI
  <2> QED BY <2>1, <2>2, <2>3, KeepsStart
<1>4. CASE ParseGroup
  <2>1. /\ pc = "parse" /\ i =< Len(Argv) /\ IsFlag(Argv[i]) /\ spec' = spec /\ trd' = trd
        /\ i' = lastArgV(i + 1, Argv) /\ cli' = AddGroup(cli, Argv, i, i')
    BY <1>4 DEF ParseGroup
  <2>2. Argv' = Argv /\ pc \notin Early /\ trd.plz
    BY <1>0, <2>1 DEF Early
  <2>3. trd \in CloudData /\ Argv = plzk6Args(trd)
    BY <2>2, PLZArgv
  <2>4. WellFormed(Argv) /\ Argv \in Seq(Argument)
    BY <2>3, PLZArgs DEF WellFormed
  <2>5. i \in 1 .. Len(Argv)
    BY <2>1, <2>2 DEF LoopInv
  <2>6. i' \in i + 1 .. Len(Argv) + 1
    BY <2>1, <2>4, <2>5, GroupEnd
  <2> DEFINE a == cli.ArchiveArgs
             g == IF ForArchive(Argv[i]) THEN SubSeq(Argv, i, i' - 1) ELSE <<>>
             b == a \o g
  <2>7. KeepsAll(a, Argv, i)
    BY <2>2 DEF AgreeInv
  <2>8. cli'.ArchiveArgs = b
    BY <2>1 DEF AddGroup
  <2>9. b \in Seq(Argument)
    <3>1. a \in Seq(Argument)
      BY <2>7 DEF KeepsAll
    <3>2. SubSeq(Argv, i, i' - 1) \in Seq(Argument)
      BY <2>4, <2>5, <2>6, SubSeqParts
    <3>3. <<>> \in Seq(Argument)
      OBVIOUS
    <3>4. g \in Seq(Argument)
      BY <3>2, <3>3
    <3> HIDE DEF a, g
    <3> QED BY <3>1, <3>4, ConcatProperties
  <2>10. ASSUME NEW env, IsEnvironment(env), NEW f \in {"-e", "--tag"}
         PROVE  Agree(Expanded(b, env), Expanded(SubSeq(Argv, 1, i' - 1), env), f)
    <3>1. a \in Seq(Argument) /\ Agree(Expanded(a, env), Expanded(SubSeq(Argv, 1, i - 1), env), f)
      BY <2>7, <2>10 DEF KeepsAll
    <3> HIDE DEF a
    <3> QED BY <2>1, <2>4, <2>5, <2>10, <3>1, AgreeStep
  <2> HIDE DEF b
  <2> QED BY <2>2, <2>8, <2>9, <2>10 DEF KeepsAll
<1> QED
  BY <1>1, <1>2, <1>3, <1>4 DEF Next

(* hence always.                                                           *)
LEMMA Agreement == Spec => []AgreeInv
<1>1. Spec => [](OriginInv /\ LoopInv)
  BY Loop
<1> QED
  BY <1>1, AgreeInit, AgreeInvStep, PTL DEF Spec

(* The environment of a PLZ runner.                                         *)
TokenVars == <<EnvVar("K6_CLOUD_PUSH_REF_ID", TestRunIDText), EnvVar("K6_CLOUD_TOKEN", <<"token">>)>>
RunnerEnv(d) == TokenVars \o RunnerEnvVars(d)

(* The token is the last variable of its name there.                       *)
LEMMA TokenVarsFacts ==
  /\ TokenVars \in Seq(Var) /\ Len(TokenVars) = 2
  /\ TokenVars[1].name = "K6_CLOUD_PUSH_REF_ID" /\ TokenVars[2].name = "K6_CLOUD_TOKEN"
  /\ LastVar(TokenVars, "K6_CLOUD_TOKEN", <<"token">>)
<1> DEFINE u == EnvVar("K6_CLOUD_PUSH_REF_ID", TestRunIDText)
           v == EnvVar("K6_CLOUD_TOKEN", <<"token">>)
<1>1. {"K6_CLOUD_PUSH_REF_ID", "K6_CLOUD_TOKEN"} \subseteq Name /\ "token" \in Piece
  BY ONLY WordsAssumption DEF Special, Name
<1>2. <<"token">> \in Text /\ TestRunIDText \in Text
  BY <1>1, WordTyped, OwnTexts
<1>3. /\ u \in Var /\ u.name = "K6_CLOUD_PUSH_REF_ID"
      /\ v \in Var /\ v.name = "K6_CLOUD_TOKEN" /\ v.value = <<"token">>
  BY <1>1, <1>2, EnvVarTyped
<1>4. TokenVars = <<u, v>>
  BY DEF TokenVars
<1> HIDE DEF u, v
<1>5. TokenVars \in Seq(Var) /\ Len(TokenVars) = 2 /\ TokenVars[1] = u /\ TokenVars[2] = v
  BY <1>3, <1>4
<1>6. 2 \in 1 .. Len(TokenVars) /\ \A q \in 2 + 1 .. Len(TokenVars) : TokenVars[q].name # "K6_CLOUD_TOKEN"
  BY <1>5
<1> QED
  BY <1>3, <1>5, <1>6 DEF LastVar

(* A PLZ runner has the token and the user agent in its environment.       *)
LEMMA RunnerEnvFacts ==
  ASSUME NEW d \in CloudData
  PROVE  /\ RunnerEnv(d) \in Seq(Var) /\ IsEnvironment(EnvMap(RunnerEnv(d)))
         /\ "K6_CLOUD_TOKEN" \in DOMAIN EnvMap(RunnerEnv(d))
         /\ EnvMap(RunnerEnv(d))["K6_CLOUD_TOKEN"] = <<"token">>
         /\ d.userAgent # <<>> => EnvMap(RunnerEnv(d))["K6_USER_AGENT"] = d.userAgent
<1> DEFINE a == TokenVars
           b == RunnerEnvVars(d)
           E == EnvMap(RunnerEnv(d))
<1>1. a \in Seq(Var) /\ b \in Seq(Var)
  BY TokenVarsFacts, PLZVars DEF VarsOf
<1>2. RunnerEnv(d) = a \o b /\ a \o b \in Seq(Var)
  BY <1>1, ConcatProperties DEF RunnerEnv
<1>3. NoVar(b, "K6_CLOUD_TOKEN")
  BY PLZVars DEF VarsOf, NoVar, OwnVars
<1>4. LastVar(a \o b, "K6_CLOUD_TOKEN", <<"token">>)
  BY <1>1, <1>3, TokenVarsFacts, LastVarConcat
<1>5. "K6_CLOUD_TOKEN" \in DOMAIN E /\ E["K6_CLOUD_TOKEN"] = <<"token">>
  <2>0. RunnerEnv(d) \in Seq(Var) /\ LastVar(RunnerEnv(d), "K6_CLOUD_TOKEN", <<"token">>)
    BY <1>2, <1>4
  <2>1. PICK before : E["K6_CLOUD_TOKEN"] = Expand(<<"token">>, before)
    BY ONLY <2>0, EnvMapLast
  <2>2. "token" \in Piece
    BY WordsAssumption
  <2>3. <<"token">> \in Text /\ \A k \in 1 .. Len(<<"token">>) : <<"token">>[k] # "$"
    BY <2>2, WordTyped
  <2>4. Expand(<<"token">>, before) = <<"token">>
    BY <2>3, PlainExpand
  <2> QED BY <2>0, <2>1, <2>4, EnvMapLast
<1>6. ASSUME d.userAgent # <<>> PROVE E["K6_USER_AGENT"] = d.userAgent
  <2> DEFINE e == escapeKubeExpansion(d.userAgent)
  <2>1. d.userAgent \in Text
    BY CloudAssumption DEF IsUserText
  <2>2. LastVar(b, "K6_USER_AGENT", e)
    BY <1>6, PLZVars
  <2> HIDE DEF e
  <2>3. RunnerEnv(d) \in Seq(Var) /\ LastVar(RunnerEnv(d), "K6_USER_AGENT", e)
    BY <1>1, <1>2, <2>2, LastVarConcat
  <2>4. PICK before : E["K6_USER_AGENT"] = Expand(e, before)
    BY ONLY <2>3, EnvMapLast
  <2>5. Expand(e, before) = d.userAgent
    BY <2>1, EscapeKubeExpansion, EscapedExpand DEF e
  <2> QED BY <2>4, <2>5
<1>7. IsEnvironment(E)
  BY <1>2, EnvMapOf DEF IsEnvironment
<1> QED
  BY <1>2, <1>5, <1>6, <1>7

(* The environment of a PLZ initializer.                                    *)
LEMMA ArchiveEnvFacts ==
  ASSUME NEW d \in CloudData
  PROVE  /\ RunnerEnvVars(d) \in Seq(Var) /\ IsEnvironment(EnvMap(RunnerEnvVars(d)))
         /\ DOMAIN EnvMap(RunnerEnvVars(d)) \subseteq {"K6_USER_AGENT"} \cup OwnVars
         /\ d.userAgent # <<>> => /\ "K6_USER_AGENT" \in DOMAIN EnvMap(RunnerEnvVars(d))
                                  /\ EnvMap(RunnerEnvVars(d))["K6_USER_AGENT"] = d.userAgent
         /\ \A x \in DOMAIN EnvMap(RunnerEnvVars(d)) : "token" \notin ToSet(EnvMap(RunnerEnvVars(d))[x])
<1> DEFINE b == RunnerEnvVars(d)
           E == EnvMap(b)
           N == {"K6_USER_AGENT"} \cup OwnVars
           S == Piece \ {"token"}
<1>1. VarsOf(b, N)
  BY PLZVars
<1>0. d.userAgent # <<>> => LastVar(b, "K6_USER_AGENT", escapeKubeExpansion(d.userAgent))
  BY PLZVars
<1> HIDE DEF b, E
<1>2. /\ b \in Seq(Var) /\ Len(b) \in Nat
      /\ \A m \in 1 .. Len(b) : b[m].name \in N /\ "token" \notin ToSet(b[m].value)
  BY <1>1 DEF VarsOf
<1>3. \A m \in 1 .. Len(b) : b[m].value \in Seq(S)
  <2>1. \A m \in 1 .. Len(b) : b[m].value \in Seq(Piece) /\ "token" \notin ToSet(b[m].value)
    BY <1>2, VarAt DEF Text
  <2> QED BY <2>1 DEF ToSet
<1>4. "$" \in S
  BY ONLY WordsAssumption DEF Special
<1>5. /\ DOMAIN E = {b[m].name : m \in 1 .. Len(b)}
      /\ \A x \in DOMAIN E : E[x] \in Seq(S)
  <2> HIDE DEF S
  <2> QED BY <1>2, <1>3, <1>4, EnvMapPieces DEF E
<1>6. DOMAIN E \subseteq N
  BY <1>2, <1>5
<1>7. \A x \in DOMAIN E : "token" \notin ToSet(E[x])
  BY <1>5 DEF ToSet
<1>8. IsEnvironment(E)
  BY <1>2, EnvMapOf DEF IsEnvironment, E
<1>9. ASSUME d.userAgent # <<>> PROVE "K6_USER_AGENT" \in DOMAIN E /\ E["K6_USER_AGENT"] = d.userAgent
  <2> DEFINE e == escapeKubeExpansion(d.userAgent)
  <2>1. d.userAgent \in Text
    BY CloudAssumption DEF IsUserText
  <2>2. LastVar(b, "K6_USER_AGENT", e)
    BY <1>0, <1>9
  <2> HIDE DEF e
  <2>3. "K6_USER_AGENT" \in DOMAIN E
    BY <1>2, <2>2, EnvMapLast DEF E
  <2>4. PICK before : E["K6_USER_AGENT"] = Expand(e, before)
    BY <1>2, <2>2, EnvMapLast DEF E
  <2>5. Expand(e, before) = d.userAgent
    BY <2>1, EscapeKubeExpansion, EscapedExpand DEF e
  <2> QED BY <2>3, <2>4, <2>5
<1> QED
  BY <1>2, <1>6, <1>7, <1>8, <1>9 DEF b, E
-----------------------------------------------------------------------------
(* The commands of a PLZ test run.                                          *)
LEMMA PLZRunner ==
  ASSUME OriginInv, CommandsInv, trd.plz, NEW r \in DOMAIN runners
  PROVE  /\ trd \in CloudData /\ r \in 1 .. trd.instances /\ ToString(r) \in Name
         /\ runners[r].env = RunnerEnv(trd)
         /\ runners[r].args = RunnerArgs(plzk6Args(trd), <<ToString(r)>>)
         /\ Delivered(runners[r]) =
              Expanded(RunnerArgs(plzk6Args(trd), <<ToString(r)>>), EnvMap(RunnerEnv(trd)))
<1>1. r \in 1 .. Len(runners)
  BY DEF CommandsInv
<1>2. pc \notin Early
  BY <1>1 DEF CommandsInv, Early
<1>3. trd \in CloudData /\ spec = SpecOf(trd) /\ Argv = plzk6Args(trd) /\ UsesArgs
  BY <1>2, PLZArgv
<1>4. spec.parallelism = trd.instances /\ spec.env = RunnerEnvVars(trd)
  BY <1>3 DEF SpecOf
<1>5. trd.plz = TRUE /\ trd.instances \in Nat
  BY <1>3, CloudAssumption
<1>6. r \in 1 .. trd.instances
  BY <1>1, <1>4, <1>5 DEF CommandsInv
<1>7. ToString(r) \in Name
  BY <1>3, <1>6, CloudAssumption DEF IsNumbered
<1>8. runners[r] = NewRunnerJob(r)
  BY <1>1 DEF CommandsInv
<1>9. CloudEnv = TokenVars
  <2>1. CloudEnv = <<>> \o TokenVars
    BY <1>5 DEF CloudEnv, Given, TokenVars
  <2> QED BY <2>1, TokenVarsFacts, ConcatEmptySeq
<1>10. NewRunnerJob(r).env = RunnerEnv(trd)
  <2>1. NewRunnerJob(r).env = CloudEnv \o spec.env
    BY DEF NewRunnerJob
  <2> QED BY <1>4, <1>9, <2>1 DEF RunnerEnv
<1>11. NewRunnerJob(r).args = RunnerArgs(Argv, <<ToString(r)>>)
  <2>1. NewRunnerJob(r).args =
          RunnerHead \o Argv \o ScriptArgs
          \o Pair("--tag", "instance_id", <<ToString(r)>>) \o Pair("--tag", "testrun_name", <<"name">>)
          \o Given(trd.plz, PLZFlags) \o Given(trd.plz, Pair("-e", "K6_CLOUDRUN_INSTANCE_ID", <<ToString(r)>>))
    BY DEF NewRunnerJob, RunnerHead, ScriptArgs, PLZFlags
  <2> QED BY <1>5, <2>1 DEF Given, RunnerArgs
<1>12. NewRunnerJob(r).shell = FALSE
  <2>1. NewRunnerJob(r).shell = (ScriptType = "LocalFile" /\ NeedsShellCmd)
    BY DEF NewRunnerJob
  <2> QED BY <1>3, <2>1 DEF NeedsShellCmd
<1>13. Delivered(runners[r]) = Expanded(runners[r].args, EnvMap(runners[r].env))
  BY <1>8, <1>12 DEF Delivered
<1> QED
  BY <1>3, <1>6, <1>7, <1>8, <1>10, <1>11, <1>13

(* The parts of the initializer's command.                                 *)
ArchiveHead == <<Word("k6"), Word("archive"), Script>>
ArchiveFile == <<Flag("-O"), Word("archived")>>

(* They are the operator's own.                                            *)
LEMMA ArchiveOwn == AllOwn(ArchiveHead) /\ AllOwn(ArchiveFile)
  BY OwnTriple, OwnPair, OwnWord, OwnFlag DEF ArchiveHead, ArchiveFile, Script

(* The initializer's command, of any TestRun.                               *)
LEMMA InitializerJob ==
  /\ NewInitializerJob.args = ArchiveHead \o EnvArgs(spec.env, NeedsShellCmd) \o ArchiveFile \o cli.ArchiveArgs
  /\ NewInitializerJob.env = spec.env /\ NewInitializerJob.shell = NeedsShellCmd
<1> DEFINE ref(name) == IF NeedsShellCmd THEN <<"${", name, "}">> ELSE <<"$", "(", name, ")">>
           envArgs == [n \in DOMAIN spec.env |-> <<Flag("-e"), KeyValue(spec.env[n].name, ref(spec.env[n].name))>>]
<1>1. NewInitializerJob =
        [args |-> <<Word("k6"), Word("archive"), Script>> \o FlattenSeq(envArgs)
                \o <<Flag("-O"), Word("archived")>> \o cli.ArchiveArgs,
         env |-> spec.env, shell |-> NeedsShellCmd,
         segment |-> NoSegment, sequence |-> NoSegment]
  BY DEF NewInitializerJob
<1>2. EnvArgs(spec.env, NeedsShellCmd) = FlattenSeq(envArgs)
  BY DEF EnvArgs, Ref, KubeRef, ShellRef, Opening, Closing
<1> HIDE DEF envArgs
<1> QED
  BY <1>1, <1>2 DEF ArchiveHead, ArchiveFile

(* The initializer's command of a PLZ test run that has selected a.        *)
ArchiveArgs(d, a) == ArchiveHead \o EnvArgs(RunnerEnvVars(d), FALSE) \o ArchiveFile \o a

(* That is the command of its initializer, which runs without a shell.     *)
LEMMA PLZArchive ==
  ASSUME OriginInv, LoopInv, CommandsInv, AgreeInv, trd.plz, Made(archive)
  PROVE  /\ trd \in CloudData /\ pc \notin Early
         /\ cli.ArchiveArgs = CLIOf(plzk6Args(trd)).ArchiveArgs
         /\ Delivered(archive) = Expanded(ArchiveArgs(trd, cli.ArchiveArgs), EnvMap(RunnerEnvVars(trd)))
         /\ KeepsAll(cli.ArchiveArgs, plzk6Args(trd), Len(plzk6Args(trd)) + 1)
         /\ plzk6Args(trd) \in Seq(Argument)
<1>1. pc \in {"runners", "noscript"} /\ archive = NewInitializerJob
  BY DEF CommandsInv
<1>2. pc \notin Early
  BY <1>1 DEF Early
<1>3. trd \in CloudData /\ spec = SpecOf(trd) /\ Argv = plzk6Args(trd) /\ UsesArgs
  BY <1>2, PLZArgv
<1>4. spec.env = RunnerEnvVars(trd)
  BY <1>3 DEF SpecOf
<1>5. NeedsShellCmd = FALSE
  BY <1>3 DEF NeedsShellCmd
<1>6. archive.args = ArchiveArgs(trd, cli.ArchiveArgs) /\ archive.env = RunnerEnvVars(trd) /\ archive.shell = FALSE
  BY <1>1, <1>4, <1>5, InitializerJob DEF ArchiveArgs
<1>7. Delivered(archive) = Expanded(archive.args, EnvMap(archive.env))
  BY <1>6 DEF Delivered
<1>8. i = Len(Argv) + 1 /\ cli = CLIOf(SubSeq(Argv, 1, i - 1))
  BY <1>1, <1>2 DEF LoopInv
<1>9. KeepsAll(cli.ArchiveArgs, Argv, Len(Argv) + 1)
  BY <1>2, <1>8 DEF AgreeInv
<1>10. Argv \in Seq(Argument)
  BY <1>2, ArgvTyped
<1>11. SubSeq(Argv, 1, i - 1) = Argv
  <2>1. i - 1 = Len(Argv) /\ SubSeq(Argv, 1, Len(Argv)) = Argv
    BY <1>8, <1>10
  <2> QED BY <2>1
<1> QED
  BY <1>2, <1>3, <1>6, <1>7, <1>8, <1>9, <1>10, <1>11

(* What the initializer of a PLZ test run sets.                             *)
LEMMA ArchiveArgsDeliver ==
  ASSUME NEW d \in CloudData, NEW a, KeepsAll(a, plzk6Args(d), Len(plzk6Args(d)) + 1),
         NEW env, env = EnvMap(RunnerEnvVars(d))
  PROVE  /\ Delivers(ArchiveArgs(d, a), env, "-e", Over(Environment(d), env))
         /\ Delivers(ArchiveArgs(d, a), env, "--tag", Tags(d))
<1> DEFINE argv == plzk6Args(d)
           e == EnvArgs(RunnerEnvVars(d), FALSE)
<1>1. RunnerEnvVars(d) \in Seq(Var) /\ IsEnvironment(env)
  BY ArchiveEnvFacts
<1>2. Delivers(e, env, "-e", env) /\ Passes(e, env, "--tag")
  BY <1>1, KubeEnvArgsDeliver
<1>3. ASSUME NEW f \in {"-e", "--tag"} PROVE Passes(ArchiveHead, env, f) /\ Passes(ArchiveFile, env, f)
  BY <1>1, ArchiveOwn, OwnPasses
<1>4. Delivers(argv, env, "-e", Environment(d)) /\ Delivers(argv, env, "--tag", Tags(d)) /\ argv \in Seq(Argument)
  BY <1>1, PLZArgsDeliver DEF Delivers
<1>5. ArchiveArgs(d, a) = ArchiveHead \o e \o ArchiveFile \o a
  BY DEF ArchiveArgs
<1>6. KeepsAll(a, argv, Len(argv) + 1)
  OBVIOUS
<1> HIDE DEF argv, e
<1>7. a \in Seq(Argument) /\ \A f \in {"-e", "--tag"} : Agree(Expanded(a, env), Expanded(argv, env), f)
  <2>1. Len(argv) + 1 - 1 = Len(argv) /\ SubSeq(argv, 1, Len(argv)) = argv
    BY <1>4
  <2>2. PICK n : n = Len(argv) + 1
    OBVIOUS
  <2>3. SubSeq(argv, 1, n - 1) = argv /\ KeepsAll(a, argv, n)
    BY <1>6, <2>1, <2>2
  <2>4. a \in Seq(Argument) /\ \A f \in {"-e", "--tag"} :
          Agree(Expanded(a, env), Expanded(SubSeq(argv, 1, n - 1), env), f)
    BY <1>1, <2>3 DEF KeepsAll
  <2> QED BY <2>3, <2>4
<1>8. ASSUME NEW f \in {"-e", "--tag"}, NEW m, Delivers(argv, env, f, m) PROVE Delivers(a, env, f, m)
  BY <1>7, <1>8 DEF Delivers, Sets, Agree
<1>9. Delivers(a, env, "-e", Environment(d)) /\ Delivers(a, env, "--tag", Tags(d))
  BY <1>4, <1>8
<1>10. Delivers(ArchiveHead \o e \o ArchiveFile \o a, env, "-e", Over(Environment(d), env))
  <2>1. Delivers(ArchiveHead \o e, env, "-e", env)
    BY <1>1, <1>2, <1>3, DeliversMore
  <2>2. Delivers(ArchiveHead \o e \o ArchiveFile, env, "-e", env)
    BY <1>1, <1>3, <2>1, DeliversMore
  <2> QED BY <1>1, <1>9, <2>2, DeliversConcat
<1>11. Delivers(ArchiveHead \o e \o ArchiveFile \o a, env, "--tag", Tags(d))
  <2>1. Passes(ArchiveHead \o e, env, "--tag")
    BY <1>1, <1>2, <1>3, DeliversMore
  <2>2. Passes(ArchiveHead \o e \o ArchiveFile, env, "--tag")
    BY <1>1, <1>3, <2>1, DeliversMore
  <2> QED BY <1>1, <1>9, <2>2, DeliversMore
<1> QED
  BY <1>5, <1>10, <1>11

(***************************************************************************)
(* What the user and the operator have set reaches k6.                     *)
(***************************************************************************)

(* What a set map gives k6.                                                 *)
LEMMA SetsEffective ==
  ASSUME NEW a, NEW f, NEW m, Sets(a, f, m)
  PROVE  /\ \A key \in DOMAIN m : Effective(a, f, key) = m[key]
         /\ \A key : key \notin DOMAIN m => Effective(a, f, key) = Unset
  BY NoneUnset DEF Sets

(* The -e pairs of a PLZ command: the user's variables, the operator's.     *)
LEMMA VariablesReach ==
  ASSUME NEW d \in CloudData, NEW args, NEW m, Sets(args, "-e", m),
         \A k \in DOMAIN Environment(d) : k \in DOMAIN m /\ m[k] = Environment(d)[k]
  PROVE  /\ \A k \in DOMAIN d.env \ Reserved : Effective(args, "-e", k) = d.env[k]
         /\ Effective(args, "-e", "K6_CLOUDRUN_LOAD_ZONE") = LZName
         /\ Effective(args, "-e", "K6_CLOUDRUN_DISTRIBUTION") = LZLabel
         /\ Effective(args, "-e", "K6_CLOUDRUN_TEST_RUN_ID") = TestRunIDText
<1>1. \A k \in DOMAIN Environment(d) : Effective(args, "-e", k) = Environment(d)[k]
  BY SetsEffective
<1> QED
  BY <1>1, EnvironmentMap

(* The --tag pairs.                                                         *)
LEMMA TagsReach ==
  ASSUME NEW d \in CloudData, NEW args, NEW m, Sets(args, "--tag", m),
         \A k : k \notin {"instance_id", "testrun_name"} =>
           (k \in DOMAIN m <=> k \in DOMAIN Tags(d)) /\ (k \in DOMAIN m => m[k] = Tags(d)[k])
  PROVE  /\ \A k \in DOMAIN d.tags \ ReservedTags :
              Effective(args, "--tag", k) = IF d.tags[k] = <<>> THEN Unset ELSE d.tags[k]
         /\ Effective(args, "--tag", "load_zone") = LZName
<1>1. ASSUME NEW k, k \notin {"instance_id", "testrun_name"}
      PROVE  /\ k \in DOMAIN Tags(d) => Effective(args, "--tag", k) = Tags(d)[k]
             /\ k \notin DOMAIN Tags(d) => Effective(args, "--tag", k) = Unset
  BY <1>1, SetsEffective
<1>2. ASSUME NEW k \in DOMAIN d.tags \ ReservedTags
      PROVE  Effective(args, "--tag", k) = IF d.tags[k] = <<>> THEN Unset ELSE d.tags[k]
  <2>1. k \notin {"instance_id", "testrun_name"}
    BY DEF ReservedTags
  <2>2. /\ d.tags[k] = <<>> => k \notin DOMAIN Tags(d)
        /\ d.tags[k] # <<>> => k \in DOMAIN Tags(d) /\ Tags(d)[k] = d.tags[k]
    BY TagsMap
  <2> QED BY <1>1, <2>1, <2>2
<1>3. Effective(args, "--tag", "load_zone") = LZName
  BY <1>1, TagsMap
<1> QED
  BY <1>2, <1>3

(* What k6 is given in a runner of a PLZ test run,                         *)
LEMMA RunnerReach ==
  ASSUME OriginInv, CommandsInv, trd.plz, NEW r \in DOMAIN runners
  PROVE  /\ trd \in CloudData
         /\ \A k \in DOMAIN trd.env \ Reserved : Effective(Delivered(runners[r]), "-e", k) = trd.env[k]
         /\ \A k \in DOMAIN trd.tags \ ReservedTags :
              Effective(Delivered(runners[r]), "--tag", k) = IF trd.tags[k] = <<>> THEN Unset ELSE trd.tags[k]
         /\ trd.userAgent # <<>> => EnvMap(runners[r].env).K6_USER_AGENT = trd.userAgent
         /\ Effective(Delivered(runners[r]), "-e", "K6_CLOUDRUN_LOAD_ZONE") = LZName
         /\ Effective(Delivered(runners[r]), "-e", "K6_CLOUDRUN_DISTRIBUTION") = LZLabel
         /\ Effective(Delivered(runners[r]), "-e", "K6_CLOUDRUN_TEST_RUN_ID") = TestRunIDText
         /\ Effective(Delivered(runners[r]), "-e", "K6_CLOUDRUN_INSTANCE_ID") = <<ToString(r)>>
         /\ Effective(Delivered(runners[r]), "--tag", "load_zone") = LZName
<1> DEFINE d == trd
           w == ToString(r)
           env == EnvMap(RunnerEnv(d))
           a == RunnerArgs(plzk6Args(d), <<w>>)
           x == Delivered(runners[r])
           V == InstanceEnvironment(d, <<w>>)
           T == InstanceTags(d, <<w>>)
<1>1. d \in CloudData /\ w \in Name /\ runners[r].env = RunnerEnv(d) /\ x = Expanded(a, env)
  BY PLZRunner
<1>2. IsEnvironment(env) /\ (d.userAgent # <<>> => env["K6_USER_AGENT"] = d.userAgent)
  BY <1>1, RunnerEnvFacts
<1>3. Delivers(a, env, "-e", V) /\ Delivers(a, env, "--tag", T)
  BY <1>1, <1>2, RunnerArgsDeliver
<1>4. Sets(x, "-e", V) /\ Sets(x, "--tag", T)
  BY <1>1, <1>3 DEF Delivers
<1> DEFINE E == [y \in {"K6_CLOUDRUN_INSTANCE_ID"} |-> <<w>>]
           P == [y \in {"instance_id"} |-> <<w>>]
           N == [y \in {"testrun_name"} |-> <<"name">>]
<1>5. V = Over(E, Environment(d)) /\ T = Over(N, Over(P, Tags(d)))
  BY DEF InstanceEnvironment, InstanceTags
<1>6. /\ DOMAIN E = {"K6_CLOUDRUN_INSTANCE_ID"} /\ E["K6_CLOUDRUN_INSTANCE_ID"] = <<w>>
      /\ DOMAIN P = {"instance_id"} /\ DOMAIN N = {"testrun_name"}
  OBVIOUS
<1> HIDE DEF d, w, env, a, x, V, T, E, P, N
<1>7. "K6_CLOUDRUN_INSTANCE_ID" \notin DOMAIN Environment(d)
  BY <1>1, EnvironmentMap
<1>8. /\ \A k \in DOMAIN Environment(d) : k \in DOMAIN V /\ V[k] = Environment(d)[k]
      /\ "K6_CLOUDRUN_INSTANCE_ID" \in DOMAIN V /\ V["K6_CLOUDRUN_INSTANCE_ID"] = <<w>>
  BY <1>5, <1>6, <1>7 DEF Over
<1>9. \A k : k \notin {"instance_id", "testrun_name"} =>
           (k \in DOMAIN T <=> k \in DOMAIN Tags(d)) /\ (k \in DOMAIN T => T[k] = Tags(d)[k])
  <2>1. PICK O : O = Over(P, Tags(d))
    OBVIOUS
  <2>2. /\ DOMAIN O = {"instance_id"} \cup DOMAIN Tags(d)
        /\ \A k \in DOMAIN Tags(d) \ {"instance_id"} : O[k] = Tags(d)[k]
    BY <1>6, <2>1 DEF Over
  <2>3. T = Over(N, O)
    BY <1>5, <2>1
  <2>4. /\ DOMAIN T = {"testrun_name"} \cup DOMAIN O
        /\ \A k \in DOMAIN O \ {"testrun_name"} : T[k] = O[k]
    BY <1>6, <2>3 DEF Over
  <2> QED BY <2>2, <2>4
<1>10. /\ \A k \in DOMAIN d.env \ Reserved : Effective(x, "-e", k) = d.env[k]
       /\ Effective(x, "-e", "K6_CLOUDRUN_LOAD_ZONE") = LZName
       /\ Effective(x, "-e", "K6_CLOUDRUN_DISTRIBUTION") = LZLabel
       /\ Effective(x, "-e", "K6_CLOUDRUN_TEST_RUN_ID") = TestRunIDText
  BY <1>1, <1>4, <1>8, VariablesReach
<1>11. Effective(x, "-e", "K6_CLOUDRUN_INSTANCE_ID") = <<w>>
  BY <1>4, <1>8, SetsEffective
<1>12. /\ \A k \in DOMAIN d.tags \ ReservedTags :
            Effective(x, "--tag", k) = IF d.tags[k] = <<>> THEN Unset ELSE d.tags[k]
       /\ Effective(x, "--tag", "load_zone") = LZName
  BY <1>1, <1>4, <1>9, TagsReach
<1>13. d.userAgent # <<>> => EnvMap(runners[r].env).K6_USER_AGENT = d.userAgent
  BY <1>1, <1>2 DEF env
<1> QED
  BY <1>1, <1>10, <1>11, <1>12, <1>13 DEF d, x, w

(* and in its initializer.                                                 *)
LEMMA ArchiveReach ==
  ASSUME OriginInv, LoopInv, CommandsInv, AgreeInv, trd.plz, Made(archive)
  PROVE  /\ trd \in CloudData
         /\ \A k \in DOMAIN trd.env \ Reserved : Effective(Delivered(archive), "-e", k) = trd.env[k]
         /\ \A k \in DOMAIN trd.tags \ ReservedTags :
              Effective(Delivered(archive), "--tag", k) = IF trd.tags[k] = <<>> THEN Unset ELSE trd.tags[k]
         /\ trd.userAgent # <<>> /\ "K6_USER_AGENT" \notin DOMAIN trd.env =>
              Effective(Delivered(archive), "-e", "K6_USER_AGENT") = trd.userAgent
         /\ Effective(Delivered(archive), "-e", "K6_CLOUDRUN_LOAD_ZONE") = LZName
         /\ Effective(Delivered(archive), "-e", "K6_CLOUDRUN_DISTRIBUTION") = LZLabel
         /\ Effective(Delivered(archive), "-e", "K6_CLOUDRUN_TEST_RUN_ID") = TestRunIDText
         /\ Effective(Delivered(archive), "-e", "K6_CLOUDRUN_INSTANCE_ID") = Unset
         /\ Effective(Delivered(archive), "--tag", "load_zone") = LZName
<1> DEFINE d == trd
           env == EnvMap(RunnerEnvVars(d))
           b == cli.ArchiveArgs
           a == ArchiveArgs(d, b)
           x == Delivered(archive)
           V == Over(Environment(d), env)
<1>1. d \in CloudData /\ x = Expanded(a, env) /\ KeepsAll(b, plzk6Args(d), Len(plzk6Args(d)) + 1)
  BY PLZArchive
<1>2. /\ DOMAIN env \subseteq {"K6_USER_AGENT"} \cup OwnVars
      /\ d.userAgent # <<>> => "K6_USER_AGENT" \in DOMAIN env /\ env["K6_USER_AGENT"] = d.userAgent
  BY <1>1, ArchiveEnvFacts
<1>3. Delivers(a, env, "-e", V) /\ Delivers(a, env, "--tag", Tags(d))
  BY <1>1, ArchiveArgsDeliver
<1>4. Sets(x, "-e", V) /\ Sets(x, "--tag", Tags(d))
  BY <1>1, <1>3 DEF Delivers
<1>5. /\ DOMAIN V = DOMAIN Environment(d) \cup DOMAIN env
      /\ \A k \in DOMAIN Environment(d) : V[k] = Environment(d)[k]
      /\ \A k \in DOMAIN env \ DOMAIN Environment(d) : V[k] = env[k]
  BY DEF Over
<1> HIDE DEF d, env, b, a, x, V
<1>6. "K6_CLOUDRUN_INSTANCE_ID" \notin DOMAIN V
  <2>1. "K6_CLOUDRUN_INSTANCE_ID" \notin DOMAIN Environment(d)
    BY <1>1, EnvironmentMap
  <2> QED BY <1>2, <1>5, <2>1 DEF OwnVars
<1>7. /\ \A k \in DOMAIN d.env \ Reserved : Effective(x, "-e", k) = d.env[k]
      /\ Effective(x, "-e", "K6_CLOUDRUN_LOAD_ZONE") = LZName
      /\ Effective(x, "-e", "K6_CLOUDRUN_DISTRIBUTION") = LZLabel
      /\ Effective(x, "-e", "K6_CLOUDRUN_TEST_RUN_ID") = TestRunIDText
  <2>1. \A k \in DOMAIN Environment(d) : k \in DOMAIN V /\ V[k] = Environment(d)[k]
    BY <1>5
  <2> QED BY <1>1, <1>4, <2>1, VariablesReach
<1>8. Effective(x, "-e", "K6_CLOUDRUN_INSTANCE_ID") = Unset
  BY <1>4, <1>6, SetsEffective
<1>9. /\ \A k \in DOMAIN d.tags \ ReservedTags :
           Effective(x, "--tag", k) = IF d.tags[k] = <<>> THEN Unset ELSE d.tags[k]
      /\ Effective(x, "--tag", "load_zone") = LZName
  BY <1>1, <1>4, TagsReach
<1>10. ASSUME d.userAgent # <<>>, "K6_USER_AGENT" \notin DOMAIN d.env
       PROVE  Effective(x, "-e", "K6_USER_AGENT") = d.userAgent
  <2>1. \A k \in DOMAIN Environment(d) : k \in Reserved \/ k \in DOMAIN d.env
    BY <1>1, EnvironmentMap
  <2>2. "K6_USER_AGENT" \notin DOMAIN Environment(d)
    BY <1>10, <2>1 DEF Reserved
  <2>3. "K6_USER_AGENT" \in DOMAIN V /\ V["K6_USER_AGENT"] = d.userAgent
    BY <1>2, <1>5, <1>10, <2>2
  <2> QED BY <1>4, <2>3, SetsEffective
<1> QED
  BY <1>1, <1>7, <1>8, <1>9, <1>10 DEF d, x

(* All the invariants of the invocation.                                   *)
LEMMA Invocation == Spec => [](OriginInv /\ LoopInv /\ CommandsInv /\ AgreeInv)
  BY Commands, Agreement, PTL

(* What the user of a PLZ test run has set in the k6 Cloud reaches k6 as it *)
(* was set, in the initializer and in every runner: escapeKubeExpansion and *)
(* the kubelet's expansion cancel out for every text, and ParseCLI keeps    *)
(* every variable and tag for the archive.                                  *)
THEOREM UserValuesReach == Spec => []UserValuesIntact
<1>1. OriginInv /\ LoopInv /\ CommandsInv /\ AgreeInv => UserValuesIntact
  <2> SUFFICES ASSUME OriginInv, LoopInv, CommandsInv, AgreeInv, trd.plz
               PROVE  UserValuesIntact
    BY DEF UserValuesIntact
  <2>1. ASSUME NEW r \in DOMAIN runners
        PROVE  /\ \A k \in DOMAIN trd.env \ Reserved : Effective(Delivered(runners[r]), "-e", k) = trd.env[k]
               /\ \A k \in DOMAIN trd.tags \ ReservedTags :
                    Effective(Delivered(runners[r]), "--tag", k) = IF trd.tags[k] = <<>> THEN Unset ELSE trd.tags[k]
               /\ trd.userAgent # <<>> => EnvMap(runners[r].env).K6_USER_AGENT = trd.userAgent
    BY RunnerReach
  <2>2. ASSUME Made(archive)
        PROVE  /\ \A k \in DOMAIN trd.env \ Reserved : Effective(Delivered(archive), "-e", k) = trd.env[k]
               /\ \A k \in DOMAIN trd.tags \ ReservedTags :
                    Effective(Delivered(archive), "--tag", k) = IF trd.tags[k] = <<>> THEN Unset ELSE trd.tags[k]
               /\ trd.userAgent # <<>> /\ "K6_USER_AGENT" \notin DOMAIN trd.env =>
                    Effective(Delivered(archive), "-e", "K6_USER_AGENT") = trd.userAgent
    BY <2>2, ArchiveReach
  <2> QED
    BY <2>1, <2>2 DEF UserValuesIntact
<1> QED
  BY <1>1, Invocation, PTL

(* The variables that describe a cloud test have the operator's values,     *)
(* whatever the user has set, and every runner has its own instance ID.     *)
THEOREM ReservedReach == Spec => []ReservedValues
<1>1. OriginInv /\ LoopInv /\ CommandsInv /\ AgreeInv => ReservedValues
  <2> SUFFICES ASSUME OriginInv, LoopInv, CommandsInv, AgreeInv, trd.plz
               PROVE  ReservedValues
    BY DEF ReservedValues
  <2>1. ASSUME NEW r \in DOMAIN runners
        PROVE  /\ Effective(Delivered(runners[r]), "-e", "K6_CLOUDRUN_LOAD_ZONE") = LZName
               /\ Effective(Delivered(runners[r]), "-e", "K6_CLOUDRUN_DISTRIBUTION") = LZLabel
               /\ Effective(Delivered(runners[r]), "-e", "K6_CLOUDRUN_TEST_RUN_ID") = TestRunIDText
               /\ Effective(Delivered(runners[r]), "-e", "K6_CLOUDRUN_INSTANCE_ID") = <<ToString(r)>>
               /\ Effective(Delivered(runners[r]), "--tag", "load_zone") = LZName
    BY RunnerReach
  <2>2. ASSUME Made(archive)
        PROVE  /\ Effective(Delivered(archive), "-e", "K6_CLOUDRUN_LOAD_ZONE") = LZName
               /\ Effective(Delivered(archive), "-e", "K6_CLOUDRUN_DISTRIBUTION") = LZLabel
               /\ Effective(Delivered(archive), "-e", "K6_CLOUDRUN_TEST_RUN_ID") = TestRunIDText
               /\ Effective(Delivered(archive), "-e", "K6_CLOUDRUN_INSTANCE_ID") = Unset
               /\ Effective(Delivered(archive), "--tag", "load_zone") = LZName
    BY <2>2, ArchiveReach
  <2> QED
    BY <2>1, <2>2 DEF ReservedValues
<1> QED
  BY <1>1, Invocation, PTL

(***************************************************************************)
(* The cloud token.                                                        *)
(***************************************************************************)

(* No text has the cloud token; the log output, and nothing else, has it.   *)
NoToken(x)   == x \in Seq(Argument) /\ \A k \in 1 .. Len(x) : "token" \notin ToSet(x[k].text)
(* The token is in the log output and nowhere else; there is a log output. *)
TokenLogs(x) ==
  /\ x \in Seq(Argument)
  /\ \A k \in 1 .. Len(x) : "token" \in ToSet(x[k].text) <=> x[k].flag = "--log-output"
HasLog(x)    == \E k \in 1 .. Len(x) : x[k].flag = "--log-output"

(* The same of a concatenation.                                            *)
LEMMA TokenConcat ==
  ASSUME NEW a, NEW b
  PROVE  /\ NoToken(a) /\ NoToken(b) => NoToken(a \o b)
         /\ TokenLogs(a) /\ TokenLogs(b) => TokenLogs(a \o b)
         /\ a \in Seq(Argument) /\ b \in Seq(Argument) /\ (HasLog(a) \/ HasLog(b)) => HasLog(a \o b)
<1> SUFFICES ASSUME a \in Seq(Argument), b \in Seq(Argument)
             PROVE  /\ NoToken(a) /\ NoToken(b) => NoToken(a \o b)
                    /\ TokenLogs(a) /\ TokenLogs(b) => TokenLogs(a \o b)
                    /\ HasLog(a) \/ HasLog(b) => HasLog(a \o b)
  BY DEF NoToken, TokenLogs
<1>1. PICK c : c = a \o b
  OBVIOUS
<1>2. /\ c \in Seq(Argument) /\ Len(a) \in Nat /\ Len(b) \in Nat /\ Len(c) = Len(a) + Len(b)
      /\ \A k \in 1 .. Len(a) : c[k] = a[k]
      /\ \A k \in 1 .. Len(b) : c[Len(a) + k] = b[k]
  BY ONLY <1>1, a \in Seq(Argument), b \in Seq(Argument), ConcatParts
<1>3. ASSUME NEW k \in 1 .. Len(c)
      PROVE  (\E m \in 1 .. Len(a) : c[k] = a[m]) \/ (\E m \in 1 .. Len(b) : c[k] = b[m])
  <2>1. CASE k \in 1 .. Len(a)
    BY <1>2, <2>1
  <2>2. CASE ~(k \in 1 .. Len(a))
    <3>1. PICK m \in 1 .. Len(b) : k = Len(a) + m
      <4>1. k - Len(a) \in 1 .. Len(b) /\ k = Len(a) + (k - Len(a))
        BY <1>2, <2>2
      <4> QED BY <4>1
    <3> QED BY <1>2, <3>1
  <2> QED BY <2>1, <2>2
<1>4. NoToken(a) /\ NoToken(b) => NoToken(c)
  BY <1>2, <1>3 DEF NoToken
<1>5. TokenLogs(a) /\ TokenLogs(b) => TokenLogs(c)
  <2> DEFINE ok(arg) == "token" \in ToSet(arg.text) <=> arg.flag = "--log-output"
  <2> HIDE DEF ok
  <2>1. \A x : TokenLogs(x) <=> x \in Seq(Argument) /\ \A k \in 1 .. Len(x) : ok(x[k])
    BY Zenon DEF TokenLogs, ok
  <2> QED BY <1>2, <1>3, <2>1
<1>6. HasLog(a) => HasLog(c)
  <2>1. \A k \in 1 .. Len(a) : k \in 1 .. Len(c)
    BY <1>2
  <2> QED BY <1>2, <2>1 DEF HasLog
<1>7. HasLog(b) => HasLog(c)
  <2>1. \A k \in 1 .. Len(b) : Len(a) + k \in 1 .. Len(c)
    BY <1>2
  <2> QED BY <1>2, <2>1 DEF HasLog
<1> QED
  BY <1>1, <1>4, <1>5, <1>6, <1>7

(* Arguments with neither the token nor a log output.                      *)
LEMMA QuietLogs ==
  ASSUME NEW x, NoToken(x), NoFlag(x, "--log-output")
  PROVE  TokenLogs(x)
  BY DEF NoToken, NoFlag, TokenLogs

(* Without the token in the environment, expansion does not bring it.       *)
LEMMA ExpandedNoToken ==
  ASSUME NEW a, NoToken(a), NEW env, IsEnvironment(env), \A x \in DOMAIN env : "token" \notin ToSet(env[x])
  PROVE  NoToken(Expanded(a, env))
<1> DEFINE S == Piece \ {"token"}
<1>1. a \in Seq(Argument) /\ Len(a) \in Nat
  BY DEF NoToken
<1>2. /\ Expanded(a, env) \in Seq(Argument) /\ Len(Expanded(a, env)) = Len(a)
      /\ \A k \in 1 .. Len(a) : Expanded(a, env)[k].text = Expand(a[k].text, env)
  BY <1>1, ExpandedTyped
<1>3. "$" \in S
  BY ONLY WordsAssumption DEF Special
<1>4. \A x \in DOMAIN env : env[x] \in Seq(S)
  <2>1. \A x \in DOMAIN env : env[x] \in Seq(Piece) /\ "token" \notin ToSet(env[x])
    BY DEF IsEnvironment, Text
  <2> QED BY <2>1 DEF ToSet
<1>5. ASSUME NEW k \in 1 .. Len(a) PROVE "token" \notin ToSet(Expand(a[k].text, env))
  <2>1. a[k].text \in Text /\ "token" \notin ToSet(a[k].text)
    BY <1>1, ArgumentAt DEF NoToken
  <2>2. a[k].text \in Seq(S)
    BY <2>1 DEF ToSet, Text
  <2>3. Expand(a[k].text, env) \in Seq(S)
    <3> HIDE DEF S
    <3> QED BY <1>3, <1>4, <2>1, <2>2, ExpandPieces
  <2> QED BY <2>3 DEF ToSet
<1> QED
  BY <1>2, <1>5 DEF NoToken

(* The operator's own arguments have no token, before and after the        *)
(* expansion.                                                              *)
LEMMA OwnNoToken ==
  ASSUME NEW a, AllOwn(a), NEW env, IsEnvironment(env)
  PROVE  NoToken(a) /\ TokenLogs(Expanded(a, env))
<1>1. NoToken(a) /\ NoFlag(a, "--log-output") /\ AllPlain(a) /\ a \in Seq(Argument)
  BY DEF AllOwn, Own, NoToken, NoFlag, AllPlain
<1>2. Expanded(a, env) = a
  BY <1>1, ExpandedPlain
<1> QED
  BY <1>1, <1>2, QuietLogs

(* Pairs whose texts have no token.                                         *)
LEMMA PairsNoToken ==
  ASSUME NEW flag \in {"-e", "--tag"}, NEW P, P \subseteq KeyTexts, NEW a, PairList(a, flag, P),
         \A x \in P : "token" \notin ToSet(x[2])
  PROVE  NoToken(a) /\ TokenLogs(a)
<1>1. a \in Seq(Argument) /\ Len(a) \in Nat /\ flag \in FlagName
  BY WordsAssumption DEF PairList
<1>2. ASSUME NEW x \in P
      PROVE  KeyValue(x[1], x[2]).flag = "none" /\ "token" \notin ToSet(KeyValue(x[1], x[2]).text)
  <2>1. x[1] \in Name /\ x[2] \in Text
    BY DEF KeyTexts
  <2>2. PICK u : u = KeyValue(x[1], x[2]).text
    OBVIOUS
  <2>3. PICK t : t = x[2]
    OBVIOUS
  <2>4. KeyText(u, x[1], t) /\ KeyValue(x[1], x[2]).flag = "none"
    BY <2>1, <2>2, <2>3, KeyValueTyped
  <2>5. x[1] # "token"
    BY <2>1 DEF Name
  <2>6. ASSUME NEW k \in 1 .. Len(u) PROVE u[k] # "token"
    <3>1. CASE k = 1
      BY <2>4, <2>5, <3>1 DEF KeyText
    <3>2. CASE k = 2
      BY <2>4, <3>2 DEF KeyText
    <3>3. CASE k > 2
      <4>1. PICK q \in 1 .. Len(t) : k = q + 2
        <5>1. k - 2 \in 1 .. Len(t) /\ k = (k - 2) + 2
          BY <2>4, <3>3 DEF KeyText
        <5> QED BY <5>1
      <4>2. u[q + 2] = t[q]
        BY <2>4 DEF KeyText
      <4>3. t[q] # "token"
        <5>1. t \in Seq(Piece) /\ "token" \notin ToSet(t)
          BY <2>3, <2>4 DEF KeyText
        <5> QED BY <5>1 DEF ToSet
      <4> QED BY <4>1, <4>2, <4>3
    <3>4. k \in Nat
      OBVIOUS
    <3> QED BY <3>1, <3>2, <3>3, <3>4
  <2>7. u \in Seq(Piece)
    BY <2>4 DEF KeyText
  <2>8. "token" \notin ToSet(u)
    BY <2>6, <2>7 DEF ToSet
  <2> QED BY <2>2, <2>4, <2>8
<1>3. Flag(flag).flag = flag /\ "token" \notin ToSet(Flag(flag).text)
  BY DEF Flag, ToSet
<1>4. ASSUME NEW k \in 1 .. Len(a) PROVE "token" \notin ToSet(a[k].text) /\ a[k].flag # "--log-output"
  <2>1. PICK p \in 1 .. Len(a) - 1 : (k = p \/ k = p + 1) /\ \E x \in P : PairAt(a, p, flag, x)
    BY DEF PairList
  <2>2. PICK x \in P : PairAt(a, p, flag, x)
    BY <2>1
  <2>3. a[k] = Flag(flag) \/ a[k] = KeyValue(x[1], x[2])
    BY <2>1, <2>2 DEF PairAt
  <2> QED BY <1>2, <1>3, <2>3
<1>5. NoToken(a) /\ NoFlag(a, "--log-output")
  BY <1>1, <1>4 DEF NoToken, NoFlag
<1> QED
  BY <1>5, QuietLogs

(* The log output of a runner has the token.                                *)
LEMMA LogTextExpand ==
  ASSUME NEW env, "K6_CLOUD_TOKEN" \in DOMAIN env, env["K6_CLOUD_TOKEN"] = <<"token">>
  PROVE  "token" \in ToSet(Expand(<<"loki">> \o TokenRef, env)) /\ "token" \notin ToSet(<<"loki">> \o TokenRef)
<1>1. "K6_CLOUD_TOKEN" \in Name /\ "loki" \in Piece /\ "token" \in Piece
  BY ONLY WordsAssumption DEF Special, Name
<1>2. PICK r : r = KubeRef("K6_CLOUD_TOKEN")
  OBVIOUS
<1>3. r \in Seq(Piece) /\ Len(r) = 4 /\ r[1] = "$" /\ r[2] = "(" /\ r[3] = "K6_CLOUD_TOKEN" /\ r[4] = ")"
  BY <1>1, <1>2, KubeRefText DEF Text
<1>4. r = TokenRef
  BY <1>2 DEF KubeRef, TokenRef
<1>5. PICK u : u = <<"loki">> \o r
  OBVIOUS
<1>6. u \in Seq(Piece) /\ Len(u) = Len(r) + 1 /\ u[1] = "loki" /\ \A k \in 1 .. Len(r) : u[k + 1] = r[k]
  <2>1. r \in Seq(Piece)
    BY <1>3
  <2> QED BY <1>1, <1>5, <2>1
<1>7. Len(u) = 5 /\ u[1 + 1] = "$" /\ u[2 + 1] = "(" /\ u[3 + 1] = "K6_CLOUD_TOKEN" /\ u[4 + 1] = ")"
  <2>1. 1 \in 1 .. Len(r) /\ 2 \in 1 .. Len(r) /\ 3 \in 1 .. Len(r) /\ 4 \in 1 .. Len(r)
    BY <1>3
  <2> QED BY <1>3, <1>6, <2>1
<1>8. RefEnds(u, 2, "K6_CLOUD_TOKEN")
  BY <1>7 DEF RefEnds
<1>9. u \in Text
  BY <1>6 DEF Text
<1>10. PICK f : /\ Expand(u, env) = f[1]
                /\ \A p \in 1 .. Len(u) + 2 : f[p] = ExpandStep(u, env, f, p)
  BY <1>9, ExpandIs
<1>11. f[2] = <<"token">>
  <2>1. env["K6_CLOUD_TOKEN"] \in Text
    BY <1>1, WordTyped
  <2> QED BY <1>1, <1>8, <1>9, <1>10, <2>1, ExpandReference
<1>12. f[1] = <<"loki">> \o f[2]
  <2>1. 1 \in 1 .. Len(u) + 2 /\ ~(1 > Len(u)) /\ u[1] # "$" /\ 1 + 1 = 2
    BY <1>6, <1>7
  <2>2. f[1] = ExpandStep(u, env, f, 1)
    BY <1>10, <2>1
  <2>3. ExpandStep(u, env, f, 1) = <<u[1]>> \o f[1 + 1]
    BY <2>1, Zenon DEF ExpandStep
  <2> QED BY <1>6, <2>1, <2>2, <2>3
<1>13. PICK v : v = <<"loki">> \o <<"token">>
  OBVIOUS
<1>14. v \in Seq(Piece) /\ Len(v) = 2 /\ v[2] = "token"
  BY <1>1, <1>13
<1>15. "token" \in ToSet(v)
  BY <1>14 DEF ToSet
<1>16. "token" \notin ToSet(u)
  <2>1. \A k \in 1 .. 5 : k = 1 \/ k = 1 + 1 \/ k = 2 + 1 \/ k = 3 + 1 \/ k = 4 + 1
    OBVIOUS
  <2>2. \A k \in 1 .. Len(u) : u[k] # "token"
    BY <1>6, <1>7, <2>1
  <2> QED BY <1>6, <2>2 DEF ToSet
<1> QED
  BY <1>4, <1>5, <1>10, <1>11, <1>12, <1>13, <1>15, <1>16

(* After the expansion, the token is in the log output only.               *)
Logs(a, env) == a \in Seq(Argument) /\ TokenLogs(Expanded(a, env))

(* The same of a concatenation,                                            *)
LEMMA LogsConcat ==
  ASSUME NEW a, NEW b, NEW env, IsEnvironment(env), Logs(a, env), Logs(b, env)
  PROVE  Logs(a \o b, env)
<1>1. a \in Seq(Argument) /\ b \in Seq(Argument)
  BY DEF Logs
<1>2. a \o b \in Seq(Argument)
  BY <1>1, ConcatProperties
<1>3. Expanded(a \o b, env) = Expanded(a, env) \o Expanded(b, env)
  BY <1>1, ExpandedConcat
<1> QED
  BY <1>2, <1>3, TokenConcat DEF Logs

(* and of the operator's own arguments.                                    *)
LEMMA OwnLogs ==
  ASSUME NEW a, AllOwn(a), NEW env, IsEnvironment(env)
  PROVE  Logs(a, env)
  BY OwnNoToken DEF Logs, AllOwn

(* A list of one of them.                                                  *)
LEMMA OwnOne ==
  ASSUME NEW a, Own(a)
  PROVE  AllOwn(<<a>>)
<1>1. a \in Argument
  BY DEF Own
<1>2. <<a>> \in Seq(Argument) /\ Len(<<a>>) = 1 /\ <<a>>[1] = a
  BY <1>1
<1> QED
  BY <1>2 DEF AllOwn

(* The parts of a PLZ test run's arguments that are the operator's own.    *)
LEMMA PLZOwn ==
  ASSUME NEW d
  PROVE  AllOwn(OutArgs) /\ AllOwn(SystemArgs(d)) /\ AllOwn(QuietArgs(d))
<1>1. AllOwn(OutArgs)
  BY OwnPair, OwnFlag, OwnWord DEF OutArgs
<1>2. AllOwn(SystemArgs(d))
  <2>1. PICK w \in {"true", "false"} : w = IF d.systemEnv THEN "true" ELSE "false"
    OBVIOUS
  <2>2. SystemArgs(d) = <<FlagWith("--include-system-env-vars", <<w>>)>>
    BY <2>1 DEF SystemArgs
  <2>3. Own(FlagWith("--include-system-env-vars", <<w>>))
    BY OwnFlagWith
  <2> QED BY <2>2, <2>3, OwnOne
<1>3. AllOwn(QuietArgs(d))
  <2>1. AllOwn(<<>>)
    BY DEF AllOwn
  <2>2. AllOwn(<<Flag("--verbose"), FlagWith("--summary-mode", <<"disabled">>)>>)
    BY OwnPair, OwnFlag, OwnFlagWith
  <2> QED BY <2>1, <2>2 DEF QuietArgs, Given
<1> QED
  BY <1>1, <1>2, <1>3

(* The pairs of a PLZ test run, before and after the expansion.             *)
LEMMA PairsLogs ==
  ASSUME NEW flag \in {"-e", "--tag"}, NEW m, IsMap(m), NEW env, IsEnvironment(env)
  PROVE  NoToken(Pairs(flag, m)) /\ Logs(Pairs(flag, m), env)
<1>1. /\ flag \in FlagName /\ flag # "none" /\ DOMAIN m \subseteq ToSet(SortedKeys)
      /\ \A k \in DOMAIN m : m[k] \in Text /\ "token" \notin ToSet(m[k])
  BY WordsAssumption DEF IsMap
<1>2. PairList(Pairs(flag, m), flag, EscapedPairs(m)) /\ EscapedPairs(m) \subseteq KeyTexts
  BY <1>1, PairsList
<1>3. /\ PairList(Expanded(Pairs(flag, m), env), flag, MapPairs(m))
      /\ Pairs(flag, m) \in Seq(Argument)
      /\ MapPairs(m) \subseteq KeyTexts
  BY <1>1, PairsExpanded
<1>4. \A z \in EscapedPairs(m) : "token" \notin ToSet(z[2])
  <2>1. \A k \in DOMAIN m : "token" \notin ToSet(escapeKubeExpansion(m[k]))
    BY <1>1, EscapedPieces
  <2> QED BY <2>1 DEF EscapedPairs
<1>5. \A z \in MapPairs(m) : "token" \notin ToSet(z[2])
  BY <1>1 DEF MapPairs
<1>6. NoToken(Pairs(flag, m))
  BY <1>2, <1>4, PairsNoToken
<1>7. TokenLogs(Expanded(Pairs(flag, m), env))
  BY <1>3, <1>5, PairsNoToken
<1> QED
  BY <1>3, <1>6, <1>7 DEF Logs

(* The log output itself: before the expansion it has a reference, after   *)
(* it the token.                                                           *)
LEMMA LogArgsLogs ==
  ASSUME NEW env, IsEnvironment(env), "K6_CLOUD_TOKEN" \in DOMAIN env, env["K6_CLOUD_TOKEN"] = <<"token">>
  PROVE  NoToken(LogArgs) /\ HasLog(LogArgs) /\ Logs(LogArgs, env)
<1> DEFINE t == <<"loki">> \o TokenRef
<1>1. /\ LogArgs \in Seq(Argument) /\ Len(LogArgs) = 2
      /\ LogArgs[1] = Flag("--no-thresholds") /\ LogArgs[2] = FlagWith("--log-output", t)
  BY LogArgsFacts
<1>2. t \in Text /\ "token" \in ToSet(Expand(t, env)) /\ "token" \notin ToSet(t)
  BY LogText, LogTextExpand
<1> HIDE DEF t
<1>3. /\ LogArgs[1].flag = "--no-thresholds" /\ LogArgs[1].text = <<>>
      /\ LogArgs[2].flag = "--log-output" /\ LogArgs[2].text = t
  BY <1>1 DEF Flag, FlagWith
<1>4. \A k \in 1 .. Len(LogArgs) : k = 1 \/ k = 2
  BY <1>1
<1>5. 1 \in 1 .. Len(LogArgs) /\ 2 \in 1 .. Len(LogArgs)
  BY <1>1
<1>6. "token" \notin ToSet(<<>>)
  BY DEF ToSet
<1>7. NoToken(LogArgs)
  BY <1>1, <1>2, <1>3, <1>4, <1>6 DEF NoToken
<1>8. HasLog(LogArgs)
  BY <1>3, <1>5 DEF HasLog
<1>9. Expand(<<>>, env) = <<>>
  <2>1. <<>> \in Text /\ \A m \in 1 .. Len(<<>>) : <<>>[m] # "$"
    BY DEF Text
  <2> QED BY <2>1, PlainExpand
<1>10. PICK x : x = Expanded(LogArgs, env)
  OBVIOUS
<1>11. /\ x \in Seq(Argument) /\ Len(x) = Len(LogArgs)
       /\ \A k \in 1 .. Len(LogArgs) : x[k].flag = LogArgs[k].flag /\ x[k].text = Expand(LogArgs[k].text, env)
  BY <1>1, <1>10, ExpandedTyped
<1>12. /\ x[1].flag = "--no-thresholds" /\ x[1].text = <<>>
       /\ x[2].flag = "--log-output" /\ x[2].text = Expand(t, env)
  BY <1>3, <1>5, <1>9, <1>11
<1>13. \A k \in 1 .. Len(x) : "token" \in ToSet(x[k].text) <=> x[k].flag = "--log-output"
  <2>1. "token" \in ToSet(x[1].text) <=> x[1].flag = "--log-output"
    BY <1>6, <1>12
  <2>2. "token" \in ToSet(x[2].text) <=> x[2].flag = "--log-output"
    BY <1>2, <1>12
  <2> QED BY <1>4, <1>11, <2>1, <2>2
<1>14. TokenLogs(x)
  BY <1>11, <1>13 DEF TokenLogs
<1> QED
  BY <1>1, <1>7, <1>8, <1>10, <1>14 DEF Logs

(* All the arguments of a PLZ test run.                                    *)
LEMMA PLZArgsLogs ==
  ASSUME NEW d \in CloudData, NEW env, IsEnvironment(env),
         "K6_CLOUD_TOKEN" \in DOMAIN env, env["K6_CLOUD_TOKEN"] = <<"token">>
  PROVE  NoToken(plzk6Args(d)) /\ HasLog(plzk6Args(d)) /\ Logs(plzk6Args(d), env)
<1> DEFINE x == Pairs("--tag", Tags(d))
           y == Pairs("-e", Environment(d))
           s == SystemArgs(d)
           q == QuietArgs(d)
<1>1. /\ NoToken(OutArgs) /\ Logs(OutArgs, env) /\ NoToken(s) /\ Logs(s, env) /\ NoToken(q) /\ Logs(q, env)
  BY PLZOwn, OwnLogs, OwnNoToken
<1>2. NoToken(x) /\ Logs(x, env) /\ NoToken(y) /\ Logs(y, env)
  BY TagsMap, EnvironmentMap, PairsLogs
<1>3. NoToken(LogArgs) /\ HasLog(LogArgs) /\ Logs(LogArgs, env)
  BY LogArgsLogs
<1>4. plzk6Args(d) = OutArgs \o x \o LogArgs \o y \o s \o q
  BY PLZParts
<1> HIDE DEF x, y, s, q
<1> DEFINE A == OutArgs \o x
           B == A \o LogArgs
           C == B \o y
           D == C \o s
           F == D \o q
<1>5. NoToken(A) /\ Logs(A, env)
  BY <1>1, <1>2, TokenConcat, LogsConcat
<1> HIDE DEF A
<1>6. NoToken(B) /\ Logs(B, env) /\ HasLog(B)
  BY <1>3, <1>5, TokenConcat, LogsConcat DEF NoToken
<1> HIDE DEF B
<1>7. NoToken(C) /\ Logs(C, env) /\ HasLog(C)
  BY <1>2, <1>6, TokenConcat, LogsConcat DEF NoToken
<1> HIDE DEF C
<1>8. NoToken(D) /\ Logs(D, env) /\ HasLog(D)
  BY <1>1, <1>7, TokenConcat, LogsConcat DEF NoToken
<1> HIDE DEF D
<1>9. NoToken(F) /\ Logs(F, env) /\ HasLog(F)
  BY <1>1, <1>8, TokenConcat, LogsConcat DEF NoToken
<1>10. plzk6Args(d) = F
  BY <1>4 DEF A, B, C, D
<1> HIDE DEF F
<1> QED
  BY <1>9, <1>10

(* One pair without a $.                                                   *)
LEMMA PlainPairLogs ==
  ASSUME NEW flag \in {"-e", "--tag"}, NEW key \in Name, NEW t \in Text, Plain(t), "token" \notin ToSet(t),
         NEW env, IsEnvironment(env)
  PROVE  Logs(Pair(flag, key, t), env)
<1> DEFINE a == Pair(flag, key, t)
           P == MapPairs([x \in {key} |-> t])
<1>1. flag \in FlagName /\ flag # "none"
  BY WordsAssumption
<1>2. a \in Seq(Argument) /\ Expanded(a, env) = a /\ PairList(a, flag, P) /\ P \subseteq KeyTexts
  BY <1>1, PlainPairExpanded
<1>3. \A z \in P : "token" \notin ToSet(z[2])
  BY DEF MapPairs
<1> HIDE DEF a, P
<1>4. Logs(a, env)
  BY <1>2, <1>3, PairsNoToken DEF Logs
<1> QED
  BY <1>4 DEF a

(* The whole command of a PLZ runner.                                      *)
LEMMA RunnerLogs ==
  ASSUME NEW d \in CloudData, NEW env, IsEnvironment(env), NEW w \in Name,
         "K6_CLOUD_TOKEN" \in DOMAIN env, env["K6_CLOUD_TOKEN"] = <<"token">>
  PROVE  Logs(RunnerArgs(plzk6Args(d), <<w>>), env) /\ HasLog(RunnerArgs(plzk6Args(d), <<w>>))
<1> DEFINE a == plzk6Args(d)
           p == Pair("--tag", "instance_id", <<w>>)
           n == Pair("--tag", "testrun_name", <<"name">>)
           e == Pair("-e", "K6_CLOUDRUN_INSTANCE_ID", <<w>>)
<1>1. {"instance_id", "testrun_name", "name", "K6_CLOUDRUN_INSTANCE_ID"} \subseteq Name
  BY ONLY WordsAssumption DEF Special, Name
<1>2. /\ <<w>> \in Text /\ Plain(<<w>>) /\ "token" \notin ToSet(<<w>>)
      /\ <<"name">> \in Text /\ Plain(<<"name">>) /\ "token" \notin ToSet(<<"name">>)
  BY <1>1, NameText
<1>3. Logs(p, env) /\ Logs(n, env) /\ Logs(e, env)
  BY <1>1, <1>2, PlainPairLogs
<1>4. Logs(RunnerHead, env) /\ Logs(ScriptArgs, env) /\ Logs(PLZFlags, env)
  BY RunnerOwn, OwnLogs
<1>5. Logs(a, env) /\ HasLog(a)
  BY PLZArgsLogs
<1>6. RunnerArgs(plzk6Args(d), <<w>>) = RunnerHead \o a \o ScriptArgs \o p \o n \o PLZFlags \o e
  BY DEF RunnerArgs
<1> HIDE DEF a, p, n, e
<1> DEFINE A == RunnerHead \o a
           B == A \o ScriptArgs
           C == B \o p
           D == C \o n
           F == D \o PLZFlags
           G == F \o e
<1>7. ASSUME NEW x, NEW y, Logs(x, env), Logs(y, env), HasLog(x) \/ HasLog(y)
      PROVE  Logs(x \o y, env) /\ HasLog(x \o y)
  BY <1>7, LogsConcat, TokenConcat DEF Logs
<1>8. Logs(A, env) /\ HasLog(A)
  BY <1>4, <1>5, <1>7
<1> HIDE DEF A
<1>9. Logs(B, env) /\ HasLog(B)
  BY <1>4, <1>7, <1>8
<1> HIDE DEF B
<1>10. Logs(C, env) /\ HasLog(C)
  BY <1>3, <1>7, <1>9
<1> HIDE DEF C
<1>11. Logs(D, env) /\ HasLog(D)
  BY <1>3, <1>7, <1>10
<1> HIDE DEF D
<1>12. Logs(F, env) /\ HasLog(F)
  BY <1>4, <1>7, <1>11
<1> HIDE DEF F
<1>13. Logs(G, env) /\ HasLog(G)
  BY <1>3, <1>7, <1>12
<1>14. RunnerArgs(plzk6Args(d), <<w>>) = G
  BY <1>6 DEF A, B, C, D, F
<1> HIDE DEF G
<1> QED
  BY <1>13, <1>14
-----------------------------------------------------------------------------
(* ParseCLI selects arguments, and never the log output.                    *)
LEMMA ArchivedFrom ==
  ASSUME NEW argv \in Seq(Argument), NEW a, a = CLIOf(argv).ArchiveArgs
  PROVE  /\ a \in Seq(Argument)
         /\ \A n \in 1 .. Len(a) : \E j \in 1 .. Len(argv) : a[n] = argv[j] /\ argv[j].flag # "--log-output"
<1> DEFINE K == {j \in 1 .. Len(argv) : Archived(argv, j)}
<1>1. Len(argv) \in Nat /\ K \subseteq 1 .. Len(argv)
  OBVIOUS
<1>2. a = [n \in 1 .. Cardinality(K) |-> argv[Nth(K, n)]]
  BY DEF CLIOf
<1>3. IsFiniteSet(K) /\ Cardinality(K) \in Nat
  <2>1. IsFiniteSet(1 .. Len(argv))
    BY <1>1, FS_Interval
  <2>2. IsFiniteSet(K)
    <3> HIDE DEF K
    <3> QED BY <1>1, <2>1, FS_Subset
  <2> HIDE DEF K
  <2> QED BY <2>2, FS_CardinalityType
<1>4. ASSUME NEW j \in K PROVE j \in 1 .. Len(argv) /\ argv[j].flag # "--log-output"
  <2>1. PICK p \in 1 .. j : (p = j \/ BelongsTo(argv, j, p)) /\ ForArchive(argv[p])
    BY DEF Archived
  <2>2. CASE p = j
    BY <2>1, <2>2 DEF ForArchive, NotForArchive
  <2>3. CASE BelongsTo(argv, j, p)
    <3>1. ~IsFlag(argv[j])
      BY <2>3 DEF BelongsTo
    <3> QED BY <3>1 DEF IsFlag
  <2> QED BY <2>1, <2>2, <2>3
<1> HIDE DEF K
<1>5. ASSUME NEW n \in 1 .. Cardinality(K) PROVE Nth(K, n) \in K
  BY <1>1, NthExists
<1>6. ASSUME NEW n \in 1 .. Cardinality(K)
      PROVE  a[n] \in Argument /\ \E j \in 1 .. Len(argv) : a[n] = argv[j] /\ argv[j].flag # "--log-output"
  <2>1. a[n] = argv[Nth(K, n)] /\ Nth(K, n) \in K
    BY <1>2, <1>5
  <2>2. Nth(K, n) \in 1 .. Len(argv)
    BY <1>4, <2>1
  <2> QED BY <1>4, <2>1, <2>2
<1>7. a \in Seq(Argument) /\ Len(a) = Cardinality(K)
  <2>1. a = [n \in 1 .. Cardinality(K) |-> a[n]] /\ DOMAIN a = 1 .. Cardinality(K)
    BY <1>2
  <2> QED BY <1>3, <1>6, <2>1
<1> QED
  BY <1>6, <1>7

(* The command of its initializer has no token, even in the environment.   *)
LEMMA ArchiveNoToken ==
  ASSUME NEW d \in CloudData, NEW a, a = CLIOf(plzk6Args(d)).ArchiveArgs, plzk6Args(d) \in Seq(Argument),
         NEW env, env = EnvMap(RunnerEnvVars(d)), NEW x, x = Expanded(ArchiveArgs(d, a), env)
  PROVE  NoToken(x) /\ NoFlag(x, "--log-output")
<1> DEFINE b == EnvArgs(RunnerEnvVars(d), FALSE)
           argv == plzk6Args(d)
<1>1. /\ RunnerEnvVars(d) \in Seq(Var) /\ IsEnvironment(env)
      /\ \A y \in DOMAIN env : "token" \notin ToSet(env[y])
  BY ArchiveEnvFacts
<1>2. NoToken(b) /\ NoFlag(b, "--log-output")
  <2>1. PairList(b, "-e", Refs(RunnerEnvVars(d), FALSE)) /\ Refs(RunnerEnvVars(d), FALSE) \subseteq KeyTexts
    BY <1>1, EnvArgsPairs
  <2>2. \A z \in Refs(RunnerEnvVars(d), FALSE) : "token" \notin ToSet(z[2])
    <3>1. ASSUME NEW y \in Name PROVE "token" \notin ToSet(KubeRef(y))
      <4>1. PICK r : r = KubeRef(y)
        OBVIOUS
      <4>2. r \in Seq(Piece) /\ Len(r) = 4 /\ r[1] = "$" /\ r[2] = "(" /\ r[3] = y /\ r[4] = ")" /\ y # "token"
        BY <4>1, KubeRefText DEF Text, Name
      <4>3. \A k \in 1 .. 4 : k = 1 \/ k = 2 \/ k = 3 \/ k = 4
        OBVIOUS
      <4>4. \A k \in 1 .. Len(r) : r[k] # "token"
        BY <4>2, <4>3
      <4> QED BY <4>1, <4>2, <4>4 DEF ToSet
    <3>2. \A m \in 1 .. Len(RunnerEnvVars(d)) : RunnerEnvVars(d)[m].name \in Name
      BY <1>1, VarAt
    <3> QED BY <3>1, <3>2 DEF Refs, Ref, EnvNames
  <2>3. NoToken(b) /\ TokenLogs(b)
    BY <2>1, <2>2, PairsNoToken
  <2> HIDE DEF b
  <2> QED BY <2>3 DEF NoToken, TokenLogs, NoFlag
<1>3. NoToken(argv)
  <2>1. IsEnvironment(EnvMap(RunnerEnv(d)))
    BY RunnerEnvFacts
  <2> QED BY <2>1, RunnerEnvFacts, PLZArgsLogs
<1>4. ArchiveArgs(d, a) = ArchiveHead \o b \o ArchiveFile \o a
  BY DEF ArchiveArgs
<1>5. /\ a \in Seq(Argument)
      /\ \A n \in 1 .. Len(a) : \E j \in 1 .. Len(argv) : a[n] = argv[j] /\ argv[j].flag # "--log-output"
  BY ArchivedFrom
<1> HIDE DEF b, argv
<1>6. NoToken(a) /\ NoFlag(a, "--log-output")
  BY <1>3, <1>5 DEF NoToken, NoFlag
<1>7. /\ NoToken(ArchiveHead) /\ NoFlag(ArchiveHead, "--log-output")
      /\ NoToken(ArchiveFile) /\ NoFlag(ArchiveFile, "--log-output")
  BY ArchiveOwn DEF AllOwn, Own, NoToken, NoFlag
<1> DEFINE quiet(y) == NoToken(y) /\ TokenLogs(y)
<1>8. ASSUME NEW y, NoToken(y), NoFlag(y, "--log-output") PROVE quiet(y)
  BY <1>8, QuietLogs
<1>9. ASSUME NEW y, NEW z, quiet(y), quiet(z) PROVE quiet(y \o z)
  BY <1>9, TokenConcat
<1>10. ASSUME NEW y, quiet(y) PROVE NoToken(y) /\ NoFlag(y, "--log-output") /\ y \in Seq(Argument)
  BY <1>10 DEF NoToken, TokenLogs, NoFlag
<1>11. quiet(ArchiveHead) /\ quiet(b) /\ quiet(ArchiveFile) /\ quiet(a)
  BY <1>2, <1>6, <1>7, <1>8
<1> HIDE DEF quiet
<1>12. quiet(ArchiveHead \o b \o ArchiveFile \o a)
  BY <1>9, <1>11
<1>13. PICK c : c = ArchiveArgs(d, a)
  OBVIOUS
<1>14. NoToken(c) /\ NoFlag(c, "--log-output") /\ c \in Seq(Argument)
  BY <1>4, <1>10, <1>12, <1>13
<1>15. NoToken(Expanded(c, env))
  BY <1>1, <1>14, ExpandedNoToken
<1>16. NoFlag(Expanded(c, env), "--log-output")
  <2>1. Len(Expanded(c, env)) = Len(c) /\ \A k \in 1 .. Len(c) : Expanded(c, env)[k].flag = c[k].flag
    BY <1>1, <1>14, ExpandedTyped, ZenonT(40)
  <2> QED BY <1>14, <2>1 DEF NoFlag
<1> QED
  BY <1>13, <1>15, <1>16

(* The cloud token is in the log output of every PLZ runner and nowhere     *)
(* else, and never in the initializer, whatever the user has set.           *)
THEOREM TokenOnlyInLogs == Spec => []TokenForLogs
<1>1. OriginInv /\ LoopInv /\ CommandsInv /\ AgreeInv => TokenForLogs
  <2> SUFFICES ASSUME OriginInv, LoopInv, CommandsInv, AgreeInv, trd.plz
               PROVE  TokenForLogs
    BY DEF TokenForLogs
  <2> DEFINE withToken(args) == {k \in DOMAIN args : "token" \in ToSet(args[k].text)}
             logs(args)      == {k \in DOMAIN args : args[k].flag = "--log-output"}
  <2>1. ASSUME NEW r \in DOMAIN runners
        PROVE  logs(Delivered(runners[r])) # {} /\ withToken(Delivered(runners[r])) = logs(Delivered(runners[r]))
    <3> DEFINE a == RunnerArgs(plzk6Args(trd), <<ToString(r)>>)
               env == EnvMap(RunnerEnv(trd))
    <3>1. trd \in CloudData /\ ToString(r) \in Name /\ Delivered(runners[r]) = Expanded(a, env)
      BY PLZRunner
    <3>2. IsEnvironment(env) /\ "K6_CLOUD_TOKEN" \in DOMAIN env /\ env["K6_CLOUD_TOKEN"] = <<"token">>
      BY <3>1, RunnerEnvFacts
    <3>3. Logs(a, env) /\ HasLog(a)
      BY <3>1, <3>2, RunnerLogs
    <3> HIDE DEF a, env
    <3>4. PICK x : x = Expanded(a, env)
      OBVIOUS
    <3>5. x \in Seq(Argument) /\ \A k \in 1 .. Len(x) : "token" \in ToSet(x[k].text) <=> x[k].flag = "--log-output"
      BY <3>3, <3>4 DEF Logs, TokenLogs
    <3>6. Len(x) = Len(a) /\ \A k \in 1 .. Len(a) : x[k].flag = a[k].flag
      BY <3>2, <3>3, <3>4, ExpandedTyped DEF Logs
    <3>7. \E k \in 1 .. Len(x) : x[k].flag = "--log-output"
      BY <3>3, <3>6 DEF HasLog
    <3>8. DOMAIN x = 1 .. Len(x)
      BY <3>5
    <3>9. logs(x) # {} /\ withToken(x) = logs(x)
      BY <3>5, <3>7, <3>8
    <3> QED BY <3>1, <3>4, <3>9
  <2>2. ASSUME Made(archive)
        PROVE  withToken(Delivered(archive)) = {} /\ logs(Delivered(archive)) = {}
    <3>1. PICK x : x = Delivered(archive)
      OBVIOUS
    <3>2. /\ trd \in CloudData /\ plzk6Args(trd) \in Seq(Argument)
          /\ cli.ArchiveArgs = CLIOf(plzk6Args(trd)).ArchiveArgs
          /\ x = Expanded(ArchiveArgs(trd, cli.ArchiveArgs), EnvMap(RunnerEnvVars(trd)))
      BY <2>2, <3>1, PLZArchive
    <3>3. NoToken(x) /\ NoFlag(x, "--log-output")
      BY <3>2, ArchiveNoToken
    <3>4. DOMAIN x = 1 .. Len(x)
      BY <3>3 DEF NoToken
    <3>5. withToken(x) = {} /\ logs(x) = {}
      BY <3>3, <3>4 DEF NoToken, NoFlag
    <3> QED BY <3>1, <3>5
  <2> QED
    BY <2>1, <2>2 DEF TokenForLogs
<1> QED
  BY <1>1, Invocation, PTL

(***************************************************************************)
(* The commands of a user's TestRun, in a shell or not.                    *)
(***************************************************************************)

(* The shell's expansion from position p on, given that of the rest.        *)
ShellStep(text, env, f, p) ==
  IF p > Len(text) THEN <<>>
  ELSE IF text[p] = "${" THEN env[text[p + 1]] \o f[p + 3]
  ELSE <<IF text[p] = "$" THEN "?" ELSE text[p]>> \o f[p + 1]

(* f is that function from position from on.                               *)
IsShellText(f, text, env, from) ==
  f = [p \in from .. Len(text) + 3 |-> ShellStep(text, env, f, p)]

(* The positions that a step looks at are behind its own.                   *)
LEMMA ShellLooksAhead ==
  ASSUME NEW text \in Text, NEW env, NEW f, NEW g, NEW p \in 1 .. Len(text) + 3,
         \A q \in p + 1 .. Len(text) + 3 : f[q] = g[q]
  PROVE  ShellStep(text, env, f, p) = ShellStep(text, env, g, p)
<1>1. Len(text) \in Nat
  BY DEF Text
<1>2. CASE p > Len(text)
  BY <1>2 DEF ShellStep
<1>3. CASE p =< Len(text)
  <2>1. p + 1 \in p + 1 .. Len(text) + 3 /\ p + 3 \in p + 1 .. Len(text) + 3
    BY <1>1, <1>3
  <2>2. f[p + 1] = g[p + 1] /\ f[p + 3] = g[p + 3]
    BY <2>1
  <2> QED BY <2>2, Zenon DEF ShellStep
<1> QED
  BY <1>1, <1>2, <1>3

(* The recursive function by which ShellText is defined exists.             *)
LEMMA ShellFunction ==
  ASSUME NEW text \in Text, NEW env
  PROVE  \E f : IsShellText(f, text, env, 1)
<1> DEFINE L == Len(text) + 3
           G == {n \in 1 .. L : \E f : IsShellText(f, text, env, n)}
<1>1. Len(text) \in Nat /\ L \in Nat \ {0} /\ L > Len(text)
  BY DEF Text
<1>2. L \in G
  <2> DEFINE f == [p \in L .. L |-> <<>>]
  <2>1. \A p \in L .. L : ShellStep(text, env, f, p) = <<>>
    BY <1>1 DEF ShellStep
  <2>2. f = [p \in L .. L |-> ShellStep(text, env, f, p)]
    BY <2>1
  <2>3. IsShellText(f, text, env, L)
    BY <2>2 DEF IsShellText
  <2> QED BY <1>1, <2>3
<1>3. ASSUME NEW n \in 1 .. L - 1, n + 1 \in G PROVE n \in G
  <2>1. PICK f : IsShellText(f, text, env, n + 1)
    BY <1>3
  <2>2. f = [p \in n + 1 .. L |-> ShellStep(text, env, f, p)]
    BY <2>1 DEF IsShellText
  <2> DEFINE g == [p \in n .. L |-> IF p = n THEN ShellStep(text, env, f, n) ELSE f[p]]
  <2>3. \A q \in n + 1 .. L : g[q] = f[q]
    BY <1>1
  <2>4. ASSUME NEW p \in n .. L PROVE g[p] = ShellStep(text, env, g, p)
    <3>1. p \in 1 .. Len(text) + 3 /\ \A q \in p + 1 .. Len(text) + 3 : f[q] = g[q]
      BY <1>1, <2>3
    <3> HIDE DEF g
    <3>2. ShellStep(text, env, f, p) = ShellStep(text, env, g, p)
      BY <3>1, ShellLooksAhead
    <3>3. CASE p = n
      BY <3>2, <3>3 DEF g
    <3>4. CASE p # n
      <4>1. p \in n + 1 .. L
        BY <1>1, <3>4
      <4>2. f[p] = ShellStep(text, env, f, p)
        BY <2>2, <4>1
      <4> QED BY <2>3, <3>2, <4>1, <4>2
    <3> QED BY <3>3, <3>4
  <2>5. g = [p \in n .. L |-> ShellStep(text, env, g, p)]
    BY <2>4
  <2>6. IsShellText(g, text, env, n)
    BY <2>5 DEF IsShellText
  <2> QED BY <1>1, <2>6
<1> HIDE DEF G
<1>4. 1 \in G
  <2>1. \A n \in 1 .. L - 1 : n + 1 \in G => n \in G
    BY <1>3
  <2>2. \A n \in 1 .. L : n \in G
    BY <1>1, <1>2, <2>1, InductionDownFrom
  <2> QED BY <1>1, <2>2
<1> QED
  BY <1>4 DEF G

(* ShellText is its value at the first position.                            *)
LEMMA ShellTextIs ==
  ASSUME NEW text \in Text, NEW env
  PROVE  \E f : /\ ShellText(text, env) = f[1]
                /\ \A p \in 1 .. Len(text) + 3 : f[p] = ShellStep(text, env, f, p)
<1> DEFINE rest == CHOOSE f : IsShellText(f, text, env, 1)
<1>1. IsShellText(rest, text, env, 1)
  BY ShellFunction
<1>2. ShellText(text, env) = rest[1]
  BY DEF ShellText, IsShellText, ShellStep
<1> HIDE DEF rest
<1>3. \A p \in 1 .. Len(text) + 3 : rest[p] = ShellStep(text, env, rest, p)
  <2>1. rest = [p \in 1 .. Len(text) + 3 |-> ShellStep(text, env, rest, p)]
    BY <1>1 DEF IsShellText
  <2> QED BY ONLY <2>1
<1> QED
  BY <1>2, <1>3

(* A step at ${, and at a piece that is not special.                        *)
LEMMA ShellStepRef ==
  ASSUME NEW u, NEW env, NEW f, NEW p, ~(p > Len(u)), u[p] = Opening
  PROVE  ShellStep(u, env, f, p) = env[u[p + 1]] \o f[p + 3]
  BY Zenon DEF ShellStep, Opening

(* Any other piece stays.                                                  *)
LEMMA ShellStepOther ==
  ASSUME NEW u, NEW env, NEW f, NEW p, ~(p > Len(u)), u[p] # Opening, u[p] # "$"
  PROVE  ShellStep(u, env, f, p) = <<u[p]>> \o f[p + 1]
  BY Zenon DEF ShellStep, Opening

(* Neither the kubelet nor a shell changes a text without $ and ${.         *)
Inert(t) == \A m \in 1 .. Len(t) : t[m] # "$" /\ t[m] # Opening

(* A shell leaves such a text as it is.                                    *)
LEMMA InertShellText ==
  ASSUME NEW t \in Text, Inert(t), NEW env
  PROVE  ShellText(t, env) = t
<1>1. t \in Seq(Piece) /\ Len(t) \in Nat
  BY DEF Text
<1>2. PICK f : /\ ShellText(t, env) = f[1]
               /\ \A p \in 1 .. Len(t) + 3 : f[p] = ShellStep(t, env, f, p)
  BY ShellTextIs
<1> DEFINE N == Len(t) + 1
           G == {k \in 1 .. N : f[k] = SubSeq(t, k, Len(t))}
<1>3. N \in Nat \ {0} /\ N \in 1 .. N
  BY <1>1
<1>4. N \in G
  <2>1. N \in 1 .. Len(t) + 3 /\ N > Len(t)
    BY <1>1
  <2>2. f[N] = ShellStep(t, env, f, N)
    BY <1>2, <2>1
  <2>3. ShellStep(t, env, f, N) = <<>>
    BY <2>1, Zenon DEF ShellStep
  <2>4. SubSeq(t, N, Len(t)) = <<>>
    BY <1>1
  <2> QED BY <1>3, <2>2, <2>3, <2>4
<1>5. ASSUME NEW k \in 1 .. N - 1, k + 1 \in G PROVE k \in G
  <2>1. k \in 1 .. Len(t) /\ k \in 1 .. N /\ k \in 1 .. Len(t) + 3 /\ ~(k > Len(t))
    BY <1>1
  <2>2. t[k] # "$" /\ t[k] # Opening
    BY <2>1 DEF Inert
  <2>3. f[k] = ShellStep(t, env, f, k)
    BY <1>2, <2>1
  <2>4. ShellStep(t, env, f, k) = <<t[k]>> \o f[k + 1]
    BY <2>1, <2>2, ShellStepOther, SMTT(30)
  <2>5. f[k + 1] = SubSeq(t, k + 1, Len(t))
    BY <1>5
  <2>6. SubSeq(t, k, Len(t)) = <<t[k]>> \o SubSeq(t, k + 1, Len(t))
    <3>1. k =< Len(t) /\ k \in 1 .. Len(t) + 1 /\ Len(t) \in k - 1 .. Len(t)
      BY <1>1, <2>1
    <3> QED BY <1>1, <2>1, <3>1, SubSeqRecursiveFirst
  <2> QED BY <2>1, <2>3, <2>4, <2>5, <2>6
<1> HIDE DEF G
<1>6. 1 \in G
  <2>1. \A k \in 1 .. N - 1 : k + 1 \in G => k \in G
    BY <1>5
  <2>2. \A k \in 1 .. N : k \in G
    BY <1>3, <1>4, <2>1, InductionDownFrom
  <2> QED BY <1>3, <2>2
<1>7. f[1] = SubSeq(t, 1, Len(t))
  BY <1>6 DEF G
<1> QED
  BY <1>1, <1>2, <1>7

(* `NAME=${NAME}` becomes the variable's value.                             *)
LEMMA KeyShellText ==
  ASSUME NEW x \in Name, NEW env, env[x] \in Text
  PROVE  /\ ShellText(<<x, "=">> \o ShellRef(x), env) = <<x, "=">> \o env[x]
         /\ Plain(<<x, "=">> \o ShellRef(x))
<1>1. PICK r : r = ShellRef(x)
  OBVIOUS
<1>2. r \in Seq(Piece) /\ r \in Text /\ Len(r) = 3 /\ r[1] = Opening /\ r[2] = x /\ r[3] = Closing
  BY <1>1, ShellRefText DEF Text
<1>3. "=" \in Piece /\ x \in Piece /\ x # "$" /\ x # Opening /\ "=" # Opening /\ Opening # "$" /\ Closing # "$"
  <2>1. "=" \in Piece
    BY ONLY WordsAssumption DEF Special
  <2> QED BY <2>1, ShellRefPieces
<1>4. PICK u : u = <<x, "=">> \o r
  OBVIOUS
<1>5. u \in Seq(Piece) /\ Len(u) = Len(r) + 2 /\ u[1] = x /\ u[2] = "=" /\ \A k \in 1 .. Len(r) : u[k + 2] = r[k]
  <2>1. KeyValue(x, r).text = u /\ KeyText(u, x, r)
    BY <1>2, <1>4, KeyValueTyped
  <2> QED BY <2>1 DEF KeyText
<1>6. Len(u) = 5
  BY <1>2, <1>5
<1>7. u[1 + 2] = Opening /\ u[2 + 2] = x /\ u[3 + 2] = Closing
  <2>1. 1 \in 1 .. Len(r) /\ 2 \in 1 .. Len(r) /\ 3 \in 1 .. Len(r)
    BY <1>2
  <2> QED BY <1>2, <1>5, <2>1
<1>8. u[3] = Opening /\ u[4] = x /\ u[5] = Closing
  BY <1>7
<1>9. u \in Text
  BY <1>5 DEF Text
<1>10. PICK f : /\ ShellText(u, env) = f[1]
                /\ \A p \in 1 .. Len(u) + 3 : f[p] = ShellStep(u, env, f, p)
  BY <1>9, ShellTextIs
<1>11. f[3] = env[x]
  <2>1. 3 \in 1 .. Len(u) + 3 /\ ~(3 > Len(u)) /\ 6 \in 1 .. Len(u) + 3 /\ 6 > Len(u) /\ 3 + 1 = 4 /\ 3 + 3 = 6
    BY <1>6
  <2>2. f[3] = ShellStep(u, env, f, 3) /\ f[6] = ShellStep(u, env, f, 6)
    BY <1>10, <2>1
  <2>3. ShellStep(u, env, f, 3) = env[u[4]] \o f[6]
    <3>1. PICK p : p = 3
      OBVIOUS
    <3>2. ~(p > Len(u)) /\ u[p] = Opening
      BY <1>8, <2>1, <3>1
    <3>3. ShellStep(u, env, f, p) = env[u[p + 1]] \o f[p + 3]
      BY ONLY <3>2, ShellStepRef, ZenonT(40)
    <3> QED BY <2>1, <3>1, <3>3, Zenon
  <2>4. ShellStep(u, env, f, 6) = <<>>
    BY <2>1, Zenon DEF ShellStep
  <2>5. f[3] = env[x] \o <<>>
    BY <1>8, <2>1, <2>2, <2>3, <2>4
  <2> QED BY <2>5, ConcatEmptySeq DEF Text
<1>12. f[2] = <<"=">> \o f[3]
  <2>1. 2 \in 1 .. Len(u) + 3 /\ ~(2 > Len(u)) /\ u[2] # "$" /\ u[2] # Opening /\ 2 + 1 = 3
    BY <1>3, <1>5, <1>6
  <2>2. f[2] = ShellStep(u, env, f, 2)
    BY <1>10, <2>1
  <2>3. ShellStep(u, env, f, 2) = <<u[2]>> \o f[2 + 1]
    BY <2>1, ShellStepOther
  <2> QED BY <1>5, <2>1, <2>2, <2>3
<1>13. f[1] = <<x>> \o f[2]
  <2>1. 1 \in 1 .. Len(u) + 3 /\ ~(1 > Len(u)) /\ u[1] # "$" /\ u[1] # Opening /\ 1 + 1 = 2
    BY <1>3, <1>5, <1>6
  <2>2. f[1] = ShellStep(u, env, f, 1)
    BY <1>10, <2>1
  <2>3. ShellStep(u, env, f, 1) = <<u[1]>> \o f[1 + 1]
    BY <2>1, ShellStepOther
  <2> QED BY <1>5, <2>1, <2>2, <2>3
<1>14. env[x] \in Seq(Piece)
  BY DEF Text
<1>15. <<x>> \o (<<"=">> \o env[x]) = <<x, "=">> \o env[x]
  BY ONLY <1>3, <1>14, ConcatOnes
<1>16. f[1] = <<x, "=">> \o env[x]
  BY <1>11, <1>12, <1>13, <1>15, Zenon
<1>17. Plain(u)
  <2>1. \A k \in 1 .. Len(u) : k = 1 \/ k = 2 \/ k = 3 \/ k = 4 \/ k = 5
    BY <1>6
  <2>2. u[1] # "$" /\ u[2] # "$" /\ u[3] # "$" /\ u[4] # "$" /\ u[5] # "$"
    BY <1>3, <1>5, <1>8
  <2> QED BY <2>1, <2>2 DEF Plain
<1> QED
  BY <1>1, <1>4, <1>10, <1>16, <1>17

(* Fields leaves arguments none of which is empty as they are.              *)
LEMMA FieldsAll ==
  ASSUME NEW a \in Seq(Argument), \A k \in 1 .. Len(a) : a[k] # EmptyArg
  PROVE  Fields(a) = a
<1> DEFINE n == Len(a)
           parts == [m \in DOMAIN a |-> Given(a[m] # EmptyArg, <<a[m]>>)]
           b == Fields(a)
<1>1. n \in Nat /\ DOMAIN a = 1 .. n
  OBVIOUS
<1>2. ASSUME NEW m \in 1 .. n PROVE parts[m] \in Seq(Argument) /\ Len(parts[m]) = 1 /\ parts[m][1] = a[m]
  <2>1. parts[m] = Given(a[m] # EmptyArg, <<a[m]>>)
    BY <1>1
  <2> HIDE DEF parts
  <2>2. PICK p : p = <<a[m]>>
    OBVIOUS
  <2>3. p \in Seq(Argument) /\ Len(p) = 1 /\ p[1] = a[m]
    BY <1>1, <2>2
  <2>4. parts[m] = p
    BY <2>1, <2>2 DEF Given
  <2> QED BY <2>3, <2>4
<1>3. Len(parts) = n /\ (n = 0 => parts = <<>>)
  BY <1>1
<1>4. b = FlattenSeq(parts)
  BY DEF Fields
<1> HIDE DEF parts, b
<1>5. PICK off : Joined(Argument, parts, n, b, off)
  BY <1>1, <1>2, <1>3, <1>4, FlattenParts
<1> DEFINE G == {k \in 0 .. n : off[k] = k}
<1>6. 0 \in G
  BY <1>1, <1>5 DEF Joined
<1>7. ASSUME NEW k \in 0 .. n - 1, k \in G PROVE k + 1 \in G
  <2>1. PICK d \in 1 .. n : d = k + 1
    BY <1>1
  <2>2. off[d] = off[d - 1] + Len(parts[d])
    BY <1>5 DEF Joined
  <2>3. d - 1 = k /\ off[k] = k
    BY <1>7, <2>1
  <2>4. off[d] = k + 1
    BY <1>2, <2>1, <2>2, <2>3
  <2> QED BY <1>1, <2>1, <2>4
<1> HIDE DEF G
<1>8. \A k \in 0 .. n : k \in G
  BY <1>1, <1>6, <1>7, InductionUpTo
<1>9. \A k \in 0 .. n : off[k] = k
  BY <1>8 DEF G
<1>10. b \in Seq(Argument) /\ Len(b) = n
  <2>1. b \in Seq(Argument) /\ Len(b) = off[n]
    BY <1>5 DEF Joined
  <2>2. n \in 0 .. n
    BY <1>1
  <2>3. off[n] = n
    BY ONLY <1>9, <2>2
  <2> QED BY <2>1, <2>3
<1>11. ASSUME NEW k \in 1 .. n PROVE b[k] = a[k]
  <2>1. k - 1 \in 0 .. n /\ off[k - 1] + 1 = k
    BY <1>1, <1>9
  <2>2. 1 \in 1 .. Len(parts[k])
    BY <1>2
  <2>3. b[off[k - 1] + 1] = parts[k][1]
    BY <1>5, <2>2 DEF Joined
  <2> QED BY <1>2, <2>1, <2>3
<1>12. b = a
  BY <1>10, <1>11, SeqEqual
<1> QED
  BY <1>12 DEF b
-----------------------------------------------------------------------------
(* What an argument becomes. A shell does not see one that is empty.        *)
AfterKubelet(arg, env) == [flag |-> arg.flag, text |-> Expand(arg.text, env)]
AfterShell(arg, env)   == [flag |-> arg.flag, text |-> ShellText(Expand(arg.text, env), env)]

(* The arguments a reach k6 as b.                                           *)
Becomes(a, b, env, shell) ==
  /\ a \in Seq(Argument) /\ b \in Seq(Argument) /\ Len(b) = Len(a)
  /\ \A k \in 1 .. Len(a) :
       IF shell THEN AfterKubelet(a[k], env) # EmptyArg /\ b[k] = AfterShell(a[k], env)
       ELSE b[k] = AfterKubelet(a[k], env)

(* A concatenation becomes the concatenation of what its parts become.     *)
LEMMA BecomesConcat ==
  ASSUME NEW a, NEW b, NEW u, NEW v, NEW env, NEW shell, Becomes(a, u, env, shell), Becomes(b, v, env, shell)
  PROVE  Becomes(a \o b, u \o v, env, shell)
<1>1. /\ a \in Seq(Argument) /\ b \in Seq(Argument) /\ u \in Seq(Argument) /\ v \in Seq(Argument)
      /\ Len(u) = Len(a) /\ Len(v) = Len(b)
  BY DEF Becomes
<1>2. PICK c : c = a \o b
  OBVIOUS
<1>3. PICK w : w = u \o v
  OBVIOUS
<1>4. /\ c \in Seq(Argument) /\ Len(a) \in Nat /\ Len(b) \in Nat /\ Len(c) = Len(a) + Len(b)
      /\ \A k \in 1 .. Len(a) : c[k] = a[k]
      /\ \A k \in 1 .. Len(b) : c[Len(a) + k] = b[k]
  BY ONLY <1>1, <1>2, ConcatParts
<1>5. /\ w \in Seq(Argument) /\ Len(w) = Len(u) + Len(v)
      /\ \A k \in 1 .. Len(u) : w[k] = u[k]
      /\ \A k \in 1 .. Len(v) : w[Len(u) + k] = v[k]
  <2>1. u \in Seq(Argument) /\ v \in Seq(Argument)
    BY <1>1
  <2> QED BY ONLY <1>3, <2>1, ConcatParts
<1>6. ASSUME NEW k \in 1 .. Len(c)
      PROVE  IF shell THEN AfterKubelet(c[k], env) # EmptyArg /\ w[k] = AfterShell(c[k], env)
             ELSE w[k] = AfterKubelet(c[k], env)
  <2>1. CASE k \in 1 .. Len(a)
    <3>1. c[k] = a[k] /\ w[k] = u[k]
      BY <1>1, <1>4, <1>5, <2>1
    <3> QED BY <2>1, <3>1 DEF Becomes
  <2>2. CASE ~(k \in 1 .. Len(a))
    <3>1. PICK m \in 1 .. Len(b) : k = Len(a) + m
      <4>1. k - Len(a) \in 1 .. Len(b) /\ k = Len(a) + (k - Len(a))
        BY <1>4, <2>2
      <4> QED BY <4>1
    <3>2. c[k] = b[m] /\ w[k] = v[m]
      BY <1>1, <1>4, <1>5, <3>1
    <3> QED BY <3>2 DEF Becomes
  <2> QED BY <2>1, <2>2
<1>7. Becomes(c, w, env, shell)
  BY <1>1, <1>4, <1>5, <1>6 DEF Becomes
<1> QED
  BY <1>2, <1>3, <1>7

(* It is what Delivered says.                                               *)
LEMMA BecomesDelivered ==
  ASSUME NEW c, NEW b, NEW env, env = EnvMap(c.env), IsEnvironment(env), c.shell \in BOOLEAN,
         Becomes(c.args, b, env, c.shell)
  PROVE  Delivered(c) = b
<1> DEFINE a == c.args
           x == Expanded(a, env)
<1>1. a \in Seq(Argument) /\ b \in Seq(Argument) /\ Len(b) = Len(a) /\ Len(a) \in Nat
  BY DEF Becomes
<1>2. Delivered(c) = IF c.shell THEN Shell(x, env) ELSE x
  BY DEF Delivered
<1>3. \A k \in 1 .. Len(a) :
        IF c.shell THEN AfterKubelet(a[k], env) # EmptyArg /\ b[k] = AfterShell(a[k], env)
        ELSE b[k] = AfterKubelet(a[k], env)
  BY DEF Becomes
<1> HIDE DEF a
<1>4. /\ x \in Seq(Argument) /\ Len(x) = Len(a)
      /\ \A k \in 1 .. Len(a) : x[k] = AfterKubelet(a[k], env)
  BY <1>1, ExpandedTyped DEF AfterKubelet
<1> HIDE DEF x
<1>5. CASE ~c.shell
  <2>1. \A k \in 1 .. Len(b) : x[k] = b[k]
    BY <1>1, <1>3, <1>4, <1>5
  <2>2. x = b
    BY <1>1, <1>4, <2>1, SeqEqual
  <2> QED BY <1>2, <1>5, <2>2
<1>6. CASE c.shell
  <2>1. \A k \in 1 .. Len(x) : x[k] # EmptyArg
    BY <1>3, <1>4, <1>6
  <2>2. Fields(x) = x
    BY <1>4, <2>1, FieldsAll
  <2> DEFINE y == [k \in DOMAIN x |-> [x[k] EXCEPT !.text = ShellText(@, env)]]
  <2>3. Shell(x, env) = y
    BY <2>2 DEF Shell
  <2>4. DOMAIN x = 1 .. Len(x)
    BY <1>4
  <2>5. ASSUME NEW k \in 1 .. Len(x) PROVE y[k] = b[k]
    <3>1. y[k] = [x[k] EXCEPT !.text = ShellText(x[k].text, env)]
      BY <2>4
    <3> HIDE DEF y
    <3>2. x[k] = [flag |-> a[k].flag, text |-> Expand(a[k].text, env)]
      BY <1>4 DEF AfterKubelet
    <3>3. PICK t : t = Expand(a[k].text, env)
      OBVIOUS
    <3>4. x[k] = [flag |-> a[k].flag, text |-> t]
      BY <3>2, <3>3
    <3>5. y[k] = [flag |-> a[k].flag, text |-> ShellText(t, env)]
      BY ONLY <3>1, <3>4
    <3>6. b[k] = [flag |-> a[k].flag, text |-> ShellText(t, env)]
      BY <1>3, <1>4, <1>6, <3>3 DEF AfterShell
    <3> QED BY <3>5, <3>6
  <2>6. y = [k \in 1 .. Len(x) |-> y[k]]
    BY <2>4
  <2> HIDE DEF y
  <2>7. y = b
    <3>1. b = [k \in 1 .. Len(b) |-> b[k]]
      BY <1>1
    <3> QED BY <1>1, <1>4, <2>5, <2>6, <3>1
  <2> QED BY <1>2, <1>6, <2>3, <2>7
<1> QED
  BY <1>5, <1>6

(* Arguments without $ and ${ stay as they are, in a shell when none of     *)
(* them is empty.                                                           *)
LEMMA InertBecomes ==
  ASSUME NEW a \in Seq(Argument), \A k \in 1 .. Len(a) : Inert(a[k].text),
         NEW shell \in BOOLEAN, shell => \A k \in 1 .. Len(a) : a[k] # EmptyArg, NEW env
  PROVE  Becomes(a, a, env, shell)
<1>1. ASSUME NEW k \in 1 .. Len(a) PROVE AfterKubelet(a[k], env) = a[k] /\ AfterShell(a[k], env) = a[k]
  <2>1. a[k] \in [flag : FlagName, text : Text]
    BY ArgumentAt
  <2>2. PICK t : t = a[k].text
    OBVIOUS
  <2>3. t \in Text /\ Inert(t)
    BY <2>1, <2>2
  <2>4. \A m \in 1 .. Len(t) : t[m] # "$"
    BY <2>3 DEF Inert
  <2>5. Expand(t, env) = t
    BY <2>3, <2>4, PlainExpand
  <2>6. ShellText(t, env) = t
    BY <2>3, InertShellText
  <2>7. a[k] = [flag |-> a[k].flag, text |-> t]
    BY <2>1, <2>2
  <2> QED BY <2>2, <2>5, <2>6, <2>7 DEF AfterKubelet, AfterShell
<1> QED
  BY <1>1 DEF Becomes

(* The operator's own arguments stay as they are,                          *)
LEMMA OwnBecomes ==
  ASSUME NEW a, AllOwn(a), NEW env, NEW shell \in BOOLEAN
  PROVE  Becomes(a, a, env, shell)
<1>1. ASSUME NEW k \in 1 .. Len(a) PROVE Inert(a[k].text) /\ a[k] # EmptyArg
  <2>1. /\ a[k] \in Argument /\ Plain(a[k].text) /\ Opening \notin ToSet(a[k].text) /\ a[k] # EmptyArg
    BY DEF AllOwn, Own
  <2>2. DOMAIN a[k].text = 1 .. Len(a[k].text)
    BY <2>1 DEF Argument, Text
  <2> QED BY <2>1, <2>2 DEF Plain, Inert, ToSet
<1> QED
  BY <1>1, InertBecomes DEF AllOwn

(* and a pair of names does.                                               *)
LEMMA NamePairBecomes ==
  ASSUME NEW flag \in FlagName, flag # "none", NEW key \in Name, NEW w \in Name, NEW env, NEW shell \in BOOLEAN
  PROVE  Becomes(Pair(flag, key, <<w>>), Pair(flag, key, <<w>>), env, shell)
<1> DEFINE a == Pair(flag, key, <<w>>)
<1>1. <<w>> \in Text
  BY NameText
<1>2. a \in Seq(Argument) /\ Len(a) = 2 /\ a[1] = Flag(flag) /\ a[2] = KeyValue(key, <<w>>)
  BY <1>1, OnePair
<1> HIDE DEF a
<1>3. Inert(a[1].text) /\ a[1] # EmptyArg
  <2>1. a[1].flag = flag /\ a[1].text = <<>>
    BY <1>2, FlagTyped
  <2> QED BY <2>1 DEF Inert, EmptyArg, Value
<1>4. Inert(a[2].text) /\ a[2] # EmptyArg
  <2>1. PICK u : u = a[2].text
    OBVIOUS
  <2>2. KeyText(u, key, <<w>>)
    BY <1>1, <1>2, <2>1, KeyValueTyped
  <2>3. PICK t : t = <<w>>
    OBVIOUS
  <2>4. t \in Seq(Piece) /\ Len(t) = 1 /\ t[1] = w
    BY <1>1, <2>3 DEF Text
  <2>5. Len(u) = 3 /\ u[1] = key /\ u[2] = "=" /\ u[1 + 2] = w
    BY <2>2, <2>3, <2>4 DEF KeyText
  <2>6. key # "$" /\ key # Opening /\ w # "$" /\ w # Opening /\ "=" # Opening
    BY ShellRefPieces
  <2>7. \A m \in 1 .. Len(u) : m = 1 \/ m = 2 \/ m = 1 + 2
    BY <2>5
  <2>8. Inert(u)
    BY <2>5, <2>6, <2>7 DEF Inert
  <2>9. a[2] # EmptyArg
    BY <2>1, <2>5 DEF EmptyArg, Value
  <2> QED BY <2>1, <2>8, <2>9
<1>5. \A k \in 1 .. Len(a) : k = 1 \/ k = 2
  BY <1>2
<1>6. \A k \in 1 .. Len(a) : Inert(a[k].text) /\ a[k] # EmptyArg
  BY <1>3, <1>4, <1>5
<1>7. Becomes(a, a, env, shell)
  BY <1>2, <1>6, InertBecomes
<1> QED
  BY <1>7 DEF a

(* The initializer's references become the environment itself, whoever      *)
(* replaces them.                                                           *)
LEMMA ShellEnvArgsBecome ==
  ASSUME NEW env \in Seq(Var), NEW E, E = EnvMap(env)
  PROVE  \E b : Becomes(EnvArgs(env, TRUE), b, E, TRUE) /\ Sets(b, "-e", E)
<1> DEFINE a == EnvArgs(env, TRUE)
           P == Refs(env, TRUE)
           Q == MapPairs(E)
           b == [k \in 1 .. Len(a) |-> AfterShell(a[k], E)]
<1>1. DOMAIN E = EnvNames(env) /\ DOMAIN E \subseteq Name /\ \A x \in DOMAIN E : E[x] \in Text
  BY EnvMapOf DEF EnvNames
<1>2. PairList(a, "-e", P) /\ P \subseteq KeyTexts
  BY EnvArgsPairs
<1> HIDE DEF a
<1>3. a \in Seq(Argument) /\ Len(a) \in Nat
  BY <1>2 DEF PairList
<1>4. \A k \in 1 .. Len(a) : b[k] = AfterShell(a[k], E)
  OBVIOUS
<1>5. Flag("-e") \in Argument /\ Flag("-e").flag = "-e" /\ Flag("-e").text = <<>> /\ "-e" \in FlagName
  BY WordsAssumption, FlagTyped
<1>6. AfterKubelet(Flag("-e"), E) # EmptyArg /\ AfterShell(Flag("-e"), E) = Flag("-e")
  <2>1. <<>> \in Text /\ Inert(<<>>) /\ \A m \in 1 .. Len(<<>>) : <<>>[m] # "$"
    BY DEF Text, Inert
  <2>2. Expand(<<>>, E) = <<>> /\ ShellText(<<>>, E) = <<>>
    BY <2>1, PlainExpand, InertShellText
  <2>3. AfterKubelet(Flag("-e"), E) = [flag |-> "-e", text |-> <<>>]
    BY <1>5, <2>2 DEF AfterKubelet
  <2>4. AfterShell(Flag("-e"), E) = [flag |-> "-e", text |-> <<>>]
    BY <1>5, <2>2 DEF AfterShell
  <2> QED BY <2>3, <2>4 DEF Flag, EmptyArg, Value
<1>7. ASSUME NEW x \in DOMAIN E
      PROVE  /\ AfterKubelet(KeyValue(x, ShellRef(x)), E) # EmptyArg
             /\ AfterShell(KeyValue(x, ShellRef(x)), E) = KeyValue(x, E[x])
  <2>1. x \in Name /\ E[x] \in Text
    BY <1>1
  <2>2. PICK u : u = <<x, "=">> \o ShellRef(x)
    OBVIOUS
  <2>3. /\ KeyValue(x, ShellRef(x)).flag = "none" /\ KeyValue(x, ShellRef(x)).text = u
        /\ KeyText(u, x, ShellRef(x))
    BY <2>1, <2>2, KeyValueTyped, ShellRefText
  <2>4. u \in Text /\ u[1] = x /\ Len(u) >= 2
    BY <2>3 DEF KeyText, Text
  <2>5. Plain(u) /\ ShellText(u, E) = <<x, "=">> \o E[x]
    BY <2>1, <2>2, KeyShellText
  <2>6. Expand(u, E) = u
    BY <2>4, <2>5, PlainExpand DEF Plain
  <2>7. AfterKubelet(KeyValue(x, ShellRef(x)), E) = [flag |-> "none", text |-> u]
    BY <2>3, <2>6 DEF AfterKubelet
  <2>8. AfterShell(KeyValue(x, ShellRef(x)), E) = [flag |-> "none", text |-> <<x, "=">> \o E[x]]
    BY <2>3, <2>5, <2>6, Zenon DEF AfterShell
  <2>9. AfterKubelet(KeyValue(x, ShellRef(x)), E) # EmptyArg
    BY <2>4, <2>7 DEF EmptyArg, Value
  <2> QED BY <2>8, <2>9, Zenon DEF KeyValue, Value
<1> HIDE DEF b
<1>8. ASSUME NEW k \in 1 .. Len(a)
      PROVE  a[k] = Flag("-e") \/ \E x \in DOMAIN E : a[k] = KeyValue(x, ShellRef(x))
  <2>1. PICK p \in 1 .. Len(a) - 1 : (k = p \/ k = p + 1) /\ \E y \in P : PairAt(a, p, "-e", y)
    BY <1>2 DEF PairList
  <2>2. PICK y \in P : PairAt(a, p, "-e", y)
    BY <2>1
  <2>3. PICK x \in DOMAIN E : y = <<x, ShellRef(x)>>
    BY <1>1, <2>2 DEF Refs, Ref
  <2>4. y[1] = x /\ y[2] = ShellRef(x)
    BY <2>3
  <2> QED BY <2>1, <2>2, <2>4 DEF PairAt
<1>9. ASSUME NEW k \in 1 .. Len(a)
      PROVE  b[k] \in Argument /\ AfterKubelet(a[k], E) # EmptyArg
  <2>1. CASE a[k] = Flag("-e")
    BY <1>4, <1>5, <1>6, <2>1
  <2>2. CASE \E x \in DOMAIN E : a[k] = KeyValue(x, ShellRef(x))
    <3>1. PICK x \in DOMAIN E : a[k] = KeyValue(x, ShellRef(x))
      BY <2>2
    <3>2. KeyValue(x, E[x]) \in Argument
      BY <1>1, KeyValueTyped
    <3> QED BY <1>4, <1>7, <3>1, <3>2
  <2> QED BY <1>8, <2>1, <2>2
<1>10. b \in Seq(Argument) /\ Len(b) = Len(a)
  <2>1. b = [k \in 1 .. Len(a) |-> b[k]]
    BY DEF b
  <2> QED BY <1>3, <1>9, <2>1
<1>11. Becomes(a, b, E, TRUE)
  BY <1>3, <1>4, <1>9, <1>10 DEF Becomes
<1>12. ASSUME NEW y \in P
       PROVE  \E z \in Q : \A k \in 1 .. Len(a) : a[k] = KeyValue(y[1], y[2]) => b[k] = KeyValue(z[1], z[2])
  <2>1. PICK x \in DOMAIN E : y = <<x, ShellRef(x)>>
    BY <1>1 DEF Refs, Ref
  <2>2. PICK z \in Q : z = <<x, E[x]>>
    BY DEF MapPairs
  <2>3. y[1] = x /\ y[2] = ShellRef(x) /\ z[1] = x /\ z[2] = E[x]
    BY <2>1, <2>2
  <2>4. \A k \in 1 .. Len(a) : a[k] = KeyValue(y[1], y[2]) => b[k] = KeyValue(z[1], z[2])
    BY <1>4, <1>7, <2>3
  <2> QED BY <2>4
<1>13. ASSUME NEW z \in Q
       PROVE  \E y \in P : \A k \in 1 .. Len(a) : a[k] = KeyValue(y[1], y[2]) => b[k] = KeyValue(z[1], z[2])
  <2>1. PICK x \in DOMAIN E : z = <<x, E[x]>>
    BY DEF MapPairs
  <2>2. PICK y \in P : y = <<x, ShellRef(x)>>
    BY <1>1 DEF Refs, Ref
  <2>3. y[1] = x /\ y[2] = ShellRef(x) /\ z[1] = x /\ z[2] = E[x]
    BY <2>1, <2>2
  <2>4. \A k \in 1 .. Len(a) : a[k] = KeyValue(y[1], y[2]) => b[k] = KeyValue(z[1], z[2])
    BY <1>4, <1>7, <2>3
  <2> QED BY <2>4
<1>14. \A k \in 1 .. Len(a) : a[k] = Flag("-e") => b[k] = Flag("-e")
  BY <1>4, <1>6
<1>15. Q \subseteq KeyTexts
  BY <1>1 DEF MapPairs, KeyTexts
<1> HIDE DEF P, Q
<1>16. PairList(b, "-e", Q)
  BY <1>2, <1>10, <1>12, <1>13, <1>14, PairListMapped, SMTT(30)
<1>17. Sets(b, "-e", E)
  BY <1>5, <1>15, <1>16, PairListSets DEF Q
<1> QED
  BY <1>11, <1>17 DEF a

(* The same without a shell (KubeEnvArgsDeliver) and with one.             *)
LEMMA EnvArgsBecome ==
  ASSUME NEW env \in Seq(Var), NEW E, E = EnvMap(env), NEW shell \in BOOLEAN
  PROVE  \E b : Becomes(EnvArgs(env, shell), b, E, shell) /\ Sets(b, "-e", E)
<1>1. CASE shell
  <2>1. shell = TRUE
    BY <1>1
  <2> QED BY <2>1, ShellEnvArgsBecome
<1>2. CASE ~shell
  <2> DEFINE a == EnvArgs(env, FALSE)
             b == Expanded(a, E)
  <2>1. IsEnvironment(E) /\ Delivers(a, E, "-e", E)
    BY KubeEnvArgsDeliver
  <2>2. a \in Seq(Argument) /\ Sets(b, "-e", E)
    BY <2>1 DEF Delivers
  <2> HIDE DEF a
  <2>3. /\ b \in Seq(Argument) /\ Len(b) = Len(a)
        /\ \A k \in 1 .. Len(a) : b[k] = AfterKubelet(a[k], E)
    BY <2>1, <2>2, ExpandedTyped DEF AfterKubelet
  <2> HIDE DEF b
  <2>4. Becomes(a, b, E, FALSE)
    BY <2>2, <2>3 DEF Becomes
  <2>5. shell = FALSE
    BY <1>2
  <2> QED BY <2>2, <2>4, <2>5 DEF a
<1> QED
  BY <1>1, <1>2
-----------------------------------------------------------------------------
(* b stands in x, one argument after the other.                             *)
Within(b, x) ==
  /\ b \in Seq(Argument) /\ x \in Seq(Argument)
  /\ \E h \in Nat : h + Len(b) =< Len(x) /\ \A k \in 1 .. Len(b) : x[h + k] = b[k]

(* The parts of a concatenation stand in it.                               *)
LEMMA WithinConcat ==
  ASSUME NEW a \in Seq(Argument), NEW b \in Seq(Argument)
  PROVE  /\ Within(b, a \o b)
         /\ \A c : Within(c, a) => Within(c, a \o b)
<1>1. PICK x : x = a \o b
  OBVIOUS
<1>2. /\ x \in Seq(Argument) /\ Len(a) \in Nat /\ Len(b) \in Nat /\ Len(x) = Len(a) + Len(b)
      /\ \A k \in 1 .. Len(a) : x[k] = a[k]
      /\ \A k \in 1 .. Len(b) : x[Len(a) + k] = b[k]
  BY <1>1, ConcatParts
<1>3. Within(b, x)
  <2>1. PICK h \in Nat : h = Len(a)
    BY <1>2
  <2>2. h + Len(b) =< Len(x) /\ \A k \in 1 .. Len(b) : x[h + k] = b[k]
    BY <1>2, <2>1
  <2> QED BY <1>2, <2>2 DEF Within
<1>4. ASSUME NEW c, Within(c, a) PROVE Within(c, x)
  <2>1. c \in Seq(Argument) /\ Len(c) \in Nat
    BY <1>4 DEF Within
  <2>2. PICK h \in Nat : h + Len(c) =< Len(a) /\ \A k \in 1 .. Len(c) : a[h + k] = c[k]
    BY <1>4 DEF Within
  <2>3. ASSUME NEW k \in 1 .. Len(c) PROVE x[h + k] = c[k]
    <3>1. h + k \in 1 .. Len(a)
      BY <1>2, <2>1, <2>2
    <3> QED BY <1>2, <2>2, <3>1
  <2>4. h + Len(c) =< Len(x)
    BY <1>2, <2>1, <2>2
  <2> QED BY <1>2, <2>1, <2>3, <2>4 DEF Within
<1> QED
  BY <1>1, <1>3, <1>4

(* What stands in x is one of its subsequences.                            *)
LEMMA WithinSubSeqs ==
  ASSUME NEW b, NEW x, Within(b, x)
  PROVE  b \in SubSeqs(x)
<1>1. b \in Seq(Argument) /\ x \in Seq(Argument) /\ Len(b) \in Nat /\ Len(x) \in Nat
  BY DEF Within
<1>2. PICK h \in Nat : h + Len(b) =< Len(x) /\ \A k \in 1 .. Len(b) : x[h + k] = b[k]
  BY DEF Within
<1>3. PICK e \in Nat : e = h + Len(b)
  BY <1>1
<1>4. h \in 0 .. Len(x) /\ e \in 0 .. Len(x)
  BY <1>1, <1>2, <1>3
<1>5. PICK s : s = SubSeq(x, h + 1, e)
  OBVIOUS
<1>6. s \in Seq(Argument) /\ Len(s) = Len(b) /\ \A k \in 1 .. Len(b) : s[k] = x[h + k]
  BY <1>1, <1>2, <1>3, <1>5
<1>7. s = b
  <2>1. \A k \in 1 .. Len(s) : s[k] = b[k]
    BY <1>2, <1>6
  <2> QED BY <1>1, <1>6, <2>1, SeqEqual
<1> QED
  BY <1>4, <1>5, <1>7 DEF SubSeqs

(* The last part of a concatenation is a suffix of it.                     *)
LEMMA SuffixConcat ==
  ASSUME NEW a \in Seq(Argument), NEW b \in Seq(Argument)
  PROVE  IsSuffix(b, a \o b)
<1>1. PICK x : x = a \o b
  OBVIOUS
<1>2. /\ x \in Seq(Argument) /\ Len(a) \in Nat /\ Len(b) \in Nat /\ Len(x) = Len(a) + Len(b)
      /\ \A k \in 1 .. Len(a) : x[k] = a[k]
      /\ \A k \in 1 .. Len(b) : x[Len(a) + k] = b[k]
  BY <1>1, ConcatParts
<1>3. PICK r : r = Reverse(b)
  OBVIOUS
<1>4. PICK s : s = Reverse(x)
  OBVIOUS
<1>5. r \in Seq(Argument) /\ Len(r) = Len(b) /\ \A k \in 1 .. Len(b) : r[k] = b[(Len(b) - k) + 1]
  <2>1. r = [k \in 1 .. Len(b) |-> b[(Len(b) - k) + 1]]
    BY <1>3 DEF Reverse
  <2>2. \A k \in 1 .. Len(b) : b[(Len(b) - k) + 1] \in Argument
    BY <1>2
  <2> QED BY <1>2, <2>1, <2>2
<1>6. s \in Seq(Argument) /\ Len(s) = Len(x) /\ \A k \in 1 .. Len(x) : s[k] = x[(Len(x) - k) + 1]
  <2>1. s = [k \in 1 .. Len(x) |-> x[(Len(x) - k) + 1]]
    BY <1>4 DEF Reverse
  <2>2. \A k \in 1 .. Len(x) : x[(Len(x) - k) + 1] \in Argument
    BY <1>2
  <2> QED BY <1>2, <2>1, <2>2
<1>7. ASSUME NEW k \in 1 .. Len(b) PROVE r[k] = s[k]
  <2>1. PICK m \in 1 .. Len(b) : m = (Len(b) - k) + 1
    <3>1. (Len(b) - k) + 1 \in 1 .. Len(b)
      BY <1>2
    <3> QED BY ONLY <3>1
  <2>2. k \in 1 .. Len(x) /\ (Len(x) - k) + 1 = Len(a) + m
    BY <1>2, <2>1
  <2> QED BY <1>2, <1>5, <1>6, <2>1, <2>2
<1>8. PICK p : p = SubSeq(s, 1, Len(r))
  OBVIOUS
<1>9. p \in Seq(Argument) /\ Len(p) = Len(r) /\ \A k \in 1 .. Len(r) : p[k] = s[k]
  BY <1>2, <1>5, <1>6, <1>8
<1>10. r = p
  BY <1>5, <1>7, <1>9, SeqEqual
<1>11. SubSeq(r, 1, Len(r)) = r
  BY <1>5
<1>12. Len(r) =< Len(s)
  BY <1>2, <1>5, <1>6
<1>13. IsPrefix(r, s)
  BY <1>8, <1>10, <1>11, <1>12, Zenon DEF IsPrefix
<1> QED
  BY <1>1, <1>3, <1>4, <1>13 DEF IsSuffix

(* A user's TestRun: where its spec and its arguments come from.            *)
LEMMA UserSpec ==
  ASSUME OriginInv, ~trd.plz, pc \notin Early
  PROVE  /\ trd.plz = FALSE /\ spec \in UserSpecs /\ Argv \in Seq(Argument) /\ spec.env \in Seq(Var)
         /\ spec.parallelism \in Nat /\ IsNumbered(spec.parallelism)
         /\ NeedsShellCmd \in BOOLEAN
         /\ NeedsShellCmd => \A k \in 1 .. Len(Argv) : Argv[k] # EmptyArg
<1>1. trd = NoData /\ spec \in UserSpecs
  BY CloudAssumption DEF OriginInv
<1>2. /\ spec.arguments \in Seq(Argument) /\ spec.env \in Seq(Var)
      /\ spec.parallelism \in Nat /\ IsNumbered(spec.parallelism)
  BY <1>1, UserAssumption DEF Var
<1>3. Argv \in Seq(Argument)
  BY ArgvTyped
<1>4. NeedsShellCmd => Argv = Fields(spec.arguments)
  BY DEF NeedsShellCmd, Argv
<1>5. NeedsShellCmd => \A k \in 1 .. Len(Argv) : Argv[k] # EmptyArg
  BY <1>2, <1>4, FieldsTyped
<1>6. trd.plz = FALSE /\ NeedsShellCmd \in BOOLEAN
  BY <1>1 DEF NoData, NeedsShellCmd
<1> QED
  BY <1>1, <1>2, <1>3, <1>5, <1>6

(* Literal arguments have neither $ nor ${.                                *)
LEMMA LiteralInert ==
  ASSUME NEW a \in Seq(Argument), Literal(a)
  PROVE  \A k \in 1 .. Len(a) : Inert(a[k].text)
<1> SUFFICES ASSUME NEW k \in 1 .. Len(a), NEW m \in 1 .. Len(a[k].text)
             PROVE  a[k].text[m] # "$" /\ a[k].text[m] # Opening
  BY DEF Inert
<1>1. k \in DOMAIN a
  OBVIOUS
<1>2. a[k].text \in Text
  BY ArgumentAt
<1>3. m \in DOMAIN a[k].text
  BY <1>2 DEF Text
<1>4. ToSet(a[k].text) \cap {"$", "${"} = {}
  BY <1>1, Zenon DEF Literal
<1>5. a[k].text[m] \in ToSet(a[k].text)
  BY <1>3 DEF ToSet
<1> QED
  BY <1>4, <1>5, Zenon DEF Opening

(* The environment that CloudEnv adds to a user's runner.                   *)
LEMMA CloudEnvTyped ==
  ASSUME trd.plz = FALSE
  PROVE  CloudEnv \in Seq(Var)
<1>1. {"K6_CLOUD_AGGREGATION_PERIOD", "3s"} \subseteq Name
  BY ONLY WordsAssumption DEF Special, Name
<1>2. EnvVar("K6_CLOUD_AGGREGATION_PERIOD", <<"3s">>) \in Var
  BY <1>1, NameText, EnvVarTyped
<1>3. AggregationEnvVars \in Seq(Var)
  BY <1>2 DEF AggregationEnvVars
<1>4. TokenVars \in Seq(Var)
  BY TokenVarsFacts
<1>5. AggregationEnvVars \o TokenVars \in Seq(Var) /\ <<>> \in Seq(Var)
  BY <1>3, <1>4, ConcatProperties
<1>6. CloudEnv = Given(cli.HasCloudOut, AggregationEnvVars \o TokenVars)
  BY DEF CloudEnv, Given, TokenVars
<1> QED
  BY <1>5, <1>6 DEF Given

(* The command of a user's runner reaches k6 as it is.                      *)
LEMMA UserRunner ==
  ASSUME OriginInv, CommandsInv, ~trd.plz, Literal(Argv), NEW r \in DOMAIN runners
  PROVE  Argv \in SubSeqs(Delivered(runners[r]))
<1> DEFINE w == ToString(r)
           c == runners[r]
           p == Pair("--tag", "instance_id", <<w>>)
           n == Pair("--tag", "testrun_name", <<"name">>)
           env == EnvMap(c.env)
           shell == c.shell
           a1 == RunnerHead \o Argv
           a2 == a1 \o ScriptArgs
           a3 == a2 \o p
           a4 == a3 \o n
<1>1. r \in 1 .. Len(runners)
  BY DEF CommandsInv
<1>2. pc \notin Early
  BY <1>1 DEF CommandsInv, Early
<1>3. /\ trd.plz = FALSE /\ Argv \in Seq(Argument) /\ spec.env \in Seq(Var) /\ spec.parallelism \in Nat
      /\ IsNumbered(spec.parallelism) /\ NeedsShellCmd \in BOOLEAN
      /\ NeedsShellCmd => \A k \in 1 .. Len(Argv) : Argv[k] # EmptyArg
  BY <1>2, UserSpec
<1>4. c = NewRunnerJob(r) /\ r \in 1 .. spec.parallelism
  BY <1>1, <1>3 DEF CommandsInv
<1>5. w \in Name
  BY <1>3, <1>4 DEF IsNumbered
<1>6. c.env = CloudEnv \o spec.env
  BY <1>4 DEF NewRunnerJob
<1>7. IsEnvironment(env)
  <2>1. CloudEnv \in Seq(Var)
    BY <1>3, CloudEnvTyped
  <2>2. c.env \in Seq(Var)
    BY <1>3, <1>6, <2>1, ConcatProperties
  <2> QED BY <2>2, EnvMapOf DEF IsEnvironment
<1>8. shell = (ScriptType = "LocalFile" /\ NeedsShellCmd)
  BY <1>4 DEF NewRunnerJob
<1>9. shell \in BOOLEAN /\ (shell => NeedsShellCmd)
  BY <1>3, <1>8
<1>10. c.args = a4
  <2>1. c.args =
          RunnerHead \o Argv \o ScriptArgs
          \o Pair("--tag", "instance_id", <<ToString(r)>>) \o Pair("--tag", "testrun_name", <<"name">>)
          \o Given(trd.plz, PLZFlags) \o Given(trd.plz, Pair("-e", "K6_CLOUDRUN_INSTANCE_ID", <<ToString(r)>>))
    BY <1>4 DEF NewRunnerJob, RunnerHead, ScriptArgs, PLZFlags
  <2>2. c.args = a4 \o <<>> \o <<>>
    BY <1>3, <2>1 DEF Given
  <2>3. a4 \in Seq(Argument)
    <3>1. RunnerHead \in Seq(Argument) /\ ScriptArgs \in Seq(Argument)
      BY RunnerOwn DEF AllOwn
    <3>2. p \in Seq(Argument) /\ n \in Seq(Argument)
      <4>1. {"instance_id", "testrun_name", "name"} \subseteq Name /\ "--tag" \in FlagName
        BY ONLY WordsAssumption DEF Special, Name
      <4> QED BY <1>5, <4>1, NameText, OnePair
    <3> HIDE DEF p, n
    <3>3. a1 \in Seq(Argument)
      BY <1>3, <3>1, ConcatProperties
    <3> HIDE DEF a1
    <3>4. a2 \in Seq(Argument)
      BY <3>1, <3>3, ConcatProperties
    <3> HIDE DEF a2
    <3>5. a3 \in Seq(Argument)
      BY <3>2, <3>4, ConcatProperties
    <3> HIDE DEF a3
    <3> QED BY <3>2, <3>5, ConcatProperties
  <2> HIDE DEF a4
  <2> QED BY <2>2, <2>3, ConcatEmptySeq
<1>11. Becomes(RunnerHead, RunnerHead, env, shell) /\ Becomes(ScriptArgs, ScriptArgs, env, shell)
  BY <1>9, RunnerOwn, OwnBecomes
<1>12. Becomes(p, p, env, shell) /\ Becomes(n, n, env, shell)
  <2>1. {"instance_id", "testrun_name", "name"} \subseteq Name /\ "--tag" \in FlagName
    BY ONLY WordsAssumption DEF Special, Name
  <2> QED BY <1>5, <1>9, <2>1, NamePairBecomes
<1>13. Becomes(Argv, Argv, env, shell)
  <2>1. \A k \in 1 .. Len(Argv) : Inert(Argv[k].text)
    BY <1>3, LiteralInert
  <2> HIDE DEF shell, env
  <2> QED BY <1>3, <1>9, <2>1, InertBecomes
<1> HIDE DEF w, c, p, n, env, shell
<1>14. Becomes(a1, a1, env, shell)
  BY <1>11, <1>13, BecomesConcat
<1> HIDE DEF a1
<1>15. Becomes(a2, a2, env, shell)
  BY <1>11, <1>14, BecomesConcat
<1> HIDE DEF a2
<1>16. Becomes(a3, a3, env, shell)
  BY <1>12, <1>15, BecomesConcat
<1> HIDE DEF a3
<1>17. Becomes(a4, a4, env, shell)
  BY <1>12, <1>16, BecomesConcat
<1>18. /\ RunnerHead \in Seq(Argument) /\ ScriptArgs \in Seq(Argument) /\ p \in Seq(Argument) /\ n \in Seq(Argument)
       /\ a1 \in Seq(Argument) /\ a2 \in Seq(Argument) /\ a3 \in Seq(Argument)
  BY <1>11, <1>12, <1>14, <1>15, <1>16 DEF Becomes
<1>19. Within(Argv, a1)
  BY <1>3, <1>18, WithinConcat DEF a1
<1>20. Within(Argv, a2)
  BY <1>18, <1>19, WithinConcat DEF a2
<1>21. Within(Argv, a3)
  BY <1>18, <1>20, WithinConcat DEF a3
<1>22. Within(Argv, a4)
  BY <1>18, <1>21, WithinConcat
<1> HIDE DEF a4
<1>23. Argv \in SubSeqs(a4)
  BY <1>22, WithinSubSeqs
<1>24. Delivered(c) = a4
  <2>1. env = EnvMap(c.env) /\ shell = c.shell
    BY DEF env, shell
  <2>2. Becomes(c.args, a4, env, c.shell) /\ c.shell \in BOOLEAN
    BY <1>9, <1>10, <1>17, <2>1
  <2> QED BY <1>7, <2>1, <2>2, BecomesDelivered
<1> QED
  BY <1>23, <1>24 DEF c

(* The operator's own arguments set no variable, unexpanded.               *)
LEMMA OwnSetsNothing ==
  ASSUME NEW a, AllOwn(a)
  PROVE  SetsNothing(a, "-e")
<1>1. a \in Seq(Argument) /\ NoFlag(a, "-e")
  BY DEF AllOwn, Own, NoFlag
<1> QED
  BY <1>1, NoFlagNone DEF SetsNothing

(* The archive is made with the arguments that ParseCLI has selected, after *)
(* the variables of the environment.                                        *)
LEMMA UserArchive ==
  ASSUME OriginInv, LoopInv, CommandsInv, ~trd.plz, Literal(Argv), Made(archive)
  PROVE  /\ IsSuffix(cli.ArchiveArgs, Delivered(archive))
         /\ \A v \in ToSet(spec.env) :
              Effective(Delivered(archive), "-e", v.name) =
                Effective(Pair("-e", v.name, EnvMap(archive.env)[v.name]) \o cli.ArchiveArgs, "-e", v.name)
<1> DEFINE E == EnvMap(archive.env)
           A == cli.ArchiveArgs
           shell == NeedsShellCmd
           e == EnvArgs(spec.env, shell)
<1>1. pc \in {"runners", "noscript"} /\ archive = NewInitializerJob
  BY DEF CommandsInv
<1>2. pc \notin Early
  BY <1>1 DEF Early
<1>3. /\ Argv \in Seq(Argument) /\ spec.env \in Seq(Var) /\ shell \in BOOLEAN
      /\ shell => \A k \in 1 .. Len(Argv) : Argv[k] # EmptyArg
  BY <1>2, UserSpec
<1>4. archive.args = ArchiveHead \o e \o ArchiveFile \o A /\ archive.env = spec.env /\ archive.shell = shell
  BY <1>1, InitializerJob
<1>5. A = CLIOf(Argv).ArchiveArgs
  <2>1. i = Len(Argv) + 1 /\ cli = CLIOf(SubSeq(Argv, 1, i - 1))
    BY <1>1, <1>2 DEF LoopInv
  <2>2. i - 1 = Len(Argv) /\ SubSeq(Argv, 1, Len(Argv)) = Argv
    BY <1>3, <2>1
  <2> QED BY <2>1, <2>2
<1> HIDE DEF A
<1>6. A \in Seq(Argument) /\ \A k \in 1 .. Len(A) : \E j \in 1 .. Len(Argv) : A[k] = Argv[j]
  BY <1>3, <1>5, ArchivedFrom
<1>7. DOMAIN E = EnvNames(spec.env) /\ DOMAIN E \subseteq Name /\ \A x \in DOMAIN E : E[x] \in Text
  BY <1>3, <1>4, EnvMapOf DEF EnvNames
<1>8. PICK b : Becomes(e, b, E, shell) /\ Sets(b, "-e", E)
  BY <1>3, <1>4, EnvArgsBecome
<1> HIDE DEF E, shell, e
<1>9. IsEnvironment(E)
  BY <1>7 DEF IsEnvironment
<1>10. Becomes(A, A, E, shell)
  <2>1. \A k \in 1 .. Len(Argv) : Inert(Argv[k].text)
    BY <1>3, LiteralInert
  <2>2. \A k \in 1 .. Len(A) : Inert(A[k].text)
    BY <1>6, <2>1
  <2>3. shell => \A k \in 1 .. Len(A) : A[k] # EmptyArg
    BY <1>3, <1>6
  <2> QED BY <1>3, <1>6, <2>2, <2>3, InertBecomes
<1>11. Becomes(ArchiveHead, ArchiveHead, E, shell) /\ Becomes(ArchiveFile, ArchiveFile, E, shell)
  BY <1>3, ArchiveOwn, OwnBecomes
<1>12. PICK f : f = ArchiveHead \o b \o ArchiveFile
  OBVIOUS
<1>13. Becomes(ArchiveHead \o e \o ArchiveFile, f, E, shell)
  BY <1>8, <1>11, <1>12, BecomesConcat
<1>14. Becomes(ArchiveHead \o e \o ArchiveFile \o A, f \o A, E, shell)
  BY <1>10, <1>13, BecomesConcat
<1>15. Delivered(archive) = f \o A
  <2>1. E = EnvMap(archive.env)
    BY DEF E
  <2> QED BY <1>3, <1>4, <1>9, <1>14, <2>1, BecomesDelivered
<1>16. Sets(f, "-e", E)
  <2>1. SetsNothing(ArchiveHead, "-e") /\ SetsNothing(ArchiveFile, "-e")
    BY ArchiveOwn, OwnSetsNothing
  <2>2. Sets(ArchiveHead \o b, "-e", E)
    BY <1>8, <2>1, SetsMore
  <2> QED BY <1>12, <2>1, <2>2, SetsMore
<1>17. f \in Seq(Argument) /\ Closed(f, "-e")
  BY <1>16 DEF Sets
<1>18. IsSuffix(A, f \o A)
  BY <1>6, <1>17, SuffixConcat
<1>19. ASSUME NEW v \in ToSet(spec.env)
       PROVE  Effective(f \o A, "-e", v.name) = Effective(Pair("-e", v.name, E[v.name]) \o A, "-e", v.name)
  <2>1. PICK x \in DOMAIN E : x = v.name
    <3>1. DOMAIN spec.env = 1 .. Len(spec.env)
      BY <1>3
    <3>2. v.name \in EnvNames(spec.env)
      BY <3>1 DEF ToSet, EnvNames
    <3> QED BY <1>7, <3>2
  <2>2. x \in Name /\ E[x] \in Text /\ "-e" \in FlagName /\ "-e" # "none"
    BY <1>7, WordsAssumption
  <2>3. PICK m : m = [y \in {x} |-> E[x]]
    OBVIOUS
  <2>4. PICK q : q = Pair("-e", x, E[x])
    OBVIOUS
  <2>5. Sets(q, "-e", m)
    <3>1. PairList(q, "-e", MapPairs(m)) /\ MapPairs(m) \subseteq KeyTexts
      BY <2>2, <2>3, <2>4, PairIsList
    <3> QED BY <2>2, <3>1, PairListSets
  <2>6. x \in DOMAIN m /\ m[x] = E[x]
    BY <2>3
  <2>7. Effective(q, "-e", x) = E[x] /\ Effective(f, "-e", x) = E[x] /\ q \in Seq(Argument) /\ Closed(q, "-e")
    BY <1>16, <2>1, <2>5, <2>6 DEF Sets
  <2>8. Effective(f \o A, "-e", x) = Effective(q \o A, "-e", x)
    <3>1. CASE None(A, "-e", x)
      BY <1>6, <1>17, <2>7, <3>1, EffectiveConcat
    <3>2. CASE ~None(A, "-e", x)
      BY <1>6, <1>17, <2>7, <3>2, EffectiveConcat
    <3> QED BY <3>1, <3>2
  <2> QED BY <2>1, <2>4, <2>8
<1> QED
  BY <1>15, <1>18, <1>19 DEF A, E

(* The arguments of a user's TestRun reach k6 unchanged and together, in    *)
(* every runner, and the archive is made with the selected ones, after the  *)
(* environment (newInitializerCommand, NewRunnerJob), whether the kubelet   *)
(* or a shell replaces the references.                                      *)
THEOREM UserArgumentsReach == Spec => []ArgumentsIntact
<1>1. OriginInv /\ LoopInv /\ CommandsInv => ArgumentsIntact
  BY UserRunner, UserArchive DEF ArgumentsIntact
<1> QED
  BY <1>1, Commands, PTL

=============================================================================
