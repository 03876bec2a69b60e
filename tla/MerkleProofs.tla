----------------------------- MODULE MerkleProofs -----------------------------
(***************************************************************************)
(* Proofs about the Merkle tree: the proof generated for a leaf verifies   *)
(* the content of that leaf and no other, however many leaves there are.   *)
(*                                                                         *)
(* A recursive definition is the function CHOOSE finds: that there is one  *)
(* is shown by induction on its domain, and so is what it computes.        *)
(***************************************************************************)
EXTENDS MerkleTree, WellFoundedInduction, FiniteSetTheorems, TLAPS

(***************************************************************************)
(* Natural numbers                                                         *)
(***************************************************************************)

(* A set of numbers that is not empty has a least one.                     *)
LEMMA LeastNatural ==
    ASSUME NEW S \in SUBSET Nat, S # {}
    PROVE  \E x \in S : \A y \in S : x <= y
<1>. DEFINE R == {ss \in Nat \X Nat : ss[1] < ss[2]}
<1>1. IsWellFoundedOn(R, Nat)
  BY NatLessThanWellFounded DEF OpToRel
<1>2. \A x, y \in Nat : x <= y \/ <<y, x>> \in R
  OBVIOUS
<1>. HIDE DEF R
<1>3. PICK x \in S : \A y \in S : ~(<<y, x>> \in R)
  BY <1>1, WFMin
<1>. QED  BY <1>2, <1>3

(* Induction: a set of numbers with 0 and every successor is all of them.  *)
LEMMA SetInduction ==
    ASSUME NEW S \in SUBSET Nat, 0 \in S, \A n \in S : n + 1 \in S
    PROVE  S = Nat
<1>. SUFFICES ASSUME Nat \ S # {} PROVE FALSE
  OBVIOUS
<1>1. PICK x \in Nat \ S : \A y \in Nat \ S : x <= y
  BY LeastNatural
<1>2. x - 1 \in Nat /\ x - 1 < x /\ (x - 1) + 1 = x
  BY <1>1
<1>. QED  BY <1>1, <1>2

(* Powers of two are counted by the sets of numbers.                       *)
LEMMA PowerIsNatural ==
    ASSUME NEW k \in Nat
    PROVE  2^k \in Nat /\ Cardinality(SUBSET (1 .. k)) = 2^k /\ IsFiniteSet(SUBSET (1 .. k))
<1>1. IsFiniteSet(1 .. k) /\ Cardinality(1 .. k) = k
  BY FS_Interval
<1>2. IsFiniteSet(SUBSET (1 .. k)) /\ Cardinality(SUBSET (1 .. k)) = 2^k
  BY <1>1, FS_SUBSET
<1>. QED  BY <1>2, FS_CardinalityType

(* With one element more, there are as many sets again.                    *)
LEMMA PowerDoubles ==
    ASSUME NEW k \in Nat
    PROVE  2^(k + 1) = 2 * 2^k
<1>. DEFINE S == SUBSET (1 .. k)
            T == {A \in SUBSET (1 .. k + 1) : k + 1 \in A}
            F == [A \in S |-> A \union {k + 1}]
<1>1. S \union T = SUBSET (1 .. k + 1) /\ S \intersect T = {}
  <2>1. 1 .. k + 1 = (1 .. k) \union {k + 1} /\ k + 1 \notin 1 .. k
    OBVIOUS
  <2>. QED  BY <2>1
<1>2. F \in Bijection(S, T)
  <2>1. 1 .. k + 1 = (1 .. k) \union {k + 1} /\ k + 1 \notin 1 .. k
    OBVIOUS
  <2>2. \A A \in S : F[A] \in T
    BY <2>1
  <2>3. F \in Injection(S, T)
    <3>1. \A A, B \in S : F[A] = F[B] => A = B
      BY <2>1
    <3>. QED  BY <2>2, <3>1 DEF Injection, IsInjective
  <2>4. \A B \in T : B \ {k + 1} \in S /\ F[B \ {k + 1}] = B
    BY <2>1
  <2>5. F \in Surjection(S, T)
    BY <2>2, <2>4 DEF Surjection
  <2>. QED  BY <2>3, <2>5 DEF Bijection
<1>3. IsFiniteSet(S) /\ Cardinality(S) = 2^k /\ 2^k \in Nat
  BY PowerIsNatural
<1>. HIDE DEF S, T, F
<1>4. IsFiniteSet(T) /\ Cardinality(T) = 2^k
  BY <1>2, <1>3, FS_Bijection DEF ExistsBijection
<1>5. Cardinality({}) = 0
  BY FS_EmptySet
<1>6. Cardinality(S \union T) = 2^k + 2^k - 0
  BY <1>1, <1>3, <1>4, <1>5, FS_Union
<1>7. Cardinality(SUBSET (1 .. k + 1)) = 2^(k + 1)
  BY PowerIsNatural
<1>8. 2^(k + 1) = 2^k + 2^k - 0
  BY <1>1, <1>6, <1>7, Zenon
<1>9. \A n \in Nat : n + n - 0 = 2 * n
  OBVIOUS
<1>. QED  BY <1>3, <1>8, <1>9, Zenon

(* The one set of no numbers.                                              *)
LEMMA PowerOfZero == 2^0 = 1
<1>1. Cardinality(SUBSET (1 .. 0)) = 2^0
  BY PowerIsNatural
<1>2. SUBSET (1 .. 0) = {{}}
  OBVIOUS
<1>. QED  BY <1>1, <1>2, FS_Singleton

(* Halving once more.                                                      *)
LEMMA DivDiv ==
    ASSUME NEW t \in Nat, NEW m \in Nat \ {0}
    PROVE  (t \div m) \div 2 = t \div (2 * m)
<1>. DEFINE q == t \div m
            r == t % m
            p == q \div 2
            s == q % 2
<1>1. q \in Nat /\ r \in 0 .. m - 1 /\ t = m * q + r
  OBVIOUS
<1>2. p \in Nat /\ s \in 0 .. 1 /\ q = 2 * p + s
  BY <1>1
<1>. HIDE DEF q, r, p, s
<1>3. t = (2 * m) * p + (m * s + r)
  BY <1>1, <1>2
<1>4. m * s + r \in 0 .. 2 * m - 1
  BY <1>1, <1>2
<1>5. t \div (2 * m) = p
  BY <1>1, <1>2, <1>3, <1>4
<1>. QED BY <1>5 DEF q, p

-----------------------------------------------------------------------------
(***************************************************************************)
(* The levels of the tree                                                  *)
(***************************************************************************)

(* The padded leaves are the least power of two that has room for them.    *)
LEMMA HeightIsEnough ==
    ASSUME NEW n \in Nat
    PROVE  Height(n) \in 0 .. n /\ 2^Height(n) >= n
<1>. DEFINE S == {k \in Nat : 2^k >= k}
            F == {k \in 0 .. n : 2^k >= n}
<1>1. S = Nat
  <2>1. 0 \in S
    BY PowerOfZero
  <2>2. ASSUME NEW k \in S PROVE k + 1 \in S
    <3>1. k \in Nat /\ 2^k \in Nat /\ 2^k >= k /\ 2^(k + 1) = 2 * 2^k
      BY <2>2, PowerIsNatural, PowerDoubles
    <3>2. CASE k = 0
      BY <3>1, <3>2, PowerOfZero
    <3>3. CASE k # 0
      BY <3>1, <3>3
    <3>. QED  BY <3>2, <3>3
  <2>. HIDE DEF S
  <2>3. S \in SUBSET Nat
    BY DEF S
  <2>. QED  BY <2>1, <2>2, <2>3, SetInduction
<1>2. n \in F
  BY <1>1
<1>3. PICK k \in F : \A j \in F : k <= j
  <2>1. F \in SUBSET Nat /\ F # {}
    BY <1>2
  <2>. HIDE DEF F
  <2>. QED  BY <2>1, LeastNatural
<1>4. \E m \in 0 .. n : 2^m >= n /\ \A j \in 0 .. n : 2^j >= n => m <= j
  BY <1>3
<1>. QED  BY <1>4 DEF Height

(* A sequence has the length of its domain.                                *)
LEMMA LengthOf ==
    ASSUME NEW n \in Nat, NEW s, s = [i \in 1 .. n |-> s[i]]
    PROVE  Len(s) = n
<1>. DEFINE R == {s[i] : i \in 1 .. n}
<1>1. s \in [1 .. n -> R]
  OBVIOUS
<1>. HIDE DEF R
<1>. QED  BY <1>1

(* The recursion of the levels is well defined.                            *)
LEMMA LevelsDefined ==
    ASSUME NEW leaves, Height(Len(leaves)) \in Nat
    PROVE  Levels(leaves) =
               [k \in 0 .. Height(Len(leaves)) |->
                   IF k = 0 THEN Padded(leaves) ELSE LevelAbove(Levels(leaves)[k - 1])]
<1>. DEFINE Rec(n, g) ==
                g = [k \in 0 .. n |-> IF k = 0 THEN Padded(leaves) ELSE LevelAbove(g[k - 1])]
            S == {n \in Nat : \E g : Rec(n, g)}
<1>1. 0 \in S
  <2>. DEFINE g == [k \in 0 .. 0 |-> Padded(leaves)]
  <2>1. Rec(0, g)
    OBVIOUS
  <2>. QED  BY <2>1
<1>2. ASSUME NEW n \in S PROVE n + 1 \in S
  <2>1. PICK g : Rec(n, g)
    BY <1>2
  <2>. DEFINE h == [k \in 0 .. n + 1 |-> IF k = n + 1 THEN LevelAbove(g[n]) ELSE g[k]]
  <2>2. ASSUME NEW k \in 0 .. n + 1
        PROVE  h[k] = IF k = 0 THEN Padded(leaves) ELSE LevelAbove(h[k - 1])
    <3>1. CASE k = n + 1
      BY <1>2, <3>1
    <3>2. CASE k \in 0 .. n
      <4>1. g[k] = IF k = 0 THEN Padded(leaves) ELSE LevelAbove(g[k - 1])
        BY <2>1, <3>2
      <4>2. h[k] = g[k] /\ (k # 0 => h[k - 1] = g[k - 1])
        BY <1>2, <3>2
      <4>. QED  BY <4>1, <4>2
    <3>. QED  BY <1>2, <3>1, <3>2
  <2>3. Rec(n + 1, h)
    BY <1>2, <2>2
  <2>4. n + 1 \in Nat
    BY <1>2
  <2>. HIDE DEF h, Rec
  <2>. QED  BY <2>3, <2>4
<1>. HIDE DEF Rec
<1>3. Height(Len(leaves)) \in S
  <2>1. S \in SUBSET Nat
    OBVIOUS
  <2>. HIDE DEF S
  <2>. QED  BY <1>1, <1>2, <2>1, SetInduction
<1>4. PICK g : Rec(Height(Len(leaves)), g)
  BY <1>3
<1>. QED  BY <1>4, Zenon DEF Rec, Levels

(* Level k of a tree of height h has 2^(h - k) hashes, and each above the  *)
(* leaves is the pair of two below it.                                     *)
LEMMA LevelShape ==
    ASSUME NEW leaves, Len(leaves) \in Nat, NEW k \in 0 .. Height(Len(leaves))
    PROVE  LET size == 2^(Height(Len(leaves)) - k)
               level == Levels(leaves)[k]
           IN  /\ size \in Nat
               /\ level = [i \in 1 .. size |-> level[i]]
               /\ Len(level) = size
<1>. DEFINE H == Height(Len(leaves))
            Size(n) == 2^(H - n)
            Shaped(n) == Levels(leaves)[n] = [i \in 1 .. Size(n) |-> Levels(leaves)[n][i]]
            S == {n \in Nat : n <= H => Shaped(n)}
<1>1. H \in Nat
  BY HeightIsEnough
<1>2. /\ Levels(leaves)[0] = Padded(leaves)
      /\ \A n \in 1 .. H : Levels(leaves)[n] = LevelAbove(Levels(leaves)[n - 1])
  <2>1. Levels(leaves) = [n \in 0 .. H |->
                             IF n = 0 THEN Padded(leaves) ELSE LevelAbove(Levels(leaves)[n - 1])]
    BY <1>1, LevelsDefined
  <2>. HIDE DEF H
  <2>. QED  BY <1>1, <2>1
<1>3. ASSUME NEW n \in 0 .. H PROVE Size(n) \in Nat /\ (n < H => Size(n) = 2 * Size(n + 1))
  <2>1. H - n \in Nat /\ (n < H => H - (n + 1) \in Nat /\ (H - (n + 1)) + 1 = H - n)
    BY <1>1
  <2>. HIDE DEF H
  <2>2. n < H => 2^((H - (n + 1)) + 1) = 2 * 2^(H - (n + 1))
    BY <2>1, PowerDoubles
  <2>. QED  BY <2>1, <2>2, PowerIsNatural
<1>4. 0 \in S
  <2>1. H - 0 = H
    BY <1>1
  <2>2. Shaped(0)
    BY <1>2, <2>1 DEF Padded
  <2>. QED  BY <2>2
<1>. HIDE DEF H, Size
<1>5. ASSUME NEW n \in S PROVE n + 1 \in S
  <2>. SUFFICES ASSUME n + 1 <= H PROVE Shaped(n + 1)
    BY <1>5
  <2>1. n \in 0 .. H /\ n + 1 \in 0 .. H /\ n < H /\ (n + 1) - 1 = n /\ n + 1 \in 1 .. H /\ Shaped(n)
    BY <1>1, <1>5
  <2>2. Len(Levels(leaves)[n]) = Size(n)
    BY <1>3, <2>1, LengthOf
  <2>3. Size(n) \div 2 = Size(n + 1)
    BY <1>3, <2>1
  <2>4. Levels(leaves)[n + 1] = LevelAbove(Levels(leaves)[n])
    BY <1>2, <2>1
  <2>5. LevelAbove(Levels(leaves)[n]) =
            [i \in 1 .. Size(n + 1) |->
                HashPair(Levels(leaves)[n][2 * i - 1], Levels(leaves)[n][2 * i])]
    BY <2>2, <2>3 DEF LevelAbove
  <2>. QED  BY <2>4, <2>5
<1>6. k \in S
  <2>1. S \in SUBSET Nat
    OBVIOUS
  <2>. HIDE DEF S
  <2>2. S = Nat
    BY <1>4, <1>5, <2>1, SetInduction
  <2>. QED  BY <1>1, <2>2 DEF H
<1>7. Shaped(k) /\ Size(k) \in Nat
  BY <1>1, <1>3, <1>6 DEF H
<1>8. Len(Levels(leaves)[k]) = Size(k)
  BY <1>7, LengthOf
<1>. QED  BY <1>7, <1>8 DEF H, Size

LEMMA LevelStep ==
    ASSUME NEW leaves, Len(leaves) \in Nat, NEW k \in 1 .. Height(Len(leaves)),
           NEW i \in 1 .. 2^(Height(Len(leaves)) - k)
    PROVE  Levels(leaves)[k][i] =
               HashPair(Levels(leaves)[k - 1][2 * i - 1], Levels(leaves)[k - 1][2 * i])
<1>. DEFINE H == Height(Len(leaves))
<1>1. H \in Nat
  BY HeightIsEnough
<1>2. Levels(leaves)[k] = LevelAbove(Levels(leaves)[k - 1])
  <2>1. Levels(leaves) = [n \in 0 .. H |->
                             IF n = 0 THEN Padded(leaves) ELSE LevelAbove(Levels(leaves)[n - 1])]
    BY <1>1, LevelsDefined
  <2>2. k \in 1 .. H
    OBVIOUS
  <2>. HIDE DEF H
  <2>. QED  BY <1>1, <2>1, <2>2
<1>3. Len(Levels(leaves)[k - 1]) = 2^(H - (k - 1))
  <2>1. k - 1 \in 0 .. H
    BY <1>1
  <2>. QED  BY <2>1, LevelShape
<1>4. 2^(H - (k - 1)) = 2 * 2^(H - k) /\ 2^(H - k) \in Nat
  <2>1. H - k \in Nat /\ (H - k) + 1 = H - (k - 1)
    BY <1>1
  <2>. HIDE DEF H
  <2>2. 2^((H - k) + 1) = 2 * 2^(H - k)
    BY <2>1, PowerDoubles
  <2>. QED  BY <2>1, <2>2, PowerIsNatural
<1>5. Len(Levels(leaves)[k - 1]) \div 2 = 2^(H - k)
  BY <1>3, <1>4
<1>. QED  BY <1>2, <1>5 DEF LevelAbove

(* The place of a leaf halves from level to level, within the level.       *)
LEMMA PlaceInLevel ==
    ASSUME NEW n \in Nat, NEW target \in 0 .. n - 1, NEW k \in 0 .. Height(n)
    PROVE  /\ target \div 2^k \in 0 .. 2^(Height(n) - k) - 1
           /\ k < Height(n) => target \div 2^(k + 1) = (target \div 2^k) \div 2
<1>. DEFINE H == Height(n)
            Place(j) == target \div 2^j
            Size(j) == 2^(H - j)
            S == {j \in Nat : j <= H => Place(j) \in 0 .. Size(j) - 1}
<1>1. H \in Nat /\ Size(0) >= n
  <2>1. H \in Nat /\ 2^H >= n /\ H - 0 = H
    BY HeightIsEnough
  <2>. QED  BY <2>1
<1>2. ASSUME NEW j \in Nat PROVE Place(j + 1) = Place(j) \div 2
  <2>1. 2^j \in Nat \ {0} /\ 2^(j + 1) = 2 * 2^j
    <3>. DEFINE Z == {i \in Nat : 2^i # 0}
    <3>1. 0 \in Z
      BY PowerOfZero
    <3>2. ASSUME NEW i \in Z PROVE i + 1 \in Z
      BY <3>2, PowerIsNatural, PowerDoubles
    <3>3. Z \in SUBSET Nat
      OBVIOUS
    <3>. HIDE DEF Z
    <3>4. j \in Z
      BY <3>1, <3>2, <3>3, SetInduction
    <3>. QED  BY <3>4, PowerIsNatural, PowerDoubles DEF Z
  <2>2. target \in Nat
    OBVIOUS
  <2>. QED  BY <2>1, <2>2, DivDiv
<1>3. ASSUME NEW j \in 0 .. H
      PROVE  Size(j) \in Nat /\ (j < H => Size(j) = 2 * Size(j + 1))
  <2>1. H - j \in Nat /\ (j < H => H - (j + 1) \in Nat /\ (H - (j + 1)) + 1 = H - j)
    BY <1>1
  <2>. HIDE DEF H
  <2>2. j < H => 2^((H - (j + 1)) + 1) = 2 * 2^(H - (j + 1))
    BY <2>1, PowerDoubles
  <2>. QED  BY <2>1, <2>2, PowerIsNatural
<1>4. 0 \in S
  <2>1. Place(0) = target
    BY PowerOfZero
  <2>2. 0 \in 0 .. H /\ Size(0) \in Nat
    BY <1>1, <1>3
  <2>. HIDE DEF Place, Size
  <2>. QED  BY <1>1, <2>1, <2>2
<1>. HIDE DEF H, Size, Place
<1>5. ASSUME NEW j \in S PROVE j + 1 \in S
  BY <1>1, <1>2, <1>3, <1>5
<1>6. S = Nat
  <2>1. S \in SUBSET Nat
    OBVIOUS
  <2>. HIDE DEF S
  <2>. QED  BY <1>4, <1>5, <2>1, SetInduction
<1>7. k \in Nat /\ k <= H
  BY <1>1 DEF H
<1>8. Place(k) \in 0 .. Size(k) - 1 /\ Place(k + 1) = Place(k) \div 2
  BY <1>2, <1>6, <1>7
<1>. QED  BY <1>8 DEF H, Size, Place

(* The sibling of a place in a level of even size is in the level.         *)
LEMMA SiblingInLevel ==
    ASSUME NEW half \in Nat, NEW index \in 0 .. 2 * half - 1
    PROVE  /\ index % 2 = 0 => Sibling(index) % (2 * half) = index + 1
           /\ index % 2 # 0 => Sibling(index) % (2 * half) = index - 1
<1>1. PICK p \in Nat : index = 2 * p \/ index = 2 * p + 1
  <2>1. index \div 2 \in Nat /\ (index = 2 * (index \div 2) \/ index = 2 * (index \div 2) + 1)
    OBVIOUS
  <2>. QED  BY <2>1
<1>2. \A m \in Nat : \A i \in 0 .. m - 1 : i % m = i
  OBVIOUS
<1>3. Sibling(index) = IF index % 2 = 0 THEN index + 1 ELSE index - 1
  BY DEF Sibling
<1>4. CASE index = 2 * p
  <2>1. index % 2 = 0 /\ index + 1 \in 0 .. 2 * half - 1 /\ 2 * half \in Nat
    BY <1>4
  <2>. QED  BY <1>2, <1>3, <2>1
<1>5. CASE index = 2 * p + 1
  <2>1. index % 2 = 1 /\ index - 1 \in 0 .. 2 * half - 1 /\ 2 * half \in Nat
    BY <1>5
  <2>. QED  BY <1>2, <1>3, <2>1
<1>. QED  BY <1>1, <1>4, <1>5

-----------------------------------------------------------------------------
(***************************************************************************)
(* The way up a path                                                       *)
(***************************************************************************)

(* The recursion of verifyMerkleProof is well defined.                     *)
LEMMA ClimbDefined ==
    ASSUME NEW content, NEW path, Len(path) \in Nat
    PROVE  LET hash == Climb(content, path)
           IN  /\ hash[0] = content
               /\ \A k \in 1 .. Len(path) :
                     hash[k] = IF path[k].position = "left"
                               THEN HashPair(path[k].hash, hash[k - 1])
                               ELSE HashPair(hash[k - 1], path[k].hash)
<1>. DEFINE Up(k, below) ==
                IF path[k].position = "left" THEN HashPair(path[k].hash, below)
                ELSE HashPair(below, path[k].hash)
            Rec(n, g) == g = [k \in 0 .. n |-> IF k = 0 THEN content ELSE Up(k, g[k - 1])]
            S == {n \in Nat : \E g : Rec(n, g)}
<1>1. Rec(Len(path), Climb(content, path)) <=>
          Climb(content, path) =
              [k \in 0 .. Len(path) |->
                  IF k = 0 THEN content
                  ELSE IF path[k].position = "left"
                       THEN HashPair(path[k].hash, Climb(content, path)[k - 1])
                       ELSE HashPair(Climb(content, path)[k - 1], path[k].hash)]
  OBVIOUS
<1>2. (\E g : Rec(Len(path), g)) => Rec(Len(path), Climb(content, path))
  BY Zenon DEF Climb
<1>. HIDE DEF Up
<1>3. 0 \in S
  <2>. DEFINE g == [k \in 0 .. 0 |-> content]
  <2>1. Rec(0, g)
    OBVIOUS
  <2>. QED  BY <2>1
<1>4. ASSUME NEW n \in S PROVE n + 1 \in S
  <2>1. PICK g : Rec(n, g)
    BY <1>4
  <2>. DEFINE h == [k \in 0 .. n + 1 |-> IF k = n + 1 THEN Up(n + 1, g[n]) ELSE g[k]]
  <2>2. ASSUME NEW k \in 0 .. n + 1
        PROVE  h[k] = IF k = 0 THEN content ELSE Up(k, h[k - 1])
    <3>1. CASE k = n + 1
      BY <1>4, <3>1
    <3>2. CASE k \in 0 .. n
      <4>1. g[k] = IF k = 0 THEN content ELSE Up(k, g[k - 1])
        BY <2>1, <3>2
      <4>2. h[k] = g[k] /\ (k # 0 => h[k - 1] = g[k - 1])
        BY <1>4, <3>2
      <4>. QED  BY <4>1, <4>2
    <3>. QED  BY <1>4, <3>1, <3>2
  <2>3. Rec(n + 1, h)
    BY <1>4, <2>2
  <2>4. n + 1 \in Nat
    BY <1>4
  <2>. HIDE DEF h, Rec
  <2>. QED  BY <2>3, <2>4
<1>5. \E g : Rec(Len(path), g)
  <2>1. S \in SUBSET Nat
    OBVIOUS
  <2>. HIDE DEF S, Rec
  <2>2. S = Nat
    BY <1>3, <1>4, <2>1, SetInduction
  <2>. QED  BY <2>2 DEF S
<1>6. Rec(Len(path), Climb(content, path))
  <2>. HIDE DEF Rec
  <2>. QED  BY <1>2, <1>5
<1>7. Climb(content, path) =
          [k \in 0 .. Len(path) |-> IF k = 0 THEN content
                                    ELSE Up(k, Climb(content, path)[k - 1])]
  BY <1>6
<1>8. Climb(content, path)[0] = content
  BY <1>7
<1>9. \A k \in 1 .. Len(path) : Climb(content, path)[k] = Up(k, Climb(content, path)[k - 1])
  BY <1>7
<1>. QED  BY <1>8, <1>9, Zenon DEF Up

(* The path of a leaf has a step for every level below the root.           *)
LEMMA PathOfLeaf ==
    ASSUME NEW leaves, NEW target, Height(Len(leaves)) \in Nat
    PROVE  LET path == BuildMerkleProofPath(leaves, target)
           IN  /\ Len(path) = Height(Len(leaves))
               /\ \A k \in 1 .. Height(Len(leaves)) :
                     LET level == Levels(leaves)[k - 1]
                         index == target \div 2^(k - 1)
                     IN  /\ path[k].hash = level[(Sibling(index) % Len(level)) + 1]
                         /\ path[k].position = IF index % 2 = 0 THEN "right" ELSE "left"
<1>. DEFINE path == BuildMerkleProofPath(leaves, target)
<1>1. path = [k \in 1 .. Height(Len(leaves)) |-> path[k]]
  BY DEF BuildMerkleProofPath
<1>2. Len(path) = Height(Len(leaves))
  <2>. HIDE DEF path
  <2>. QED  BY <1>1, LengthOf
<1>. QED  BY <1>2 DEF BuildMerkleProofPath

(* One step up the path of a leaf goes from its hash in a level to its     *)
(* hash in the next.                                                       *)
LEMMA PathStep ==
    ASSUME NEW leaves, Len(leaves) \in Nat, NEW target \in 0 .. Len(leaves) - 1,
           NEW k \in Nat, k < Height(Len(leaves)), NEW step,
           step = BuildMerkleProofPath(leaves, target)[k + 1]
    PROVE  LET below == Levels(leaves)[k][(target \div 2^k) + 1]
           IN  Levels(leaves)[k + 1][(target \div 2^(k + 1)) + 1] =
                   IF step.position = "left" THEN HashPair(step.hash, below)
                   ELSE HashPair(below, step.hash)
<1>. DEFINE H == Height(Len(leaves))
            level == Levels(leaves)[k]
            index == target \div 2^k
            half == 2^(H - (k + 1))
            i == (target \div 2^(k + 1)) + 1
<1>1. H \in Nat /\ k \in 0 .. H /\ k + 1 \in 1 .. H /\ k + 1 \in 0 .. H /\ (k + 1) - 1 = k
  <2>1. H \in Nat /\ k < H
    BY HeightIsEnough
  <2>. HIDE DEF H
  <2>. QED  BY <2>1
<1>2. half \in Nat /\ 2^(H - k) = 2 * half
  <2>1. H - (k + 1) \in Nat /\ (H - (k + 1)) + 1 = H - k
    BY <1>1
  <2>. HIDE DEF H
  <2>2. 2^((H - (k + 1)) + 1) = 2 * 2^(H - (k + 1))
    BY <2>1, PowerDoubles
  <2>. QED  BY <2>1, <2>2, PowerIsNatural
<1>3. Len(level) = 2 * half
  <2>1. Len(level) = 2^(H - k)
    BY <1>1, LevelShape
  <2>. QED  BY <1>2, <2>1
<1>4. index \in 0 .. 2 * half - 1 /\ target \div 2^(k + 1) = index \div 2
  <2>1. /\ index \in 0 .. 2^(H - k) - 1
        /\ target \div 2^(k + 1) = index \div 2
    BY <1>1, PlaceInLevel
  <2>. QED  BY <1>2, <2>1
<1>5. i \in 1 .. half /\ i = (index \div 2) + 1
  <2>. HIDE DEF index, half
  <2>. QED  BY <1>2, <1>4
<1>6. Levels(leaves)[k + 1][i] = HashPair(level[2 * i - 1], level[2 * i])
  <2>1. Levels(leaves)[k + 1][i] =
            HashPair(Levels(leaves)[(k + 1) - 1][2 * i - 1], Levels(leaves)[(k + 1) - 1][2 * i])
    BY <1>1, <1>5, LevelStep
  <2>. QED  BY <1>1, <2>1
<1>7. /\ step.hash = level[(Sibling(index) % Len(level)) + 1]
      /\ step.position = IF index % 2 = 0 THEN "right" ELSE "left"
  <2>1. LET l == Levels(leaves)[(k + 1) - 1]
            x == target \div 2^((k + 1) - 1)
        IN  /\ step.hash = l[(Sibling(x) % Len(l)) + 1]
            /\ step.position = IF x % 2 = 0 THEN "right" ELSE "left"
    BY <1>1 DEF BuildMerkleProofPath
  <2>. QED  BY <1>1, <2>1
<1>8. Levels(leaves)[k + 1][i] = IF step.position = "left" THEN HashPair(step.hash, level[index + 1])
                                 ELSE HashPair(level[index + 1], step.hash)
  <2>. HIDE DEF level, index, half, i
  <2>1. CASE index % 2 = 0
    <3>1. step.hash = level[(index + 1) + 1] /\ step.position = "right"
      BY <1>2, <1>3, <1>4, <1>7, <2>1, SiblingInLevel
    <3>2. 2 * i - 1 = index + 1 /\ 2 * i = (index + 1) + 1
      BY <1>2, <1>4, <1>5, <2>1
    <3>. QED  BY <1>6, <3>1, <3>2
  <2>2. CASE index % 2 # 0
    <3>1. step.hash = level[(index - 1) + 1] /\ step.position = "left"
      BY <1>2, <1>3, <1>4, <1>7, <2>2, SiblingInLevel
    <3>2. 2 * i - 1 = (index - 1) + 1 /\ 2 * i = index + 1
      BY <1>2, <1>4, <1>5, <2>2
    <3>. QED  BY <1>6, <3>1, <3>2
  <2>. QED  BY <2>1, <2>2
<1>. QED  BY <1>8

(* From the content of its leaf, the path climbs the tree to the root.     *)
LEMMA ClimbsToRoot ==
    ASSUME NEW leaves, Len(leaves) \in Nat, NEW target \in 0 .. Len(leaves) - 1
    PROVE  Climb(leaves[target + 1], BuildMerkleProofPath(leaves, target))[Height(Len(leaves))] =
               ComputeMerkleRoot(leaves)
<1>. DEFINE H == Height(Len(leaves))
            path == BuildMerkleProofPath(leaves, target)
            hash == Climb(leaves[target + 1], path)
            Here(k) == Levels(leaves)[k][(target \div 2^k) + 1]
            S == {k \in Nat : k <= H => hash[k] = Here(k)}
<1>1. H \in Nat /\ Len(path) = H
  BY HeightIsEnough, PathOfLeaf
<1>2. /\ hash[0] = leaves[target + 1]
      /\ \A k \in 1 .. H :
            hash[k] = IF path[k].position = "left" THEN HashPair(path[k].hash, hash[k - 1])
                      ELSE HashPair(hash[k - 1], path[k].hash)
  <2>. HIDE DEF H, path
  <2>. QED  BY <1>1, ClimbDefined
<1>3. 0 \in S
  <2>1. (target \div 2^0) + 1 = target + 1
    BY PowerOfZero
  <2>2. Levels(leaves)[0] = Padded(leaves)
    <3>1. Levels(leaves) = [k \in 0 .. H |->
                               IF k = 0 THEN Padded(leaves) ELSE LevelAbove(Levels(leaves)[k - 1])]
      BY <1>1, LevelsDefined
    <3>. HIDE DEF H
    <3>. QED  BY <1>1, <3>1
  <2>3. 2^H \in Nat /\ 2^H >= Len(leaves)
    BY <1>1, HeightIsEnough, PowerIsNatural
  <2>4. Padded(leaves)[target + 1] = leaves[target + 1]
    BY <2>3 DEF Padded
  <2>5. hash[0] = Here(0)
    BY <1>2, <2>1, <2>2, <2>4
  <2>. QED  BY <2>5
<1>4. ASSUME NEW k \in S PROVE k + 1 \in S
  <2>. SUFFICES ASSUME k + 1 <= H PROVE hash[k + 1] = Here(k + 1)
    BY <1>4
  <2>1. k \in Nat /\ k < H /\ k + 1 \in 1 .. H /\ (k + 1) - 1 = k /\ hash[k] = Here(k)
    BY <1>1, <1>4
  <2>2. hash[k + 1] = IF path[k + 1].position = "left" THEN HashPair(path[k + 1].hash, hash[k])
                      ELSE HashPair(hash[k], path[k + 1].hash)
    <3>. HIDE DEF H, path, hash
    <3>. QED  BY <1>2, <2>1
  <2>3. Here(k + 1) = IF path[k + 1].position = "left" THEN HashPair(path[k + 1].hash, Here(k))
                      ELSE HashPair(Here(k), path[k + 1].hash)
    BY <2>1, PathStep
  <2>. HIDE DEF hash, Here, path
  <2>. QED  BY <2>1, <2>2, <2>3
<1>5. hash[H] = Here(H)
  <2>1. S \in SUBSET Nat
    OBVIOUS
  <2>. HIDE DEF S
  <2>2. S = Nat
    BY <1>3, <1>4, <2>1, SetInduction
  <2>. HIDE DEF H, hash, Here
  <2>. QED  BY <1>1, <2>2 DEF S
<1>6. target \div 2^H = 0
  <2>1. target \div 2^H \in 0 .. 2^(H - H) - 1 /\ H - H = 0
    BY <1>1, PlaceInLevel
  <2>2. 2^(H - H) = 1
    BY <2>1, PowerOfZero
  <2>. HIDE DEF H
  <2>. QED  BY <2>1, <2>2
<1>. QED  BY <1>5, <1>6 DEF ComputeMerkleRoot

(* Climbing one path from two contents ends in two hashes: what is equal   *)
(* at the end was equal at the beginning.                                  *)
LEMMA ClimbsApart ==
    ASSUME NEW path, Len(path) \in Nat, NEW content, NEW other,
           Climb(content, path)[Len(path)] = Climb(other, path)[Len(path)]
    PROVE  content = other
<1>. DEFINE S == {k \in Nat : k <= Len(path) /\ Climb(content, path)[k] = Climb(other, path)[k]
                                  => content = other}
<1>1. 0 \in S
  BY ClimbDefined
<1>2. ASSUME NEW k \in S PROVE k + 1 \in S
  <2>. SUFFICES ASSUME k + 1 <= Len(path),
                       Climb(content, path)[k + 1] = Climb(other, path)[k + 1]
                PROVE  content = other
    BY <1>2
  <2>1. k \in Nat /\ k <= Len(path) /\ k + 1 \in 1 .. Len(path) /\ (k + 1) - 1 = k
    BY <1>2
  <2>2. /\ Climb(content, path)[k + 1] =
               IF path[k + 1].position = "left"
               THEN HashPair(path[k + 1].hash, Climb(content, path)[k])
               ELSE HashPair(Climb(content, path)[k], path[k + 1].hash)
        /\ Climb(other, path)[k + 1] =
               IF path[k + 1].position = "left"
               THEN HashPair(path[k + 1].hash, Climb(other, path)[k])
               ELSE HashPair(Climb(other, path)[k], path[k + 1].hash)
    BY <2>1, ClimbDefined
  <2>3. Climb(content, path)[k] = Climb(other, path)[k]
    <3>1. CASE path[k + 1].position = "left"
      <4>1. HashPair(path[k + 1].hash, Climb(content, path)[k])
                = HashPair(path[k + 1].hash, Climb(other, path)[k])
        BY <2>2, <3>1
      <4>. QED  BY <4>1 DEF HashPair
    <3>2. CASE path[k + 1].position # "left"
      <4>1. HashPair(Climb(content, path)[k], path[k + 1].hash)
                = HashPair(Climb(other, path)[k], path[k + 1].hash)
        BY <2>2, <3>2
      <4>. QED  BY <4>1 DEF HashPair
    <3>. QED  BY <3>1, <3>2
  <2>. QED  BY <1>2, <2>1, <2>3
<1>3. S = Nat
  <2>1. S \in SUBSET Nat
    OBVIOUS
  <2>. HIDE DEF S
  <2>. QED  BY <1>1, <1>2, <2>1, SetInduction
<1>4. Len(path) \in S
  BY <1>3
<1>. QED  BY <1>4

-----------------------------------------------------------------------------
(* The proof generateProof makes of a leaf verifies the content of the     *)
(* leaf against the root and no other content, for every sequence of       *)
(* leaves.                                                                 *)
THEOREM ProofOfLeaf ==
    ASSUME NEW S, NEW leaves \in Seq(S), NEW i \in DOMAIN leaves, NEW w
    PROVE  VerifyMerkleProof(w, BuildMerkleProofPath(leaves, i - 1), ComputeMerkleRoot(leaves))
               <=> w = leaves[i]
<1>. DEFINE path == BuildMerkleProofPath(leaves, i - 1)
<1>1. Len(leaves) \in Nat /\ i - 1 \in 0 .. Len(leaves) - 1 /\ (i - 1) + 1 = i
  OBVIOUS
<1>2. Len(path) = Height(Len(leaves)) /\ Height(Len(leaves)) \in Nat
  BY <1>1, HeightIsEnough, PathOfLeaf
<1>3. Climb(leaves[i], path)[Len(path)] = ComputeMerkleRoot(leaves)
  <2>1. Climb(leaves[(i - 1) + 1], path)[Height(Len(leaves))] = ComputeMerkleRoot(leaves)
    BY <1>1, ClimbsToRoot
  <2>. QED  BY <1>1, <1>2, <2>1
<1>. HIDE DEF path
<1>4. Climb(w, path)[Len(path)] = ComputeMerkleRoot(leaves) => w = leaves[i]
  BY <1>2, <1>3, ClimbsApart
<1>5. VerifyMerkleProof(w, path, ComputeMerkleRoot(leaves)) <=> w = leaves[i]
  BY <1>3, <1>4 DEF VerifyMerkleProof
<1>. QED  BY <1>5 DEF path

(* The root binds the leaves it is of: two sequences of one length have    *)
(* one root only if they are the same.  The length is needed, for the last *)
(* leaf is repeated up to a power of two: an anchor records both.          *)
THEOREM RootBindsLeaves ==
    ASSUME NEW S, NEW leaves \in Seq(S), NEW T, NEW others \in Seq(T), leaves # <<>>,
           Len(leaves) = Len(others), ComputeMerkleRoot(leaves) = ComputeMerkleRoot(others)
    PROVE  leaves = others
<1>. DEFINE n == Len(leaves)
            H == Height(n)
            Size(k) == 2^(H - k)
            D == {j \in Nat : j <= H => Levels(leaves)[H - j] = Levels(others)[H - j]}
<1>1. n \in Nat /\ n # 0 /\ H \in Nat /\ Len(others) = n
  <2>1. n \in Nat /\ n # 0 /\ Len(others) = n
    OBVIOUS
  <2>. QED  BY <2>1, HeightIsEnough
<1>2. ASSUME NEW k \in 0 .. H
      PROVE  /\ Size(k) \in Nat
             /\ Levels(leaves)[k] = [i \in 1 .. Size(k) |-> Levels(leaves)[k][i]]
             /\ Levels(others)[k] = [i \in 1 .. Size(k) |-> Levels(others)[k][i]]
  <2>1. Size(k) \in Nat /\ Levels(leaves)[k] = [i \in 1 .. Size(k) |-> Levels(leaves)[k][i]]
    BY <1>1, LevelShape
  <2>2. Levels(others)[k] = [i \in 1 .. 2^(Height(Len(others)) - k) |-> Levels(others)[k][i]]
    BY <1>1, LevelShape
  <2>. QED  BY <1>1, <2>1, <2>2
<1>3. 0 \in D
  <2>1. H - 0 = H /\ H - H = 0 /\ H \in 0 .. H
    BY <1>1
  <2>2. Levels(leaves)[H][1] = Levels(others)[H][1]
    BY <1>1 DEF ComputeMerkleRoot
  <2>3. Size(H) = 1
    BY <2>1, PowerOfZero
  <2>. HIDE DEF H, Size
  <2>4. Levels(leaves)[H] = Levels(others)[H]
    <3>1. /\ Levels(leaves)[H] = [i \in 1 .. 1 |-> Levels(leaves)[H][i]]
          /\ Levels(others)[H] = [i \in 1 .. 1 |-> Levels(others)[H][i]]
      BY <1>2, <2>1, <2>3, Zenon
    <3>2. [i \in 1 .. 1 |-> Levels(leaves)[H][i]] = [i \in 1 .. 1 |-> Levels(others)[H][i]]
      BY <2>2
    <3>. QED  BY <3>1, <3>2, Zenon
  <2>. QED  BY <2>1, <2>4
<1>4. ASSUME NEW j \in D PROVE j + 1 \in D
  <2>. SUFFICES ASSUME j + 1 <= H
                PROVE  Levels(leaves)[H - (j + 1)] = Levels(others)[H - (j + 1)]
    BY <1>4
  <2>. DEFINE k == H - j
  <2>1. /\ k \in 1 .. H /\ k - 1 \in 0 .. H /\ H - (j + 1) = k - 1
        /\ Levels(leaves)[k] = Levels(others)[k]
    <3>. HIDE DEF H
    <3>. QED  BY <1>1, <1>4
  <2>. HIDE DEF k
  <2>2. Size(k - 1) = 2 * Size(k) /\ Size(k) \in Nat
    <3>1. H - k \in Nat /\ (H - k) + 1 = H - (k - 1)
      <4>. HIDE DEF H
      <4>. QED  BY <1>1, <2>1
    <3>. HIDE DEF H
    <3>2. 2^((H - k) + 1) = 2 * 2^(H - k)
      BY <3>1, PowerDoubles
    <3>. QED  BY <3>1, <3>2, PowerIsNatural
  <2>3. ASSUME NEW i \in 1 .. Size(k)
        PROVE  /\ Levels(leaves)[k - 1][2 * i - 1] = Levels(others)[k - 1][2 * i - 1]
               /\ Levels(leaves)[k - 1][2 * i] = Levels(others)[k - 1][2 * i]
    <3>1. /\ Levels(leaves)[k][i] =
                 HashPair(Levels(leaves)[k - 1][2 * i - 1], Levels(leaves)[k - 1][2 * i])
          /\ Levels(others)[k][i] =
                 HashPair(Levels(others)[k - 1][2 * i - 1], Levels(others)[k - 1][2 * i])
      <4>1. ASSUME NEW s \in {leaves, others}
            PROVE  Levels(s)[k][i] =
                       HashPair(Levels(s)[k - 1][2 * i - 1], Levels(s)[k - 1][2 * i])
        <5>1. Len(s) \in Nat /\ k \in 1 .. Height(Len(s)) /\ i \in 1 .. 2^(Height(Len(s)) - k)
          BY <1>1, <2>1
        <5>. QED  BY <5>1, LevelStep
      <4>. QED  BY <4>1
    <3>2. HashPair(Levels(leaves)[k - 1][2 * i - 1], Levels(leaves)[k - 1][2 * i])
              = HashPair(Levels(others)[k - 1][2 * i - 1], Levels(others)[k - 1][2 * i])
      BY <2>1, <3>1
    <3>. QED  BY <3>2 DEF HashPair
  <2>4. \A m \in 1 .. 2 * Size(k) : \E i \in 1 .. Size(k) : m = 2 * i - 1 \/ m = 2 * i
    <3>. HIDE DEF Size
    <3>1. \A m \in 1 .. 2 * Size(k) : /\ (m + 1) \div 2 \in 1 .. Size(k)
                                      /\ \/ m = 2 * ((m + 1) \div 2) - 1
                                         \/ m = 2 * ((m + 1) \div 2)
      BY <2>2
    <3>. QED  BY <3>1
  <2>. HIDE DEF H, Size
  <2>5. \A m \in 1 .. Size(k - 1) : Levels(leaves)[k - 1][m] = Levels(others)[k - 1][m]
    BY <2>2, <2>3, <2>4
  <2>. QED  BY <1>2, <2>1, <2>5
<1>5. Levels(leaves)[0] = Levels(others)[0]
  <2>1. D \in SUBSET Nat
    OBVIOUS
  <2>. HIDE DEF D
  <2>2. D = Nat
    BY <1>3, <1>4, <2>1, SetInduction
  <2>3. H \in Nat /\ H <= H /\ H - H = 0
    BY <1>1
  <2>. HIDE DEF H
  <2>. QED  BY <2>2, <2>3 DEF D
<1>6. Padded(leaves) = Padded(others)
  <2>1. \A s \in {leaves, others} : Levels(s)[0] = Padded(s)
    <3>. SUFFICES ASSUME NEW s \in {leaves, others} PROVE Levels(s)[0] = Padded(s)
      OBVIOUS
    <3>1. Height(Len(s)) = H
      BY <1>1
    <3>2. Levels(s) = [k \in 0 .. H |-> IF k = 0 THEN Padded(s) ELSE LevelAbove(Levels(s)[k - 1])]
      BY <1>1, <3>1, LevelsDefined
    <3>. HIDE DEF H
    <3>. QED  BY <1>1, <3>2
  <2>. QED  BY <1>5, <2>1
<1>7. 2^H \in Nat /\ 2^H >= n
  BY <1>1, HeightIsEnough, PowerIsNatural
<1>8. ASSUME NEW i \in 1 .. n PROVE leaves[i] = others[i]
  <2>1. Padded(leaves)[i] = leaves[i]
    BY <1>1, <1>7, <1>8 DEF Padded
  <2>2. Padded(others)[i] = others[i]
    BY <1>1, <1>7, <1>8 DEF Padded
  <2>. QED  BY <1>6, <2>1, <2>2
<1>. QED  BY <1>1, <1>8
=============================================================================
