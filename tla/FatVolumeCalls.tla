--------------------------- MODULE FatVolumeCalls ---------------------------
(***************************************************************************)
(* Lemmas about FatVolume: what each helper of ff.c does to a sound        *)
(* volume.                                                                 *)
(*                                                                         *)
(* A volume is told by functions: ch has the chains by their first         *)
(* clusters, tab the tables of those that are directories, and but is the  *)
(* place of the entry of a file that is open and changed.  The first       *)
(* sections are about numbers, chains, the FAT, tables, paths and trees;   *)
(* the last ones follow f_read(), f_write() and f_lseek() through their    *)
(* loops.                                                                  *)
(***************************************************************************)
EXTENDS FatVolume, FiniteSetTheorems, WellFoundedInduction, TLAPS

(***************************************************************************)
(* Numbers, and what goes on step by step.                                 *)
(***************************************************************************)

(* Induction up to a bound, over the numbers of a set. *)
LEMMA Induction ==
  ASSUME NEW n \in Nat, NEW S, 0 \in S, \A k \in 0 .. n - 1 : k \in S => k + 1 \in S
  PROVE  \A k \in 0 .. n : k \in S
<1> DEFINE I == 0 .. n
           R == StrictSubsetOrdering(I)
           T == {X \in SUBSET I : \E k \in I : k \notin S /\ X = 0 .. k}
<1>1. IsWellFoundedOn(R, SUBSET I)
  <2>1. IsFiniteSet(I)  BY FS_Interval
  <2> HIDE DEF I
  <2> QED BY <2>1, FS_StrictSubsetOrderingWellFounded, FS_FiniteSubsetsOfFinite
<1> SUFFICES ASSUME NEW j \in I, j \notin S  PROVE FALSE
  OBVIOUS
<1>2. T # {} /\ T \subseteq SUBSET I
  <2>1. 0 .. j \in T  OBVIOUS
  <2> QED BY <2>1
<1>3. PICK X \in T : \A Y \in T : << Y, X >> \notin R
  <2> HIDE DEF T, R, I
  <2> QED BY <1>1, <1>2, WFMin
<1>4. PICK k \in I : k \notin S /\ X = 0 .. k
  BY <1>3
<1>5. k # 0 /\ k - 1 \in 0 .. n - 1
  BY <1>4
<1>6. k - 1 \notin S
  <2>1. (k - 1) + 1 = k  BY <1>5
  <2> QED BY <1>4, <1>5, <2>1
<1>7. 0 .. k - 1 \in T
  <2>1. k - 1 \in I /\ 0 .. k - 1 \subseteq I  BY <1>5
  <2> QED BY <1>6, <2>1
<1>8. << 0 .. k - 1, X >> \in R
  <2>1. 0 .. k - 1 \subseteq X /\ k \in X /\ k \notin 0 .. k - 1  BY <1>4, <1>5
  <2>2. 0 .. k - 1 \in SUBSET I /\ X \in SUBSET I  BY <1>5, <1>4
  <2> QED BY <2>1, <2>2 DEF StrictSubsetOrdering
<1> QED BY <1>3, <1>7, <1>8

(* Division with a remainder. *)
LEMMA Division ==
  ASSUME NEW b \in Nat, b # 0, NEW a \in Nat
  PROVE  a \div b \in Nat /\ a % b \in 0 .. b - 1 /\ a = (b * (a \div b)) + (a % b)
OBVIOUS

(* Division undoes multiplication. *)
LEMMA Quotient ==
  ASSUME NEW b \in Nat, b # 0, NEW q \in Nat, NEW r \in 0 .. b - 1
  PROVE  (b * q + r) \div b = q /\ (b * q + r) % b = r
<1> DEFINE a == b * q + r
           p == a \div b
           t == a % b
<1>1. a \in Nat  OBVIOUS
<1>2. p \in Nat /\ t \in 0 .. b - 1 /\ a = b * p + t
  <2> HIDE DEF a
  <2> QED BY <1>1, Division
<1> HIDE DEF p, t
<1>3. b * (p - q) = r - t  BY <1>2
<1>4. p = q
  <2>1. CASE p >= q + 1
    <3>1. b * (p - q) >= b  BY <2>1, <1>2
    <3> QED BY <3>1, <1>2, <1>3
  <2>2. CASE q >= p + 1
    <3>1. b * (q - p) >= b  BY <2>2, <1>2
    <3>2. b * (q - p) = 0 - b * (p - q)  BY <1>2
    <3> QED BY <3>1, <3>2, <1>2, <1>3
  <2> QED BY <2>1, <2>2, <1>2
<1> QED BY <1>3, <1>4, <1>2 DEF p, t

(* A set of places that is not empty has a last one: the one with the      *)
(* fewest behind it.                                                       *)
LEMMA LastOne ==
  ASSUME NEW n \in Nat, NEW S \in SUBSET (1 .. n), S # {}
  PROVE  \E m \in S : \A j \in S : j <= m
<1> DEFINE I == 1 .. n
           R == StrictSubsetOrdering(I)
           Behind(i) == {j \in S : j > i}
           T == {X \in SUBSET I : \E i \in S : X = Behind(i)}
<1>1. IsWellFoundedOn(R, SUBSET I)
  <2>1. IsFiniteSet(I)  BY FS_Interval
  <2> HIDE DEF I
  <2> QED BY <2>1, FS_StrictSubsetOrderingWellFounded, FS_FiniteSubsetsOfFinite
<1>2. \A i \in S : Behind(i) \in T
  OBVIOUS
<1>3. T # {} /\ T \subseteq SUBSET I
  BY <1>2
<1>4. PICK X \in T : \A Y \in T : << Y, X >> \notin R
  <2> HIDE DEF T, R, I
  <2> QED BY <1>1, <1>3, WFMin
<1>5. PICK m \in S : X = Behind(m)
  BY <1>4
<1>6. ASSUME NEW j \in S, ~(j <= m)  PROVE FALSE
  <2>1. j > m /\ j \in Int /\ m \in Int  BY <1>6
  <2>2. Behind(j) \subseteq X
    <3>1. \A k \in S : k > j => k > m  BY <2>1
    <3> QED BY <1>5, <3>1
  <2>3. j \in X /\ j \notin Behind(j)  BY <1>5, <2>1
  <2>4. << Behind(j), X >> \in R
    <3>1. Behind(j) \in SUBSET I /\ X \in SUBSET I  BY <1>4
    <3> QED BY <2>2, <2>3, <3>1 DEF StrictSubsetOrdering
  <2> QED BY <1>2, <1>4, <2>4
<1> QED BY <1>6

(* And a first one.                                                        *)
LEMMA FirstOne ==
  ASSUME NEW n \in Nat, NEW S \in SUBSET (1 .. n), S # {}
  PROVE  \E m \in S : \A j \in S : m <= j
<1> DEFINE T == {i \in 1 .. n : n + 1 - i \in S}
<1>1. \A i \in 1 .. n : n + 1 - i \in 1 .. n /\ n + 1 - (n + 1 - i) = i
  OBVIOUS
<1>2. \A i \in S : n + 1 - i \in T
  BY <1>1
<1>3. T # {} /\ T \in SUBSET (1 .. n)
  BY <1>2
<1>4. PICK m \in T : \A j \in T : j <= m
  <2> HIDE DEF T
  <2> QED BY <1>3, LastOne
<1>5. ASSUME NEW j \in S  PROVE n + 1 - m <= j
  <2>1. n + 1 - j <= m  BY <1>2, <1>4
  <2>2. m \in 1 .. n /\ j \in 1 .. n  BY <1>4
  <2> QED BY <2>1, <2>2
<1> QED BY <1>4, <1>5

(* A function over the numbers up to N that g computes step by step, and   *)
(* what makes its values stay in V.                                        *)
StaysIn(g, N, V) == \A n \in 1 .. N : \A v \in V : g[<< n, v >>] \in V
ComputedBy(f, g, N, b) ==
  f[0] = b /\ \A n \in 1 .. N : f[n] = g[<< n, f[n - 1] >>]

(* Such a function exists. *)
LEMMA Iteration ==
  ASSUME NEW N \in Nat, NEW V, NEW b \in V, NEW g, StaysIn(g, N, V)
  PROVE  \E f \in [0 .. N -> V] : ComputedBy(f, g, N, b)
<1> USE DEF StaysIn, ComputedBy
<1> DEFINE Fits(f, k) == f[0] = b /\ \A n \in 1 .. k : f[n] = g[<< n, f[n - 1] >>]
           S == {k \in 0 .. N : \E f \in [0 .. k -> V] : Fits(f, k)}
<1>1. 0 \in S
  <2> DEFINE f == [j \in 0 .. 0 |-> b]
  <2>1. f \in [0 .. 0 -> V] /\ Fits(f, 0) /\ 0 \in 0 .. N  OBVIOUS
  <2> HIDE DEF f, Fits
  <2> QED BY <2>1
<1>2. ASSUME NEW k \in 0 .. N - 1, k \in S  PROVE k + 1 \in S
  <2>1. PICK f \in [0 .. k -> V] : Fits(f, k)  BY <1>2
  <2> DEFINE h == [j \in 0 .. k + 1 |-> IF j = k + 1 THEN g[<< k + 1, f[k] >>] ELSE f[j]]
  <2>2. k \in Nat /\ k + 1 \in 1 .. N  OBVIOUS
  <2>3. h \in [0 .. k + 1 -> V]
    <3>1. g[<< k + 1, f[k] >>] \in V  BY <2>1, <2>2
    <3> QED BY <3>1, <2>1, <2>2
  <2>4. h[0] = b  BY <2>1, <2>2
  <2>5. ASSUME NEW j \in 1 .. k + 1  PROVE h[j] = g[<< j, h[j - 1] >>]
    <3>1. CASE j = k + 1
      <4>1. h[j] = g[<< k + 1, f[k] >>] /\ h[j - 1] = f[k]  BY <3>1, <2>2
      <4> QED BY <3>1, <4>1
    <3>2. CASE j # k + 1
      <4>1. j \in 1 .. k /\ j - 1 \in 0 .. k  BY <3>2, <2>2
      <4>2. h[j] = f[j] /\ h[j - 1] = f[j - 1]  BY <4>1, <2>2
      <4> QED BY <4>1, <4>2, <2>1
    <3> QED BY <3>1, <3>2
  <2>6. Fits(h, k + 1)  BY <2>4, <2>5
  <2>7. k + 1 \in 0 .. N  BY <2>2
  <2> HIDE DEF h, Fits
  <2> QED BY <2>3, <2>6, <2>7
<1>3. N \in S
  <2> HIDE DEF S
  <2>1. \A k \in 0 .. N : k \in S  BY <1>1, <1>2, Induction
  <2> QED BY <2>1
<1> QED BY <1>3

(***************************************************************************)
(* Sizes and places.                                                       *)
(***************************************************************************)

(* The sizes of a volume are positive, and so are their products.          *)
LEMMA Sizes ==
  /\ SS \in Nat /\ SS >= 2 /\ SS # 0 /\ CLSZ # 0 /\ CSIZE \in Nat /\ CSIZE # 0 /\ NCLST \in Nat /\ NCLST # 0
  /\ MAX_DIR \in Nat /\ MAX_DIR >= 2
  /\ CLSZ \in Nat /\ CLSZ >= 2 /\ CLSZ = CSIZE * SS
  /\ n_fatent = NCLST + 2 /\ EOC = NCLST + 2 /\ Unknown = NCLST + 2
  /\ Cluster = 2 .. NCLST + 1 /\ 0 \notin Cluster /\ 1 \notin Cluster /\ EOC \notin Cluster
  /\ EOC # 0 /\ EOC # 1 /\ Slot = 0 .. SS - 1 /\ 0 \in Slot /\ 1 \in Slot
  /\ dirbase = 2 /\ dirbase \in Cluster
<1>1. /\ SS \in Nat /\ SS >= 2 /\ CSIZE \in Nat /\ CSIZE # 0 /\ NCLST \in Nat /\ NCLST # 0
      /\ MAX_DIR \in Nat /\ MAX_DIR >= 2
  BY FatVolumeAssumption
<1>2. CSIZE * SS \in Nat /\ CSIZE * SS >= 2
  <2>1. CSIZE * SS >= 1 * SS  BY <1>1
  <2> QED BY <2>1, <1>1
<1>3. n_fatent = NCLST + 2 /\ EOC = NCLST + 2 /\ Unknown = NCLST + 2
  BY DEF n_fatent, EOC, Unknown
<1>4. Cluster = 2 .. NCLST + 1  BY <1>1, <1>3 DEF Cluster
<1> QED BY <1>1, <1>2, <1>3, <1>4 DEF CLSZ, Slot, dirbase

(* The sectors of a cluster                                                *)
SectorsOf(c) == clst2sect(c) .. clst2sect(c) + CSIZE - 1

(* A place in a chain: its cluster, its sector of that and its slot.       *)
LEMMA Position ==
  ASSUME NEW i \in Nat
  PROVE  /\ i \div CLSZ \in Nat /\ (i % CLSZ) \div SS \in 0 .. CSIZE - 1 /\ i % SS \in Slot
         /\ i % CLSZ \in 0 .. CLSZ - 1
         /\ i % CLSZ = SS * ((i % CLSZ) \div SS) + (i % SS)
         /\ i = CLSZ * (i \div CLSZ) + (i % CLSZ)
         /\ (i \div SS) % CSIZE = (i % CLSZ) \div SS
<1> DEFINE q == i \div SS
           r == i % SS
           t == q \div CSIZE
           u == q % CSIZE
<1>1. q \in Nat /\ r \in 0 .. SS - 1 /\ i = SS * q + r
  BY Sizes, Division
<1>2. t \in Nat /\ u \in 0 .. CSIZE - 1 /\ q = CSIZE * t + u
  <2> HIDE DEF q
  <2> QED BY <1>1, Sizes, Division
<1>3. u \in 0 .. CSIZE - 1 /\ r \in 0 .. SS - 1 /\ t \in Nat  BY <1>1, <1>2
<1>4. SS * u + r \in 0 .. CLSZ - 1
  <2> HIDE DEF u, r
  <2>1. SS * u <= SS * (CSIZE - 1)  BY <1>3, Sizes
  <2>2. SS * u \in Nat  BY <1>3, Sizes
  <2>3. SS * (CSIZE - 1) = CSIZE * SS - SS  BY Sizes
  <2> QED BY <2>1, <2>2, <2>3, <1>3, Sizes
<1>5. i = CLSZ * t + (SS * u + r)
  <2> HIDE DEF q, r, t, u
  <2>1. i = SS * (CSIZE * t + u) + r  BY <1>1, <1>2
  <2> QED BY <2>1, <1>2, <1>1, Sizes DEF CLSZ
<1>6. i \div CLSZ = t /\ i % CLSZ = SS * u + r
  <2> HIDE DEF t, u, r
  <2> DEFINE w == SS * u + r
  <2> HIDE DEF w
  <2>1. w \in 0 .. CLSZ - 1  BY <1>4 DEF w
  <2>2. (CLSZ * t + w) \div CLSZ = t /\ (CLSZ * t + w) % CLSZ = w
    <3>1. CLSZ \in Nat /\ CLSZ # 0  BY Sizes
    <3> QED BY <1>3, <2>1, <3>1, Quotient
  <2> QED BY <1>5, <2>2 DEF w
<1>7. (i % CLSZ) \div SS = u
  <2> HIDE DEF t, u, r
  <2>1. (SS * u + r) \div SS = u  BY <1>3, Sizes, Quotient
  <2> QED BY <2>1, <1>6
<1> QED
  <2> HIDE DEF t, u, r
  <2>1. i \div SS % CSIZE = u  BY DEF u, q
  <2>2. i % SS = r  BY DEF r
  <2> QED BY <1>3, <1>4, <1>5, <1>6, <1>7, <2>1, <2>2, Sizes

(* And back.                                                               *)
LEMMA PositionOf ==
  ASSUME NEW a \in Nat, NEW x \in 0 .. CLSZ - 1
  PROVE  /\ (CLSZ * a + x) \in Nat
         /\ (CLSZ * a + x) \div CLSZ = a /\ (CLSZ * a + x) % CLSZ = x
         /\ (CLSZ * a + x) % SS = x % SS
<1>1. CLSZ * a + x \in Nat  BY Sizes
<1>2. (CLSZ * a + x) \div CLSZ = a /\ (CLSZ * a + x) % CLSZ = x
  BY Quotient, Sizes
<1>3. x % CLSZ = x /\ x \in Nat
  <2>1. (CLSZ * 0 + x) % CLSZ = x  BY Quotient, Sizes
  <2> QED BY <2>1, Sizes
<1> DEFINE i == CLSZ * a + x
<1>4. i % CLSZ = SS * ((i % CLSZ) \div SS) + (i % SS)
  <2> HIDE DEF i
  <2> QED BY <1>1, Position DEF i
<1>5. x % CLSZ = SS * ((x % CLSZ) \div SS) + (x % SS)
  BY <1>3, Position
<1>6. x = SS * (x \div SS) + (i % SS)  BY <1>2, <1>4
<1>7. x = SS * (x \div SS) + (x % SS)  BY <1>3, <1>5
<1>8. i % SS \in Int /\ x % SS \in Int /\ SS * (x \div SS) \in Int
  <2> HIDE DEF i
  <2>1. i \in Int  BY <1>1 DEF i
  <2> QED BY Sizes, <2>1, <1>3
<1> QED
  <2> HIDE DEF i
  <2> DEFINE m == SS * (x \div SS)
             y == i % SS
             z == x % SS
  <2>1. x = m + y /\ x = m + z /\ m \in Int /\ y \in Int /\ z \in Int
    BY <1>6, <1>7, <1>8
  <2> HIDE DEF m, y, z
  <2>2. y = z  BY <2>1
  <2>3. i % SS = x % SS  BY <2>2 DEF y, z
  <2> QED BY <1>1, <1>2, <2>3 DEF i

(* Clusters have no sector in common, and their sectors are sectors.       *)
LEMMA SectorsAre ==
  ASSUME NEW c \in Cluster
  PROVE  /\ SectorsOf(c) \subseteq Sector /\ 0 \notin SectorsOf(c)
         /\ clst2sect(c) \in Nat /\ clst2sect(c) = (c - 2) * CSIZE + 1
         /\ \A d \in Cluster : SectorsOf(c) \cap SectorsOf(d) # {} => c = d
<1>1. clst2sect(c) = (c - 2) * CSIZE + 1 /\ c \in 2 .. NCLST + 1
  BY Sizes DEF clst2sect
<1>2. (c - 2) * CSIZE \in Nat /\ (c - 2) * CSIZE <= (NCLST - 1) * CSIZE
  BY <1>1, Sizes
<1>3. (NCLST - 1) * CSIZE = NCLST * CSIZE - CSIZE /\ NCLST * CSIZE \in Nat  BY Sizes
<1>4. SectorsOf(c) \subseteq Sector /\ 0 \notin SectorsOf(c)
  <2>1. clst2sect(c) >= 1 /\ clst2sect(c) + CSIZE - 1 <= NCLST * CSIZE /\ clst2sect(c) \in Nat
    BY <1>1, <1>2, <1>3, Sizes
  <2> QED BY <2>1, <1>3, Sizes DEF SectorsOf, Sector
<1>5. ASSUME NEW d \in Cluster, NEW s \in SectorsOf(c), s \in SectorsOf(d), c < d
      PROVE  FALSE
  <2>1. clst2sect(d) = (d - 2) * CSIZE + 1 /\ d \in 2 .. NCLST + 1
    BY Sizes DEF clst2sect
  <2>2. (d - 2) * CSIZE >= (c - 1) * CSIZE  BY <1>5, <1>1, <2>1, Sizes
  <2>3. (c - 1) * CSIZE = (c - 2) * CSIZE + CSIZE  BY <1>1, Sizes
  <2> QED BY <1>5, <1>1, <1>2, <2>1, <2>2, <2>3, Sizes DEF SectorsOf
<1>6. ASSUME NEW d \in Cluster, NEW s \in SectorsOf(c), s \in SectorsOf(d), d < c
      PROVE  FALSE
  <2>1. clst2sect(d) = (d - 2) * CSIZE + 1 /\ d \in 2 .. NCLST + 1
    BY Sizes DEF clst2sect
  <2>2. (c - 2) * CSIZE >= (d - 1) * CSIZE  BY <1>6, <1>1, <2>1, Sizes
  <2>3. (d - 1) * CSIZE = (d - 2) * CSIZE + CSIZE  BY <2>1, Sizes
  <2>4. (d - 2) * CSIZE \in Nat  BY <2>1, Sizes
  <2> QED BY <1>6, <1>1, <1>2, <2>1, <2>2, <2>3, <2>4, Sizes DEF SectorsOf
<1>7. \A d \in Cluster : c < d \/ d < c \/ c = d  BY <1>1, Sizes
<1> QED BY <1>1, <1>2, <1>4, <1>5, <1>6, <1>7, Sizes

(* The sector and the slot of a place                                      *)
LEMMA SlottedIs ==
  ASSUME NEW q, NEW i \in Nat, q[i \div CLSZ + 1] \in Cluster
  PROVE  /\ Slotted(q, i)[1] \in SectorsOf(q[i \div CLSZ + 1])
         /\ Slotted(q, i)[1] = clst2sect(q[i \div CLSZ + 1]) + (i % CLSZ) \div SS
         /\ Slotted(q, i)[2] = i % SS
         /\ Slotted(q, i)[1] \in Sector /\ Slotted(q, i)[2] \in Slot
         /\ Slotted(q, i) = << Slotted(q, i)[1], Slotted(q, i)[2] >>
<1>1. (i % CLSZ) \div SS \in 0 .. CSIZE - 1 /\ i % SS \in Slot  BY Position
<1>2. Slotted(q, i) = << clst2sect(q[i \div CLSZ + 1]) + (i % CLSZ) \div SS, i % SS >>
  BY DEF Slotted
<1>3. clst2sect(q[i \div CLSZ + 1]) + (i % CLSZ) \div SS \in SectorsOf(q[i \div CLSZ + 1])
  <2>1. clst2sect(q[i \div CLSZ + 1]) \in Nat /\ CSIZE \in Nat  BY SectorsAre, Sizes
  <2> QED BY <1>1, <2>1 DEF SectorsOf
<1> QED BY <1>1, <1>2, <1>3, SectorsAre

(* No two places of chains that have no cluster in common are one.         *)
LEMMA SlottedIsUnique ==
  ASSUME NEW q, NEW i \in Nat, q[i \div CLSZ + 1] \in Cluster,
         NEW p, NEW j \in Nat, p[j \div CLSZ + 1] \in Cluster,
         Slotted(q, i) = Slotted(p, j)
  PROVE  /\ q[i \div CLSZ + 1] = p[j \div CLSZ + 1]
         /\ i \div CLSZ = j \div CLSZ => i = j
<1>1. q[i \div CLSZ + 1] = p[j \div CLSZ + 1]
  BY SlottedIs, SectorsAre
<1>2. (i % CLSZ) \div SS = (j % CLSZ) \div SS /\ i % SS = j % SS
  <2>1. /\ Slotted(q, i)[1] = clst2sect(q[i \div CLSZ + 1]) + (i % CLSZ) \div SS
        /\ Slotted(p, j)[1] = clst2sect(p[j \div CLSZ + 1]) + (j % CLSZ) \div SS
        /\ Slotted(q, i)[2] = i % SS /\ Slotted(p, j)[2] = j % SS
    BY SlottedIs
  <2>2. clst2sect(q[i \div CLSZ + 1]) \in Nat  BY SectorsAre
  <2>3. (i % CLSZ) \div SS \in Int /\ (j % CLSZ) \div SS \in Int  BY Position
  <2> QED BY <1>1, <2>1, <2>2, <2>3
<1>3. i % CLSZ = j % CLSZ  BY <1>2, Position
<1>4. i \div CLSZ = j \div CLSZ => i = j  BY <1>3, Position
<1> QED BY <1>1, <1>4

(***************************************************************************)
(* Chains.                                                                 *)
(***************************************************************************)
LinkVal == {0, EOC} \cup Cluster                   \* what an entry of the FAT holds
Follow(fat, c) == IF c \in Cluster THEN fat[c] ELSE EOC
Injective(q) == \A j, k \in 1 .. Len(q) : q[j] = q[k] => j = k

(* A walk follows the FAT from its first cluster on.                       *)
LEMMA WalkIs ==
  ASSUME NEW v, v.fat \in [Cluster -> LinkVal], NEW c \in LinkVal
  PROVE  /\ Walk(v, c) \in [1 .. NCLST -> LinkVal] /\ Walk(v, c)[1] = c
         /\ \A k \in 1 .. NCLST - 1 : Walk(v, c)[k + 1] = Follow(v.fat, Walk(v, c)[k])
<1> DEFINE N == NCLST - 1
           link == [d \in 0 .. EOC |-> IF d \in Cluster THEN v.fat[d] ELSE EOC]
           Step(go) == [n \in 0 .. NCLST - 1 |-> IF n = 0 THEN c ELSE link[go[n - 1]]]
           g == [p \in (1 .. N) \X LinkVal |-> link[p[2]]]
           f == CHOOSE go : go = Step(go)
<1>1. N \in Nat /\ 0 .. N = 0 .. NCLST - 1  BY Sizes
<1>2. \A d \in LinkVal : d \in 0 .. EOC /\ link[d] = Follow(v.fat, d) /\ link[d] \in LinkVal
  BY Sizes DEF LinkVal, Follow
<1>3. StaysIn(g, N, LinkVal)
  <2> HIDE DEF link
  <2> QED BY <1>2 DEF StaysIn
<1>4. PICK h \in [0 .. N -> LinkVal] : ComputedBy(h, g, N, c)
  <2> HIDE DEF g, N
  <2> QED BY <1>1, <1>3, Iteration
<1>5. \A n \in 1 .. N : h[n] = link[h[n - 1]]
  <2> HIDE DEF link
  <2>1. \A n \in 1 .. N : n - 1 \in 0 .. N  BY <1>1
  <2>2. \A n \in 1 .. N : h[n - 1] \in LinkVal  BY <2>1
  <2>3. \A n \in 1 .. N : g[<< n, h[n - 1] >>] = link[h[n - 1]]  BY <2>2
  <2> QED BY <1>4, <2>3 DEF ComputedBy
<1>6. h = Step(h)
  <2>1. h = [n \in 0 .. N |-> h[n]]  OBVIOUS
  <2>2. h[0] = c  BY <1>4 DEF ComputedBy
  <2>3. \A n \in 0 .. N : h[n] = IF n = 0 THEN c ELSE link[h[n - 1]]
    <3> HIDE DEF link
    <3> QED BY <1>5, <2>2, <1>1
  <2> HIDE DEF link
  <2> QED BY <2>1, <2>3, <1>1
<1>7. f = Step(f)
  <2> HIDE DEF Step
  <2> QED BY <1>6
<1>8. f = h
  <2> DEFINE S == {n \in 0 .. N : f[n] = h[n]}
  <2>1. \A n \in 0 .. N : f[n] = IF n = 0 THEN c ELSE link[f[n - 1]]
    <3> HIDE DEF link, f
    <3> QED BY <1>7, <1>1
  <2>2. \A n \in 0 .. N : h[n] = IF n = 0 THEN c ELSE link[h[n - 1]]
    <3> HIDE DEF link
    <3> QED BY <1>6, <1>1
  <2> HIDE DEF f, link
  <2>3. 0 \in S  BY <2>1, <2>2, <1>1
  <2>4. ASSUME NEW n \in 0 .. N - 1, n \in S  PROVE n + 1 \in S
    <3>1. n + 1 \in 0 .. N /\ n + 1 # 0 /\ (n + 1) - 1 = n  BY <1>1
    <3> QED BY <2>1, <2>2, <2>4, <3>1
  <2>5. \A n \in 0 .. N : n \in S
    <3> HIDE DEF S, N
    <3> QED BY <2>3, <2>4, <1>1, Induction
  <2>6. f = [n \in 0 .. N |-> f[n]]  BY <1>7, <1>1
  <2> QED BY <2>5, <2>6
<1>9. Walk(v, c) = [k \in 1 .. NCLST |-> h[k - 1]]
  <2>1. Walk(v, c) = [k \in 1 .. NCLST |-> f[k - 1]]  BY DEF Walk
  <2> QED BY <2>1, <1>8
<1>10. \A k \in 1 .. NCLST : k - 1 \in 0 .. N  BY Sizes
<1>11. h[0] = c  BY <1>4 DEF ComputedBy
<1>12. ASSUME NEW k \in 1 .. NCLST - 1
       PROVE  Walk(v, c)[k + 1] = Follow(v.fat, Walk(v, c)[k])
  <2> HIDE DEF link
  <2>1. k + 1 \in 1 .. NCLST /\ k \in 1 .. NCLST /\ k \in 1 .. N /\ k - 1 \in 0 .. N
        /\ (k + 1) - 1 = k
    BY Sizes
  <2>2. Walk(v, c)[k + 1] = h[k] /\ Walk(v, c)[k] = h[k - 1]  BY <1>9, <2>1
  <2> QED BY <2>1, <2>2, <1>5, <1>2
<1>13. 1 \in 1 .. NCLST /\ 1 - 1 = 0  BY Sizes
<1> HIDE DEF link
<1> QED BY <1>9, <1>10, <1>11, <1>12, <1>13

(* There are NCLST clusters.                                               *)
LEMMA ClusterCount == IsFiniteSet(Cluster) /\ Cardinality(Cluster) = NCLST
BY FS_Interval, Sizes

(* No chain is longer than the volume has clusters.                        *)
LEMMA ShortEnough ==
  ASSUME NEW q \in Seq(Cluster), Injective(q)
  PROVE  Len(q) \in 0 .. NCLST
<1> SUFFICES ASSUME Len(q) > NCLST  PROVE FALSE
  BY Sizes
<1> DEFINE P == 1 .. Len(q)
           f == [k \in P |-> q[k]]
<1>1. f \in [P -> Cluster]  OBVIOUS
<1>2. IsFiniteSet(P) /\ Cardinality(P) = Len(q)
  <2>1. Len(q) \in Int /\ Len(q) > 0 /\ 1 \in Int  BY Sizes
  <2>2. Cardinality(1 .. Len(q)) = IF 1 > Len(q) THEN 0 ELSE Len(q) - 1 + 1
    BY <2>1, FS_Interval
  <2>3. IsFiniteSet(P)  BY <2>1, FS_Interval
  <2> QED BY <2>1, <2>2, <2>3
<1>3. \E j, k \in P : j # k /\ f[j] = f[k]
  <2>1. Cardinality(Cluster) < Cardinality(P)  BY ClusterCount, <1>2, Sizes
  <2> HIDE DEF f, P
  <2> QED BY <1>1, <1>2, <2>1, ClusterCount, FS_PigeonHole
<1> QED BY <1>3 DEF Injective

(* What is linked up to an end is the chain of its first cluster.          *)
LEMMA ChainIs ==
  ASSUME NEW v, v.fat \in [Cluster -> LinkVal], NEW q, IsChain(v.fat, q), Injective(q)
  PROVE  Chain(v, q[1]) = q /\ Links(v, q[1]) = ToSet(q)
<1> DEFINE w == Walk(v, q[1])
           n == Len(q)
           S == {k \in 0 .. NCLST : k >= 1 => IF k <= n THEN w[k] = q[k] ELSE w[k] = EOC}
<1>1. /\ q \in Seq(Cluster) /\ q # << >> /\ v.fat[q[n]] = EOC
      /\ \A k \in 1 .. n - 1 : v.fat[q[k]] = q[k + 1]
  BY DEF IsChain
<1>2. n \in 1 .. NCLST
  <2>1. n \in 0 .. NCLST  BY <1>1, ShortEnough
  <2>2. n # 0  BY <1>1
  <2> QED BY <2>1, <2>2
<1>3. \A k \in 1 .. n : q[k] \in Cluster  BY <1>1
<1>4. /\ w \in [1 .. NCLST -> LinkVal] /\ w[1] = q[1]
      /\ \A k \in 1 .. NCLST - 1 : w[k + 1] = Follow(v.fat, w[k])
  <2>1. q[1] \in LinkVal  BY <1>2, <1>3 DEF LinkVal
  <2> QED BY <2>1, WalkIs
<1> HIDE DEF w, n
<1>5. 0 \in S  BY Sizes
<1>6. ASSUME NEW k \in 0 .. NCLST - 1, k \in S  PROVE k + 1 \in S
  <2>1. CASE k = 0  BY <2>1, <1>2, <1>4, Sizes
  <2>2. CASE k # 0 /\ k < n
    <3>1. k \in 1 .. n - 1 /\ k \in 1 .. NCLST - 1 /\ k + 1 <= n /\ k \in 1 .. n
      BY <2>2, <1>2, Sizes
    <3>2. w[k] = q[k] /\ w[k + 1] = Follow(v.fat, w[k])  BY <3>1, <1>4, <1>6
    <3>3. w[k + 1] = q[k + 1]  BY <3>1, <3>2, <1>1, <1>3 DEF Follow
    <3> QED BY <3>1, <3>3, Sizes
  <2>3. CASE k # 0 /\ k = n
    <3>1. k \in 1 .. NCLST - 1 /\ ~(k + 1 <= n) /\ k \in 1 .. n
      BY <2>3, <1>2, Sizes
    <3>2. w[k] = q[k] /\ w[k + 1] = Follow(v.fat, w[k])  BY <3>1, <1>4, <1>6
    <3>3. w[k + 1] = EOC  BY <3>1, <3>2, <1>1, <1>3, <2>3 DEF Follow
    <3> QED BY <3>1, <3>3, Sizes
  <2>4. CASE k # 0 /\ k > n
    <3>1. k \in 1 .. NCLST - 1 /\ ~(k + 1 <= n) /\ ~(k <= n)
      BY <2>4, <1>2, Sizes
    <3>2. w[k] = EOC /\ w[k + 1] = Follow(v.fat, w[k])  BY <3>1, <1>4, <1>6
    <3>3. w[k + 1] = EOC  BY <3>2, Sizes DEF Follow
    <3> QED BY <3>1, <3>3, Sizes
  <2> QED BY <2>1, <2>2, <2>3, <2>4, <1>2
<1>7. \A k \in 0 .. NCLST : k \in S
  <2> HIDE DEF S
  <2> QED BY <1>5, <1>6, Sizes, Induction
<1>8. \A k \in 1 .. NCLST : w[k] \in Cluster <=> k <= n
  <2>1. ASSUME NEW k \in 1 .. NCLST  PROVE w[k] \in Cluster <=> k <= n
    <3>1. k \in S /\ k >= 1  BY <1>7
    <3>2. CASE k <= n
      <4>1. w[k] = q[k] /\ k \in 1 .. n  BY <3>1, <3>2, <1>2
      <4> QED BY <4>1, <3>2, <1>3
    <3>3. CASE ~(k <= n)
      <4>1. w[k] = EOC  BY <3>1, <3>3
      <4> QED BY <4>1, <3>3, Sizes
    <3> QED BY <3>2, <3>3
  <2> QED BY <2>1
<1>9. {k \in 1 .. NCLST : w[k] \in Cluster} = 1 .. n
  <2>1. NCLST \in Nat /\ 1 .. n \subseteq 1 .. NCLST  BY <1>2, Sizes
  <2> QED BY <1>8, <2>1
<1>10. Cardinality({k \in 1 .. NCLST : w[k] \in Cluster}) = n
  <2>1. n \in Int /\ 1 \in Int /\ n > 0  BY <1>2, Sizes
  <2>2. Cardinality(1 .. n) = n  BY <2>1, FS_Interval
  <2> QED BY <1>9, <2>2
<1>11. SubSeq(w, 1, n) = q
  <2>1. w \in Seq(LinkVal) /\ Len(w) = NCLST  BY <1>4, Sizes
  <2>2. SubSeq(w, 1, n) = [k \in 1 .. n |-> w[k]]  BY <2>1, <1>2, Sizes
  <2>3. \A k \in 1 .. n : w[k] = q[k]
    <3>1. 1 .. n \subseteq 0 .. NCLST  BY <1>2, Sizes
    <3> QED BY <1>7, <3>1, <1>2
  <2>4. q = [k \in 1 .. n |-> q[k]]  BY <1>1 DEF n
  <2> QED BY <2>2, <2>3, <2>4
<1>12. Chain(v, q[1]) = SubSeq(w, 1, Cardinality({k \in 1 .. NCLST : w[k] \in Cluster}))
  BY DEF Chain, With, w
<1> QED BY <1>10, <1>11, <1>12 DEF Links

(***************************************************************************)
(* What the calls do to the FAT.                                           *)
(***************************************************************************)
Vol(v) ==
  /\ DOMAIN v = {"fat", "disk", "info", "registered", "mounted", "id", "last_clst",
                 "free_clst", "fsi_flag", "wflag"}
  /\ v.fat \in [Cluster -> LinkVal]
  /\ DOMAIN v.disk = Sector /\ \A s \in Sector : DOMAIN v.disk[s] = Slot
  /\ DOMAIN v.info = {"free", "next"}
  /\ v.info.free \in 0 .. NCLST \cup {Unknown}
  /\ v.info.next \in 0 .. n_fatent - 1 \cup {Unknown}
  /\ v.free_clst \in 0 .. NCLST \cup {Unknown}
  /\ v.last_clst \in 0 .. n_fatent - 1 \cup {Unknown}
  /\ v.registered \in BOOLEAN /\ v.mounted \in BOOLEAN /\ v.id \in Nat
  /\ v.fsi_flag \in BOOLEAN /\ v.wflag \in BOOLEAN

(* A free count that is known is right.                                    *)
CountIsRight(v) == v.free_clst # Unknown => v.free_clst = Cardinality(Free(v))

(* What every change of the FAT respects: nothing but the hints changes,   *)
(* the count stays right, and what FSInfo is to be told is noted.          *)
Keeps(v, w) ==
  /\ w.info = v.info /\ w.registered = v.registered /\ w.mounted = v.mounted
  /\ w.id = v.id /\ w.wflag = v.wflag
  /\ w.free_clst = Unknown <=> v.free_clst = Unknown
  /\ v.fsi_flag => w.fsi_flag
  /\ CountIsRight(v) =>
       /\ CountIsRight(w)
       /\ Free(w) = Free(v) \/ w.fsi_flag \/ v.free_clst = Unknown

(* Such changes may follow one another.                                    *)
LEMMA KeepsOn ==
  ASSUME NEW u, NEW v, NEW w, Keeps(u, v), Keeps(v, w)
  PROVE  Keeps(u, w)
BY DEF Keeps

(* What does not concern the FAT or the hints keeps them.                  *)
LEMMA KeepsSame ==
  ASSUME NEW v, NEW w, w.fat = v.fat, w.info = v.info, w.registered = v.registered,
         w.mounted = v.mounted, w.id = v.id, w.wflag = v.wflag,
         w.free_clst = v.free_clst, w.fsi_flag = v.fsi_flag
  PROVE  Keeps(v, w)
BY DEF Keeps, CountIsRight, Free

(* The number of free clusters                                             *)
LEMMA FreeIs ==
  ASSUME NEW v
  PROVE  /\ IsFiniteSet(Free(v)) /\ Cardinality(Free(v)) \in 0 .. NCLST
         /\ Cardinality(Free(v)) = 0 <=> Free(v) = {}
<1>1. Free(v) \in SUBSET Cluster  BY DEF Free
<1>2. IsFiniteSet(Free(v)) /\ Cardinality(Free(v)) <= NCLST
  BY <1>1, ClusterCount, FS_Subset
<1>3. Cardinality(Free(v)) \in Nat /\ (Cardinality(Free(v)) = 0 <=> Free(v) = {})
  BY <1>2, FS_CardinalityType, FS_EmptySet
<1> QED BY <1>2, <1>3, Sizes

(* What is known of a chain q of a sound FAT that begins at h              *)
Strand(fat, h, q) ==
  /\ q \in Seq(Cluster) /\ Len(q) \in 1 .. NCLST /\ Injective(q)
  /\ h \in Cluster /\ q[1] = h /\ DOMAIN q = 1 .. Len(q)
  /\ \A k \in 1 .. Len(q) : q[k] \in Cluster /\ fat[q[k]] # 0
  /\ IsChain(fat, q)

(* The chains of a sound FAT                                               *)
LEMMA StrandOf ==
  ASSUME NEW fat, NEW ch, Chained(fat, ch), NEW h \in DOMAIN ch
  PROVE  Strand(fat, h, ch[h])
<1>1. IsChain(fat, ch[h]) /\ ch[h][1] = h
  BY DEF Chained
<1>2. ch[h] \in Seq(Cluster) /\ ch[h] # << >> /\ DOMAIN ch[h] = 1 .. Len(ch[h])
  BY <1>1 DEF IsChain
<1>3. Injective(ch[h])  BY <1>2 DEF Chained, Injective
<1>4. Len(ch[h]) \in 1 .. NCLST
  <2>1. Len(ch[h]) \in 0 .. NCLST  BY <1>2, <1>3, ShortEnough
  <2>2. Len(ch[h]) # 0  BY <1>2
  <2> QED BY <2>1, <2>2
<1>5. \A k \in 1 .. Len(ch[h]) : ch[h][k] \in Cluster  BY <1>2
<1>6. h \in Cluster  BY <1>1, <1>4, <1>5
<1>7. ASSUME NEW k \in 1 .. Len(ch[h])  PROVE fat[ch[h][k]] # 0
  <2>1. CASE k = Len(ch[h])  BY <2>1, <1>1, Sizes DEF IsChain
  <2>2. CASE k # Len(ch[h])
    <3>1. k \in 1 .. Len(ch[h]) - 1 /\ k + 1 \in 1 .. Len(ch[h])  BY <2>2, <1>4
    <3>2. fat[ch[h][k]] = ch[h][k + 1]  BY <3>1, <1>1 DEF IsChain
    <3> QED BY <3>1, <3>2, <1>5, Sizes
  <2> QED BY <2>1, <2>2
<1> QED BY <1>1, <1>2, <1>3, <1>4, <1>5, <1>6, <1>7 DEF Strand

(* They are those that FatFs follows.                                      *)
LEMMA ChainOf ==
  ASSUME NEW v, NEW ch, Chained(v.fat, ch), NEW h \in DOMAIN ch
  PROVE  Chain(v, h) = ch[h] /\ Links(v, h) = ToSet(ch[h])
<1>1. v.fat \in [Cluster -> LinkVal]  BY DEF Chained, LinkVal
<1>2. Strand(v.fat, h, ch[h])  BY StrandOf
<1>3. IsChain(v.fat, ch[h]) /\ Injective(ch[h]) /\ ch[h][1] = h  BY <1>2 DEF Strand
<1> QED BY <1>1, <1>3, ChainIs

(* Clusters that are freed, of the chain of c behind what is cut off: the  *)
(* count follows.                                                          *)
Freed(v, cut, c, r) ==
  LET gone == Links(cut, c) \ Free(cut)
  IN  /\ r.res = "OK" /\ Vol(r.v) /\ r.v.disk = v.disk /\ Keeps(v, r.v)
      /\ r.v.last_clst = v.last_clst
      /\ Vol(cut) /\ Free(cut) = Free(v)
      /\ r.v.fat = [d \in Cluster |-> IF d \in gone THEN 0 ELSE cut.fat[d]]
      /\ Free(r.v) = Free(v) \cup gone

(* remove_chain() frees what is linked from c on, and the count follows.   *)
LEMMA Freeing ==
  ASSUME NEW v, Vol(v), NEW p, p = 0 \/ (p \in Cluster /\ v.fat[p] # 0),
         NEW c \in Cluster,
         NEW cut, cut = IF p = 0 THEN v ELSE [v EXCEPT !.fat[p] = EOC],
         Links(cut, c) \in SUBSET Cluster
  PROVE  Freed(v, cut, c, remove_chain(v, c, p))
<1> DEFINE gone == Links(cut, c) \ Free(cut)
           r == remove_chain(v, c, p)
           n == Cardinality(gone)
<1>1. Vol(cut) /\ cut.free_clst = v.free_clst /\ cut.fsi_flag = v.fsi_flag /\ cut.disk = v.disk
      /\ cut.info = v.info /\ cut.registered = v.registered /\ cut.mounted = v.mounted
      /\ cut.id = v.id /\ cut.wflag = v.wflag /\ cut.last_clst = v.last_clst
      /\ (p # 0 => cut.fat = [v.fat EXCEPT ![p] = EOC]) /\ (p = 0 => cut.fat = v.fat)
  <2>1. CASE p = 0  BY <2>1
  <2>2. CASE p # 0
    <3>1. [v.fat EXCEPT ![p] = EOC] \in [Cluster -> LinkVal]
      BY <2>2 DEF Vol, LinkVal
    <3> QED BY <2>2, <3>1 DEF Vol
  <2> QED BY <2>1, <2>2
<1>2. Free(cut) = Free(v)
  BY <1>1, Sizes DEF Free, Vol
<1>3. r = [res |-> "OK",
           v |-> [cut EXCEPT
              !.fat = [d \in Cluster |-> IF d \in gone THEN 0 ELSE @[d]],
              !.free_clst = IF @ < NCLST THEN Lesser(@ + n, NCLST) ELSE @,
              !.fsi_flag = @ \/ (v.free_clst < NCLST /\ gone # {})]]
  BY DEF remove_chain
<1>4. /\ gone \in SUBSET Cluster /\ IsFiniteSet(gone) /\ n \in 0 .. NCLST
      /\ (n = 0 <=> gone = {}) /\ gone \cap Free(v) = {}
      /\ Cardinality(Free(v) \cup gone) = Cardinality(Free(v)) + n
      /\ Cardinality(Free(v)) + n <= NCLST
  <2>1. gone \in SUBSET Cluster  OBVIOUS
  <2>2. IsFiniteSet(gone) /\ n <= NCLST
    <3> HIDE DEF gone
    <3> QED BY <2>1, ClusterCount, FS_Subset
  <2>3. n \in Nat /\ (n = 0 <=> gone = {})
    <3> HIDE DEF gone
    <3> QED BY <2>2, FS_CardinalityType, FS_EmptySet
  <2>4. gone \cap Free(v) = {}  BY <1>2
  <2>5. Cardinality(Free(v) \cup gone)
          = Cardinality(Free(v)) + Cardinality(gone) - Cardinality(Free(v) \cap gone)
    <3> HIDE DEF gone
    <3> QED BY <2>2, FreeIs, FS_Union
  <2>6. Cardinality(Free(v) \cap gone) = 0  BY <2>4, FS_EmptySet
  <2>7. Cardinality(Free(v) \cup gone) <= NCLST
    <3>1. Free(v) \cup gone \in SUBSET Cluster  BY <2>1 DEF Free
    <3> QED BY <3>1, ClusterCount, FS_Subset
  <2> HIDE DEF gone
  <2> QED BY <2>1, <2>2, <2>3, <2>4, <2>5, <2>6, <2>7, FreeIs, Sizes
<1> HIDE DEF gone, n, r
<1>5. /\ r.res = "OK" /\ DOMAIN r.v = DOMAIN cut /\ r.v.disk = cut.disk /\ r.v.info = cut.info
      /\ r.v.registered = cut.registered /\ r.v.mounted = cut.mounted /\ r.v.id = cut.id
      /\ r.v.wflag = cut.wflag /\ r.v.last_clst = cut.last_clst
      /\ r.v.fat = [d \in Cluster |-> IF d \in gone THEN 0 ELSE cut.fat[d]]
      /\ r.v.free_clst = IF cut.free_clst < NCLST THEN Lesser(cut.free_clst + n, NCLST)
                         ELSE cut.free_clst
      /\ r.v.fsi_flag = (cut.fsi_flag \/ (v.free_clst < NCLST /\ gone # {}))
  BY <1>1, <1>3 DEF Vol
<1>6. Free(r.v) = Free(v) \cup gone
  BY <1>2, <1>4, <1>5 DEF Free
<1>7. Vol(r.v)
  <2>1. r.v.fat \in [Cluster -> LinkVal]  BY <1>1, <1>5 DEF Vol, LinkVal
  <2>2. r.v.free_clst \in 0 .. NCLST \cup {Unknown}
    <3>1. cut.free_clst \in 0 .. NCLST \cup {Unknown}  BY <1>1 DEF Vol
    <3> QED BY <3>1, <1>4, <1>5, Sizes DEF Lesser
  <2>3. r.v.fsi_flag \in BOOLEAN  BY <1>5
  <2> QED BY <1>1, <1>5, <2>1, <2>2, <2>3 DEF Vol
<1>8. Keeps(v, r.v)
  <2>1. v.free_clst \in 0 .. NCLST \cup {Unknown}  BY DEF Vol
  <2>2. r.v.free_clst = Unknown <=> v.free_clst = Unknown
    BY <2>1, <1>1, <1>4, <1>5, Sizes DEF Lesser
  <2>3. CountIsRight(v) => CountIsRight(r.v)
    <3> SUFFICES ASSUME v.free_clst # Unknown, v.free_clst = Cardinality(Free(v))
                 PROVE  r.v.free_clst = Cardinality(Free(v)) + n
      BY <2>2, <1>4, <1>6 DEF CountIsRight
    <3>1. Cardinality(Free(v)) \in 0 .. NCLST  BY FreeIs
    <3> QED BY <2>1, <3>1, <1>1, <1>4, <1>5, Sizes DEF Lesser
  <2>4. Free(r.v) = Free(v) \/ r.v.fsi_flag \/ v.free_clst = Unknown
        \/ ~(v.free_clst < NCLST)
    BY <1>4, <1>5, <1>6
  <2>5. ~(v.free_clst < NCLST) /\ v.free_clst # Unknown /\ CountIsRight(v) => gone = {}
    <3>1. Cardinality(Free(v)) \in 0 .. NCLST  BY FreeIs
    <3> QED BY <2>1, <3>1, <1>4, Sizes DEF CountIsRight
  <2> QED BY <1>1, <1>5, <1>6, <2>2, <2>3, <2>4, <2>5 DEF Keeps
<1> QED BY <1>1, <1>2, <1>5, <1>6, <1>7, <1>8 DEF gone, r, Freed

(* What does not touch a chain leaves it.                                  *)
LEMMA StillChain ==
  ASSUME NEW fat, NEW m, NEW q, IsChain(fat, q), \A k \in 1 .. Len(q) : m[q[k]] = fat[q[k]]
  PROVE  IsChain(m, q)
<1>1. Len(q) \in 1 .. Len(q) /\ \A k \in 1 .. Len(q) - 1 : k \in 1 .. Len(q)
  BY DEF IsChain
<1> QED BY <1>1 DEF IsChain

(* A cluster is in one chain, at one place.                                *)
LEMMA OnePlace ==
  ASSUME NEW fat, NEW ch, Chained(fat, ch), NEW g \in DOMAIN ch, NEW h \in DOMAIN ch,
         NEW j \in 1 .. Len(ch[g]), NEW k \in 1 .. Len(ch[h]), ch[g][j] = ch[h][k]
  PROVE  g = h /\ j = k
<1>1. DOMAIN ch[g] = 1 .. Len(ch[g]) /\ DOMAIN ch[h] = 1 .. Len(ch[h])
  BY DEF Chained, IsChain
<1> QED BY <1>1 DEF Chained

(* A cluster in use is somewhere.                                          *)
LEMMA SomePlace ==
  ASSUME NEW fat, NEW ch, Chained(fat, ch), NEW c \in Cluster, fat[c] # 0
  PROVE  \E h \in DOMAIN ch : \E k \in 1 .. Len(ch[h]) : ch[h][k] = c
<1>1. PICK h \in DOMAIN ch : c \in ToSet(ch[h])  BY DEF Chained
<1>2. DOMAIN ch[h] = 1 .. Len(ch[h])  BY DEF Chained, IsChain
<1> QED BY <1>1, <1>2 DEF ToSet

Without(ch, h) == [g \in DOMAIN ch \ {h} |-> ch[g]]

(* A chain is removed as a whole.                                          *)
LEMMA Removing ==
  ASSUME NEW v, Vol(v), NEW ch, Chained(v.fat, ch), NEW h \in DOMAIN ch
  PROVE  LET r == remove_chain(v, h, 0)
         IN  /\ r.res = "OK" /\ Vol(r.v) /\ r.v.disk = v.disk /\ Keeps(v, r.v)
             /\ r.v.last_clst = v.last_clst
             /\ Chained(r.v.fat, Without(ch, h))
             /\ Free(r.v) = Free(v) \cup ToSet(ch[h])
<1> DEFINE r == remove_chain(v, h, 0)
           gone == Links(v, h) \ Free(v)
           dh == Without(ch, h)
<1>1. /\ ch[h] \in Seq(Cluster) /\ DOMAIN ch[h] = 1 .. Len(ch[h]) /\ h \in Cluster
      /\ \A k \in 1 .. Len(ch[h]) : ch[h][k] \in Cluster /\ v.fat[ch[h][k]] # 0
      /\ Links(v, h) = ToSet(ch[h])
  <2>1. Strand(v.fat, h, ch[h]) /\ Links(v, h) = ToSet(ch[h])  BY StrandOf, ChainOf
  <2> QED BY <2>1 DEF Strand
<1>2. ToSet(ch[h]) \in SUBSET Cluster /\ ToSet(ch[h]) \cap Free(v) = {}
  BY <1>1 DEF ToSet, Free
<1>3. gone = ToSet(ch[h])  BY <1>1, <1>2
<1>4. /\ r.res = "OK" /\ Vol(r.v) /\ r.v.disk = v.disk /\ Keeps(v, r.v)
      /\ r.v.last_clst = v.last_clst
      /\ r.v.fat = [d \in Cluster |-> IF d \in gone THEN 0 ELSE v.fat[d]]
      /\ Free(r.v) = Free(v) \cup gone
  <2>1. Links(v, h) \in SUBSET Cluster /\ h \in Cluster /\ v = IF 0 = 0 THEN v ELSE [v EXCEPT !.fat[0] = EOC]
    BY <1>1, <1>2
  <2>2. Freed(v, v, h, remove_chain(v, h, 0))  BY <2>1, Freeing
  <2> QED BY <2>2 DEF Freed, r, gone
<1> HIDE DEF r, gone
<1>5. ASSUME NEW g \in DOMAIN ch, g # h, NEW k \in 1 .. Len(ch[g])
      PROVE  r.v.fat[ch[g][k]] = v.fat[ch[g][k]]
  <2>1. ch[g][k] \in Cluster  BY StrandOf DEF Strand
  <2>2. ch[g][k] \notin gone
    <3> SUFFICES ASSUME NEW j \in 1 .. Len(ch[h]), ch[g][k] = ch[h][j]  PROVE FALSE
      BY <1>1, <1>3 DEF ToSet
    <3> QED BY <1>5, OnePlace
  <2> QED BY <1>4, <2>1, <2>2
<1>6. DOMAIN dh = DOMAIN ch \ {h} /\ \A g \in DOMAIN dh : dh[g] = ch[g]
  BY DEF Without
<1> HIDE DEF dh
<1>7. \A g \in DOMAIN dh : IsChain(r.v.fat, dh[g]) /\ dh[g][1] = g
  <2> SUFFICES ASSUME NEW g \in DOMAIN ch, g # h
               PROVE  IsChain(r.v.fat, ch[g]) /\ ch[g][1] = g
    BY <1>6
  <2>1. IsChain(v.fat, ch[g]) /\ ch[g][1] = g  BY StrandOf DEF Strand
  <2> QED BY <1>5, <2>1, StillChain
<1>8. ASSUME NEW c \in Cluster, r.v.fat[c] # 0
      PROVE  \E g \in DOMAIN dh : c \in ToSet(dh[g])
  <2>1. v.fat[c] # 0 /\ c \notin gone  BY <1>4, <1>8
  <2>2. PICK g \in DOMAIN ch : c \in ToSet(ch[g])  BY <2>1 DEF Chained
  <2>3. g # h  BY <2>1, <2>2, <1>3
  <2> QED BY <2>2, <2>3, <1>6
<1>9. \A g, e \in DOMAIN dh : \A j \in DOMAIN dh[g], k \in DOMAIN dh[e] :
        dh[g][j] = dh[e][k] => g = e /\ j = k
  BY <1>6 DEF Chained
<1>10. Chained(r.v.fat, dh)
  BY <1>4, <1>7, <1>8, <1>9 DEF Chained, Vol, LinkVal
<1> QED BY <1>3, <1>4, <1>10 DEF r, dh

Cut(ch, h, n) == [ch EXCEPT ![h] = SubSeq(@, 1, n)]

(* A chain is cut behind its cluster n.                                    *)
LEMMA Cutting ==
  ASSUME NEW v, Vol(v), NEW ch, Chained(v.fat, ch), NEW h \in DOMAIN ch,
         NEW n \in 1 .. Len(ch[h]) - 1
  PROVE  LET r == remove_chain(v, ch[h][n + 1], ch[h][n])
         IN  /\ r.res = "OK" /\ Vol(r.v) /\ r.v.disk = v.disk /\ Keeps(v, r.v)
             /\ r.v.last_clst = v.last_clst
             /\ Chained(r.v.fat, Cut(ch, h, n))
<1> DEFINE q == ch[h]
           len == Len(q)
           p == q[n]
           c == q[n + 1]
           r == remove_chain(v, c, p)
           cut == [v EXCEPT !.fat[p] = EOC]
           gone == Links(cut, c) \ Free(cut)
           rest == [j \in 1 .. len - n |-> q[n + j]]
           head == [j \in 1 .. n |-> q[j]]
           dh == Cut(ch, h, n)
<1>1. /\ q \in Seq(Cluster) /\ len \in 1 .. NCLST /\ Injective(q) /\ q[1] = h /\ DOMAIN q = 1 .. len
      /\ \A k \in 1 .. len : q[k] \in Cluster /\ v.fat[q[k]] # 0
      /\ IsChain(v.fat, q)
  <2>1. Strand(v.fat, h, q)  BY StrandOf
  <2> QED BY <2>1 DEF Strand
<1>2. /\ p \in Cluster /\ v.fat[p] # 0 /\ p # 0 /\ c \in Cluster
      /\ n \in 1 .. len /\ len \in Nat /\ n \in Nat
  BY <1>1, Sizes
<1>3. cut.fat = [v.fat EXCEPT ![p] = EOC] /\ cut.fat \in [Cluster -> LinkVal]
  BY <1>2 DEF Vol, LinkVal
<1> HIDE DEF cut, r
<1>4. /\ rest \in Seq(Cluster) /\ Len(rest) = len - n /\ rest # << >> /\ rest[1] = c
      /\ \A j \in 1 .. len - n : rest[j] = q[n + j] /\ rest[j] # p /\ n + j \in 1 .. len
  <2>1. ASSUME NEW j \in 1 .. len - n  PROVE n + j \in 1 .. len /\ q[n + j] # p
    <3>1. n + j \in 1 .. len /\ n + j # n  BY <1>2
    <3> QED BY <3>1, <1>1, <1>2 DEF Injective
  <2>2. rest \in [1 .. len - n -> Cluster]  BY <2>1, <1>1
  <2>3. len - n \in Nat /\ len - n > 0  BY <1>2
  <2>4. rest \in Seq(Cluster) /\ Len(rest) = len - n
    <3> DEFINE m == len - n
    <3>1. m \in Nat /\ rest \in [1 .. m -> Cluster]  BY <2>2, <2>3
    <3> HIDE DEF m, rest
    <3>2. rest \in Seq(Cluster) /\ Len(rest) = m  BY <3>1
    <3> QED BY <3>2 DEF m
  <2>5. rest # << >>
    <3>1. Len(rest) > 0  BY <2>3, <2>4
    <3> HIDE DEF rest
    <3> QED BY <3>1
  <2>6. rest[1] = c  BY <2>3
  <2> QED BY <2>1, <2>4, <2>5, <2>6
<1> HIDE DEF rest
<1>5. IsChain(cut.fat, rest) /\ Injective(rest)
  <2>1. \A j \in 1 .. len - n : cut.fat[rest[j]] = v.fat[q[n + j]]
    BY <1>1, <1>2, <1>3, <1>4 DEF Vol
  <2>2. cut.fat[rest[len - n]] = EOC
    <3>1. len - n \in 1 .. len - n /\ n + (len - n) = len  BY <1>2
    <3> QED BY <3>1, <2>1, <1>1 DEF IsChain
  <2>3. ASSUME NEW j \in 1 .. len - n - 1  PROVE cut.fat[rest[j]] = rest[j + 1]
    <3>1. j \in 1 .. len - n /\ j + 1 \in 1 .. len - n /\ n + j \in 1 .. len - 1
          /\ n + (j + 1) = (n + j) + 1
      BY <1>2
    <3>2. v.fat[q[n + j]] = q[(n + j) + 1]  BY <3>1, <1>1 DEF IsChain
    <3> QED BY <3>1, <3>2, <2>1, <1>4
  <2>4. Injective(rest)
    <3> SUFFICES ASSUME NEW j \in 1 .. len - n, NEW k \in 1 .. len - n, rest[j] = rest[k]
                 PROVE  j = k
      BY <1>4 DEF Injective
    <3>1. n + j = n + k  BY <1>1, <1>4 DEF Injective
    <3> QED BY <3>1, <1>2
  <2> QED BY <2>2, <2>3, <2>4, <1>4 DEF IsChain
<1>6. Links(cut, c) = ToSet(rest)
  <2>1. Links(cut, rest[1]) = ToSet(rest)  BY <1>3, <1>5, ChainIs
  <2> QED BY <2>1, <1>4
<1>7. ToSet(rest) = {q[j] : j \in n + 1 .. len}
  <2>1. DOMAIN rest = 1 .. len - n  BY <1>4
  <2>2. ASSUME NEW j \in n + 1 .. len  PROVE j - n \in 1 .. len - n /\ n + (j - n) = j
    BY <1>2
  <2>3. ASSUME NEW j \in 1 .. len - n  PROVE n + j \in n + 1 .. len
    BY <1>2
  <2>4. ASSUME NEW x \in ToSet(rest)  PROVE x \in {q[j] : j \in n + 1 .. len}
    BY <2>1, <2>3, <1>4 DEF ToSet
  <2>5. ASSUME NEW j \in n + 1 .. len  PROVE q[j] \in ToSet(rest)
    <3>1. rest[j - n] = q[j]  BY <2>2, <1>4
    <3> QED BY <3>1, <2>1, <2>2 DEF ToSet
  <2> QED BY <2>4, <2>5
<1>8. Links(cut, c) \in SUBSET Cluster /\ gone = {q[j] : j \in n + 1 .. len}
  <2>1. ASSUME NEW j \in n + 1 .. len  PROVE q[j] \in Cluster /\ q[j] \notin Free(cut)
    <3>1. j \in 1 .. len /\ j # n  BY <1>2
    <3> QED BY <3>1, <1>1, <1>2, <1>3, Sizes DEF Free, Vol
  <2> QED BY <2>1, <1>6, <1>7
<1>9. /\ r.res = "OK" /\ Vol(r.v) /\ r.v.disk = v.disk /\ Keeps(v, r.v)
      /\ r.v.last_clst = v.last_clst
      /\ r.v.fat = [d \in Cluster |-> IF d \in gone THEN 0 ELSE cut.fat[d]]
  <2>1. cut = IF p = 0 THEN v ELSE [v EXCEPT !.fat[p] = EOC]  BY <1>2 DEF cut
  <2>2. p = 0 \/ (p \in Cluster /\ v.fat[p] # 0)  BY <1>2
  <2>3. Links(cut, c) \in SUBSET Cluster  BY <1>8
  <2> HIDE DEF p, c, q
  <2>4. Freed(v, cut, c, remove_chain(v, c, p))
    BY <2>1, <2>2, <2>3, <1>2, Freeing
  <2> QED BY <2>4 DEF r, gone, Freed
<1> HIDE DEF gone
<1>10. ASSUME NEW d \in Cluster, d \notin gone
       PROVE  r.v.fat[d] = IF d = p THEN EOC ELSE v.fat[d]
  BY <1>9, <1>10, <1>3, <1>2 DEF Vol
<1>11. ASSUME NEW g \in DOMAIN ch, g # h, NEW k \in 1 .. Len(ch[g])
       PROVE  r.v.fat[ch[g][k]] = v.fat[ch[g][k]]
  <2>1. ch[g][k] \in Cluster  BY StrandOf DEF Strand
  <2>2. \A j \in 1 .. len : ch[g][k] # q[j]  BY <1>11, OnePlace
  <2>3. ch[g][k] # p /\ ch[g][k] \notin gone
    <3>1. n \in 1 .. len /\ \A j \in n + 1 .. len : j \in 1 .. len  BY <1>2
    <3> QED BY <2>2, <1>8, <3>1
  <2> QED BY <2>1, <2>3, <1>10
<1>12. ASSUME NEW j \in 1 .. n  PROVE q[j] \in Cluster /\ q[j] \notin gone /\ (j # n => q[j] # p)
  <2>1. j \in 1 .. len  BY <1>2
  <2>2. \A k \in n + 1 .. len : q[j] # q[k]
    <3>1. \A k \in n + 1 .. len : k \in 1 .. len /\ k # j  BY <1>2
    <3> QED BY <3>1, <2>1, <1>1 DEF Injective
  <2> QED BY <2>1, <2>2, <1>1, <1>2, <1>8 DEF Injective
<1>13. /\ DOMAIN dh = DOMAIN ch /\ \A g \in DOMAIN ch : g # h => dh[g] = ch[g]
       /\ dh[h] = head
  <2>1. SubSeq(q, 1, n) = head  BY <1>1, <1>2
  <2> QED BY <2>1 DEF Cut
<1>14. /\ head \in Seq(Cluster) /\ Len(head) = n /\ head # << >> /\ head[1] = h
       /\ DOMAIN head = 1 .. n /\ \A j \in 1 .. n : head[j] = q[j]
  <2>1. head \in [1 .. n -> Cluster]  BY <1>12
  <2>2. head \in Seq(Cluster) /\ Len(head) = n  BY <2>1, <1>2
  <2> QED BY <2>2, <1>1, <1>2
<1> HIDE DEF head, dh
<1>15. IsChain(r.v.fat, head)
  <2>1. r.v.fat[head[n]] = EOC  BY <1>10, <1>12, <1>14, <1>2
  <2>2. ASSUME NEW j \in 1 .. n - 1  PROVE r.v.fat[head[j]] = head[j + 1]
    <3>1. j \in 1 .. n /\ j + 1 \in 1 .. n /\ j # n /\ j \in 1 .. len - 1  BY <1>2
    <3>2. v.fat[q[j]] = q[j + 1]  BY <3>1, <1>1 DEF IsChain
    <3> QED BY <3>1, <3>2, <1>10, <1>12, <1>14
  <2> QED BY <2>1, <2>2, <1>14 DEF IsChain
<1>16. \A g \in DOMAIN dh : IsChain(r.v.fat, dh[g]) /\ dh[g][1] = g
  <2>1. ASSUME NEW g \in DOMAIN ch, g # h
        PROVE  IsChain(r.v.fat, ch[g]) /\ ch[g][1] = g
    <3>1. IsChain(v.fat, ch[g]) /\ ch[g][1] = g  BY StrandOf DEF Strand
    <3> QED BY <1>11, <3>1, <2>1, StillChain
  <2> QED BY <2>1, <1>13, <1>14, <1>15
<1>17. ASSUME NEW d \in Cluster, r.v.fat[d] # 0
       PROVE  \E g \in DOMAIN dh : d \in ToSet(dh[g])
  <2>1. v.fat[d] # 0 /\ d \notin gone  BY <1>9, <1>10, <1>17, <1>2
  <2>0. PICK g \in DOMAIN ch : \E k \in 1 .. Len(ch[g]) : ch[g][k] = d  BY <2>1, SomePlace
  <2>2. PICK k \in 1 .. Len(ch[g]) : ch[g][k] = d  BY <2>0
  <2>3. CASE g # h
    <3>1. dh[g] = ch[g] /\ DOMAIN ch[g] = 1 .. Len(ch[g])
      BY <2>3, <1>13, StrandOf DEF Strand
    <3> QED BY <3>1, <2>2, <1>13 DEF ToSet
  <2>4. CASE g = h
    <3>1. k \in 1 .. n
      <4>1. k \notin n + 1 .. len  BY <2>1, <2>2, <2>4, <1>8
      <4> QED BY <4>1, <2>2, <2>4, <1>2
    <3> QED BY <3>1, <2>2, <2>4, <1>13, <1>14 DEF ToSet
  <2> QED BY <2>3, <2>4
<1>18. ASSUME NEW g \in DOMAIN dh, NEW e \in DOMAIN dh, NEW j \in DOMAIN dh[g],
              NEW k \in DOMAIN dh[e], dh[g][j] = dh[e][k]
       PROVE  g = e /\ j = k
  <2>1. \A f \in DOMAIN dh : \A i \in DOMAIN dh[f] :
          f \in DOMAIN ch /\ i \in 1 .. Len(ch[f]) /\ dh[f][i] = ch[f][i]
    <3>1. \A f \in DOMAIN ch : DOMAIN ch[f] = 1 .. Len(ch[f])  BY StrandOf DEF Strand
    <3>2. 1 .. n \subseteq 1 .. len  BY <1>2
    <3> QED BY <3>1, <3>2, <1>13, <1>14
  <2> QED BY <2>1, <1>18, OnePlace
<1>19. Chained(r.v.fat, dh)
  BY <1>9, <1>16, <1>17, <1>18 DEF Chained, Vol, LinkVal
<1> QED BY <1>9, <1>19 DEF r, dh

(* The search around the FAT finds a free cluster when there is one.       *)
LEMMA SearchIs ==
  ASSUME NEW v, NEW s \in 1 .. n_fatent - 1
  PROVE  IF Free(v) = {} THEN Search(v, s) = 0 ELSE Search(v, s) \in Free(v)
<1> DEFINE Away(c) == IF c > s THEN c - s ELSE c - s + NCLST
           T == {n \in 1 .. NCLST : \E c \in Free(v) : n = Away(c)}
<1>1. CASE Free(v) = {}  BY <1>1 DEF Search
<1>2. CASE Free(v) # {}
  <2>1. ASSUME NEW c \in Free(v)  PROVE Away(c) \in 1 .. NCLST
    <3>1. c \in 2 .. NCLST + 1 /\ s \in 1 .. NCLST + 1 /\ NCLST \in Nat
      BY Sizes DEF Free
    <3> QED BY <3>1
  <2>2. T # {} /\ T \in SUBSET (1 .. NCLST)  BY <1>2, <2>1
  <2>3. PICK m \in T : \A n \in T : m <= n
    <3> HIDE DEF T
    <3> QED BY <2>2, Sizes, FirstOne
  <2>4. PICK c \in Free(v) : m = Away(c)  OBVIOUS
  <2>5. \A d \in Free(v) : Away(c) <= Away(d)
    <3>1. \A d \in Free(v) : Away(d) \in T  BY <2>1
    <3> HIDE DEF T, Away
    <3> QED BY <3>1, <2>3, <2>4
  <2>6. Search(v, s) = CHOOSE e \in Free(v) : \A d \in Free(v) : Away(e) <= Away(d)
    BY <1>2 DEF Search
  <2> HIDE DEF Away
  <2> QED BY <1>2, <2>5, <2>6
<1> QED BY <1>1, <1>2

(* So does the whole search of create_chain().                             *)
LEMMA NextFreeIs ==
  ASSUME NEW v, Vol(v), NEW c \in Cluster \cup {0}
  PROVE  IF Free(v) = {} THEN NextFree(v, c) = 0 ELSE NextFree(v, c) \in Free(v)
<1> DEFINE beside == IF c + 1 < n_fatent THEN c + 1 ELSE 2
           h == Hint(v, IF c = 0 THEN 1 ELSE c)
<1>1. CASE c # 0 /\ v.fat[beside] = 0
  <2>1. beside \in Cluster
    <3>1. c \in 2 .. NCLST + 1 /\ NCLST \in Nat /\ NCLST # 0  BY <1>1, Sizes
    <3> QED BY <3>1, Sizes
  <2>2. NextFree(v, c) = beside  BY <1>1 DEF NextFree
  <2> HIDE DEF beside
  <2>3. beside \in Free(v)  BY <1>1, <2>1 DEF Free
  <2> QED BY <2>2, <2>3
<1>2. CASE ~(c # 0 /\ v.fat[beside] = 0)
  <2>1. h \in 1 .. n_fatent - 1
    <3>1. \A d \in Cluster : d \in 1 .. n_fatent - 1  BY Sizes
    <3>2. 1 \in 1 .. n_fatent - 1  BY Sizes
    <3> QED BY <3>1, <3>2 DEF Hint
  <2>2. NextFree(v, c) = Search(v, h)  BY <1>2 DEF NextFree
  <2> HIDE DEF h
  <2> QED BY <2>1, <2>2, SearchIs
<1> QED BY <1>1, <1>2

(* What create_chain() says of a full volume, and what it does on another. *)
NoRoom(v, r) == r.clst = 0 /\ r.v = v /\ (CountIsRight(v) => Free(v) = {})
Allocated(v, c, r) ==
  /\ r.clst \in Free(v) /\ Vol(r.v) /\ r.v.disk = v.disk /\ Keeps(v, r.v)
  /\ r.v.fat = [d \in Cluster |-> IF d = r.clst THEN EOC
                                  ELSE IF d = c THEN r.clst ELSE v.fat[d]]
  /\ Free(r.v) = Free(v) \ {r.clst}

(* create_chain() finds no room, or allocates a cluster that was free.     *)
LEMMA Allocation ==
  ASSUME NEW v, Vol(v), NEW c, c = 0 \/ (c \in Cluster /\ v.fat[c] = EOC)
  PROVE  NoRoom(v, create_chain(v, c)) \/ Allocated(v, c, create_chain(v, c))
<1> DEFINE r == create_chain(v, c)
           ncl == NextFree(v, c)
<1>1. r = IF v.free_clst = 0 THEN [v |-> v, clst |-> 0] ELSE Linked(v, c, ncl)
  <2>1. c # 0 => get_fat(v, c) = EOC  BY DEF get_fat
  <2>2. ~(EOC < 2)  BY Sizes
  <2> QED BY <2>1, <2>2 DEF create_chain
<1>2. Free(v) = {} \/ ncl \in Free(v)
  <2>1. c \in Cluster \cup {0}  OBVIOUS
  <2> QED BY <2>1, NextFreeIs
<1>3. Free(v) = {} => ncl = 0  BY NextFreeIs
<1> HIDE DEF ncl
<1>4. CASE v.free_clst = 0
  <2>1. r.clst = 0 /\ r.v = v  BY <1>1, <1>4
  <2>2. CountIsRight(v) => Free(v) = {}
    BY <1>4, Sizes, FreeIs DEF CountIsRight
  <2> QED BY <2>1, <2>2 DEF NoRoom
<1>5. CASE v.free_clst # 0 /\ Free(v) = {}
  <2>1. r.clst = 0 /\ r.v = v  BY <1>1, <1>3, <1>5 DEF Linked
  <2> QED BY <2>1, <1>5 DEF NoRoom
<1>6. CASE v.free_clst # 0 /\ Free(v) # {}
  <2>1. ncl \in Free(v) /\ ncl \in Cluster /\ v.fat[ncl] = 0 /\ ncl # 0
    BY <1>2, <1>6, Sizes DEF Free
  <2>2. r = [clst |-> ncl,
             v |-> [v EXCEPT
               !.fat = [d \in Cluster |-> IF d = ncl THEN EOC
                                          ELSE IF d = c THEN ncl ELSE @[d]],
               !.last_clst = ncl,
               !.free_clst = IF @ <= NCLST THEN @ - 1 ELSE @,
               !.fsi_flag = @ \/ v.free_clst <= NCLST]]
    BY <1>1, <1>6, <2>1 DEF Linked
  <2> HIDE DEF r
  <2>3. /\ r.clst = ncl /\ DOMAIN r.v = DOMAIN v /\ r.v.disk = v.disk /\ r.v.info = v.info
        /\ r.v.registered = v.registered /\ r.v.mounted = v.mounted /\ r.v.id = v.id
        /\ r.v.wflag = v.wflag /\ r.v.last_clst = ncl
        /\ r.v.fat = [d \in Cluster |-> IF d = ncl THEN EOC
                                        ELSE IF d = c THEN ncl ELSE v.fat[d]]
        /\ r.v.free_clst = IF v.free_clst <= NCLST THEN v.free_clst - 1 ELSE v.free_clst
        /\ r.v.fsi_flag = (v.fsi_flag \/ v.free_clst <= NCLST)
    BY <2>2 DEF Vol
  <2>4. Free(r.v) = Free(v) \ {ncl}
    <3>1. \A d \in Cluster : r.v.fat[d] = 0 <=> v.fat[d] = 0 /\ d # ncl
      BY <2>1, <2>3, Sizes
    <3> QED BY <3>1 DEF Free
  <2>5. v.free_clst \in 1 .. NCLST \cup {Unknown}  BY <1>6 DEF Vol
  <2>6. Vol(r.v)
    <3>1. r.v.fat \in [Cluster -> LinkVal]  BY <2>1, <2>3 DEF Vol, LinkVal
    <3>2. r.v.free_clst \in 0 .. NCLST \cup {Unknown}  BY <2>3, <2>5, Sizes
    <3>3. r.v.fsi_flag \in BOOLEAN  BY <2>3
    <3>4. r.v.last_clst \in 0 .. n_fatent - 1 \cup {Unknown}  BY <2>1, <2>3, Sizes
    <3> QED BY <2>3, <3>1, <3>2, <3>3, <3>4 DEF Vol
  <2>7. Cardinality(Free(r.v)) = Cardinality(Free(v)) - 1
    <3>1. IsFiniteSet(Free(v))  BY FreeIs
    <3> QED BY <3>1, <2>1, <2>4, FS_RemoveElement
  <2>8. Keeps(v, r.v)
    <3>1. r.v.free_clst = Unknown <=> v.free_clst = Unknown
      BY <2>3, <2>5, Sizes
    <3>2. CountIsRight(v) => CountIsRight(r.v)
      BY <2>3, <2>5, <2>7, Sizes, <3>1 DEF CountIsRight
    <3>3. r.v.fsi_flag \/ v.free_clst = Unknown
      <4>1. v.free_clst <= NCLST \/ v.free_clst = Unknown  BY <2>5, Sizes
      <4> QED BY <4>1, <2>3, Zenon
    <3> QED BY <2>3, <3>1, <3>2, <3>3 DEF Keeps
  <2> QED BY <2>1, <2>3, <2>4, <2>6, <2>8 DEF Allocated, r
<1> QED BY <1>4, <1>5, <1>6

Plus(ch, c) == [h \in DOMAIN ch \cup {c} |-> IF h = c THEN << c >> ELSE ch[h]]
Grown(ch, h, c) == [ch EXCEPT ![h] = Append(@, c)]

(* A free cluster is in no chain.                                          *)
LEMMA FreeIsFree ==
  ASSUME NEW v, NEW ch, Chained(v.fat, ch), NEW c \in Free(v)
  PROVE  /\ c \in Cluster /\ c \notin DOMAIN ch
         /\ \A h \in DOMAIN ch : \A k \in 1 .. Len(ch[h]) : ch[h][k] # c
<1>1. c \in Cluster /\ v.fat[c] = 0  BY DEF Free
<1>2. \A h \in DOMAIN ch : \A k \in 1 .. Len(ch[h]) : ch[h][k] # c
  BY <1>1, StrandOf DEF Strand
<1>3. \A h \in DOMAIN ch : 1 \in 1 .. Len(ch[h]) /\ ch[h][1] = h
  BY StrandOf DEF Strand
<1> QED BY <1>1, <1>2, <1>3

(* A new chain                                                             *)
LEMMA NewChain ==
  ASSUME NEW v, Vol(v), NEW ch, Chained(v.fat, ch), NEW r, Allocated(v, 0, r)
  PROVE  Chained(r.v.fat, Plus(ch, r.clst))
<1> DEFINE c == r.clst
           dh == Plus(ch, c)
<1>1. c \in Free(v) /\ c \in Cluster /\ c \notin DOMAIN ch
      /\ \A h \in DOMAIN ch : \A k \in 1 .. Len(ch[h]) : ch[h][k] # c
  BY FreeIsFree DEF Allocated
<1>2. /\ r.v.fat \in [Cluster -> LinkVal] /\ r.v.fat[c] = EOC
      /\ \A d \in Cluster : d # c => r.v.fat[d] = v.fat[d]
  BY <1>1, Sizes DEF Allocated, Vol
<1>3. /\ DOMAIN dh = DOMAIN ch \cup {c} /\ dh[c] = << c >>
      /\ \A h \in DOMAIN ch : dh[h] = ch[h]
  BY <1>1 DEF Plus
<1> HIDE DEF c, dh
<1>4. ASSUME NEW h \in DOMAIN dh  PROVE IsChain(r.v.fat, dh[h]) /\ dh[h][1] = h
  <2>1. CASE h = c  BY <2>1, <1>1, <1>2, <1>3 DEF IsChain
  <2>2. CASE h # c
    <3>1. h \in DOMAIN ch /\ dh[h] = ch[h]  BY <2>2, <1>3
    <3>2. IsChain(v.fat, ch[h]) /\ ch[h][1] = h
          /\ \A k \in 1 .. Len(ch[h]) : ch[h][k] \in Cluster
      BY <3>1, StrandOf DEF Strand
    <3>3. \A k \in 1 .. Len(ch[h]) : r.v.fat[ch[h][k]] = v.fat[ch[h][k]]
      BY <3>1, <3>2, <1>1, <1>2
    <3> QED BY <3>1, <3>2, <3>3, StillChain
  <2> QED BY <2>1, <2>2
<1>5. \A h \in DOMAIN ch : DOMAIN ch[h] = 1 .. Len(ch[h])  BY StrandOf DEF Strand
<1>6. ASSUME NEW g \in DOMAIN dh, NEW h \in DOMAIN dh, NEW j \in DOMAIN dh[g],
             NEW k \in DOMAIN dh[h], dh[g][j] = dh[h][k]
      PROVE  g = h /\ j = k
  <2>1. DOMAIN dh[c] = {1} /\ dh[c][1] = c  BY <1>3
  <2>2. CASE g # c /\ h # c
    <3>1. g \in DOMAIN ch /\ h \in DOMAIN ch /\ dh[g] = ch[g] /\ dh[h] = ch[h]
      BY <2>2, <1>3
    <3> QED BY <3>1, <1>5, <1>6, OnePlace
  <2>3. CASE g = c /\ h = c  BY <2>1, <2>3
  <2>4. CASE g = c /\ h # c
    <3>1. h \in DOMAIN ch /\ dh[h] = ch[h]  BY <2>4, <1>3
    <3> QED BY <3>1, <2>1, <2>4, <1>1, <1>5, <1>6
  <2>5. CASE g # c /\ h = c
    <3>1. g \in DOMAIN ch /\ dh[g] = ch[g]  BY <2>5, <1>3
    <3> QED BY <3>1, <2>1, <2>5, <1>1, <1>5, <1>6
  <2> QED BY <2>2, <2>3, <2>4, <2>5
<1>7. ASSUME NEW d \in Cluster, r.v.fat[d] # 0  PROVE \E h \in DOMAIN dh : d \in ToSet(dh[h])
  <2>1. CASE d = c  BY <2>1, <1>3 DEF ToSet
  <2>2. CASE d # c
    <3>1. v.fat[d] # 0  BY <2>2, <1>2, <1>7
    <3>2. PICK h \in DOMAIN ch : d \in ToSet(ch[h])  BY <3>1 DEF Chained
    <3> QED BY <3>2, <1>3
  <2> QED BY <2>1, <2>2
<1> QED BY <1>2, <1>4, <1>6, <1>7 DEF Chained, LinkVal, dh, c

(* A chain gets longer.                                                    *)
LEMMA LongerChain ==
  ASSUME NEW v, Vol(v), NEW ch, Chained(v.fat, ch), NEW f \in DOMAIN ch,
         NEW r, Allocated(v, ch[f][Len(ch[f])], r)
  PROVE  Chained(r.v.fat, Grown(ch, f, r.clst))
<1> DEFINE c == r.clst
           q == ch[f]
           n == Len(q)
           nq == Append(q, c)
           dh == Grown(ch, f, c)
<1>1. c \in Free(v) /\ c \in Cluster /\ c \notin DOMAIN ch
      /\ \A h \in DOMAIN ch : \A k \in 1 .. Len(ch[h]) : ch[h][k] # c
  BY FreeIsFree DEF Allocated
<1>2. /\ q \in Seq(Cluster) /\ n \in 1 .. NCLST /\ Injective(q) /\ q[1] = f /\ DOMAIN q = 1 .. n
      /\ \A k \in 1 .. n : q[k] \in Cluster
      /\ IsChain(v.fat, q)
  <2>1. Strand(v.fat, f, q)  BY StrandOf
  <2> QED BY <2>1 DEF Strand
<1>3. /\ r.v.fat \in [Cluster -> LinkVal] /\ r.v.fat[c] = EOC
      /\ \A d \in Cluster : d # c => r.v.fat[d] = IF d = q[n] THEN c ELSE v.fat[d]
  BY <1>1, Sizes DEF Allocated, Vol
<1>4. /\ DOMAIN dh = DOMAIN ch /\ dh[f] = nq
      /\ \A h \in DOMAIN ch : h # f => dh[h] = ch[h]
  BY DEF Grown
<1>5. /\ nq \in Seq(Cluster) /\ Len(nq) = n + 1 /\ nq[n + 1] = c /\ nq # << >>
      /\ \A k \in 1 .. n : nq[k] = q[k]
      /\ DOMAIN nq = 1 .. n + 1 /\ n \in Nat
  BY <1>1, <1>2
<1> HIDE DEF nq, dh, c, n, q
<1>6. ASSUME NEW h \in DOMAIN dh  PROVE IsChain(r.v.fat, dh[h]) /\ dh[h][1] = h
  <2>1. CASE h = f
    <3>1. nq[1] = f  BY <1>2, <1>5
    <3>2. ASSUME NEW k \in 1 .. n  PROVE r.v.fat[nq[k]] = nq[k + 1]
      <4>0. q[k] \in Cluster /\ q[k] # c /\ nq[k] = q[k]  BY <1>1, <1>2, <1>5 DEF q, n
      <4>1. CASE k = n  BY <4>0, <4>1, <1>3, <1>5
      <4>2. CASE k # n
        <5>1. k \in 1 .. n - 1 /\ k + 1 \in 1 .. n /\ n \in 1 .. n  BY <4>2, <1>5, <1>2
        <5>2. q[k] # q[n]  BY <4>2, <5>1, <1>2 DEF Injective, n
        <5>3. v.fat[q[k]] = q[k + 1]  BY <5>1, <1>2 DEF IsChain, n
        <5> QED BY <4>0, <5>1, <5>2, <5>3, <1>3, <1>5
      <4> QED BY <4>1, <4>2
    <3>3. Len(nq) - 1 = n  BY <1>5
    <3> QED BY <2>1, <3>1, <3>2, <3>3, <1>3, <1>4, <1>5 DEF IsChain
  <2>2. CASE h # f
    <3>1. h \in DOMAIN ch /\ dh[h] = ch[h]  BY <2>2, <1>4
    <3>2. IsChain(v.fat, ch[h]) /\ ch[h][1] = h
          /\ \A k \in 1 .. Len(ch[h]) : ch[h][k] \in Cluster
      BY <3>1, StrandOf DEF Strand
    <3>3. \A k \in 1 .. Len(ch[h]) : ch[h][k] # q[n]
      <4>1. n \in 1 .. Len(ch[f]) /\ q[n] = ch[f][n]  BY <1>2 DEF q, n
      <4> QED BY <4>1, <2>2, <3>1, OnePlace
    <3>4. \A k \in 1 .. Len(ch[h]) : r.v.fat[ch[h][k]] = v.fat[ch[h][k]]
      BY <3>1, <3>2, <3>3, <1>1, <1>3
    <3> QED BY <3>1, <3>2, <3>4, StillChain
  <2> QED BY <2>1, <2>2
<1>7. \A h \in DOMAIN ch : DOMAIN ch[h] = 1 .. Len(ch[h])  BY StrandOf DEF Strand
<1>8. ASSUME NEW h \in DOMAIN dh, NEW k \in DOMAIN dh[h]
      PROVE  /\ h \in DOMAIN ch
             /\ \/ h = f /\ k = n + 1 /\ dh[h][k] = c
                \/ k \in 1 .. Len(ch[h]) /\ dh[h][k] = ch[h][k] /\ dh[h][k] # c
                   /\ ~(h = f /\ k = n + 1)
  <2>1. CASE h = f
    <3>1. k \in 1 .. n \/ k = n + 1  BY <2>1, <1>4, <1>5
    <3>2. \A j \in 1 .. n : j # n + 1  BY <1>5
    <3> QED BY <2>1, <3>1, <3>2, <1>4, <1>5, <1>1 DEF q, n
  <2>2. CASE h # f  BY <2>2, <1>1, <1>4, <1>7
  <2> QED BY <2>1, <2>2
<1>9. ASSUME NEW g \in DOMAIN dh, NEW h \in DOMAIN dh, NEW j \in DOMAIN dh[g],
             NEW k \in DOMAIN dh[h], dh[g][j] = dh[h][k]
      PROVE  g = h /\ j = k
  BY <1>8, <1>9, OnePlace
<1>10. ASSUME NEW d \in Cluster, r.v.fat[d] # 0  PROVE \E h \in DOMAIN dh : d \in ToSet(dh[h])
  <2>1. CASE d = c
    <3>1. n + 1 \in DOMAIN nq  BY <1>5
    <3> QED BY <2>1, <3>1, <1>4, <1>5 DEF ToSet
  <2>2. CASE d # c
    <3>1. v.fat[d] # 0
      <4>1. n \in 1 .. n  BY <1>2
      <4>2. v.fat[q[n]] = EOC  BY <1>2 DEF IsChain, n
      <4> QED BY <2>2, <4>2, <1>3, <1>10, Sizes
    <3>2. PICK h \in DOMAIN ch : d \in ToSet(ch[h])  BY <3>1 DEF Chained
    <3>3. CASE h = f
      <4>1. PICK k \in 1 .. n : d = q[k]  BY <3>2, <3>3, <1>2 DEF ToSet, q
      <4>2. k \in DOMAIN nq /\ nq[k] = d  BY <4>1, <1>5
      <4> QED BY <3>3, <4>2, <1>4 DEF ToSet
    <3>4. CASE h # f  BY <3>2, <3>4, <1>4
    <3> QED BY <3>3, <3>4
  <2> QED BY <2>1, <2>2
<1> QED BY <1>3, <1>6, <1>9, <1>10 DEF Chained, LinkVal, dh, c

(* A chain that goes on is followed.                                       *)
LinkOf(v, q, k) ==
  /\ q[k] \in Cluster /\ q[k] # 0
  /\ k < Len(q) => /\ get_fat(v, q[k]) = q[k + 1] /\ q[k + 1] \in Cluster
                   /\ create_chain(v, q[k]) = [v |-> v, clst |-> q[k + 1]]
  /\ k = Len(q) => get_fat(v, q[k]) = EOC /\ v.fat[q[k]] = EOC

(* What get_fat() and create_chain() find at cluster k of a chain.         *)
LEMMA NextLink ==
  ASSUME NEW v, Vol(v), NEW ch, Chained(v.fat, ch), NEW h \in DOMAIN ch,
         NEW k \in 1 .. Len(ch[h])
  PROVE  LinkOf(v, ch[h], k)
<1>1. /\ Len(ch[h]) \in 1 .. NCLST /\ \A j \in 1 .. Len(ch[h]) : ch[h][j] \in Cluster
      /\ IsChain(v.fat, ch[h])
  BY StrandOf DEF Strand
<1>2. ch[h][k] \in Cluster /\ ch[h][k] # 0 /\ get_fat(v, ch[h][k]) = v.fat[ch[h][k]]
  BY <1>1, Sizes DEF get_fat
<1>3. ASSUME k < Len(ch[h])
      PROVE  v.fat[ch[h][k]] = ch[h][k + 1] /\ ch[h][k + 1] \in Cluster
  <2>1. k \in 1 .. Len(ch[h]) - 1 /\ k + 1 \in 1 .. Len(ch[h])  BY <1>1, <1>3
  <2> QED BY <2>1, <1>1 DEF IsChain
<1>4. ASSUME k < Len(ch[h])
      PROVE  create_chain(v, ch[h][k]) = [v |-> v, clst |-> ch[h][k + 1]]
  <2>1. ~(ch[h][k + 1] < 2) /\ ch[h][k + 1] # EOC  BY <1>3, <1>4, Sizes
  <2> QED BY <2>1, <1>2, <1>3, <1>4 DEF create_chain
<1>5. k = Len(ch[h]) => v.fat[ch[h][k]] = EOC  BY <1>1 DEF IsChain
<1> QED BY <1>2, <1>3, <1>4, <1>5 DEF LinkOf

(***************************************************************************)
(* Tables on the card.                                                     *)
(***************************************************************************)
Rows(q) == 0 .. Lesser(Len(q) * CLSZ, MAX_DIR) - 1

(* The rows of a table are in its chain.                                   *)
LEMMA RowIs ==
  ASSUME NEW fat, NEW h, NEW q, Strand(fat, h, q)
  PROVE  /\ Len(q) * CLSZ \in Nat /\ Len(q) * CLSZ >= 2
         /\ Lesser(Len(q) * CLSZ, MAX_DIR) \in 2 .. MAX_DIR
         /\ Lesser(Len(q) * CLSZ, MAX_DIR) <= Len(q) * CLSZ
         /\ 0 \in Rows(q) /\ 1 \in Rows(q)
<1>1. Len(q) \in Nat /\ Len(q) >= 1  BY DEF Strand
<1>2. Len(q) * CLSZ \in Nat /\ Len(q) * CLSZ >= 2
  <2>1. Len(q) * CLSZ >= 1 * CLSZ  BY <1>1, Sizes
  <2> QED BY <2>1, <1>1, Sizes
<1> DEFINE m == Len(q) * CLSZ
<1> HIDE DEF m
<1>3. m \in Nat /\ m >= 2  BY <1>2 DEF m
<1>4. Lesser(m, MAX_DIR) \in 2 .. MAX_DIR /\ Lesser(m, MAX_DIR) <= m
  BY <1>3, Sizes DEF Lesser
<1>5. 0 \in 0 .. Lesser(m, MAX_DIR) - 1 /\ 1 \in 0 .. Lesser(m, MAX_DIR) - 1
  BY <1>4, Sizes
<1> QED BY <1>3, <1>4, <1>5 DEF m, Rows

(* The place n of a chain: where it is, and that it is there only.         *)
PlaceOf(fat, h, q, n) ==
  /\ n \div CLSZ + 1 \in 1 .. Len(q) /\ n \div CLSZ \in Nat /\ n \div CLSZ < Len(q)
  /\ q[n \div CLSZ + 1] \in Cluster
  /\ Slotted(q, n)[1] \in SectorsOf(q[n \div CLSZ + 1])
  /\ Slotted(q, n)[1] = clst2sect(q[n \div CLSZ + 1]) + (n % CLSZ) \div SS
  /\ Slotted(q, n)[2] = n % SS
  /\ Slotted(q, n)[1] \in Sector /\ Slotted(q, n)[2] \in Slot
  /\ Slotted(q, n) = << Slotted(q, n)[1], Slotted(q, n)[2] >>
  /\ Slotted(q, n) # << 0, 0 >>

(* Every place of a chain is in a sector of one of its clusters.           *)
LEMMA PlaceIn ==
  ASSUME NEW fat, NEW h, NEW q, Strand(fat, h, q), NEW n \in Nat, n < Len(q) * CLSZ
  PROVE  PlaceOf(fat, h, q, n)
<1>1. Len(q) \in Nat /\ \A k \in 1 .. Len(q) : q[k] \in Cluster  BY DEF Strand
<1> DEFINE a == n \div CLSZ
           b == n % CLSZ
<1>2. a \in Nat /\ b \in 0 .. CLSZ - 1 /\ n = CLSZ * a + b
  BY Position
<1>3. a < Len(q)
  <2> HIDE DEF a, b
  <2> SUFFICES ASSUME a >= Len(q)  PROVE FALSE
    BY <1>1, <1>2
  <2> DEFINE l == Len(q)
             z == a - l
             m == l * CLSZ
  <2>1. l \in Nat /\ a \in Nat /\ b \in Nat /\ a >= l /\ CLSZ \in Nat /\ n < m /\ n = CLSZ * a + b
    BY <1>1, <1>2, Sizes
  <2> HIDE DEF l
  <2>2. z \in Nat /\ a = l + z  BY <2>1
  <2> HIDE DEF z
  <2>3. CLSZ * (l + z) = l * CLSZ + CLSZ * z /\ CLSZ * z \in Nat /\ l * CLSZ \in Nat
    BY <2>1, <2>2
  <2>4. n = m + CLSZ * z + b  BY <2>1, <2>2, <2>3
  <2> HIDE DEF m
  <2>5. m \in Nat  BY <2>3 DEF m
  <2> QED BY <2>1, <2>3, <2>4, <2>5
<1>4. a + 1 \in 1 .. Len(q)
  <2> HIDE DEF a
  <2> QED BY <1>1, <1>2, <1>3
<1>5. q[n \div CLSZ + 1] \in Cluster  BY <1>1, <1>4
<1>6. Slotted(q, n)[1] # 0  BY <1>5, SlottedIs, SectorsAre
<1> QED BY <1>2, <1>3, <1>4, <1>5, <1>6, SlottedIs DEF PlaceOf

(* The places of a row                                                     *)
LEMMA RowPlace ==
  ASSUME NEW fat, NEW h, NEW q, Strand(fat, h, q), NEW i \in Rows(q)
  PROVE  i \in Nat /\ i < Len(q) * CLSZ /\ i < MAX_DIR /\ PlaceOf(fat, h, q, i)
<1>1. i \in Nat /\ i < Len(q) * CLSZ /\ i < MAX_DIR
  <2> DEFINE m == Len(q) * CLSZ
  <2>1. m \in Nat /\ Lesser(m, MAX_DIR) \in 2 .. MAX_DIR /\ Lesser(m, MAX_DIR) <= m
    BY RowIs
  <2>2. i \in 0 .. Lesser(m, MAX_DIR) - 1  BY DEF Rows
  <2> HIDE DEF m
  <2>3. i \in Nat /\ i < m /\ i < MAX_DIR  BY <2>1, <2>2, Sizes
  <2> QED BY <2>3 DEF m
<1> QED BY <1>1, PlaceIn

(* A place is one of one chain, and only once.                             *)
LEMMA PlaceOnce ==
  ASSUME NEW fat, NEW ch, Chained(fat, ch), NEW g \in DOMAIN ch, NEW h \in DOMAIN ch,
         NEW i \in Nat, i < Len(ch[g]) * CLSZ, NEW j \in Nat, j < Len(ch[h]) * CLSZ,
         Slotted(ch[g], i) = Slotted(ch[h], j)
  PROVE  g = h /\ i = j
<1>1. PlaceOf(fat, g, ch[g], i) /\ PlaceOf(fat, h, ch[h], j)
  BY StrandOf, PlaceIn
<1>2. /\ ch[g][i \div CLSZ + 1] = ch[h][j \div CLSZ + 1]
      /\ i \div CLSZ = j \div CLSZ => i = j
  BY <1>1, SlottedIsUnique DEF PlaceOf
<1>3. g = h /\ i \div CLSZ + 1 = j \div CLSZ + 1
  BY <1>1, <1>2, OnePlace DEF PlaceOf
<1> QED BY <1>1, <1>2, <1>3 DEF PlaceOf

(* What the card has where tab says e: e, but for the chain and the size   *)
(* of the one file that is open and not synchronised, whose place is but.  *)
IsLike(e, f) == e.name = f.name /\ e.attr = f.attr /\ ("DIR" \in f.attr => e = f)
Held(v, ch, tab, but) ==
  \A h \in DOMAIN tab : \A i \in DOMAIN tab[h] :
    /\ IsLike(At(v, Slotted(ch[h], i)), tab[h][i])
    /\ Slotted(ch[h], i) # but => At(v, Slotted(ch[h], i)) = tab[h][i]
Tabular(ch, tab) ==
  /\ dirbase \in DOMAIN tab /\ DOMAIN tab \subseteq DOMAIN ch
  /\ \A h \in DOMAIN tab : DOMAIN tab[h] = Rows(ch[h])
Good(v, ch, tab, but) ==
  Vol(v) /\ Chained(v.fat, ch) /\ Tabular(ch, tab) /\ Held(v, ch, tab, but)

(* The rows of a table, their places, and what is there                    *)
RowOf(v, ch, tab, but, h, i) ==
  /\ h \in DOMAIN ch /\ h \in Cluster /\ Strand(v.fat, h, ch[h])
  /\ i \in Nat /\ i < Len(ch[h]) * CLSZ /\ i \in Rows(ch[h])
  /\ PlaceOf(v.fat, h, ch[h], i)
  /\ IsLike(At(v, Slotted(ch[h], i)), tab[h][i])
  /\ Slotted(ch[h], i) # but => At(v, Slotted(ch[h], i)) = tab[h][i]

(* What the card has in a row of a table, and where.                       *)
LEMMA RowFacts ==
  ASSUME NEW v, NEW ch, NEW tab, NEW but, Good(v, ch, tab, but),
         NEW h \in DOMAIN tab, NEW i \in DOMAIN tab[h]
  PROVE  RowOf(v, ch, tab, but, h, i)
<1>1. h \in DOMAIN ch /\ i \in Rows(ch[h]) /\ Chained(v.fat, ch)
  BY DEF Good, Tabular
<1>2. Strand(v.fat, h, ch[h])  BY <1>1, StrandOf
<1>3. i \in Nat /\ i < Len(ch[h]) * CLSZ /\ PlaceOf(v.fat, h, ch[h], i)
  BY <1>1, <1>2, RowPlace
<1>4. h \in Cluster  BY <1>2 DEF Strand
<1> QED BY <1>1, <1>2, <1>3, <1>4 DEF RowOf, Good, Held

(* Base() undoes what IdOf() does.                                         *)
LEMMA BaseOf == \A h \in Cluster : Base(IdOf(h)) = h
BY Sizes DEF Base, IdOf

(* What FatFs finds of a table: of its chain h ...                         *)
TableFound(v, ch, tab, h, d) ==
  /\ Room(v, d) = Len(ch[h]) * CLSZ /\ Chain(v, Base(d)) = ch[h]
  /\ \A i \in Nat : i < Len(ch[h]) * CLSZ =>
       Place(v, d, i) = Slotted(ch[h], i) /\ EntryAt(v, d, i) = At(v, Slotted(ch[h], i))
  /\ Places(v, d) = [i \in DOMAIN tab[h] |-> Slotted(ch[h], i)]
  /\ Table(v, d) = [i \in DOMAIN tab[h] |-> At(v, Slotted(ch[h], i))]
  /\ Entries(Table(v, d)) = Entries(tab[h]) /\ Listed(Table(v, d)) = Listed(tab[h])
  /\ \A i \in DOMAIN tab[h] : /\ Table(v, d)[i].name = tab[h][i].name
                              /\ Table(v, d)[i].attr = tab[h][i].attr

(* dir_find() and dir_read() see the table that the tree has.              *)
LEMMA TableIs ==
  ASSUME NEW v, NEW ch, NEW tab, NEW but, Good(v, ch, tab, but), NEW h \in DOMAIN tab
  PROVE  TableFound(v, ch, tab, h, IdOf(h))
<1> DEFINE d == IdOf(h)
<1>1. /\ h \in DOMAIN ch /\ Chained(v.fat, ch) /\ Strand(v.fat, h, ch[h]) /\ h \in Cluster
      /\ DOMAIN tab[h] = Rows(ch[h])
  <2>1. h \in DOMAIN ch /\ Chained(v.fat, ch) /\ DOMAIN tab[h] = Rows(ch[h])
    BY DEF Good, Tabular
  <2> QED BY <2>1, StrandOf DEF Strand
<1>2. Base(d) = h /\ Chain(v, Base(d)) = ch[h]
  BY <1>1, BaseOf, ChainOf
<1>3. Room(v, d) = Len(ch[h]) * CLSZ  BY <1>2 DEF Room
<1> HIDE DEF d
<1>4. ASSUME NEW i \in Nat, i < Len(ch[h]) * CLSZ  PROVE Place(v, d, i) = Slotted(ch[h], i)
  <2>1. i \div CLSZ < Len(ch[h])  BY <1>1, <1>4, PlaceIn DEF PlaceOf
  <2>2. Nth(v, Base(d), i \div CLSZ) = ch[h][i \div CLSZ + 1]
    BY <2>1, <1>2 DEF Nth
  <2> QED BY <2>2 DEF Place, Slotted
<1>5. Places(v, d) = [i \in DOMAIN tab[h] |-> Slotted(ch[h], i)]
  BY <1>1, <1>2 DEF Places, With, Rows
<1>6. Table(v, d) = [i \in DOMAIN tab[h] |-> At(v, Slotted(ch[h], i))]
  BY <1>5 DEF Table, With
<1>7. \A i \in DOMAIN tab[h] : IsLike(At(v, Slotted(ch[h], i)), tab[h][i])
  BY DEF Good, Held
<1>8. \A i \in DOMAIN tab[h] : /\ Table(v, d)[i].name = tab[h][i].name
                               /\ Table(v, d)[i].attr = tab[h][i].attr
  BY <1>6, <1>7 DEF IsLike
<1>9. DOMAIN Table(v, d) = DOMAIN tab[h]  BY <1>6
<1>10. Entries(Table(v, d)) = Entries(tab[h])
  BY <1>8, <1>9 DEF Entries
<1>11. Listed(Table(v, d)) = Listed(tab[h])
  <2>1. Entries(tab[h]) \subseteq DOMAIN tab[h]  BY DEF Entries
  <2> QED BY <1>8, <1>10, <2>1 DEF Listed
<1> QED BY <1>2, <1>3, <1>4, <1>5, <1>6, <1>8, <1>10, <1>11 DEF TableFound, EntryAt, d

(* The entry of a row is written.                                          *)
Set(tab, h, i, e) == [tab EXCEPT ![h] = [@ EXCEPT ![i] = e]]
SameButDisk(v, w) ==
  /\ w.fat = v.fat /\ w.info = v.info /\ w.registered = v.registered
  /\ w.mounted = v.mounted /\ w.id = v.id /\ w.last_clst = v.last_clst
  /\ w.free_clst = v.free_clst /\ w.fsi_flag = v.fsi_flag /\ w.wflag = v.wflag

(* An entry is written, and no other.                                      *)
LEMMA PutIs ==
  ASSUME NEW v, Vol(v), NEW p, p[1] \in Sector, p[2] \in Slot, NEW e
  PROVE  LET w == Put(v, p, e)
         IN  /\ Vol(w) /\ SameButDisk(v, w) /\ At(w, p) = e
             /\ \A q : (q[1] # p[1] \/ q[2] # p[2]) => At(w, q) = At(v, q)
             /\ \A s : s # p[1] => w.disk[s] = v.disk[s]
<1> DEFINE w == Put(v, p, e)
<1>1. /\ DOMAIN w = DOMAIN v /\ SameButDisk(v, w)
      /\ w.disk = [v.disk EXCEPT ![p[1]] = [@ EXCEPT ![p[2]] = e]]
  BY DEF Put, Vol, SameButDisk
<1>2. /\ DOMAIN w.disk = Sector /\ \A s \in Sector : DOMAIN w.disk[s] = Slot
      /\ w.disk[p[1]][p[2]] = e
      /\ \A s : s # p[1] => w.disk[s] = v.disk[s]
      /\ \A t : t # p[2] => w.disk[p[1]][t] = v.disk[p[1]][t]
  BY <1>1 DEF Vol
<1>3. Vol(w)
  BY <1>1, <1>2 DEF Vol, SameButDisk
<1> HIDE DEF w
<1>4. At(w, p) = e /\ \A q : (q[1] # p[1] \/ q[2] # p[2]) => At(w, q) = At(v, q)
  BY <1>2 DEF At
<1> QED BY <1>1, <1>2, <1>3, <1>4 DEF w

(* What becomes of the tables, when neither their chains change nor what   *)
(* is in the sectors of these.                                             *)
LEMMA GoodAgain ==
  ASSUME NEW v, NEW ch, NEW tab, NEW but, Good(v, ch, tab, but),
         NEW w, Vol(w), NEW dh, Chained(w.fat, dh),
         \A h \in DOMAIN tab : h \in DOMAIN dh /\ dh[h] = ch[h],
         \A h \in DOMAIN tab : \A k \in 1 .. Len(ch[h]) : \A s \in SectorsOf(ch[h][k]) :
           w.disk[s] = v.disk[s]
  PROVE  Good(w, dh, tab, but)
<1>1. ASSUME NEW h \in DOMAIN tab, NEW i \in DOMAIN tab[h]
      PROVE  Slotted(dh[h], i) = Slotted(ch[h], i)
             /\ At(w, Slotted(ch[h], i)) = At(v, Slotted(ch[h], i))
  <2>1. PlaceOf(v.fat, h, ch[h], i)  BY RowFacts DEF RowOf
  <2> QED BY <2>1 DEF PlaceOf, At
<1>2. Held(w, dh, tab, but)
  <2>1. Held(v, ch, tab, but)  BY DEF Good
  <2> QED BY <2>1, <1>1 DEF Held
<1>3. Tabular(dh, tab)  BY DEF Good, Tabular
<1> QED BY <1>2, <1>3 DEF Good

(* The entry of a row is written: that of the open file too.               *)
LEMMA PutRow ==
  ASSUME NEW v, NEW ch, NEW tab, NEW but, Good(v, ch, tab, but),
         NEW h \in DOMAIN tab, NEW i \in DOMAIN tab[h], NEW e, NEW b,
         b = but \/ but = Slotted(ch[h], i)
  PROVE  LET w == Put(v, Slotted(ch[h], i), e)
         IN  Good(w, ch, Set(tab, h, i, e), b) /\ SameButDisk(v, w) /\ Keeps(v, w)
<1> DEFINE p == Slotted(ch[h], i)
           w == Put(v, p, e)
           t == Set(tab, h, i, e)
<1>1. Vol(v) /\ Chained(v.fat, ch) /\ Tabular(ch, tab) /\ Held(v, ch, tab, but)
  BY DEF Good
<1>2. RowOf(v, ch, tab, but, h, i)  BY RowFacts
<1>3. p[1] \in Sector /\ p[2] \in Slot  BY <1>2 DEF RowOf, PlaceOf
<1> HIDE DEF p
<1>4. /\ Vol(w) /\ SameButDisk(v, w) /\ At(w, p) = e
      /\ \A q : (q[1] # p[1] \/ q[2] # p[2]) => At(w, q) = At(v, q)
  BY <1>1, <1>3, PutIs
<1>5. Keeps(v, w)
  <2>1. SameButDisk(v, w)  BY <1>4
  <2> HIDE DEF w
  <2> QED BY <2>1, KeepsSame DEF SameButDisk
<1> HIDE DEF w
<1>6. /\ DOMAIN t = DOMAIN tab /\ DOMAIN t[h] = DOMAIN tab[h] /\ t[h][i] = e
      /\ \A g \in DOMAIN tab : g # h => t[g] = tab[g]
      /\ \A k \in DOMAIN tab[h] : k # i => t[h][k] = tab[h][k]
  BY DEF Set
<1> HIDE DEF t
<1>7. Tabular(ch, t)
  <2>1. \A g \in DOMAIN tab : DOMAIN t[g] = DOMAIN tab[g]  BY <1>6
  <2> QED BY <2>1, <1>1, <1>6 DEF Tabular
<1>8. ASSUME NEW g \in DOMAIN tab, NEW k \in DOMAIN tab[g], ~(g = h /\ k = i)
      PROVE  /\ Slotted(ch[g], k) # p /\ At(w, Slotted(ch[g], k)) = At(v, Slotted(ch[g], k))
             /\ t[g][k] = tab[g][k]
  <2>1. RowOf(v, ch, tab, but, g, k)  BY RowFacts
  <2>2. Slotted(ch[g], k) # p
    <3> SUFFICES ASSUME Slotted(ch[g], k) = Slotted(ch[h], i)  PROVE FALSE
      BY DEF p
    <3>1. g \in DOMAIN ch /\ h \in DOMAIN ch /\ i \in Nat /\ k \in Nat
          /\ i < Len(ch[h]) * CLSZ /\ k < Len(ch[g]) * CLSZ
      BY <1>2, <2>1 DEF RowOf
    <3>2. g = h /\ k = i  BY <3>1, <1>1, PlaceOnce
    <3> QED BY <3>2, <1>8
  <2>3. p = << p[1], p[2] >> /\ Slotted(ch[g], k) = << Slotted(ch[g], k)[1], Slotted(ch[g], k)[2] >>
    BY <1>2, <2>1 DEF RowOf, PlaceOf, p
  <2>4. Slotted(ch[g], k)[1] # p[1] \/ Slotted(ch[g], k)[2] # p[2]
    BY <2>2, <2>3
  <2> QED BY <2>2, <2>4, <1>4, <1>6, <1>8
<1>9. ASSUME NEW g \in DOMAIN t, NEW k \in DOMAIN t[g]
      PROVE  /\ IsLike(At(w, Slotted(ch[g], k)), t[g][k])
             /\ Slotted(ch[g], k) # b => At(w, Slotted(ch[g], k)) = t[g][k]
  <2>1. g \in DOMAIN tab /\ k \in DOMAIN tab[g]  BY <1>6
  <2>2. CASE g = h /\ k = i
    <3>1. At(w, Slotted(ch[g], k)) = e /\ t[g][k] = e  BY <2>2, <1>4, <1>6 DEF p
    <3> QED BY <3>1 DEF IsLike
  <2>3. CASE ~(g = h /\ k = i)
    <3>1. Slotted(ch[g], k) # b => Slotted(ch[g], k) # but  BY <2>1, <2>3, <1>8 DEF p
    <3>2. /\ IsLike(At(v, Slotted(ch[g], k)), tab[g][k])
          /\ Slotted(ch[g], k) # but => At(v, Slotted(ch[g], k)) = tab[g][k]
      BY <1>1, <2>1 DEF Held
    <3> QED BY <3>1, <3>2, <2>1, <2>3, <1>8
  <2> QED BY <2>2, <2>3
<1>10. Held(w, ch, t, b)  BY <1>9 DEF Held
<1>11. Chained(w.fat, ch)  BY <1>1, <1>4 DEF SameButDisk
<1> QED BY <1>4, <1>5, <1>7, <1>10, <1>11 DEF Good, p, w, t

(* A cluster is cleared.                                                   *)
LEMMA ClearIs ==
  ASSUME NEW v, Vol(v), NEW c \in Cluster
  PROVE  LET w == dir_clear(v, c)
         IN  /\ Vol(w) /\ SameButDisk(v, w) /\ Keeps(v, w)
             /\ \A s \in Sector : s \notin SectorsOf(c) => w.disk[s] = v.disk[s]
             /\ \A p : p[1] \in SectorsOf(c) /\ p[2] \in Slot => At(w, p) = NoEntry
<1> DEFINE w == dir_clear(v, c)
<1>1. /\ DOMAIN w = DOMAIN v /\ SameButDisk(v, w)
      /\ w.disk = [s \in Sector |-> IF s \in SectorsOf(c) THEN [i \in Slot |-> NoEntry]
                                    ELSE v.disk[s]]
  BY DEF dir_clear, Vol, SameButDisk, SectorsOf
<1> HIDE DEF w
<1>2. SectorsOf(c) \subseteq Sector  BY SectorsAre
<1>3. DOMAIN w.disk = Sector /\ \A s \in Sector : DOMAIN w.disk[s] = Slot
  BY <1>1 DEF Vol
<1>4. Vol(w)  BY <1>1, <1>3 DEF Vol, SameButDisk
<1>5. Keeps(v, w)  BY <1>1, KeepsSame DEF SameButDisk
<1> QED BY <1>1, <1>2, <1>4, <1>5 DEF w, At

Also(tab, c, t) == [h \in DOMAIN tab \cup {c} |-> IF h = c THEN t ELSE tab[h]]
NewTable(c, parent) ==
  [i \in Rows(<< c >>) |-> IF i = 0 THEN Entry(Dot, {"DIR"}, c, 0)
                           ELSE IF i = 1 THEN Entry(DotDot, {"DIR"}, parent, 0)
                           ELSE NoEntry]

(* The table of a directory is made, in a chain of one cluster.            *)
LEMMA NewDirIs ==
  ASSUME NEW v, NEW ch, NEW tab, NEW but, Good(v, ch, tab, but),
         NEW c \in DOMAIN ch \ DOMAIN tab, ch[c] = << c >>, NEW parent
  PROVE  LET w == NewDir(v, c, parent)
         IN  /\ Good(w, ch, Also(tab, c, NewTable(c, parent)), but)
             /\ SameButDisk(v, w) /\ Keeps(v, w)
<1> DEFINE w == dir_clear(v, c)
           q == << c >>
           blank == [i \in Rows(q) |-> NoEntry]
           t == Also(tab, c, blank)
           top == clst2sect(c)
           w1 == Put(w, << top, 0 >>, Entry(Dot, {"DIR"}, c, 0))
           w2 == Put(w1, << top, 1 >>, Entry(DotDot, {"DIR"}, parent, 0))
           t1 == Set(t, c, 0, Entry(Dot, {"DIR"}, c, 0))
           t2 == Set(t1, c, 1, Entry(DotDot, {"DIR"}, parent, 0))
<1>1. Vol(v) /\ Chained(v.fat, ch) /\ Tabular(ch, tab)  BY DEF Good
<1>2. Strand(v.fat, c, q) /\ c \in Cluster
  <2>1. Strand(v.fat, c, ch[c])  BY <1>1, StrandOf
  <2> QED BY <2>1 DEF Strand
<1>3. /\ Vol(w) /\ SameButDisk(v, w) /\ Keeps(v, w) /\ Chained(w.fat, ch)
      /\ \A s \in Sector : s \notin SectorsOf(c) => w.disk[s] = v.disk[s]
      /\ \A p : p[1] \in SectorsOf(c) /\ p[2] \in Slot => At(w, p) = NoEntry
  BY <1>1, <1>2, ClearIs DEF SameButDisk
<1> HIDE DEF w
<1>4. Good(w, ch, tab, but)
  <2>1. ASSUME NEW h \in DOMAIN tab, NEW k \in 1 .. Len(ch[h]), NEW s \in SectorsOf(ch[h][k])
        PROVE  w.disk[s] = v.disk[s]
    <3>1. h \in DOMAIN ch /\ h # c  BY <1>1 DEF Tabular
    <3>2. ch[h][k] # c
      <4>1. 1 \in 1 .. Len(ch[c]) /\ ch[c][1] = c  BY <1>1, StrandOf DEF Strand
      <4> QED BY <4>1, <3>1, <1>1, OnePlace
    <3>3. ch[h][k] \in Cluster  BY <1>1, <3>1, StrandOf DEF Strand
    <3>4. s \in Sector /\ s \notin SectorsOf(c)  BY <3>2, <3>3, <1>2, SectorsAre
    <3> QED BY <3>4, <1>3
  <2>2. \A h \in DOMAIN tab : h \in DOMAIN ch /\ ch[h] = ch[h]  BY <1>1 DEF Tabular
  <2> QED BY <2>1, <2>2, <1>3, GoodAgain
<1>5. /\ DOMAIN t = DOMAIN tab \cup {c} /\ t[c] = blank /\ DOMAIN t[c] = Rows(ch[c])
      /\ \A h \in DOMAIN tab : t[h] = tab[h]
  BY DEF Also
<1> HIDE DEF t, q
<1>6. ASSUME NEW i \in Rows(q)
      PROVE  At(w, Slotted(ch[c], i)) = NoEntry
  <2>1. PlaceOf(v.fat, c, q, i) /\ i \in Nat /\ i < Len(q) * CLSZ  BY <1>2, RowPlace
  <2>2. i \div CLSZ + 1 = 1  BY <2>1 DEF PlaceOf, q
  <2>3. Slotted(q, i)[1] \in SectorsOf(c) /\ Slotted(q, i)[2] \in Slot
    BY <2>1, <2>2 DEF PlaceOf, q
  <2> QED BY <2>3, <1>3 DEF q
<1>7. Good(w, ch, t, but)
  <2>1. Tabular(ch, t)  BY <1>1, <1>5 DEF Tabular
  <2>2. Held(w, ch, tab, but)  BY <1>4 DEF Good
  <2>3. ASSUME NEW h \in DOMAIN t, NEW i \in DOMAIN t[h]
        PROVE  /\ IsLike(At(w, Slotted(ch[h], i)), t[h][i])
               /\ Slotted(ch[h], i) # but => At(w, Slotted(ch[h], i)) = t[h][i]
    <3>1. CASE h = c
      <4>1. i \in Rows(q) /\ t[h][i] = NoEntry  BY <3>1, <1>5 DEF q
      <4> QED BY <3>1, <4>1, <1>6 DEF IsLike
    <3>2. CASE h # c  BY <3>2, <2>2, <1>5 DEF Held
    <3> QED BY <3>1, <3>2
  <2>4. Held(w, ch, t, but)  BY <2>3 DEF Held
  <2> QED BY <2>1, <2>4, <1>3 DEF Good
<1>8. 0 \in Rows(q) /\ 1 \in Rows(q) /\ Slotted(ch[c], 0) = << top, 0 >>
      /\ Slotted(ch[c], 1) = << top, 1 >>
  <2>1. 0 \in Rows(q) /\ 1 \in Rows(q)  BY <1>2, RowIs
  <2>2. 0 \div CLSZ = 0 /\ 0 % CLSZ = 0 /\ 0 \div SS = 0 /\ 0 % SS = 0
        /\ 1 \div CLSZ = 0 /\ 1 % CLSZ = 1 /\ 1 \div SS = 0 /\ 1 % SS = 1
    <3>1. ASSUME NEW b \in Nat, b >= 2
          PROVE  0 \div b = 0 /\ 0 % b = 0 /\ 1 \div b = 0 /\ 1 % b = 1
      <4>1. (b * 0 + 0) \div b = 0 /\ (b * 0 + 0) % b = 0
        BY <3>1, Quotient
      <4>2. (b * 0 + 1) \div b = 0 /\ (b * 0 + 1) % b = 1
        BY <3>1, Quotient
      <4>3. b * 0 + 0 = 0 /\ b * 0 + 1 = 1  BY <3>1
      <4> QED BY <4>1, <4>2, <4>3
    <3>2. CLSZ \in Nat /\ CLSZ >= 2 /\ SS \in Nat /\ SS >= 2  BY Sizes
    <3> QED BY <3>1, <3>2
  <2>3. clst2sect(c) \in Nat  BY <1>2, SectorsAre
  <2> QED BY <2>1, <2>2, <2>3 DEF Slotted
<1>9. Good(w1, ch, t1, but) /\ SameButDisk(w, w1) /\ Keeps(w, w1)
  <2>1. c \in DOMAIN t /\ 0 \in DOMAIN t[c]  BY <1>5, <1>8 DEF q
  <2> HIDE DEF w1, t1, top
  <2> QED BY <2>1, <1>7, <1>8, PutRow DEF w1, t1
<1>10. Good(w2, ch, t2, but) /\ SameButDisk(w1, w2) /\ Keeps(w1, w2)
  <2>1. c \in DOMAIN t1 /\ 1 \in DOMAIN t1[c]  BY <1>5, <1>8 DEF Set, q
  <2> HIDE DEF w1, t1, top, w2, t2
  <2> QED BY <2>1, <1>9, <1>8, PutRow DEF w2, t2
<1>11. t2 = Also(tab, c, NewTable(c, parent))
  <2>1. t1[c] = [blank EXCEPT ![0] = Entry(Dot, {"DIR"}, c, 0)] /\ DOMAIN t1 = DOMAIN t
        /\ \A h \in DOMAIN t : h # c => t1[h] = t[h]
    BY <1>5 DEF Set
  <2>2. t2[c] = [t1[c] EXCEPT ![1] = Entry(DotDot, {"DIR"}, parent, 0)] /\ DOMAIN t2 = DOMAIN t
        /\ \A h \in DOMAIN t : h # c => t2[h] = t[h]
    BY <1>5, <2>1 DEF Set
  <2>3. t2[c] = NewTable(c, parent)
    BY <2>1, <2>2, <1>8 DEF NewTable, q
  <2>4. t2 = [h \in DOMAIN tab \cup {c} |-> t2[h]]
    <3>1. t2 = [h \in DOMAIN t1 |-> t2[h]]  BY DEF Set
    <3> QED BY <3>1, <2>1, <1>5
  <2> HIDE DEF t2
  <2> QED BY <2>2, <2>3, <2>4, <1>5 DEF Also
<1>12. NewDir(v, c, parent) = w2
  <2>1. 1 \div SS = 0 /\ 1 % SS = 1
    <3>1. (SS * 0 + 1) \div SS = 0 /\ (SS * 0 + 1) % SS = 1
      <4>1. SS \in Nat /\ SS # 0 /\ 0 \in Nat /\ 1 \in 0 .. SS - 1  BY Sizes
      <4> QED BY <4>1, Quotient
    <3>2. SS * 0 + 1 = 1  BY Sizes
    <3> QED BY <3>1, <3>2
  <2>2. top + 0 = top  BY <1>2, SectorsAre
  <2> QED BY <2>1, <2>2 DEF NewDir, w
<1>13. SameButDisk(v, w2)  BY <1>3, <1>9, <1>10 DEF SameButDisk
<1>14. Keeps(v, w2)
  <2> HIDE DEF w1, w2
  <2> QED BY <1>3, <1>9, <1>10, KeepsOn
<1> QED BY <1>10, <1>11, <1>12, <1>13, <1>14

(* A table gets a cluster more, and an entry in row i of it.               *)
Register(tab, h, q, i, e) ==
  [g \in DOMAIN tab |->
     IF g # h THEN tab[g]
     ELSE [k \in Rows(q) |-> IF k = i THEN e
                             ELSE IF k \in DOMAIN tab[h] THEN tab[h][k] ELSE NoEntry]]

(* dir_next() stretches a table: the cluster is cleared before it is in    *)
(* use.                                                                    *)
LEMMA GrowDir ==
  ASSUME NEW v, NEW ch, NEW tab, NEW but, Good(v, ch, tab, but),
         NEW h \in DOMAIN tab, Len(ch[h]) * CLSZ < MAX_DIR,
         NEW r, Allocated(v, ch[h][Len(ch[h])], r), NEW e
  PROVE  LET w == dir_clear(r.v, r.clst)
             dh == Grown(ch, h, r.clst)
             i == Len(ch[h]) * CLSZ
         IN  /\ Good(Put(w, Slotted(dh[h], i), e), dh, Register(tab, h, dh[h], i, e), but)
             /\ Keeps(v, Put(w, Slotted(dh[h], i), e))
             /\ Place(w, IdOf(h), i) = Slotted(dh[h], i)
             /\ i \in Rows(dh[h])
<1> DEFINE c == r.clst
           w == dir_clear(r.v, c)
           dh == Grown(ch, h, c)
           n == Len(ch[h])
           i == n * CLSZ
           blank == Register(tab, h, dh[h], i, NoEntry)
           x == Put(w, Slotted(dh[h], i), e)
<1>1. Vol(v) /\ Chained(v.fat, ch) /\ Tabular(ch, tab) /\ Held(v, ch, tab, but)
  BY DEF Good
<1>2. /\ h \in DOMAIN ch /\ h \in Cluster /\ c \in Free(v) /\ c \in Cluster /\ Strand(v.fat, h, ch[h])
      /\ n \in 1 .. NCLST /\ ch[h] \in Seq(Cluster)
  <2>1. h \in DOMAIN ch /\ c \in Free(v)  BY <1>1 DEF Tabular, Allocated
  <2>2. Strand(v.fat, h, ch[h])  BY <2>1, <1>1, StrandOf
  <2> QED BY <2>1, <2>2, <1>1, FreeIsFree DEF Strand
<1>3. Chained(r.v.fat, dh) /\ Vol(r.v) /\ Keeps(v, r.v) /\ r.v.disk = v.disk
  BY <1>1, <1>2, LongerChain DEF Allocated
<1>4. /\ DOMAIN dh = DOMAIN ch /\ dh[h] = Append(ch[h], c)
      /\ \A g \in DOMAIN ch : g # h => dh[g] = ch[g]
  BY <1>2 DEF Grown
<1>5. /\ Len(dh[h]) = n + 1 /\ dh[h][n + 1] = c /\ \A k \in 1 .. n : dh[h][k] = ch[h][k]
  BY <1>2, <1>4
<1> HIDE DEF dh
<1>6. /\ Vol(w) /\ SameButDisk(r.v, w) /\ Keeps(r.v, w)
      /\ \A s \in Sector : s \notin SectorsOf(c) => w.disk[s] = r.v.disk[s]
      /\ \A p : p[1] \in SectorsOf(c) /\ p[2] \in Slot => At(w, p) = NoEntry
  BY <1>2, <1>3, ClearIs
<1> HIDE DEF w
<1>7. Chained(w.fat, dh) /\ w.fat = r.v.fat  BY <1>3, <1>6 DEF SameButDisk
<1>8. /\ i \in Nat /\ i >= 2 /\ i < MAX_DIR /\ DOMAIN tab[h] = 0 .. i - 1
      /\ Rows(dh[h]) = 0 .. Lesser((n + 1) * CLSZ, MAX_DIR) - 1
      /\ i \in Rows(dh[h]) /\ DOMAIN tab[h] \subseteq Rows(dh[h])
  <2>1. i \in Nat /\ i >= 2 /\ i < MAX_DIR  BY <1>2, RowIs
  <2>2. (n + 1) * CLSZ = i + CLSZ  BY <1>2, Sizes
  <2> HIDE DEF i, n
  <2>3. Lesser(i, MAX_DIR) = i  BY <2>1, Sizes DEF Lesser
  <2>4. DOMAIN tab[h] = 0 .. i - 1  BY <2>3, <1>1 DEF Tabular, Rows, i, n
  <2>5. Rows(dh[h]) = 0 .. Lesser((n + 1) * CLSZ, MAX_DIR) - 1  BY <1>5 DEF Rows
  <2>6. Lesser((n + 1) * CLSZ, MAX_DIR) \in Nat /\ i < Lesser((n + 1) * CLSZ, MAX_DIR)
    BY <2>1, <2>2, Sizes DEF Lesser
  <2>7. i \in Rows(dh[h]) /\ 0 .. i - 1 \subseteq Rows(dh[h])  BY <2>1, <2>5, <2>6
  <2> QED BY <2>1, <2>4, <2>5, <2>7
<1>9. ASSUME NEW g \in DOMAIN tab, NEW k \in DOMAIN tab[g]
      PROVE  /\ Slotted(dh[g], k) = Slotted(ch[g], k)
             /\ At(w, Slotted(ch[g], k)) = At(v, Slotted(ch[g], k))
  <2>1. RowOf(v, ch, tab, but, g, k)  BY RowFacts
  <2>2. PlaceOf(v.fat, g, ch[g], k) /\ g \in DOMAIN ch  BY <2>1 DEF RowOf
  <2> DEFINE j == k \div CLSZ + 1
  <2>3. j \in 1 .. Len(ch[g]) /\ dh[g][j] = ch[g][j] /\ ch[g][j] \in Cluster
    <3>1. j \in 1 .. Len(ch[g]) /\ ch[g][j] \in Cluster  BY <2>2 DEF PlaceOf
    <3> HIDE DEF j
    <3> QED BY <3>1, <2>2, <1>4, <1>5
  <2>4. Slotted(dh[g], k) = Slotted(ch[g], k)  BY <2>3 DEF Slotted
  <2>5. ch[g][j] # c
    <3> HIDE DEF j
    <3> QED BY <2>2, <2>3, <1>1, <1>2, FreeIsFree
  <2>6. Slotted(ch[g], k)[1] \notin SectorsOf(c)
    <3>1. Slotted(ch[g], k)[1] \in SectorsOf(ch[g][j])  BY <2>2 DEF PlaceOf
    <3> HIDE DEF j
    <3> QED BY <3>1, <2>3, <2>5, <1>2, SectorsAre
  <2>7. w.disk[Slotted(ch[g], k)[1]] = v.disk[Slotted(ch[g], k)[1]]
    BY <2>2, <2>6, <1>3, <1>6 DEF PlaceOf
  <2> QED BY <2>4, <2>7 DEF At
<1>10. Strand(w.fat, h, dh[h])  BY <1>2, <1>4, <1>7, StrandOf
<1>11. ASSUME NEW k \in Rows(dh[h]), k \notin DOMAIN tab[h]
       PROVE  At(w, Slotted(dh[h], k)) = NoEntry
  <2>1. PlaceOf(w.fat, h, dh[h], k) /\ k \in Nat  BY <1>10, RowPlace
  <2>2. k >= i
    <3> HIDE DEF i
    <3> QED BY <1>8, <1>11, <2>1
  <2>3. k \div CLSZ >= n
    <3> DEFINE a == k \div CLSZ
    <3>0. a \in Nat /\ k % CLSZ \in 0 .. CLSZ - 1 /\ k = CLSZ * a + (k % CLSZ)
      BY <2>1, Position
    <3> SUFFICES ASSUME a < n  PROVE FALSE
      BY <3>0, <1>2
    <3> DEFINE b == k % CLSZ
               z == n - 1 - a
    <3> HIDE DEF a
    <3>4. CLSZ \in Nat /\ a \in Nat /\ n \in Nat /\ a < n  BY <3>0, <1>2, Sizes
    <3> HIDE DEF n
    <3>1. n \in Nat /\ CLSZ \in Nat /\ z \in Nat /\ n = a + 1 + z  BY <3>4
    <3> HIDE DEF z, b
    <3>2. n * CLSZ = CLSZ * a + CLSZ + CLSZ * z /\ CLSZ * z \in Nat /\ CLSZ * a \in Nat
      BY <3>0, <3>1
    <3>3. b \in 0 .. CLSZ - 1 /\ k = CLSZ * a + b  BY <3>0 DEF b
    <3> QED BY <2>2, <3>1, <3>2, <3>3
  <2>4. k \div CLSZ + 1 = n + 1
    <3> DEFINE a == k \div CLSZ
    <3>1. a + 1 \in 1 .. n + 1 /\ a \in Nat /\ a >= n /\ n \in Nat
      BY <2>1, <2>3, <1>2, <1>5 DEF PlaceOf
    <3> HIDE DEF a, n
    <3>2. a + 1 = n + 1  BY <3>1
    <3> QED BY <3>2 DEF a
  <2>5. Slotted(dh[h], k)[1] \in SectorsOf(c) /\ Slotted(dh[h], k)[2] \in Slot
    BY <2>1, <2>4, <1>5 DEF PlaceOf
  <2> QED BY <2>5, <1>6
<1>12. /\ DOMAIN blank = DOMAIN tab /\ DOMAIN blank[h] = Rows(dh[h])
       /\ \A g \in DOMAIN tab : g # h => blank[g] = tab[g]
       /\ \A k \in Rows(dh[h]) : blank[h][k] = IF k \in DOMAIN tab[h] THEN tab[h][k] ELSE NoEntry
  <2>1. i \notin DOMAIN tab[h]
    <3> HIDE DEF i
    <3> QED BY <1>8
  <2> HIDE DEF i
  <2> QED BY <2>1 DEF Register
<1>13. Good(w, dh, blank, but)
  <2> HIDE DEF blank
  <2>1. Tabular(dh, blank)
    BY <1>1, <1>4, <1>12 DEF Tabular
  <2>2. ASSUME NEW g \in DOMAIN blank, NEW k \in DOMAIN blank[g]
        PROVE  /\ IsLike(At(w, Slotted(dh[g], k)), blank[g][k])
               /\ Slotted(dh[g], k) # but => At(w, Slotted(dh[g], k)) = blank[g][k]
    <3>1. CASE g = h /\ k \notin DOMAIN tab[h]  BY <3>1, <1>11, <1>12 DEF IsLike
    <3>2. CASE ~(g = h /\ k \notin DOMAIN tab[h])
      <4>1. g \in DOMAIN tab /\ k \in DOMAIN tab[g] /\ blank[g][k] = tab[g][k]
        BY <3>2, <1>12
      <4> QED BY <4>1, <1>1, <1>9 DEF Held
    <3> QED BY <3>1, <3>2
  <2>3. Held(w, dh, blank, but)  BY <2>2 DEF Held
  <2> QED BY <2>1, <2>3, <1>6, <1>7 DEF Good
<1>14. /\ Good(x, dh, Set(blank, h, i, e), but) /\ Keeps(w, x)
  <2>1. h \in DOMAIN blank /\ i \in DOMAIN blank[h]
    <3> HIDE DEF i
    <3> QED BY <1>8, <1>12
  <2> HIDE DEF i, x, blank
  <2> QED BY <2>1, <1>13, PutRow DEF x
<1>15. Set(blank, h, i, e) = Register(tab, h, dh[h], i, e)
  <2>1. i \notin DOMAIN tab[h] /\ i \in Rows(dh[h])
    <3> HIDE DEF i
    <3> QED BY <1>8
  <2> HIDE DEF i
  <2>2. DOMAIN blank = DOMAIN tab  BY DEF Register
  <2>3. \A g \in DOMAIN tab : g # h => Set(blank, h, i, e)[g] = Register(tab, h, dh[h], i, e)[g]
    BY DEF Set, Register
  <2>4. Set(blank, h, i, e)[h] = Register(tab, h, dh[h], i, e)[h]
    <3>1. Set(blank, h, i, e)[h] = [blank[h] EXCEPT ![i] = e]  BY <2>2 DEF Set
    <3>2. blank[h] = [k \in Rows(dh[h]) |-> IF k = i THEN NoEntry
                        ELSE IF k \in DOMAIN tab[h] THEN tab[h][k] ELSE NoEntry]
      BY DEF Register
    <3>3. Register(tab, h, dh[h], i, e)[h]
            = [k \in Rows(dh[h]) |-> IF k = i THEN e
                        ELSE IF k \in DOMAIN tab[h] THEN tab[h][k] ELSE NoEntry]
      BY DEF Register
    <3> HIDE DEF blank
    <3> QED BY <3>1, <3>2, <3>3, <2>1
  <2>5. Set(blank, h, i, e) = [g \in DOMAIN tab |-> Set(blank, h, i, e)[g]]
    <3> HIDE DEF blank
    <3> QED BY <2>2 DEF Set
  <2>6. Register(tab, h, dh[h], i, e) = [g \in DOMAIN tab |-> Register(tab, h, dh[h], i, e)[g]]
    BY DEF Register
  <2> HIDE DEF blank
  <2> QED BY <2>3, <2>4, <2>5, <2>6
<1>16. Place(w, IdOf(h), i) = Slotted(dh[h], i)
  <2>1. TableFound(w, dh, blank, h, IdOf(h))
    <3>1. h \in DOMAIN blank  BY <1>12
    <3> HIDE DEF blank
    <3> QED BY <3>1, <1>13, TableIs
  <2>2. i \in Nat /\ i < Len(dh[h]) * CLSZ
    <3>1. (n + 1) * CLSZ = i + CLSZ  BY <1>2, Sizes
    <3> HIDE DEF i, n
    <3> QED BY <3>1, <1>5, <1>8, Sizes
  <2> HIDE DEF i
  <2> QED BY <2>1, <2>2 DEF TableFound
<1>17. Keeps(v, x)
  <2> HIDE DEF x
  <2>1. Keeps(v, w)  BY <1>3, <1>6, KeepsOn
  <2> QED BY <2>1, <1>14, KeepsOn
<1> HIDE DEF i
<1> QED BY <1>8, <1>14, <1>15, <1>16, <1>17 DEF x, w, dh, i, n, c

(* The least of a set of rows.                                             *)
LEMMA LeastRow ==
  ASSUME NEW n \in Nat, NEW S \in SUBSET (0 .. n), S # {}
  PROVE  Min(S) \in S /\ \A k \in S : Min(S) <= k
<1> DEFINE T == {k \in 1 .. n + 1 : k - 1 \in S}
<1>1. \A k \in S : k + 1 \in T  OBVIOUS
<1>2. T # {} /\ T \in SUBSET (1 .. n + 1)  BY <1>1
<1>3. PICK m \in T : \A k \in T : m <= k
  <2>1. n + 1 \in Nat  OBVIOUS
  <2> HIDE DEF T
  <2> QED BY <1>2, <2>1, FirstOne
<1>4. m - 1 \in S /\ \A k \in S : m - 1 <= k  BY <1>1, <1>3
<1> QED BY <1>4 DEF Min

(* The last cluster of a chain                                             *)
LEMMA LastLink ==
  ASSUME NEW v, Vol(v), NEW ch, Chained(v.fat, ch), NEW h \in DOMAIN ch
  PROVE  ch[h][Len(ch[h])] \in Cluster /\ v.fat[ch[h][Len(ch[h])]] = EOC
<1>1. Strand(v.fat, h, ch[h])  BY StrandOf
<1>2. IsChain(v.fat, ch[h]) /\ Len(ch[h]) \in 1 .. Len(ch[h])  BY <1>1 DEF Strand
<1>3. ch[h][Len(ch[h])] \in Cluster  BY <1>1, <1>2 DEF Strand
<1> QED BY <1>2, <1>3 DEF IsChain

(* What dir_register() may do in a directory.                              *)
FreeRow(t, i) ==
  /\ i \in DOMAIN t => t[i].name \in {EndName, DDEM}
  /\ \A k \in DOMAIN t : k < i => t[k].name \notin {EndName, DDEM}
  /\ i \notin DOMAIN t => DOMAIN t = 0 .. i - 1
Longer(ch, dh, h) ==
  /\ DOMAIN dh = DOMAIN ch /\ \A g \in DOMAIN ch : g # h => dh[g] = ch[g]
  /\ Rows(ch[h]) \subseteq Rows(dh[h])
  /\ dh = ch \/ \E c : dh = Grown(ch, h, c)
Registers(v, ch, tab, but, h, name, new) ==
  \E dh : \E i \in Rows(dh[h]) :
    /\ new.res = "OK" /\ new.place = Slotted(dh[h], i)
    /\ Longer(ch, dh, h) /\ FreeRow(tab[h], i) /\ Keeps(v, new.v)
    /\ Good(new.v, dh, Register(tab, h, dh[h], i, Entry(name, {}, 0, 0)), but)
Denies(v, ch, h, new) ==
  /\ new.res = "DENIED" /\ new.v = v
  /\ Len(ch[h]) * CLSZ >= MAX_DIR \/ (CountIsRight(v) => Free(v) = {})

(* dir_register() finds an entry, makes one, or has no room for it.        *)
LEMMA RegisterIs ==
  ASSUME NEW v, NEW ch, NEW tab, NEW but, Good(v, ch, tab, but), NEW h \in DOMAIN tab, NEW name
  PROVE  LET new == dir_register(v, IdOf(h), name)
         IN  Registers(v, ch, tab, but, h, name, new) \/ Denies(v, ch, h, new)
<1> DEFINE d == IdOf(h)
           new == dir_register(v, d, name)
           e == Entry(name, {}, 0, 0)
           t == tab[h]
           free == {i \in DOMAIN t : t[i].name \in {EndName, DDEM}}
           i == Min(free)
           last == ch[h][Len(ch[h])]
           r == create_chain(v, last)
<1>1. Vol(v) /\ Chained(v.fat, ch) /\ Tabular(ch, tab)  BY DEF Good
<1>2. /\ h \in DOMAIN ch /\ Strand(v.fat, h, ch[h]) /\ DOMAIN t = Rows(ch[h])
      /\ TableFound(v, ch, tab, h, d)
  <2>1. h \in DOMAIN ch /\ DOMAIN t = Rows(ch[h])  BY <1>1 DEF Tabular
  <2> QED BY <2>1, <1>1, StrandOf, TableIs
<1>3. free = {k \in DOMAIN Table(v, d) : Table(v, d)[k].name \in {EndName, DDEM}}
  BY <1>2 DEF TableFound
<1>4. new = IF free # {} THEN Registered(v, Place(v, d, i), name)
            ELSE IF Room(v, d) >= MAX_DIR THEN Unregistered(v, "DENIED")
            ELSE Stretched(v, d, name, r)
  <2>1. Last(Chain(v, Base(d))) = last  BY <1>2 DEF TableFound, Last
  <2>2. With(Table(v, d), LAMBDA table :
               {k \in DOMAIN table : table[k].name \in {EndName, DDEM}}) = free
    BY <1>3 DEF With
  <2> HIDE DEF free
  <2> QED BY <2>1, <2>2 DEF dir_register
<1> HIDE DEF new, d
<1>5. CASE free # {}
  <2>1. free \in SUBSET (0 .. MAX_DIR)
    <3>1. \A k \in Rows(ch[h]) : k \in 0 .. MAX_DIR  BY <1>2, Sizes, RowPlace
    <3> QED BY <3>1, <1>2
  <2>2. i \in free /\ \A k \in free : i <= k
    <3> HIDE DEF free
    <3> QED BY <2>1, <1>5, Sizes, LeastRow
  <2>3. i \in DOMAIN t /\ t[i].name \in {EndName, DDEM}  BY <2>2
  <2>4. i \in Nat /\ i < Len(ch[h]) * CLSZ /\ \A k \in DOMAIN t : k \in Nat
    BY <2>3, <1>2, RowPlace
  <2> HIDE DEF i
  <2>5. \A k \in DOMAIN t : k < i => t[k].name \notin {EndName, DDEM}
    <3> SUFFICES ASSUME NEW k \in DOMAIN t, k < i, t[k].name \in {EndName, DDEM}  PROVE FALSE
      OBVIOUS
    <3>1. i <= k  BY <2>2
    <3> HIDE DEF free, t
    <3> QED BY <3>1, <2>4
  <2> HIDE DEF i, free
  <2>6. Place(v, d, i) = Slotted(ch[h], i)  BY <2>4, <1>2 DEF TableFound
  <2>7. new = [v |-> Put(v, Slotted(ch[h], i), e), res |-> "OK", place |-> Slotted(ch[h], i)]
    BY <1>4, <1>5, <2>6 DEF Registered
  <2>8. Good(new.v, ch, Set(tab, h, i, e), but) /\ Keeps(v, new.v)
    BY <2>3, <2>7, PutRow
  <2>9. Set(tab, h, i, e) = Register(tab, h, ch[h], i, e)
    <3>1. Set(tab, h, i, e) = [g \in DOMAIN tab |-> IF g # h THEN tab[g] ELSE [t EXCEPT ![i] = e]]
      BY DEF Set
    <3>2. [t EXCEPT ![i] = e]
            = [k \in Rows(ch[h]) |-> IF k = i THEN e ELSE IF k \in DOMAIN t THEN t[k] ELSE NoEntry]
      BY <1>2
    <3> QED BY <3>1, <3>2 DEF Register
  <2>10. FreeRow(t, i)  BY <2>3, <2>5 DEF FreeRow
  <2>11. Longer(ch, ch, h)  BY DEF Longer
  <2>12. i \in Rows(ch[h]) /\ new.res = "OK" /\ new.place = Slotted(ch[h], i)
    BY <2>3, <2>7, <1>2
  <2> HIDE DEF e, t
  <2> QED BY <2>8, <2>9, <2>10, <2>11, <2>12 DEF Registers, e, t, new, d
<1>6. CASE free = {} /\ Len(ch[h]) * CLSZ >= MAX_DIR
  <2>1. Room(v, d) >= MAX_DIR  BY <1>2, <1>6 DEF TableFound
  <2>2. new = Unregistered(v, "DENIED")
    <3> HIDE DEF free
    <3> QED BY <2>1, <1>4, <1>6
  <2> QED BY <2>2, <1>6 DEF Denies, Unregistered, new, d
<1>7. CASE free = {} /\ ~(Len(ch[h]) * CLSZ >= MAX_DIR)
  <2> DEFINE n == Len(ch[h]) * CLSZ
             dh == Grown(ch, h, r.clst)
  <2>1. /\ n \in Nat /\ n >= 2 /\ n < MAX_DIR /\ last \in Cluster /\ v.fat[last] = EOC
        /\ ch[h] \in Seq(Cluster)
    <3>1. n \in Nat /\ n >= 2  BY <1>2, RowIs
    <3>3. last \in Cluster /\ v.fat[last] = EOC  BY <1>1, <1>2, LastLink
    <3>4. n < MAX_DIR
      <4> HIDE DEF n
      <4>1. ~(n >= MAX_DIR)  BY <1>7 DEF n
      <4> QED BY <3>1, <4>1, Sizes
    <3> QED BY <3>1, <3>3, <3>4, <1>2 DEF Strand
  <2>2. new = Stretched(v, d, name, r)
    <3>1. Room(v, d) = n  BY <1>2 DEF TableFound
    <3> HIDE DEF n, free, r
    <3> QED BY <3>1, <2>1, <1>4, <1>7, Sizes
  <2>3. NoRoom(v, r) \/ Allocated(v, last, r)
    <3> HIDE DEF last
    <3> QED BY <2>1, <1>1, Allocation
  <2>4. CASE NoRoom(v, r)
    <3> HIDE DEF r
    <3>1. new = Unregistered(v, "DENIED")
      BY <2>2, <2>4, Sizes DEF NoRoom, Stretched
    <3> QED BY <3>1, <2>4 DEF Denies, Unregistered, NoRoom, new, d
  <2>5. CASE Allocated(v, last, r)
    <3> HIDE DEF r
    <3> DEFINE w == dir_clear(r.v, r.clst)
               x == Put(w, Slotted(dh[h], n), e)
    <3>1. r.clst \in Cluster  BY <2>5 DEF Allocated, Free
    <3>2. Room(v, d) = n  BY <1>2 DEF TableFound
    <3>3. /\ Good(x, dh, Register(tab, h, dh[h], n, e), but) /\ Keeps(v, x)
          /\ Place(w, d, n) = Slotted(dh[h], n) /\ n \in Rows(dh[h])
      <4>1. Len(ch[h]) * CLSZ < MAX_DIR  BY <2>1
      <4> HIDE DEF e
      <4> QED BY <4>1, <2>5, GrowDir DEF d
    <3>4. new = Registered(w, Place(w, d, n), name)
      <4> HIDE DEF n
      <4> QED BY <2>2, <3>1, <3>2 DEF Stretched, With
    <3>5. new = [v |-> x, res |-> "OK", place |-> Slotted(dh[h], n)]
      BY <3>3, <3>4 DEF Registered
    <3>6. Rows(ch[h]) = 0 .. n - 1 /\ DOMAIN t = 0 .. n - 1
      <4> HIDE DEF n
      <4>1. Lesser(n, MAX_DIR) = n  BY <2>1, Sizes DEF Lesser
      <4> QED BY <4>1, <1>2 DEF Rows, n
    <3>7. FreeRow(t, n)
      <4> HIDE DEF n
      <4> QED BY <3>6, <1>7, <2>1 DEF FreeRow
    <3>8. Longer(ch, dh, h)
      <4>1. DOMAIN dh = DOMAIN ch /\ \A g \in DOMAIN ch : g # h => dh[g] = ch[g]
        BY DEF Grown
      <4>2. n \in Nat /\ Rows(dh[h]) = 0 .. Lesser(Len(dh[h]) * CLSZ, MAX_DIR) - 1
        BY <2>1 DEF Rows
      <4>3. Rows(ch[h]) \subseteq Rows(dh[h])
        <5>1. n \in 0 .. Lesser(Len(dh[h]) * CLSZ, MAX_DIR) - 1  BY <3>3, <4>2
        <5>2. Len(dh[h]) \in Nat
          <6>1. dh[h] = Append(ch[h], r.clst)  BY <1>2 DEF Grown
          <6> QED BY <6>1, <2>1, <3>1
        <5>3. Lesser(Len(dh[h]) * CLSZ, MAX_DIR) \in Nat
          <6>1. \A l \in Nat : l * CLSZ \in Nat  BY Sizes
          <6>2. Len(dh[h]) * CLSZ \in Nat /\ MAX_DIR \in Nat  BY <5>2, <6>1, Sizes
          <6> QED BY <6>2 DEF Lesser
        <5> HIDE DEF n, dh
        <5> QED BY <5>1, <5>3, <4>2, <3>6
      <4> QED BY <4>1, <4>3 DEF Longer
    <3> HIDE DEF dh, n, x, e, t
    <3>9. new.res = "OK" /\ new.place = Slotted(dh[h], n) /\ new.v = x
      BY <3>5
    <3> QED BY <3>3, <3>7, <3>8, <3>9 DEF Registers, e, t, new, d
  <2> QED BY <2>3, <2>4, <2>5
<1> QED BY <1>5, <1>6, <1>7 DEF d, new

(***************************************************************************)
(* Paths.                                                                  *)
(***************************************************************************)

(* A function over the numbers up to N that g computes step by step, when  *)
(* its values are in a set of their own each.                              *)
LEMMA Stepping ==
  ASSUME NEW N \in Nat, NEW U, NEW V, \A n \in 0 .. N : V[n] \subseteq U,
         NEW b \in V[0], NEW g,
         \A n \in 1 .. N : \A x \in V[n - 1] : g[<< n, x >>] \in V[n]
  PROVE  \E f \in [0 .. N -> U] : ComputedBy(f, g, N, b) /\ \A n \in 0 .. N : f[n] \in V[n]
<1> DEFINE gg == [p \in (1 .. N) \X U |-> IF p[2] \in V[p[1] - 1] THEN g[p] ELSE b]
<1>1. b \in U  BY 0 \in 0 .. N
<1>2. \A n \in 1 .. N : \A x \in U :
        gg[<< n, x >>] = IF x \in V[n - 1] THEN g[<< n, x >>] ELSE b
  OBVIOUS
<1> HIDE DEF gg
<1>3. StaysIn(gg, N, U)
  <2> SUFFICES ASSUME NEW n \in 1 .. N, NEW x \in U  PROVE gg[<< n, x >>] \in U
    BY DEF StaysIn
  <2>1. n \in 0 .. N  OBVIOUS
  <2> QED BY <2>1, <1>1, <1>2
<1>4. PICK f \in [0 .. N -> U] : ComputedBy(f, gg, N, b)
  BY <1>1, <1>3, Iteration
<1> DEFINE S == {n \in 0 .. N : f[n] \in V[n]}
<1>5. 0 \in S  BY <1>4 DEF ComputedBy
<1>6. ASSUME NEW n \in 0 .. N - 1, n \in S  PROVE n + 1 \in S
  <2>1. n + 1 \in 1 .. N /\ n + 1 \in 0 .. N /\ n \in 0 .. N /\ (n + 1) - 1 = n  OBVIOUS
  <2>2. f[n + 1] = gg[<< n + 1, f[n] >>]
    <3>1. f[n + 1] = gg[<< n + 1, f[(n + 1) - 1] >>]  BY <1>4, <2>1 DEF ComputedBy
    <3> QED BY <3>1, <2>1
  <2>3. f[n] \in V[n] /\ f[n] \in U  BY <1>6, <2>1
  <2>4. f[n + 1] = g[<< n + 1, f[n] >>]  BY <1>2, <2>1, <2>2, <2>3
  <2>5. g[<< n + 1, f[n] >>] \in V[n + 1]  BY <2>1, <2>3
  <2> QED BY <2>1, <2>4, <2>5
<1>7. \A n \in 0 .. N : n \in S
  <2> HIDE DEF S
  <2> QED BY <1>5, <1>6, Induction
<1>8. ASSUME NEW n \in 1 .. N  PROVE f[n] = g[<< n, f[n - 1] >>]
  <2>1. n - 1 \in 0 .. N  OBVIOUS
  <2>2. f[n - 1] \in V[n - 1] /\ f[n - 1] \in U  BY <2>1, <1>7
  <2> QED BY <2>2, <1>2, <1>4 DEF ComputedBy
<1>9. ComputedBy(f, g, N, b)  BY <1>4, <1>8 DEF ComputedBy
<1> QED BY <1>7, <1>9

(* Names of objects                                                        *)
IsName(name) == \E a, b : name = << a, b >>

(* create_name() makes no name that is a mark of the table.                *)
LEMMA NamesAre ==
  /\ \A name : IsName(name) => name \notin {EndName, NoName, DDEM, Dot, DotDot}
  /\ \A seg : create_name(seg) = NoName \/ IsName(create_name(seg))
  /\ EndName # DDEM /\ EndName # Dot /\ EndName # DotDot /\ DDEM # Dot /\ DDEM # DotDot
  /\ Dot # DotDot
<1>1. ASSUME NEW a, NEW b  PROVE << a, b >> \notin {EndName, NoName, DDEM, Dot, DotDot}
  <2>1. << a, b >> # << >>  OBVIOUS
  <2>2. \A c : << a, b >> # << c >>
    <3> SUFFICES ASSUME NEW c, << a, b >> = << c >>  PROVE FALSE
      OBVIOUS
    <3>1. DOMAIN << a, b >> = {1, 2} /\ DOMAIN << c >> = {1}  OBVIOUS
    <3> QED BY <3>1
  <2> QED BY <2>1, <2>2 DEF EndName, NoName, DDEM, Dot, DotDot
<1>2. \A name : IsName(name) => name \notin {EndName, NoName, DDEM, Dot, DotDot}
  BY <1>1 DEF IsName
<1>3. ASSUME NEW seg  PROVE create_name(seg) = NoName \/ IsName(create_name(seg))
  <2> DEFINE dots == {k \in DOMAIN seg : seg[k] = "."}
             dot == IF dots = {} THEN Len(seg) + 1 ELSE Min(dots)
             body == SubSeq(seg, 1, dot - 1)
             ext == SubSeq(seg, dot + 1, Len(seg))
             fine == /\ seg # << >> /\ Cardinality(dots) <= 1
                     /\ Len(body) <= BODY /\ Len(ext) <= EXT
                     /\ \A k \in DOMAIN seg : seg[k] \notin Reserved
  <2>1. create_name(seg) = IF fine THEN << Upper(body), Upper(ext) >> ELSE NoName
    BY DEF create_name
  <2> HIDE DEF fine, body, ext, dot
  <2> QED BY <2>1 DEF IsName
<1>4. \A a : << a >> # << >>  OBVIOUS
<1>5. "DDEM" # "." /\ "DDEM" # ".." /\ "." # ".."  OBVIOUS
<1>6. \A a, b : << a >> = << b >> => a = b  OBVIOUS
<1> QED BY <1>2, <1>3, <1>4, <1>5, <1>6 DEF EndName, DDEM, Dot, DotDot

(* What dir_find() finds, and when it finds nothing                        *)
FindsIn(t, name, i) ==
  IF i = None THEN \A k \in Listed(t) : t[k].name # name
  ELSE i \in Listed(t) /\ t[i].name = name

(* dir_find() finds the name, or there is none in the table.               *)
LEMMA DirFind ==
  ASSUME NEW v, NEW ch, NEW tab, NEW but, Good(v, ch, tab, but), NEW h \in DOMAIN tab,
         NEW name, IsName(name)
  PROVE  dir_find(v, IdOf(h), name) \in Nat \cup {None}
         /\ FindsIn(tab[h], name, dir_find(v, IdOf(h), name))
<1> DEFINE d == IdOf(h)
           t == tab[h]
           table == Table(v, d)
           hits == {i \in Entries(table) : table[i].name = name /\ "VOL" \notin table[i].attr}
<1>1. TableFound(v, ch, tab, h, d)  BY TableIs
<1>2. Listed(t) \subseteq DOMAIN t /\ Entries(t) \subseteq DOMAIN t
  BY DEF Listed, Entries
<1>3. hits = {i \in Listed(t) : t[i].name = name}
  <2>1. Entries(table) = Entries(t) /\ \A i \in DOMAIN t : table[i].name = t[i].name /\ table[i].attr = t[i].attr
    BY <1>1 DEF TableFound
  <2>2. name \notin {DDEM, Dot, DotDot}  BY NamesAre
  <2>3. hits = {i \in Entries(t) : t[i].name = name /\ "VOL" \notin t[i].attr}
    <3> HIDE DEF table, t
    <3> QED BY <2>1, <1>2
  <2> QED BY <2>2, <2>3 DEF Listed
<1>4. dir_find(v, d, name) = IF hits = {} THEN None ELSE Min(hits)
  BY DEF dir_find, With
<1> HIDE DEF hits, d
<1>5. \A i \in DOMAIN t : i \in 0 .. MAX_DIR
  <2> SUFFICES ASSUME NEW i \in DOMAIN t  PROVE i \in 0 .. MAX_DIR
    OBVIOUS
  <2>1. Strand(v.fat, h, ch[h]) /\ i \in Rows(ch[h])  BY RowFacts DEF RowOf
  <2> QED BY <2>1, RowPlace, Sizes
<1>6. hits \in SUBSET (0 .. MAX_DIR)  BY <1>2, <1>3, <1>5
<1>7. hits # {} => Min(hits) \in hits
  BY <1>6, Sizes, LeastRow
<1>8. \A i \in hits : i \in Nat /\ i # None  BY <1>6, Sizes DEF None
<1> QED BY <1>3, <1>4, <1>7, <1>8 DEF FindsIn, d

(* The directories that a path leads through, and what it leads to.        *)
Trace(tab, path, n, f) ==
  /\ f[0] = dirbase
  /\ \A k \in 0 .. n : f[k] \in DOMAIN tab
  /\ \A k \in 1 .. n : \E i \in Listed(tab[f[k - 1]]) :
       /\ tab[f[k - 1]][i].name = create_name(path[k])
       /\ "DIR" \in tab[f[k - 1]][i].attr /\ tab[f[k - 1]][i].sclust = f[k]
LooksUp(tab, h, w) ==
  \/ w.res = "OK" /\ w.dptr \in Listed(tab[h]) /\ tab[h][w.dptr].name = w.name
  \/ w.res = "NO_FILE" /\ \A i \in Listed(tab[h]) : tab[h][i].name # w.name
Arrives(tab, path, k, w) ==
  /\ k >= 1 /\ IsName(w.name) /\ w.name = create_name(path[k])
  /\ (w.res = "NO_FILE" => k = Len(path))
  /\ \E f : /\ Trace(tab, path, k - 1, f) /\ w.dir = IdOf(f[k - 1])
            /\ LooksUp(tab, f[k - 1], w)
Reaches(tab, path, k, w) ==
  \/ w.res \in {"NOT_ENABLED", "INVALID_NAME", "NO_PATH"}
  \/ w.res = "OK" /\ k = 0 /\ w.name = NoName /\ w.dir = 0 /\ w.dptr = 0
  \/ Arrives(tab, path, k, w)

FollowRes == {"OK", "NOT_ENABLED", "INVALID_NAME", "NO_PATH", "NO_FILE"}
Lookup(path) ==
  [dir : Cluster \cup {0}, name : {NoName} \cup {create_name(path[k]) : k \in 1 .. Len(path)},
   dptr : Nat \cup {None}, res : FollowRes]

(* Entries of directories lead to directories.                             *)
DirsLead(tab) ==
  \A h \in DOMAIN tab : \A i \in Listed(tab[h]) :
    "DIR" \in tab[h][i].attr => tab[h][i].sclust \in DOMAIN tab \ {dirbase}

(* One segment of a path is followed.                                      *)
LEMMA FollowStep ==
  ASSUME NEW v, NEW ch, NEW tab, NEW but, Good(v, ch, tab, but), DirsLead(tab),
         NEW path \in Seq(Seq(STRING)), NEW n \in 1 .. Len(path),
         NEW w \in Lookup(path), Reaches(tab, path, n - 1, w)
  PROVE  Segment(v, path, n, w) \in Lookup(path) /\ Reaches(tab, path, n, Segment(v, path, n, w))
<1> DEFINE name == create_name(path[n])
           e == IF n = 1 THEN RootEntry ELSE EntryAt(v, w.dir, w.dptr)
           i == dir_find(v, e.sclust, name)
           x == [dir |-> e.sclust, name |-> name, dptr |-> i,
                 res |-> IF i # None THEN "OK" ELSE IF n = Len(path) THEN "NO_FILE" ELSE "NO_PATH"]
           r == Segment(v, path, n, w)
<1>1. r = IF w.res # "OK" THEN w
          ELSE IF "DIR" \notin e.attr THEN [w EXCEPT !.res = "NO_PATH"]
          ELSE IF name = NoName THEN [w EXCEPT !.res = "INVALID_NAME"] ELSE x
  BY DEF Segment
<1>2. n \in Nat /\ n >= 1 /\ Len(path) \in Nat /\ n - 1 \in Nat /\ n <= Len(path)  OBVIOUS
<1> HIDE DEF r, e
<1>3. CASE w.res # "OK"
  <2>1. ~Arrives(tab, path, n - 1, w)
    <3> SUFFICES ASSUME Arrives(tab, path, n - 1, w)  PROVE FALSE
      OBVIOUS
    <3>1. w.res = "NO_FILE"  BY <1>3 DEF Arrives, LooksUp
    <3>2. n - 1 = Len(path)  BY <3>1 DEF Arrives
    <3> QED BY <3>2, <1>2
  <2>2. w.res \in {"NOT_ENABLED", "INVALID_NAME", "NO_PATH"}  BY <2>1, <1>3 DEF Reaches
  <2> QED BY <2>2, <1>1, <1>3 DEF Reaches, r
<1>4. CASE w.res = "OK" /\ "DIR" \notin e.attr
  <2>1. r = [w EXCEPT !.res = "NO_PATH"]  BY <1>1, <1>4
  <2>2. r.res = "NO_PATH" /\ r \in Lookup(path)  BY <2>1 DEF Lookup, FollowRes
  <2> QED BY <2>2 DEF Reaches, r
<1>5. CASE w.res = "OK" /\ "DIR" \in e.attr /\ name = NoName
  <2>1. r = [w EXCEPT !.res = "INVALID_NAME"]  BY <1>1, <1>5
  <2>2. r.res = "INVALID_NAME" /\ r \in Lookup(path)  BY <2>1 DEF Lookup, FollowRes
  <2> QED BY <2>2 DEF Reaches, r
<1>6. CASE w.res = "OK" /\ "DIR" \in e.attr /\ name # NoName
  <2>1. r = x /\ IsName(name)  BY <1>1, <1>6, NamesAre
  <2>2. \E f : Trace(tab, path, n - 1, f) /\ e.sclust = IdOf(f[n - 1])
    <3>1. CASE n = 1
      <4> DEFINE f == [k \in 0 .. 0 |-> dirbase]
      <4>1. f[0] = dirbase /\ dirbase \in DOMAIN tab  BY DEF Good, Tabular
      <4>2. Trace(tab, path, 0, f)
        <5>1. \A k \in 0 .. 0 : k = 0  OBVIOUS
        <5>2. \A k \in 1 .. 0 : FALSE  OBVIOUS
        <5> HIDE DEF f
        <5> QED BY <4>1, <5>1, <5>2 DEF Trace
      <4>3. e.sclust = IdOf(f[0])
        BY <3>1, <4>1 DEF e, RootEntry, Entry, IdOf
      <4> HIDE DEF f
      <4> QED BY <3>1, <4>2, <4>3
    <3>2. CASE n # 1
      <4>1. n - 1 # 0 /\ n - 1 >= 1 /\ n - 1 \in Nat /\ n - 2 \in Nat /\ (n - 1) - 1 = n - 2
        BY <3>2, <1>2
      <4>2. Arrives(tab, path, n - 1, w)  BY <4>1, <1>6 DEF Reaches
      <4>3. PICK f : /\ Trace(tab, path, n - 2, f) /\ w.dir = IdOf(f[n - 2])
                     /\ LooksUp(tab, f[n - 2], w)
        BY <4>1, <4>2 DEF Arrives
      <4> DEFINE h == f[n - 2]
                 c == tab[h][w.dptr].sclust
                 g == [k \in 0 .. n - 1 |-> IF k = n - 1 THEN c ELSE f[k]]
      <4>4. h \in DOMAIN tab /\ w.dptr \in Listed(tab[h]) /\ w.dptr \in DOMAIN tab[h]
            /\ tab[h][w.dptr].name = w.name /\ w.name = create_name(path[n - 1])
        <5>1. n - 2 \in 0 .. n - 2  BY <4>1
        <5>2. h \in DOMAIN tab  BY <4>3, <5>1 DEF Trace
        <5>3. w.dptr \in Listed(tab[h]) /\ tab[h][w.dptr].name = w.name
          BY <4>3, <1>6 DEF LooksUp
        <5> QED BY <5>2, <5>3, <4>2 DEF Arrives, Listed, Entries
      <4>5. e = tab[h][w.dptr] /\ "DIR" \in tab[h][w.dptr].attr
        <5>1. e = EntryAt(v, IdOf(h), w.dptr)  BY <3>2, <4>3 DEF e
        <5>2. TableFound(v, ch, tab, h, IdOf(h)) /\ RowOf(v, ch, tab, but, h, w.dptr)
          BY <4>4, TableIs, RowFacts
        <5>3. e = At(v, Slotted(ch[h], w.dptr)) /\ IsLike(e, tab[h][w.dptr])
          BY <5>1, <5>2 DEF TableFound, RowOf
        <5> HIDE DEF h
        <5> QED BY <5>3, <1>6 DEF IsLike
      <4>6. c \in DOMAIN tab \ {dirbase}  BY <4>4, <4>5 DEF DirsLead
      <4>7. g[n - 1] = c /\ \A k \in 0 .. n - 2 : g[k] = f[k]
        BY <4>1
      <4>8. Trace(tab, path, n - 1, g)
        <5>1. g[0] = dirbase  BY <4>1, <4>3, <4>7 DEF Trace
        <5>2. \A k \in 0 .. n - 1 : g[k] \in DOMAIN tab
          BY <4>1, <4>3, <4>6, <4>7 DEF Trace
        <5>3. ASSUME NEW k \in 1 .. n - 1
              PROVE  \E j \in Listed(tab[g[k - 1]]) :
                       /\ tab[g[k - 1]][j].name = create_name(path[k])
                       /\ "DIR" \in tab[g[k - 1]][j].attr /\ tab[g[k - 1]][j].sclust = g[k]
          <6>1. CASE k = n - 1
            <7>1. g[k - 1] = h /\ g[k] = c  BY <6>1, <4>1, <4>7
            <7> HIDE DEF g, h
            <7> QED BY <6>1, <7>1, <4>4, <4>5
          <6>2. CASE k # n - 1
            <7>1. k \in 1 .. n - 2 /\ k - 1 \in 0 .. n - 2 /\ k \in 0 .. n - 2  BY <6>2, <4>1
            <7>2. g[k - 1] = f[k - 1] /\ g[k] = f[k]  BY <7>1, <4>7
            <7> HIDE DEF g
            <7> QED BY <7>1, <7>2, <4>3 DEF Trace
          <6> QED BY <6>1, <6>2
        <5> HIDE DEF g
        <5> QED BY <5>1, <5>2, <5>3 DEF Trace
      <4>9. e.sclust = IdOf(g[n - 1])
        <5>1. IdOf(c) = c  BY <4>6 DEF IdOf
        <5> HIDE DEF g, c
        <5> QED BY <5>1, <4>5, <4>7 DEF c
      <4> HIDE DEF g
      <4> QED BY <4>8, <4>9
    <3> QED BY <3>1, <3>2
  <2>3. PICK f : Trace(tab, path, n - 1, f) /\ e.sclust = IdOf(f[n - 1])
    BY <2>2
  <2> DEFINE h == f[n - 1]
  <2>4. h \in DOMAIN tab
    <3>1. n - 1 \in 0 .. n - 1  BY <1>2
    <3> QED BY <2>3, <3>1 DEF Trace
  <2>5. i \in Nat \cup {None} /\ FindsIn(tab[h], name, i)
    <3> HIDE DEF h, name
    <3> QED BY <2>1, <2>3, <2>4, DirFind DEF h
  <2>6. e.sclust \in Cluster \cup {0}
    <3>1. h \in Cluster
      BY <2>4, StrandOf DEF Good, Tabular, Strand
    <3> HIDE DEF h
    <3> QED BY <2>3, <3>1 DEF h, IdOf
  <2>7. x \in Lookup(path)
    <3>1. name \in {NoName} \cup {create_name(path[k]) : k \in 1 .. Len(path)}  OBVIOUS
    <3> HIDE DEF i, name
    <3> QED BY <3>1, <2>5, <2>6 DEF Lookup, FollowRes
  <2>8. x.res = "NO_PATH" \/ Arrives(tab, path, n, x)
    <3> SUFFICES ASSUME x.res # "NO_PATH"  PROVE Arrives(tab, path, n, x)
      OBVIOUS
    <3>1. LooksUp(tab, h, x)
      <4> HIDE DEF i, name, h
      <4> QED BY <2>5 DEF LooksUp, FindsIn
    <3>2. x.res = "NO_FILE" => n = Len(path)
      <4> HIDE DEF i, name, h
      <4> QED OBVIOUS
    <3>3. x.name = name /\ x.dir = e.sclust  OBVIOUS
    <3> HIDE DEF x
    <3> QED BY <3>1, <3>2, <3>3, <2>1, <2>3, <1>2 DEF Arrives
  <2> HIDE DEF x
  <2> QED BY <2>1, <2>7, <2>8 DEF Reaches, r
<1> HIDE DEF name
<1> QED BY <1>3, <1>4, <1>5, <1>6 DEF r

(* follow_path() reaches what the path leads to.                           *)
LEMMA FollowIs ==
  ASSUME NEW v, NEW ch, NEW tab, NEW but, Good(v, ch, tab, but), DirsLead(tab),
         NEW path \in Seq(Seq(STRING))
  PROVE  /\ follow_path(v, path) \in Lookup(path)
         /\ Reaches(tab, path, Len(path), follow_path(v, path))
         /\ v.registered \/ follow_path(v, path).res = "NOT_ENABLED"
<1> DEFINE N == Len(path)
           U == Lookup(path)
           On(n, w) == /\ Reaches(tab, path, n, w)
                       /\ v.registered \/ w.res = "NOT_ENABLED"
           top == [dir |-> 0, name |-> NoName, dptr |-> 0,
                   res |-> IF v.registered THEN "OK" ELSE "NOT_ENABLED"]
           V == [n \in 0 .. N |-> {w \in U : On(n, w)}]
           g == [p \in (1 .. N) \X U |-> Segment(v, path, p[1], p[2])]
           Body(go) == [k \in 0 .. N |-> IF k = 0 THEN top ELSE Segment(v, path, k, go[k - 1])]
           Start(go) == [k \in 0 .. N |->
                           IF k = 0 THEN top
                           ELSE With(go[k - 1], LAMBDA w : Segment(v, path, k, w))]
           go == CHOOSE f : f = Start(f)
<1>1. N \in Nat  OBVIOUS
<1>2. top \in V[0]
  <2>1. top \in U  BY Sizes DEF Lookup, FollowRes
  <2>2. On(0, top)
    BY DEF Reaches
  <2>3. 0 \in 0 .. N  BY <1>1
  <2> HIDE DEF top, U, On
  <2> QED BY <2>1, <2>2, <2>3
<1>3. ASSUME NEW n \in 1 .. N, NEW w \in V[n - 1]
      PROVE  w \in U /\ g[<< n, w >>] = Segment(v, path, n, w) /\ g[<< n, w >>] \in V[n]
  <2>1. n - 1 \in 0 .. N /\ n \in 0 .. N  BY <1>1
  <2>2. w \in U /\ On(n - 1, w)
    <3> HIDE DEF On
    <3> QED BY <2>1
  <2>3. g[<< n, w >>] = Segment(v, path, n, w)  BY <2>2
  <2>4. Segment(v, path, n, w) \in U /\ On(n, Segment(v, path, n, w))
    <3> HIDE DEF g, V
    <3>1. Segment(v, path, n, w) \in U /\ Reaches(tab, path, n, Segment(v, path, n, w))
      BY <2>2, FollowStep
    <3>2. w.res = "NOT_ENABLED" => Segment(v, path, n, w) = w
      BY DEF Segment
    <3> QED BY <2>2, <3>1, <3>2
  <2> HIDE DEF g, U, On
  <2> QED BY <2>1, <2>2, <2>3, <2>4
<1>4. PICK f \in [0 .. N -> U] : ComputedBy(f, g, N, top) /\ \A n \in 0 .. N : f[n] \in V[n]
  <2>1. \A n \in 0 .. N : V[n] \subseteq U
    <3> HIDE DEF On
    <3> QED OBVIOUS
  <2> HIDE DEF N, V, g, U, top
  <2> QED BY <1>1, <1>2, <1>3, <2>1, Stepping
<1> HIDE DEF g
<1>5. \A n \in 1 .. N : f[n] = Segment(v, path, n, f[n - 1])
  <2> SUFFICES ASSUME NEW n \in 1 .. N  PROVE f[n] = Segment(v, path, n, f[n - 1])
    OBVIOUS
  <2>1. n - 1 \in 0 .. N  BY <1>1
  <2>2. f[n - 1] \in V[n - 1]  BY <2>1, <1>4
  <2>3. g[<< n, f[n - 1] >>] = Segment(v, path, n, f[n - 1])
    <3> HIDE DEF V, On
    <3> QED BY <2>2, <1>3
  <2> HIDE DEF V
  <2> QED BY <2>3, <1>4 DEF ComputedBy
<1> HIDE DEF V, U, top, On
<1>6. f = Body(f)
  <2>1. f[0] = top  BY <1>4 DEF ComputedBy
  <2>2. \A n \in 0 .. N : f[n] = IF n = 0 THEN top ELSE Segment(v, path, n, f[n - 1])
    BY <2>1, <1>5, <1>1
  <2>3. f = [n \in 0 .. N |-> f[n]]  BY <1>4
  <2> QED BY <2>2, <2>3
<1>7. go = Body(go)
  <2>1. \A x : Start(x) = Body(x)  BY DEF With
  <2> HIDE DEF Body, Start
  <2>2. f = Start(f)  BY <1>6, <2>1
  <2>3. go = Start(go)  BY <2>2
  <2> QED BY <2>1, <2>3
<1>8. go[N] = f[N]
  <2> HIDE DEF go
  <2> DEFINE S == {n \in 0 .. N : go[n] = f[n]}
  <2>1. \A n \in 0 .. N : go[n] = IF n = 0 THEN top ELSE Segment(v, path, n, go[n - 1])
    BY <1>7
  <2>2. \A n \in 0 .. N : f[n] = IF n = 0 THEN top ELSE Segment(v, path, n, f[n - 1])
    BY <1>6
  <2>3. 0 \in S  BY <2>1, <2>2, <1>1
  <2>4. ASSUME NEW n \in 0 .. N - 1, n \in S  PROVE n + 1 \in S
    <3>1. n + 1 \in 0 .. N /\ n + 1 # 0 /\ (n + 1) - 1 = n  BY <1>1
    <3> QED BY <2>1, <2>2, <2>4, <3>1
  <2>5. \A n \in 0 .. N : n \in S
    <3> HIDE DEF S, N
    <3> QED BY <2>3, <2>4, <1>1, Induction
  <2>6. N \in 0 .. N  BY <1>1
  <2> QED BY <2>5, <2>6
<1>9. follow_path(v, path) = go[N]
  BY DEF follow_path, top
<1>10. f[N] \in U /\ On(N, f[N])
  <2>1. N \in 0 .. N  BY <1>1
  <2>2. f[N] \in V[N]  BY <2>1, <1>4
  <2> HIDE DEF N
  <2> QED BY <2>1, <2>2 DEF V
<1> QED BY <1>8, <1>9, <1>10 DEF U, On

(***************************************************************************)
(* Trees: what the calls make of them keeps them sound.                    *)
(***************************************************************************)
Plain(e) == e.name \notin {EndName, DDEM, Dot, DotDot} /\ "VOL" \notin e.attr
Shown(t) == {i \in DOMAIN t : Plain(t[i])}

RowForm(h, t, i) ==
  /\ IsEntry(t[i])
  /\ t[i].name = EndName => \A j \in DOMAIN t : j > i => t[j].name = EndName
  /\ t[i].name = Dot <=> h # dirbase /\ i = 0
  /\ t[i].name = DotDot <=> h # dirbase /\ i = 1
TableForm(h, q, t) ==
  /\ DOMAIN t = Rows(q) /\ \A i \in DOMAIN t : RowForm(h, t, i)
  /\ h # dirbase => t[0] = Entry(Dot, {"DIR"}, h, 0) /\ t[1] = Entry(DotDot, {"DIR"}, t[1].sclust, 0)
  /\ \A i, j \in Shown(t) : t[i].name = t[j].name => i = j

Once(tab) ==
  \A g, h \in DOMAIN tab : \A i \in Shown(tab[g]), j \in Shown(tab[h]) :
    tab[g][i].sclust = tab[h][j].sclust => tab[g][i].sclust = 0 \/ (g = h /\ i = j)
Owned(ch, tab) ==
  \A c \in DOMAIN ch \ {dirbase} :
    \E h \in DOMAIN tab : \E i \in Shown(tab[h]) : tab[h][i].sclust = c
Upward(tab) ==
  \A X \in SUBSET (DOMAIN tab \ {dirbase}) :
    X # {} => \E h \in X : Base(tab[h][1].sclust) \notin X
Entered(ch, tab) ==
  \A h \in DOMAIN tab : \A i \in Shown(tab[h]) : EntryIsSound(ch, tab, h, tab[h][i])
Tables(ch, tab) ==
  /\ dirbase \in DOMAIN tab /\ DOMAIN tab \subseteq DOMAIN ch
  /\ \A h \in DOMAIN tab : TableForm(h, ch[h], tab[h])
TreeForm(ch, tab) ==
  Tables(ch, tab) /\ Entered(ch, tab) /\ Once(tab) /\ Owned(ch, tab) /\ Upward(tab)

(* In a sound table nothing is hidden behind the end mark.                 *)
LEMMA ListedIs ==
  ASSUME NEW t, NEW q, DOMAIN t = Rows(q),
         \A i \in DOMAIN t : t[i].name = EndName =>
            \A j \in DOMAIN t : j > i => t[j].name = EndName
  PROVE  Listed(t) = Shown(t)
<1>1. \A i \in DOMAIN t : i \in Int  BY DEF Rows
<1>2. Entries(t) = {i \in DOMAIN t : t[i].name # EndName}
  <2>1. ASSUME NEW i \in Entries(t)  PROVE i \in DOMAIN t /\ t[i].name # EndName
    <3>1. i \in DOMAIN t  BY DEF Entries
    <3> SUFFICES ASSUME t[i].name = EndName  PROVE FALSE
      BY <3>1
    <3>2. i < i  BY <3>1 DEF Entries
    <3> QED BY <3>1, <3>2, <1>1
  <2>2. ASSUME NEW i \in DOMAIN t, t[i].name # EndName,
               NEW j \in DOMAIN t, t[j].name = EndName
        PROVE  i < j
    <3>1. ~(i > j)  BY <2>2
    <3>2. i # j  BY <2>2
    <3> QED BY <3>1, <3>2, <1>1
  <2> QED BY <2>1, <2>2 DEF Entries
<1> QED BY <1>2 DEF Listed, Shown, Plain

(* The tree of the assumption, and the form of it that the proofs use.     *)
LEMMA SoundIsForm ==
  ASSUME NEW ch, NEW tab
  PROVE  TreeIsSound(ch, tab) <=> TreeForm(ch, tab)
<1>1. ASSUME NEW h, (\A i \in DOMAIN tab[h] : tab[h][i].name = EndName =>
                        \A j \in DOMAIN tab[h] : j > i => tab[h][j].name = EndName),
             DOMAIN tab[h] = Rows(ch[h])
      PROVE  /\ Listed(tab[h]) = Shown(tab[h])
             /\ TableIsSound(h, ch[h], tab[h]) <=> TableForm(h, ch[h], tab[h])
  <2>1. Listed(tab[h]) = Shown(tab[h])  BY <1>1, ListedIs
  <2> QED BY <2>1 DEF TableIsSound, TableForm, RowForm, Rows
<1>2. ASSUME TreeIsSound(ch, tab) \/ TreeForm(ch, tab)
      PROVE  \A h \in DOMAIN tab :
               /\ Listed(tab[h]) = Shown(tab[h])
               /\ TableIsSound(h, ch[h], tab[h]) <=> TableForm(h, ch[h], tab[h])
  <2> SUFFICES ASSUME NEW h \in DOMAIN tab
               PROVE  /\ \A i \in DOMAIN tab[h] : tab[h][i].name = EndName =>
                           \A j \in DOMAIN tab[h] : j > i => tab[h][j].name = EndName
                      /\ DOMAIN tab[h] = Rows(ch[h])
    BY <1>1
  <2>1. CASE TreeIsSound(ch, tab)
    <3>1. TableIsSound(h, ch[h], tab[h])  BY <2>1 DEF TreeIsSound
    <3> QED BY <3>1 DEF TableIsSound, Rows
  <2>2. CASE TreeForm(ch, tab)
    <3>1. TableForm(h, ch[h], tab[h])  BY <2>2 DEF TreeForm, Tables
    <3> QED BY <3>1 DEF TableForm, RowForm
  <2> QED BY <1>2, <2>1, <2>2
<1>3. TreeIsSound(ch, tab) => TreeForm(ch, tab)
  BY <1>2 DEF TreeIsSound, TreeForm, Tables, Entered, Once, Owned, Upward
<1>4. TreeForm(ch, tab) => TreeIsSound(ch, tab)
  BY <1>2 DEF TreeIsSound, TreeForm, Tables, Entered, Once, Owned, Upward
<1> QED BY <1>3, <1>4

(* What a listed entry says of the tree                                    *)
LEMMA EntryFacts ==
  ASSUME NEW fat, NEW ch, Chained(fat, ch), NEW tab, TreeForm(ch, tab),
         NEW h \in DOMAIN tab, NEW i \in Shown(tab[h])
  PROVE  /\ i \in DOMAIN tab[h] /\ IsEntry(tab[h][i]) /\ EntryIsSound(ch, tab, h, tab[h][i])
         /\ i \in Nat /\ DOMAIN ch \subseteq Cluster
         /\ h # dirbase => i # 0 /\ i # 1
<1>1. i \in DOMAIN tab[h] /\ TableForm(h, ch[h], tab[h]) /\ EntryIsSound(ch, tab, h, tab[h][i])
  BY DEF Shown, TreeForm, Tables, Entered
<1>2. RowForm(h, tab[h], i) /\ i \in Rows(ch[h])  BY <1>1 DEF TableForm
<1>3. i \in Nat
  <2>1. h \in DOMAIN ch  BY DEF TreeForm, Tables
  <2> QED BY <1>2, <2>1, StrandOf, RowPlace
<1>4. DOMAIN ch \subseteq Cluster  BY StrandOf DEF Strand
<1>5. tab[h][i].name # Dot /\ tab[h][i].name # DotDot  BY DEF Shown, Plain
<1> QED BY <1>1, <1>2, <1>3, <1>4, <1>5 DEF RowForm

(* Every table has room for "." and "..".                                  *)
LEMMA FirstRows ==
  ASSUME NEW fat, NEW ch, Chained(fat, ch), NEW tab, Tables(ch, tab), NEW h \in DOMAIN tab
  PROVE  /\ 0 \in DOMAIN tab[h] /\ 1 \in DOMAIN tab[h] /\ DOMAIN tab[h] = Rows(ch[h])
         /\ h \in DOMAIN ch /\ h \in Cluster /\ \A i \in DOMAIN tab[h] : i \in Nat
<1>1. h \in DOMAIN ch /\ Strand(fat, h, ch[h]) /\ DOMAIN tab[h] = Rows(ch[h])
  BY StrandOf DEF Tables, TableForm
<1>2. 0 \in Rows(ch[h]) /\ 1 \in Rows(ch[h])  BY <1>1, RowIs
<1>3. \A i \in Rows(ch[h]) : i \in Nat  BY <1>1, RowPlace
<1> QED BY <1>1, <1>2, <1>3 DEF Strand

(* An entry of a table is replaced.                                        *)
SetOf(tab, t, g, i, e) ==
  /\ DOMAIN t = DOMAIN tab /\ t[g] = [tab[g] EXCEPT ![i] = e]
  /\ DOMAIN t[g] = DOMAIN tab[g] /\ t[g][i] = e
  /\ \A k \in DOMAIN tab[g] : k # i => t[g][k] = tab[g][k]
  /\ \A h \in DOMAIN tab : h # g => t[h] = tab[h]

(* A row is replaced, and no other.                                        *)
LEMMA SetIs ==
  ASSUME NEW tab, NEW g \in DOMAIN tab, NEW i \in DOMAIN tab[g], NEW e
  PROVE  SetOf(tab, Set(tab, g, i, e), g, i, e)
BY DEF Set, SetOf

Replaced(h, q, t, i, f, u) ==
  TableForm(h, q, u) /\ Shown(u) = IF Plain(f) THEN Shown(t) ELSE Shown(t) \ {i}

(* A table with an entry replaced is a table again, and shows what it did, *)
(* but for an entry that goes.                                             *)
LEMMA ReplaceRow ==
  ASSUME NEW h, NEW q, NEW t, TableForm(h, q, t), NEW i \in Shown(t),
         h # dirbase => i # 0 /\ i # 1,
         NEW f, IsEntry(f), f.name \notin {EndName, Dot, DotDot},
         Plain(f) => \A k \in Shown(t) : k # i => t[k].name # f.name
  PROVE  Replaced(h, q, t, i, f, [t EXCEPT ![i] = f])
<1> DEFINE u == [t EXCEPT ![i] = f]
<1>1. /\ i \in DOMAIN t /\ Plain(t[i]) /\ DOMAIN u = DOMAIN t /\ u[i] = f
      /\ \A k \in DOMAIN t : k # i => u[k] = t[k]
  BY DEF Shown
<1>2. DOMAIN t = Rows(q) /\ \A k \in DOMAIN t : RowForm(h, t, k)  BY DEF TableForm
<1> HIDE DEF u
<1>3. Shown(u) = IF Plain(f) THEN Shown(t) ELSE Shown(t) \ {i}
  BY <1>1 DEF Shown
<1>4. \A j, k \in Shown(u) : u[j].name = u[k].name => j = k
  <2> SUFFICES ASSUME NEW j \in Shown(u), NEW k \in Shown(u), u[j].name = u[k].name  PROVE j = k
    OBVIOUS
  <2>1. j \in Shown(t) /\ k \in Shown(t) /\ j \in DOMAIN t /\ k \in DOMAIN t
    BY <1>3 DEF Shown
  <2>2. \A a, b \in Shown(t) : t[a].name = t[b].name => a = b  BY DEF TableForm
  <2>3. CASE j # i /\ k # i  BY <2>1, <2>2, <2>3, <1>1
  <2>4. CASE j = i /\ k # i
    <3>1. Plain(f)  BY <2>4, <1>3
    <3> QED BY <2>1, <2>4, <3>1, <1>1
  <2>5. CASE j # i /\ k = i
    <3>1. Plain(f)  BY <2>5, <1>3
    <3> QED BY <2>1, <2>5, <3>1, <1>1
  <2> QED BY <2>3, <2>4, <2>5
<1>5. ASSUME NEW k \in DOMAIN u  PROVE RowForm(h, u, k)
  <2>1. CASE k = i
    <3>1. u[k] = f  BY <2>1, <1>1
    <3> QED BY <2>1, <3>1 DEF RowForm
  <2>2. CASE k # i
    <3>1. RowForm(h, t, k) /\ u[k] = t[k] /\ k \in DOMAIN t  BY <2>2, <1>1, <1>2
    <3>2. ASSUME u[k].name = EndName, NEW j \in DOMAIN u, j > k  PROVE u[j].name = EndName
      <4>1. t[j].name = EndName  BY <3>1, <3>2, <1>1 DEF RowForm
      <4>2. j # i  BY <4>1, <1>1 DEF Plain
      <4> QED BY <4>1, <4>2, <1>1
    <3> QED BY <3>1, <3>2 DEF RowForm
  <2> QED BY <2>1, <2>2
<1>6. ASSUME h # dirbase
      PROVE  u[0] = Entry(Dot, {"DIR"}, h, 0) /\ u[1] = Entry(DotDot, {"DIR"}, u[1].sclust, 0)
  <2>1. t[0] = Entry(Dot, {"DIR"}, h, 0) /\ t[1] = Entry(DotDot, {"DIR"}, t[1].sclust, 0)
    BY <1>6 DEF TableForm
  <2>2. u[0] = t[0] /\ u[1] = t[1]
    BY <1>6 DEF u
  <2> QED BY <2>1, <2>2
<1> QED BY <1>1, <1>2, <1>3, <1>4, <1>5, <1>6 DEF TableForm, Replaced, u

SizeFits(q, size) == size \in (Len(q) - 1) * CLSZ + 1 .. Len(q) * CLSZ

(* The entry of a file is replaced, and its chain is: another one, none,   *)
(* or one that got longer or shorter.                                      *)
Rechains(ch, dh, s, r) ==
  /\ DOMAIN dh = (DOMAIN ch \ {s}) \cup ({r} \ {0})
  /\ \A x \in DOMAIN ch : x # s => dh[x] = ch[x]
  /\ r = s \/ r \notin DOMAIN ch

(* The entry of a file is updated, and the tree with it.                   *)
LEMMA Updating ==
  ASSUME NEW fat, NEW ch, Chained(fat, ch), NEW tab, TreeForm(ch, tab),
         NEW g \in DOMAIN tab, NEW i \in Shown(tab[g]), "DIR" \notin tab[g][i].attr,
         NEW f, IsEntry(f), f.name = tab[g][i].name,
         "DIR" \notin f.attr, "VOL" \notin f.attr,
         NEW dh, Rechains(ch, dh, tab[g][i].sclust, f.sclust),
         IF f.sclust = 0 THEN f.size = 0 ELSE SizeFits(dh[f.sclust], f.size)
  PROVE  TreeForm(dh, Set(tab, g, i, f))
<1> DEFINE e == tab[g][i]
           t == Set(tab, g, i, f)
           s == e.sclust
<1>1. /\ i \in DOMAIN tab[g] /\ EntryIsSound(ch, tab, g, e) /\ IsEntry(e)
      /\ DOMAIN ch \subseteq Cluster /\ (g # dirbase => i # 0 /\ i # 1)
  BY EntryFacts
<1>2. SetOf(tab, t, g, i, f)  BY <1>1, SetIs
<1>3. s = 0 \/ s \in DOMAIN ch \ DOMAIN tab
  BY <1>1 DEF EntryIsSound
<1>4. Tables(ch, tab) /\ Entered(ch, tab) /\ Once(tab) /\ Owned(ch, tab) /\ Upward(tab)
  BY DEF TreeForm
<1>5. Plain(f)
  <2>1. Plain(e)  BY DEF Shown
  <2> QED BY <2>1 DEF Plain
<1>6. 0 \notin DOMAIN ch /\ 0 \notin DOMAIN tab  BY <1>1, <1>4, Sizes DEF Tables
<1>7. \A h \in DOMAIN tab : h # s /\ h # f.sclust /\ h \in DOMAIN dh /\ dh[h] = ch[h]
  BY <1>3, <1>4, <1>6 DEF Tables, Rechains
<1> HIDE DEF t
<1>8. TableForm(g, ch[g], t[g]) /\ Shown(t[g]) = Shown(tab[g])
  <2>1. TableForm(g, ch[g], tab[g])  BY <1>4 DEF Tables
  <2>2. \A k \in Shown(tab[g]) : k # i => tab[g][k].name # f.name
    BY <2>1 DEF TableForm
  <2>3. f.name \notin {EndName, Dot, DotDot}  BY <1>5 DEF Plain
  <2>4. t[g] = [tab[g] EXCEPT ![i] = f]  BY <1>2 DEF SetOf
  <2>5. IsEntry(f) /\ i \in Shown(tab[g]) /\ (g # dirbase => i # 0 /\ i # 1)  BY <1>1
  <2>6. Replaced(g, ch[g], tab[g], i, f, t[g])
    <3> HIDE DEF e, s
    <3> QED BY <2>1, <2>2, <2>3, <2>4, <2>5, ReplaceRow
  <2> QED BY <2>6, <1>5 DEF Replaced
<1>9. \A h \in DOMAIN tab : TableForm(h, ch[h], t[h]) /\ Shown(t[h]) = Shown(tab[h])
  BY <1>2, <1>4, <1>8 DEF Tables, SetOf
<1>10. \A h \in DOMAIN tab : \A k \in Shown(tab[h]) :
         t[h][k] = IF h = g /\ k = i THEN f ELSE tab[h][k]
  BY <1>2 DEF SetOf, Shown
<1>11. DOMAIN t = DOMAIN tab  BY <1>2 DEF SetOf
<1>12. Tables(dh, t)
  BY <1>4, <1>7, <1>9, <1>11 DEF Tables
<1>13. \A h \in DOMAIN tab \ {dirbase} : t[h][1] = tab[h][1]
  <2> SUFFICES ASSUME NEW h \in DOMAIN tab \ {dirbase}  PROVE t[h][1] = tab[h][1]
    OBVIOUS
  <2>1. 1 \in DOMAIN tab[h]  BY <1>4, FirstRows
  <2> QED BY <2>1, <1>1, <1>2 DEF SetOf
<1>14. ASSUME NEW h \in DOMAIN tab, NEW k \in Shown(tab[h]), ~(h = g /\ k = i)
       PROVE  tab[h][k].sclust # s \/ s = 0
  BY <1>4, <1>14 DEF Once
<1>15. ASSUME NEW h \in DOMAIN tab, NEW k \in Shown(tab[h]), ~(h = g /\ k = i)
       PROVE  tab[h][k].sclust # f.sclust \/ f.sclust = 0
  <2>1. EntryIsSound(ch, tab, h, tab[h][k]) /\ IsEntry(tab[h][k])  BY EntryFacts
  <2>2. tab[h][k].sclust = 0 \/ tab[h][k].sclust \in DOMAIN ch
    BY <2>1, <1>4 DEF EntryIsSound, Tables
  <2> QED BY <2>2, <1>14, <1>15 DEF Rechains
<1>16. Once(t)
  <2> SUFFICES ASSUME NEW a \in DOMAIN tab, NEW b \in DOMAIN tab, NEW j \in Shown(tab[a]),
                      NEW k \in Shown(tab[b]), t[a][j].sclust = t[b][k].sclust
               PROVE  t[a][j].sclust = 0 \/ (a = b /\ j = k)
    BY <1>9, <1>11 DEF Once
  <2>1. CASE ~(a = g /\ j = i) /\ ~(b = g /\ k = i)
    BY <2>1, <1>4, <1>10 DEF Once
  <2>2. CASE (a = g /\ j = i) /\ ~(b = g /\ k = i)
    <3>1. t[a][j] = f /\ t[b][k] = tab[b][k]  BY <2>2, <1>10
    <3> QED BY <2>2, <3>1, <1>15
  <2>3. CASE ~(a = g /\ j = i) /\ (b = g /\ k = i)
    <3>1. t[b][k] = f /\ t[a][j] = tab[a][j]  BY <2>3, <1>10
    <3> QED BY <2>3, <3>1, <1>15
  <2> QED BY <2>1, <2>2, <2>3
<1>17. ASSUME NEW h \in DOMAIN tab, NEW k \in Shown(tab[h])
       PROVE  EntryIsSound(dh, t, h, t[h][k])
  <2>1. CASE h = g /\ k = i
    <3>1. t[h][k] = f  BY <2>1, <1>10
    <3>2. f.sclust # 0 => f.sclust \in DOMAIN dh \ DOMAIN tab
      BY <1>7 DEF Rechains
    <3> QED BY <3>1, <3>2, <1>11 DEF EntryIsSound, SizeFits
  <2>2. CASE ~(h = g /\ k = i)
    <3>1. t[h][k] = tab[h][k] /\ EntryIsSound(ch, tab, h, tab[h][k])
      BY <2>2, <1>10, EntryFacts
    <3>2. CASE "DIR" \in tab[h][k].attr
      BY <3>1, <3>2, <1>11, <1>13 DEF EntryIsSound
    <3>3. CASE "DIR" \notin tab[h][k].attr /\ tab[h][k].sclust # 0
      <4>1. tab[h][k].sclust \in DOMAIN ch \ DOMAIN tab /\ tab[h][k].sclust # s
        BY <3>1, <3>3, <2>2, <1>14 DEF EntryIsSound
      <4>2. tab[h][k].sclust \in DOMAIN dh /\ dh[tab[h][k].sclust] = ch[tab[h][k].sclust]
        BY <4>1 DEF Rechains
      <4> QED BY <3>1, <3>3, <4>1, <4>2, <1>11 DEF EntryIsSound
    <3>4. CASE "DIR" \notin tab[h][k].attr /\ tab[h][k].sclust = 0
      BY <3>1, <3>4 DEF EntryIsSound
    <3> QED BY <3>2, <3>3, <3>4
  <2> QED BY <2>1, <2>2
<1>18. ASSUME NEW c \in DOMAIN dh \ {dirbase}
       PROVE  \E h \in DOMAIN tab : \E k \in Shown(tab[h]) : t[h][k].sclust = c
  <2>1. CASE c = f.sclust
    <3>1. t[g][i] = f  BY <1>10
    <3> QED BY <2>1, <3>1
  <2>2. CASE c # f.sclust
    <3>1. c \in DOMAIN ch \ {dirbase} /\ c # s  BY <2>2 DEF Rechains
    <3>2. PICK h \in DOMAIN tab : \E k \in Shown(tab[h]) : tab[h][k].sclust = c
      BY <3>1, <1>4 DEF Owned
    <3>3. PICK k \in Shown(tab[h]) : tab[h][k].sclust = c  BY <3>2
    <3>4. ~(h = g /\ k = i)  BY <3>1, <3>3
    <3>5. t[h][k] = tab[h][k]  BY <3>4, <1>10
    <3> QED BY <3>3, <3>5
  <2> QED BY <2>1, <2>2
<1>19. Entered(dh, t)  BY <1>9, <1>11, <1>17 DEF Entered
<1>20. Owned(dh, t)  BY <1>9, <1>11, <1>18 DEF Owned
<1>21. Upward(t)  BY <1>4, <1>11, <1>13 DEF Upward
<1> QED BY <1>12, <1>16, <1>19, <1>20, <1>21 DEF TreeForm, t

(* A tree that may have one object without an entry: o, the first cluster  *)
(* of its chain, or 0.                                                     *)
Attached(ch, tab, o) ==
  \A c \in DOMAIN ch \ {dirbase, o} :
    \E h \in DOMAIN tab : \E i \in Shown(tab[h]) : tab[h][i].sclust = c
Rooted(ch, tab, o) ==
  /\ Tables(ch, tab) /\ Entered(ch, tab) /\ Once(tab) /\ Upward(tab) /\ Attached(ch, tab, o)
  /\ o # 0 => /\ o \in DOMAIN ch \ {dirbase}
              /\ \A h \in DOMAIN tab : \A i \in Shown(tab[h]) : tab[h][i].sclust # o

(* The clusters that begin a chain are clusters.                           *)
LEMMA Heads ==
  ASSUME NEW fat, NEW ch, Chained(fat, ch)
  PROVE  DOMAIN ch \subseteq Cluster /\ 0 \notin DOMAIN ch
<1>1. \A h \in DOMAIN ch : h \in Cluster  BY StrandOf DEF Strand
<1> QED BY <1>1, Sizes

(* When every object has an entry, it is a tree.                           *)
LEMMA RootedIsTree ==
  ASSUME NEW fat, NEW ch, Chained(fat, ch), NEW tab
  PROVE  Rooted(ch, tab, 0) <=> TreeForm(ch, tab)
BY Heads DEF Rooted, TreeForm, Attached, Owned

(* What such a tree says of an entry.                                      *)
LEMMA RootedEntry ==
  ASSUME NEW fat, NEW ch, Chained(fat, ch), NEW tab, NEW o, Rooted(ch, tab, o),
         NEW h \in DOMAIN tab, NEW i \in Shown(tab[h])
  PROVE  /\ i \in DOMAIN tab[h] /\ IsEntry(tab[h][i]) /\ EntryIsSound(ch, tab, h, tab[h][i])
         /\ i \in Nat /\ (h # dirbase => i # 0 /\ i # 1)
<1>1. Tables(ch, tab) /\ Entered(ch, tab)  BY DEF Rooted
<1>2. i \in DOMAIN tab[h] /\ Plain(tab[h][i])  BY DEF Shown
<1>3. i \in Nat  BY <1>1, <1>2, FirstRows
<1>4. RowForm(h, tab[h], i)  BY <1>1, <1>2 DEF Tables, TableForm
<1>5. EntryIsSound(ch, tab, h, tab[h][i])  BY <1>1 DEF Entered
<1> QED BY <1>2, <1>3, <1>4, <1>5 DEF RowForm, Plain

(* An entry that was sound is sound where its chain or table is the same.  *)
LEMMA StaysSound ==
  ASSUME NEW ch, NEW tab, NEW h, NEW e, EntryIsSound(ch, tab, h, e), NEW dh, NEW t,
         "DIR" \in e.attr => e.sclust \in DOMAIN t /\ t[e.sclust][1] = tab[e.sclust][1],
         "DIR" \notin e.attr /\ e.sclust # 0 =>
           e.sclust \in DOMAIN dh \ DOMAIN t /\ dh[e.sclust] = ch[e.sclust]
  PROVE  EntryIsSound(dh, t, h, e)
BY DEF EntryIsSound

(* An object loses its entry.                                              *)
Gone == Entry(DDEM, {}, 0, 0)

(* An entry that dir_remove() has marked is no object.                     *)
LEMMA GoneIs == IsEntry(Gone) /\ ~Plain(Gone) /\ Gone.name \notin {EndName, Dot, DotDot}
<1>1. DDEM \notin {EndName, Dot, DotDot}  BY NamesAre
<1> QED BY <1>1, Sizes DEF IsEntry, Gone, Entry, Plain

(* An object without its entry: the rest of the tree is as it was.         *)
LEMMA Detaching ==
  ASSUME NEW fat, NEW ch, Chained(fat, ch), NEW tab, TreeForm(ch, tab),
         NEW g \in DOMAIN tab, NEW i \in Shown(tab[g])
  PROVE  Rooted(ch, Set(tab, g, i, Gone), tab[g][i].sclust)
<1> DEFINE e == tab[g][i]
           s == e.sclust
           t == Set(tab, g, i, Gone)
<1>0. Rooted(ch, tab, 0)  BY RootedIsTree
<1>1. /\ i \in DOMAIN tab[g] /\ IsEntry(e) /\ EntryIsSound(ch, tab, g, e)
      /\ i \in Nat /\ (g # dirbase => i # 0 /\ i # 1)
  BY <1>0, RootedEntry
<1>2. SetOf(tab, t, g, i, Gone)  BY <1>1, SetIs
<1>3. Tables(ch, tab) /\ Entered(ch, tab) /\ Once(tab) /\ Owned(ch, tab) /\ Upward(tab)
  BY DEF TreeForm
<1> HIDE DEF t
<1>4. TableForm(g, ch[g], t[g]) /\ Shown(t[g]) = Shown(tab[g]) \ {i}
  <2>1. TableForm(g, ch[g], tab[g])  BY <1>3 DEF Tables
  <2>2. t[g] = [tab[g] EXCEPT ![i] = Gone]  BY <1>2 DEF SetOf
  <2>3. Replaced(g, ch[g], tab[g], i, Gone, t[g])
    <3> HIDE DEF e, s
    <3> QED BY <2>1, <2>2, <1>1, GoneIs, ReplaceRow
  <2> QED BY <2>3, GoneIs DEF Replaced
<1>5. /\ DOMAIN t = DOMAIN tab
      /\ \A h \in DOMAIN tab : h # g => t[h] = tab[h]
  BY <1>2 DEF SetOf
<1>6. \A h \in DOMAIN tab : TableForm(h, ch[h], t[h]) /\ Shown(t[h]) \subseteq Shown(tab[h])
  BY <1>3, <1>4, <1>5 DEF Tables
<1>7. \A h \in DOMAIN tab : \A k \in Shown(t[h]) : t[h][k] = tab[h][k] /\ ~(h = g /\ k = i)
  BY <1>2, <1>4, <1>5 DEF SetOf, Shown
<1>8. \A h \in DOMAIN tab : \A k \in Shown(tab[h]) : ~(h = g /\ k = i) => k \in Shown(t[h])
  BY <1>4, <1>5
<1>9. \A h \in DOMAIN tab \ {dirbase} : t[h][1] = tab[h][1]
  <2> SUFFICES ASSUME NEW h \in DOMAIN tab \ {dirbase}  PROVE t[h][1] = tab[h][1]
    OBVIOUS
  <2>1. 1 \in DOMAIN tab[h]  BY <1>3, FirstRows
  <2> QED BY <2>1, <1>1, <1>2 DEF SetOf
<1>10. Tables(ch, t)  BY <1>3, <1>5, <1>6 DEF Tables
<1>11. Once(t)  BY <1>3, <1>5, <1>6, <1>7 DEF Once
<1>12. Upward(t)  BY <1>3, <1>5, <1>9 DEF Upward
<1>13. Entered(ch, t)
  <2> SUFFICES ASSUME NEW h \in DOMAIN tab, NEW k \in Shown(t[h])
               PROVE  EntryIsSound(ch, t, h, t[h][k])
    BY <1>5 DEF Entered
  <2>1. k \in Shown(tab[h]) /\ t[h][k] = tab[h][k]  BY <1>6, <1>7
  <2>2. EntryIsSound(ch, tab, h, tab[h][k])  BY <2>1, <1>3 DEF Entered
  <2>3. "DIR" \in tab[h][k].attr => tab[h][k].sclust \in DOMAIN tab \ {dirbase}
    BY <2>2 DEF EntryIsSound
  <2>4. "DIR" \notin tab[h][k].attr /\ tab[h][k].sclust # 0 =>
          tab[h][k].sclust \in DOMAIN ch \ DOMAIN t
    BY <2>2, <1>5 DEF EntryIsSound
  <2> QED BY <2>1, <2>2, <2>3, <2>4, <1>5, <1>9, StaysSound
<1>14. Attached(ch, t, s)
  <2> SUFFICES ASSUME NEW c \in DOMAIN ch \ {dirbase, s}
               PROVE  \E h \in DOMAIN t : \E k \in Shown(t[h]) : t[h][k].sclust = c
    BY DEF Attached
  <2>1. PICK h \in DOMAIN tab : \E k \in Shown(tab[h]) : tab[h][k].sclust = c
    BY <1>3 DEF Owned
  <2>2. PICK k \in Shown(tab[h]) : tab[h][k].sclust = c  BY <2>1
  <2>3. ~(h = g /\ k = i)  BY <2>2
  <2> QED BY <2>2, <2>3, <1>5, <1>7, <1>8
<1>15. ASSUME s # 0
       PROVE  /\ s \in DOMAIN ch \ {dirbase}
              /\ \A h \in DOMAIN t : \A k \in Shown(t[h]) : t[h][k].sclust # s
  <2>1. s \in DOMAIN ch \ {dirbase}
    BY <1>1, <1>3, <1>15 DEF EntryIsSound, Tables
  <2>2. ASSUME NEW h \in DOMAIN t, NEW k \in Shown(t[h]), t[h][k].sclust = s  PROVE FALSE
    <3>1. h \in DOMAIN tab /\ k \in Shown(tab[h]) /\ tab[h][k].sclust = s /\ ~(h = g /\ k = i)
      BY <2>2, <1>5, <1>6, <1>7
    <3> QED BY <3>1, <1>3, <1>15 DEF Once
  <2> QED BY <2>1, <2>2
<1> QED BY <1>10, <1>11, <1>12, <1>13, <1>14, <1>15 DEF Rooted, t

(* A directory table that goes has nothing to list; a chain that goes has  *)
(* no entry.                                                               *)
LEMMA Dropping ==
  ASSUME NEW fat, NEW ch, Chained(fat, ch), NEW tab, NEW o \in DOMAIN ch, Rooted(ch, tab, o),
         o \in DOMAIN tab => Shown(tab[o]) = {}
  PROVE  Rooted(Without(ch, o), Without(tab, o), 0)
<1> DEFINE dh == Without(ch, o)
           t == Without(tab, o)
<1>0. o \in Cluster /\ o # 0 /\ o # dirbase
  BY Heads DEF Rooted
<1>1. DOMAIN dh = DOMAIN ch \ {o} /\ \A h \in DOMAIN ch \ {o} : dh[h] = ch[h]
  BY DEF Without
<1>2. DOMAIN t = DOMAIN tab \ {o} /\ \A h \in DOMAIN tab \ {o} : t[h] = tab[h]
  BY DEF Without
<1>3. /\ Tables(ch, tab) /\ Entered(ch, tab) /\ Once(tab) /\ Upward(tab)
      /\ Attached(ch, tab, o)
      /\ \A h \in DOMAIN tab : \A i \in Shown(tab[h]) : tab[h][i].sclust # o
  BY <1>0 DEF Rooted
<1> HIDE DEF dh, t
<1>4. Tables(dh, t)  BY <1>0, <1>1, <1>2, <1>3 DEF Tables
<1>5. Once(t)  BY <1>2, <1>3 DEF Once
<1>6. Upward(t)
  <2> SUFFICES ASSUME NEW X \in SUBSET (DOMAIN t \ {dirbase}), X # {}
               PROVE  \E h \in X : Base(t[h][1].sclust) \notin X
    BY DEF Upward
  <2>1. X \in SUBSET (DOMAIN tab \ {dirbase})  BY <1>2
  <2>2. PICK h \in X : Base(tab[h][1].sclust) \notin X  BY <2>1, <1>3 DEF Upward
  <2> QED BY <2>2, <1>2
<1>7. Entered(dh, t)
  <2> SUFFICES ASSUME NEW h \in DOMAIN t, NEW k \in Shown(t[h])
               PROVE  EntryIsSound(dh, t, h, t[h][k])
    BY DEF Entered
  <2>1. h \in DOMAIN tab /\ t[h] = tab[h] /\ k \in Shown(tab[h])  BY <1>2
  <2> DEFINE e == tab[h][k]
  <2>2. EntryIsSound(ch, tab, h, e) /\ e.sclust # o  BY <2>1, <1>3 DEF Entered
  <2>3. "DIR" \in e.attr => e.sclust \in DOMAIN tab  BY <2>2 DEF EntryIsSound
  <2>4. "DIR" \notin e.attr /\ e.sclust # 0 => e.sclust \in DOMAIN ch \ DOMAIN tab
    BY <2>2 DEF EntryIsSound
  <2>5. EntryIsSound(dh, t, h, e)
    <3> HIDE DEF e
    <3> QED BY <2>2, <2>3, <2>4, <1>1, <1>2, StaysSound
  <2> QED BY <2>1, <2>5
<1>8. Attached(dh, t, 0)
  <2> SUFFICES ASSUME NEW c \in DOMAIN dh \ {dirbase, 0}
               PROVE  \E h \in DOMAIN t : \E k \in Shown(t[h]) : t[h][k].sclust = c
    BY DEF Attached
  <2>1. c \in DOMAIN ch \ {dirbase, o}  BY <1>1
  <2>2. PICK h \in DOMAIN tab : \E k \in Shown(tab[h]) : tab[h][k].sclust = c
    BY <2>1, <1>3 DEF Attached
  <2>3. h # o  BY <2>2
  <2> QED BY <2>2, <2>3, <1>2
<1> QED BY <1>4, <1>5, <1>6, <1>7, <1>8 DEF Rooted, dh, t

(* A row that an entry may be put into: no end mark comes before it, and   *)
(* it is the next one when the table gets longer.                          *)
OpenRow(t, j) ==
  /\ j \in DOMAIN t => t[j].name \in {EndName, DDEM}
  /\ \A k \in DOMAIN t : k < j => t[k].name # EndName
  /\ j \notin DOMAIN t => DOMAIN t = 0 .. j - 1

(* A table with an entry more is a table.                                  *)
LEMMA OpenRows ==
  ASSUME NEW h, NEW p, NEW t, TableForm(h, p, t), NEW q, Rows(p) \subseteq Rows(q),
         0 \in Rows(p), 1 \in Rows(p), NEW n \in Int, Rows(p) = 0 .. n, NEW j \in Rows(q), OpenRow(t, j),
         NEW f, IsEntry(f), Plain(f), \A k \in Shown(t) : t[k].name # f.name,
         NEW u, u = [k \in Rows(q) |-> IF k = j THEN f
                                       ELSE IF k \in DOMAIN t THEN t[k] ELSE NoEntry]
  PROVE  /\ TableForm(h, q, u) /\ Shown(u) = Shown(t) \cup {j} /\ j \notin Shown(t)
         /\ u[j] = f /\ \A k \in DOMAIN t : k # j => u[k] = t[k]
         /\ h # dirbase => j # 0 /\ j # 1
<1>1. DOMAIN t = Rows(p) /\ \A k \in DOMAIN t : RowForm(h, t, k)  BY DEF TableForm
<1>2. /\ DOMAIN u = Rows(q) /\ u[j] = f /\ \A k \in DOMAIN t : k # j => u[k] = t[k]
      /\ \A k \in Rows(q) : k # j /\ k \notin DOMAIN t => u[k] = NoEntry
  BY <1>1
<1>3. \A k \in Rows(q) : k \in Int  BY DEF Rows
<1>4. NoEntry.name = EndName /\ IsEntry(NoEntry) /\ ~Plain(NoEntry)
  BY Sizes DEF NoEntry, Entry, IsEntry, Plain
<1>5. j \notin Shown(t)  BY DEF OpenRow, Shown, Plain
<1>6. h # dirbase => j # 0 /\ j # 1
  BY <1>1, NamesAre DEF RowForm, OpenRow
<1>7. Shown(u) = Shown(t) \cup {j}
  BY <1>1, <1>2, <1>4 DEF Shown
<1>8. ASSUME NEW k \in DOMAIN u  PROVE RowForm(h, u, k)
  <2>1. CASE k = j
    <3>1. u[k] = f  BY <2>1, <1>2
    <3>2. f.name \notin {EndName, Dot, DotDot}  BY DEF Plain
    <3> QED BY <2>1, <3>1, <3>2, <1>6 DEF RowForm
  <2>2. CASE k # j /\ k \in DOMAIN t
    <3>1. u[k] = t[k] /\ RowForm(h, t, k)  BY <2>2, <1>1, <1>2
    <3>2. ASSUME u[k].name = EndName, NEW i \in DOMAIN u, i > k  PROVE u[i].name = EndName
      <4>1. CASE i = j
        BY <2>2, <3>1, <3>2, <4>1, <1>2, <1>3 DEF OpenRow
      <4>2. CASE i # j /\ i \in DOMAIN t
        BY <4>2, <3>1, <3>2, <1>2 DEF RowForm
      <4>3. CASE i # j /\ i \notin DOMAIN t
        BY <4>3, <1>2, <1>4
      <4> QED BY <4>1, <4>2, <4>3
    <3> QED BY <3>1, <3>2 DEF RowForm
  <2>3. CASE k # j /\ k \notin DOMAIN t
    <3>1. u[k] = NoEntry /\ k # 0 /\ k # 1  BY <2>3, <1>1, <1>2
    <3>2. ASSUME NEW i \in DOMAIN u, i > k  PROVE i # j /\ i \notin DOMAIN t
      <4>1. i \in Int /\ k \in Int /\ k \in Rows(q) /\ j \in Int  BY <1>2, <1>3
      <4>2. i \notin DOMAIN t
        <5>1. DOMAIN t = 0 .. n  BY <1>1
        <5>2. k >= 0  BY <4>1 DEF Rows
        <5> QED BY <5>1, <5>2, <4>1, <2>3, <3>2
      <4>3. ASSUME i = j  PROVE FALSE
        <5>1. DOMAIN t = 0 .. j - 1  BY <4>2, <4>3 DEF OpenRow
        <5>2. k >= 0  BY <4>1 DEF Rows
        <5> QED BY <5>1, <5>2, <4>1, <4>3, <2>3, <3>2
      <4> QED BY <4>2, <4>3
    <3>3. \A i \in DOMAIN u : i > k => u[i].name = EndName
      BY <3>2, <1>2, <1>4
    <3> QED BY <3>1, <3>3, <1>4, NamesAre DEF RowForm
  <2> QED BY <2>1, <2>2, <2>3
<1>9. \A a, b \in Shown(u) : u[a].name = u[b].name => a = b
  <2>1. \A a, b \in Shown(t) : t[a].name = t[b].name => a = b  BY DEF TableForm
  <2>2. \A a \in Shown(t) : a # j /\ u[a] = t[a]  BY <1>2, <1>5 DEF Shown
  <2> QED BY <2>1, <2>2, <1>2, <1>7
<1>10. h # dirbase => u[0] = Entry(Dot, {"DIR"}, h, 0) /\ u[1] = Entry(DotDot, {"DIR"}, u[1].sclust, 0)
  <2> SUFFICES ASSUME h # dirbase
               PROVE  u[0] = Entry(Dot, {"DIR"}, h, 0) /\ u[1] = Entry(DotDot, {"DIR"}, u[1].sclust, 0)
    OBVIOUS
  <2>1. t[0] = Entry(Dot, {"DIR"}, h, 0) /\ t[1] = Entry(DotDot, {"DIR"}, t[1].sclust, 0)
    BY DEF TableForm
  <2>2. u[0] = t[0] /\ u[1] = t[1]  BY <1>1, <1>2, <1>6
  <2> QED BY <2>1, <2>2
<1>11. TableForm(h, q, u)  BY <1>2, <1>8, <1>9, <1>10 DEF TableForm
<1> QED BY <1>2, <1>5, <1>6, <1>7, <1>11

(* An object gets an entry.                                                *)
LEMMA Attaching ==
  ASSUME NEW fat, NEW ch, Chained(fat, ch), NEW tab, NEW f, Rooted(ch, tab, f.sclust),
         NEW h \in DOMAIN tab, NEW dh, Longer(ch, dh, h),
         NEW j \in Rows(dh[h]), OpenRow(tab[h], j), IsEntry(f), Plain(f),
         \A k \in Shown(tab[h]) : tab[h][k].name # f.name, EntryIsSound(ch, tab, h, f)
  PROVE  TreeForm(dh, Register(tab, h, dh[h], j, f))
<1> DEFINE t == Register(tab, h, dh[h], j, f)
<1>1. /\ Tables(ch, tab) /\ Entered(ch, tab) /\ Once(tab) /\ Upward(tab)
      /\ Attached(ch, tab, f.sclust)
      /\ f.sclust # 0 => \A g \in DOMAIN tab : \A i \in Shown(tab[g]) : tab[g][i].sclust # f.sclust
  BY DEF Rooted
<1>2. /\ DOMAIN t = DOMAIN tab /\ \A g \in DOMAIN tab : g # h => t[g] = tab[g]
      /\ t[h] = [k \in Rows(dh[h]) |-> IF k = j THEN f
                                       ELSE IF k \in DOMAIN tab[h] THEN tab[h][k] ELSE NoEntry]
  BY DEF Register
<1>3. /\ DOMAIN dh = DOMAIN ch /\ \A g \in DOMAIN ch : g # h => dh[g] = ch[g]
      /\ Rows(ch[h]) \subseteq Rows(dh[h])
  BY DEF Longer
<1> HIDE DEF t
<1>4. /\ TableForm(h, dh[h], t[h]) /\ Shown(t[h]) = Shown(tab[h]) \cup {j} /\ j \notin Shown(tab[h])
      /\ t[h][j] = f /\ \A k \in DOMAIN tab[h] : k # j => t[h][k] = tab[h][k]
      /\ h # dirbase => j # 0 /\ j # 1
  <2>1. TableForm(h, ch[h], tab[h])  BY <1>1 DEF Tables
  <2>2. 0 \in Rows(ch[h]) /\ 1 \in Rows(ch[h])  BY <1>1, FirstRows
  <2>3. PICK n \in Int : Rows(ch[h]) = 0 .. n
    <3>1. Lesser(Len(ch[h]) * CLSZ, MAX_DIR) \in 2 .. MAX_DIR
      BY <1>1, FirstRows, StrandOf, RowIs
    <3> DEFINE m == Lesser(Len(ch[h]) * CLSZ, MAX_DIR)
    <3>2. m - 1 \in Int
      <4> HIDE DEF m
      <4>1. m \in 2 .. MAX_DIR  BY <3>1 DEF m
      <4> QED BY <4>1
    <3> QED BY <3>2 DEF Rows
  <2> QED BY <2>1, <2>2, <2>3, <1>2, <1>3, OpenRows
<1>5. \A g \in DOMAIN tab : \A k \in Shown(t[g]) :
        IF g = h /\ k = j THEN t[g][k] = f ELSE k \in Shown(tab[g]) /\ t[g][k] = tab[g][k]
  <2> SUFFICES ASSUME NEW g \in DOMAIN tab, NEW k \in Shown(t[g])
               PROVE  IF g = h /\ k = j THEN t[g][k] = f
                      ELSE k \in Shown(tab[g]) /\ t[g][k] = tab[g][k]
    OBVIOUS
  <2>1. CASE g = h /\ k = j  BY <2>1, <1>4
  <2>2. CASE g = h /\ k # j
    <3>1. k \in Shown(tab[h]) /\ k \in DOMAIN tab[h]  BY <2>2, <1>4 DEF Shown
    <3> QED BY <2>2, <3>1, <1>4
  <2>3. CASE g # h  BY <2>3, <1>2
  <2> QED BY <2>1, <2>2, <2>3
<1>6. \A g \in DOMAIN tab : \A k \in Shown(tab[g]) : k \in Shown(t[g]) /\ t[g][k] = tab[g][k]
  <2> SUFFICES ASSUME NEW g \in DOMAIN tab, NEW k \in Shown(tab[g])
               PROVE  k \in Shown(t[g]) /\ t[g][k] = tab[g][k]
    OBVIOUS
  <2>1. CASE g = h
    <3>1. k \in DOMAIN tab[h] /\ k # j  BY <2>1, <1>4 DEF Shown
    <3> QED BY <2>1, <3>1, <1>4
  <2>2. CASE g # h  BY <2>2, <1>2
  <2> QED BY <2>1, <2>2
<1>7. \A g \in DOMAIN tab \ {dirbase} : t[g][1] = tab[g][1]
  <2> SUFFICES ASSUME NEW g \in DOMAIN tab \ {dirbase}  PROVE t[g][1] = tab[g][1]
    OBVIOUS
  <2>1. 1 \in DOMAIN tab[g]  BY <1>1, FirstRows
  <2> QED BY <2>1, <1>2, <1>4
<1>8. Tables(dh, t)
  <2>1. \A g \in DOMAIN t : TableForm(g, dh[g], t[g])
    BY <1>1, <1>2, <1>3, <1>4 DEF Tables
  <2> QED BY <2>1, <1>1, <1>2, <1>3 DEF Tables
<1>9. Once(t)
  <2> SUFFICES ASSUME NEW a \in DOMAIN tab, NEW b \in DOMAIN tab, NEW i \in Shown(t[a]),
                      NEW k \in Shown(t[b]), t[a][i].sclust = t[b][k].sclust,
                      t[a][i].sclust # 0
               PROVE  a = b /\ i = k
    BY <1>2 DEF Once
  <2>1. CASE a = h /\ i = j  BY <2>1, <1>1, <1>5
  <2>2. CASE b = h /\ k = j  BY <2>2, <1>1, <1>5
  <2>3. CASE ~(a = h /\ i = j) /\ ~(b = h /\ k = j)
    <3>1. i \in Shown(tab[a]) /\ k \in Shown(tab[b]) /\ tab[a][i].sclust = tab[b][k].sclust
          /\ tab[a][i].sclust # 0
      BY <2>3, <1>5
    <3> QED BY <3>1, <1>1 DEF Once
  <2> QED BY <2>1, <2>2, <2>3
<1>10. Upward(t)  BY <1>1, <1>2, <1>7 DEF Upward
<1>11. ASSUME NEW g \in DOMAIN tab, NEW e, EntryIsSound(ch, tab, g, e)
       PROVE  EntryIsSound(dh, t, g, e)
  <2>1. "DIR" \in e.attr => e.sclust \in DOMAIN tab \ {dirbase}  BY <1>11 DEF EntryIsSound
  <2>2. "DIR" \notin e.attr /\ e.sclust # 0 => e.sclust \in DOMAIN ch \ DOMAIN tab
    BY <1>11 DEF EntryIsSound
  <2> QED BY <2>1, <2>2, <1>2, <1>3, <1>7, <1>11, StaysSound
<1>12. Entered(dh, t)
  <2> SUFFICES ASSUME NEW g \in DOMAIN tab, NEW k \in Shown(t[g])
               PROVE  EntryIsSound(dh, t, g, t[g][k])
    BY <1>2 DEF Entered
  <2>1. CASE g = h /\ k = j  BY <2>1, <1>5, <1>11
  <2>2. CASE ~(g = h /\ k = j)
    <3>1. k \in Shown(tab[g]) /\ t[g][k] = tab[g][k]  BY <2>2, <1>5
    <3>2. EntryIsSound(ch, tab, g, tab[g][k])  BY <3>1, <1>1 DEF Entered
    <3> QED BY <3>1, <3>2, <1>11
  <2> QED BY <2>1, <2>2
<1>13. Owned(dh, t)
  <2> SUFFICES ASSUME NEW c \in DOMAIN ch \ {dirbase}
               PROVE  \E g \in DOMAIN t : \E k \in Shown(t[g]) : t[g][k].sclust = c
    BY <1>3 DEF Owned
  <2>1. CASE c = f.sclust
    BY <2>1, <1>2, <1>4
  <2>2. CASE c # f.sclust
    <3>1. PICK g \in DOMAIN tab : \E k \in Shown(tab[g]) : tab[g][k].sclust = c
      BY <2>2, <1>1 DEF Attached
    <3> QED BY <3>1, <1>2, <1>6
  <2> QED BY <2>1, <2>2
<1> QED BY <1>8, <1>9, <1>10, <1>12, <1>13 DEF TreeForm, t

(* The parent that a directory names has its entry.                        *)
LEMMA Parents ==
  ASSUME NEW fat, NEW ch, Chained(fat, ch), NEW tab, TreeForm(ch, tab),
         NEW x \in DOMAIN tab \ {dirbase}
  PROVE  \E g \in DOMAIN tab : \E k \in Shown(tab[g]) :
           /\ tab[g][k].sclust = x /\ "DIR" \in tab[g][k].attr
           /\ tab[x][1].sclust = IdOf(g) /\ Base(tab[x][1].sclust) = g
<1>1. Tables(ch, tab) /\ Entered(ch, tab) /\ Owned(ch, tab)  BY DEF TreeForm
<1>2. x \in DOMAIN ch \ {dirbase} /\ x # 0  BY <1>1, Heads DEF Tables
<1>3. PICK g \in DOMAIN tab : \E k \in Shown(tab[g]) : tab[g][k].sclust = x
  BY <1>1, <1>2 DEF Owned
<1>4. PICK k \in Shown(tab[g]) : tab[g][k].sclust = x  BY <1>3
<1>5. EntryIsSound(ch, tab, g, tab[g][k])  BY <1>1 DEF Entered
<1>6. "DIR" \in tab[g][k].attr  BY <1>2, <1>4, <1>5 DEF EntryIsSound
<1>7. tab[x][1].sclust = IdOf(g)  BY <1>4, <1>5, <1>6 DEF EntryIsSound
<1>8. g \in Cluster  BY <1>1, Heads DEF Tables
<1> QED BY <1>4, <1>6, <1>7, <1>8, BaseOf

(* The table of a directory that is new.                                   *)
LEMMA NewTableIs ==
  ASSUME NEW fat, NEW c, c # dirbase, Strand(fat, c, << c >>), NEW p \in Cluster \cup {0}
  PROVE  /\ TableForm(c, << c >>, NewTable(c, p)) /\ Shown(NewTable(c, p)) = {}
         /\ NewTable(c, p)[1].sclust = p
<1> DEFINE t == NewTable(c, p)
           dot == Entry(Dot, {"DIR"}, c, 0)
           up == Entry(DotDot, {"DIR"}, p, 0)
<1>1. c \in Cluster /\ 0 \in Rows(<< c >>) /\ 1 \in Rows(<< c >>)
      /\ \A i \in Rows(<< c >>) : i \in Int
  <2>1. 0 \in Rows(<< c >>) /\ 1 \in Rows(<< c >>)  BY RowIs
  <2>2. \A i \in Rows(<< c >>) : i \in Int  BY DEF Rows
  <2>3. c \in Cluster  BY DEF Strand
  <2> QED BY <2>1, <2>2, <2>3
<1>2. DOMAIN t = Rows(<< c >>) /\ t[0] = dot /\ t[1] = up
      /\ \A i \in Rows(<< c >>) : i # 0 /\ i # 1 => t[i] = NoEntry
  BY <1>1 DEF NewTable
<1>3. /\ IsEntry(dot) /\ IsEntry(up) /\ IsEntry(NoEntry)
      /\ dot.name = Dot /\ up.name = DotDot /\ NoEntry.name = EndName
      /\ dot.sclust = c /\ up.sclust = p
  BY <1>1, Sizes DEF IsEntry, NoEntry, Entry
<1> HIDE DEF t, dot, up
<1>4. \A i \in DOMAIN t : ~Plain(t[i])
  BY <1>2, <1>3 DEF Plain
<1>5. ASSUME NEW i \in DOMAIN t  PROVE RowForm(c, t, i)
  <2>1. CASE i = 0  BY <2>1, <1>2, <1>3, NamesAre DEF RowForm
  <2>2. CASE i = 1  BY <2>2, <1>2, <1>3, NamesAre DEF RowForm
  <2>3. CASE i # 0 /\ i # 1
    <3>1. t[i] = NoEntry  BY <2>3, <1>2
    <3>2. \A j \in DOMAIN t : j > i => t[j].name = EndName
      <4>1. i >= 0  BY <1>2 DEF Rows
      <4>2. \A j \in DOMAIN t : j > i => j # 0 /\ j # 1  BY <4>1, <2>3, <1>1, <1>2
      <4> QED BY <4>2, <1>2, <1>3
    <3> QED BY <2>3, <3>1, <3>2, <1>3, NamesAre DEF RowForm
  <2> QED BY <2>1, <2>2, <2>3
<1>6. Shown(t) = {}  BY <1>4 DEF Shown
<1>7. t[0] = Entry(Dot, {"DIR"}, c, 0) /\ t[1] = Entry(DotDot, {"DIR"}, t[1].sclust, 0)
  BY <1>2, <1>3 DEF dot, up
<1>8. TableForm(c, << c >>, t)
  BY <1>2, <1>5, <1>6, <1>7 DEF TableForm
<1> QED BY <1>2, <1>3, <1>6, <1>8 DEF t

(* A directory is made, and has no entry yet.                              *)
LEMMA Sprouting ==
  ASSUME NEW fat, NEW ch, Chained(fat, ch), NEW tab, TreeForm(ch, tab),
         NEW c \in Cluster \ DOMAIN ch, NEW m, Chained(m, Plus(ch, c)), NEW h \in DOMAIN tab
  PROVE  Rooted(Plus(ch, c), Also(tab, c, NewTable(c, IdOf(h))), c)
<1> DEFINE dh == Plus(ch, c)
           n == NewTable(c, IdOf(h))
           t == Also(tab, c, n)
<1>1. Tables(ch, tab) /\ Entered(ch, tab) /\ Once(tab) /\ Owned(ch, tab) /\ Upward(tab)
  BY DEF TreeForm
<1>2. DOMAIN dh = DOMAIN ch \cup {c} /\ dh[c] = << c >> /\ \A g \in DOMAIN ch : dh[g] = ch[g]
  BY DEF Plus
<1>3. c \notin DOMAIN tab /\ c # dirbase /\ c # 0 /\ h \in Cluster
  BY <1>1, Heads, Sizes DEF Tables
<1>4. DOMAIN t = DOMAIN tab \cup {c} /\ t[c] = n /\ \A g \in DOMAIN tab : t[g] = tab[g]
  BY <1>3 DEF Also
<1>5. TableForm(c, << c >>, n) /\ Shown(n) = {} /\ n[1].sclust = IdOf(h)
  <2>1. Strand(m, c, << c >>)
    <3>1. c \in DOMAIN dh  BY <1>2
    <3>2. Strand(m, c, dh[c])
      <4> HIDE DEF dh
      <4>1. Chained(m, dh)  BY DEF dh
      <4> QED BY <3>1, <4>1, StrandOf
    <3> QED BY <3>2, <1>2
  <2>2. IdOf(h) \in Cluster \cup {0}  BY <1>3 DEF IdOf
  <2> QED BY <2>1, <2>2, <1>3, NewTableIs
<1> HIDE DEF dh, t, n
<1>6. Tables(dh, t)  BY <1>1, <1>2, <1>4, <1>5 DEF Tables
<1>7. \A g \in DOMAIN t : \A i \in Shown(t[g]) :
        g \in DOMAIN tab /\ i \in Shown(tab[g]) /\ t[g][i] = tab[g][i]
  BY <1>4, <1>5
<1>8. ASSUME NEW g \in DOMAIN tab, NEW i \in Shown(tab[g])
      PROVE  tab[g][i].sclust # c /\ EntryIsSound(dh, t, g, tab[g][i])
  <2>1. EntryIsSound(ch, tab, g, tab[g][i])  BY <1>1 DEF Entered
  <2>2. "DIR" \in tab[g][i].attr => tab[g][i].sclust \in DOMAIN tab
    BY <2>1 DEF EntryIsSound
  <2>3. "DIR" \notin tab[g][i].attr /\ tab[g][i].sclust # 0 =>
          tab[g][i].sclust \in DOMAIN ch \ DOMAIN tab
    BY <2>1 DEF EntryIsSound
  <2>4. tab[g][i].sclust # c  BY <2>2, <2>3, <1>3
  <2> QED BY <2>1, <2>2, <2>3, <2>4, <1>2, <1>4, StaysSound
<1>9. Entered(dh, t)  BY <1>7, <1>8 DEF Entered
<1>10. Once(t)  BY <1>1, <1>7 DEF Once
<1>11. Attached(dh, t, c)
  BY <1>1, <1>2, <1>4 DEF Attached, Owned
<1>12. Upward(t)
  <2> SUFFICES ASSUME NEW X \in SUBSET (DOMAIN t \ {dirbase}), X # {}
               PROVE  \E x \in X : Base(t[x][1].sclust) \notin X
    BY DEF Upward
  <2>1. CASE X = {c}
    <3>1. Base(t[c][1].sclust) = h  BY <1>3, <1>4, <1>5, BaseOf
    <3>2. h # c  BY <1>3
    <3> QED BY <2>1, <3>1, <3>2
  <2>2. CASE X # {c}
    <3>1. X \ {c} \in SUBSET (DOMAIN tab \ {dirbase}) /\ X \ {c} # {}  BY <2>2, <1>4
    <3>2. PICK x \in X \ {c} : Base(tab[x][1].sclust) \notin X \ {c}
      BY <3>1, <1>1 DEF Upward
    <3>3. Base(tab[x][1].sclust) \in DOMAIN tab  BY <3>1, Parents
    <3> QED BY <3>1, <3>2, <3>3, <1>3, <1>4
  <2> QED BY <2>1, <2>2
<1>13. \A g \in DOMAIN t : \A i \in Shown(t[g]) : t[g][i].sclust # c
  BY <1>7, <1>8
<1> QED BY <1>2, <1>3, <1>6, <1>9, <1>10, <1>11, <1>12, <1>13 DEF Rooted, dh, t, n

(* A directory without an entry gets a parent that is not below it.        *)
LEMMA Redirecting ==
  ASSUME NEW fat, NEW ch, Chained(fat, ch), NEW tab, NEW o \in DOMAIN tab, Rooted(ch, tab, o),
         NEW h \in DOMAIN tab, NEW Y \in SUBSET DOMAIN tab, h \in Y, o \notin Y,
         \A y \in Y \ {dirbase} : Base(tab[y][1].sclust) \in Y
  PROVE  Rooted(ch, Set(tab, o, 1, Entry(DotDot, {"DIR"}, IdOf(h), 0)), o)
<1> DEFINE up == Entry(DotDot, {"DIR"}, IdOf(h), 0)
           t == Set(tab, o, 1, up)
<1>1. Tables(ch, tab) /\ Entered(ch, tab) /\ Once(tab) /\ Upward(tab) /\ Attached(ch, tab, o)
  BY DEF Rooted
<1>2. o # 0 /\ o \in Cluster /\ h \in Cluster  BY <1>1, Heads DEF Tables
<1>3. /\ o \in DOMAIN ch \ {dirbase}
      /\ \A g \in DOMAIN tab : \A i \in Shown(tab[g]) : tab[g][i].sclust # o
  BY <1>2 DEF Rooted
<1>4. TableForm(o, ch[o], tab[o]) /\ 1 \in DOMAIN tab[o] /\ 0 \in DOMAIN tab[o]
  BY <1>1, FirstRows DEF Tables
<1>5. SetOf(tab, t, o, 1, up)  BY <1>4, SetIs
<1>6. up.name = DotDot /\ IsEntry(up) /\ up.sclust = IdOf(h) /\ ~Plain(up)
  BY <1>2, Sizes DEF Entry, IsEntry, IdOf, Plain
<1>7. tab[o][1].name = DotDot
  BY <1>3, <1>4 DEF TableForm, Entry
<1> HIDE DEF t
<1>8. \A i \in DOMAIN tab[o] : t[o][i].name = tab[o][i].name
  BY <1>5, <1>6, <1>7 DEF SetOf
<1>9. Shown(t[o]) = Shown(tab[o]) /\ \A i \in Shown(tab[o]) : t[o][i] = tab[o][i]
  <2>1. ~Plain(t[o][1]) /\ ~Plain(tab[o][1])  BY <1>5, <1>6, <1>7 DEF SetOf, Plain
  <2> QED BY <2>1, <1>5 DEF SetOf, Shown
<1>10. TableForm(o, ch[o], t[o])
  <2>1. ASSUME NEW i \in DOMAIN t[o]  PROVE RowForm(o, t[o], i)
    <3>1. RowForm(o, tab[o], i) /\ i \in DOMAIN tab[o]  BY <1>4, <1>5 DEF TableForm, SetOf
    <3>2. IsEntry(t[o][i])  BY <3>1, <1>5, <1>6 DEF SetOf, RowForm
    <3>3. \A j \in DOMAIN t[o] : t[o][j].name = tab[o][j].name  BY <1>5, <1>8 DEF SetOf
    <3> QED BY <3>1, <3>2, <3>3, <1>5 DEF RowForm, SetOf
  <2>2. t[o][0] = Entry(Dot, {"DIR"}, o, 0)
    BY <1>3, <1>4, <1>5 DEF TableForm, SetOf
  <2>3. t[o][1] = Entry(DotDot, {"DIR"}, t[o][1].sclust, 0)
    BY <1>5, <1>6 DEF SetOf
  <2> QED BY <2>1, <2>2, <2>3, <1>4, <1>5, <1>9 DEF TableForm, SetOf
<1>11. DOMAIN t = DOMAIN tab /\ \A g \in DOMAIN tab : g # o => t[g] = tab[g]
  BY <1>5 DEF SetOf
<1>12. Tables(ch, t)
  <2>1. \A g \in DOMAIN t : TableForm(g, ch[g], t[g])  BY <1>1, <1>10, <1>11 DEF Tables
  <2> QED BY <2>1, <1>1, <1>11 DEF Tables
<1>13. \A g \in DOMAIN tab : /\ Shown(t[g]) = Shown(tab[g])
                             /\ \A i \in Shown(tab[g]) : t[g][i] = tab[g][i]
  BY <1>9, <1>11
<1>14. Once(t)  BY <1>1, <1>11, <1>13 DEF Once
<1>15. Attached(ch, t, o)  BY <1>1, <1>11, <1>13 DEF Attached
<1>16. Entered(ch, t)
  <2> SUFFICES ASSUME NEW g \in DOMAIN tab, NEW k \in Shown(tab[g])
               PROVE  EntryIsSound(ch, t, g, tab[g][k])
    BY <1>11, <1>13 DEF Entered
  <2>1. EntryIsSound(ch, tab, g, tab[g][k]) /\ tab[g][k].sclust # o
    BY <1>1, <1>3 DEF Entered
  <2>2. "DIR" \in tab[g][k].attr => tab[g][k].sclust \in DOMAIN tab
    BY <2>1 DEF EntryIsSound
  <2>3. "DIR" \notin tab[g][k].attr /\ tab[g][k].sclust # 0 =>
          tab[g][k].sclust \in DOMAIN ch \ DOMAIN tab
    BY <2>1 DEF EntryIsSound
  <2> QED BY <2>1, <2>2, <2>3, <1>11, StaysSound
<1>17. Upward(t)
  <2> SUFFICES ASSUME NEW X \in SUBSET (DOMAIN tab \ {dirbase}), X # {}
               PROVE  \E x \in X : Base(t[x][1].sclust) \notin X
    BY <1>11 DEF Upward
  <2>1. Base(t[o][1].sclust) = h  BY <1>2, <1>5, <1>6, BaseOf DEF SetOf
  <2>2. \A x \in DOMAIN tab : x # o => t[x][1] = tab[x][1]  BY <1>11
  <2>3. CASE X \cap Y = {}  
    <3>1. PICK x \in X : Base(tab[x][1].sclust) \notin X  BY <1>1 DEF Upward
    <3>2. CASE x = o  BY <2>1, <2>3, <3>2
    <3>3. CASE x # o  BY <2>2, <3>1, <3>3
    <3> QED BY <3>2, <3>3
  <2>4. CASE X \cap Y # {}
    <3>1. X \cap Y \in SUBSET (DOMAIN tab \ {dirbase})  OBVIOUS
    <3>2. PICK x \in X \cap Y : Base(tab[x][1].sclust) \notin X \cap Y
      BY <3>1, <2>4, <1>1 DEF Upward
    <3>3. x # o /\ x # dirbase /\ x \in DOMAIN tab  BY <3>2
    <3>4. Base(tab[x][1].sclust) \in Y  BY <3>2, <3>3
    <3> QED BY <3>2, <3>3, <3>4, <2>2
  <2> QED BY <2>3, <2>4
<1>18. \A g \in DOMAIN t : \A i \in Shown(t[g]) : t[g][i].sclust # o
  BY <1>3, <1>11, <1>13
<1> QED BY <1>3, <1>12, <1>14, <1>15, <1>16, <1>17, <1>18 DEF Rooted, t, up

(* What dir_find() and dir_read() get to is what is shown.                 *)
LEMMA ListedShown ==
  ASSUME NEW ch, NEW tab, Tables(ch, tab), NEW h \in DOMAIN tab
  PROVE  Listed(tab[h]) = Shown(tab[h])
<1>1. TableForm(h, ch[h], tab[h])  BY DEF Tables
<1> QED BY <1>1, ListedIs DEF TableForm, RowForm

(* A directory has one path.                                               *)
SameNames(p, q, n) == \A k \in 1 .. n : create_name(p[k]) = create_name(q[k])

Below(tab, p, a, g, h) ==
  \E i \in Shown(tab[g]) : /\ tab[g][i].name = create_name(p[a])
                          /\ "DIR" \in tab[g][i].attr /\ tab[g][i].sclust = h

(* Each name of a path is found in the directory before it.                *)
LEMMA OneDown ==
  ASSUME NEW ch, NEW tab, Tables(ch, tab), NEW p, NEW n \in Nat, NEW f, Trace(tab, p, n, f),
         NEW a \in 1 .. n
  PROVE  f[a - 1] \in DOMAIN tab /\ Below(tab, p, a, f[a - 1], f[a])
<1>1. a - 1 \in 0 .. n  OBVIOUS
<1>2. f[a - 1] \in DOMAIN tab  BY <1>1 DEF Trace
<1>3. Listed(tab[f[a - 1]]) = Shown(tab[f[a - 1]])  BY <1>2, ListedShown
<1>4. \E i \in Listed(tab[f[a - 1]]) :
        /\ tab[f[a - 1]][i].name = create_name(p[a])
        /\ "DIR" \in tab[f[a - 1]][i].attr /\ tab[f[a - 1]][i].sclust = f[a]
  BY DEF Trace
<1> QED BY <1>2, <1>3, <1>4 DEF Below

(* Two paths that are in one directory have come from one, by one name.    *)
LEMMA OneWayUp ==
  ASSUME NEW fat, NEW ch, Chained(fat, ch), NEW tab, TreeForm(ch, tab),
         NEW p, NEW n \in Nat, NEW f, Trace(tab, p, n, f),
         NEW q, NEW m \in Nat, NEW g, Trace(tab, q, m, g),
         NEW a \in 1 .. n, NEW b \in 1 .. m, f[a] = g[b]
  PROVE  f[a - 1] = g[b - 1] /\ create_name(p[a]) = create_name(q[b])
<1>2. Tables(ch, tab) /\ Entered(ch, tab) /\ Once(tab)  BY DEF TreeForm
<1>1. f[a - 1] \in DOMAIN tab /\ g[b - 1] \in DOMAIN tab  BY <1>2, OneDown
<1>0. Below(tab, p, a, f[a - 1], f[a]) /\ Below(tab, q, b, g[b - 1], g[b])
  BY <1>2, OneDown
<1>3. PICK i \in Shown(tab[f[a - 1]]) :
        /\ tab[f[a - 1]][i].name = create_name(p[a])
        /\ "DIR" \in tab[f[a - 1]][i].attr /\ tab[f[a - 1]][i].sclust = f[a]
  BY <1>0 DEF Below
<1>4. PICK j \in Shown(tab[g[b - 1]]) :
        /\ tab[g[b - 1]][j].name = create_name(q[b])
        /\ "DIR" \in tab[g[b - 1]][j].attr /\ tab[g[b - 1]][j].sclust = g[b]
  BY <1>0 DEF Below
<1>5. f[a] # 0
  <2>1. EntryIsSound(ch, tab, f[a - 1], tab[f[a - 1]][i])  BY <1>1, <1>2 DEF Entered
  <2>2. f[a] \in DOMAIN ch  BY <2>1, <1>2, <1>3 DEF EntryIsSound, Tables
  <2> QED BY <2>2, Heads
<1>6. f[a - 1] = g[b - 1] /\ i = j
  <2>1. tab[f[a - 1]][i].sclust = tab[g[b - 1]][j].sclust /\ tab[f[a - 1]][i].sclust # 0
    BY <1>3, <1>4, <1>5
  <2> QED BY <2>1, <1>1, <1>2 DEF Once
<1> QED BY <1>3, <1>4, <1>6

(* No path comes back to the root.                                         *)
LEMMA NotTheRoot ==
  ASSUME NEW ch, NEW tab, TreeForm(ch, tab), NEW p, NEW n \in Nat, NEW f, Trace(tab, p, n, f),
         NEW a \in 1 .. n
  PROVE  f[a] # dirbase
<1>1. f[a - 1] \in DOMAIN tab  BY DEF Trace
<1>2. Tables(ch, tab) /\ Entered(ch, tab)  BY DEF TreeForm
<1>3. PICK i \in Shown(tab[f[a - 1]]) :
        "DIR" \in tab[f[a - 1]][i].attr /\ tab[f[a - 1]][i].sclust = f[a]
  BY <1>1, <1>2, ListedShown DEF Trace
<1>4. EntryIsSound(ch, tab, f[a - 1], tab[f[a - 1]][i])  BY <1>1, <1>2 DEF Entered
<1> QED BY <1>3, <1>4 DEF EntryIsSound

(* Two paths to one directory have the same names.                         *)
LEMMA SameWay ==
  ASSUME NEW fat, NEW ch, Chained(fat, ch), NEW tab, TreeForm(ch, tab),
         NEW p, NEW n \in Nat, NEW f, Trace(tab, p, n, f),
         NEW q, NEW m \in Nat, NEW g, Trace(tab, q, m, g), f[n] = g[m]
  PROVE  n = m /\ SameNames(p, q, n)
<1> DEFINE l == Lesser(n, m)
           S == {j \in 0 .. l : /\ f[n - j] = g[m - j]
                                /\ \A k \in 0 .. j - 1 :
                                     create_name(p[n - k]) = create_name(q[m - k])}
<1>1. l \in Nat /\ l <= n /\ l <= m /\ (l = n \/ l = m)  BY DEF Lesser
<1> HIDE DEF l
<1>2. 0 \in S  BY <1>1
<1>3. ASSUME NEW j \in 0 .. l - 1, j \in S  PROVE j + 1 \in S
  <2>1. n - j \in 1 .. n /\ m - j \in 1 .. m /\ f[n - j] = g[m - j] /\ j + 1 \in 0 .. l
    BY <1>1, <1>3
  <2>2. f[(n - j) - 1] = g[(m - j) - 1] /\ create_name(p[n - j]) = create_name(q[m - j])
    BY <2>1, OneWayUp
  <2>3. (n - j) - 1 = n - (j + 1) /\ (m - j) - 1 = m - (j + 1)  OBVIOUS
  <2>4. \A k \in 0 .. (j + 1) - 1 : k = j \/ k \in 0 .. j - 1  OBVIOUS
  <2> QED BY <2>1, <2>2, <2>3, <2>4, <1>3
<1>4. l \in S
  <2>1. \A j \in 0 .. l : j \in S
    <3> HIDE DEF S
    <3> QED BY <1>1, <1>2, <1>3, Induction
  <2> QED BY <2>1, <1>1
<1>5. n = m
  <2>1. f[n - l] = g[m - l]  BY <1>4
  <2>2. CASE n - l # 0
    <3>1. m - l = 0 /\ n - l \in 1 .. n  BY <2>2, <1>1
    <3>2. f[n - l] = dirbase  BY <2>1, <3>1 DEF Trace
    <3> QED BY <3>1, <3>2, NotTheRoot
  <2>3. CASE m - l # 0
    <3>1. n - l = 0 /\ m - l \in 1 .. m  BY <2>3, <1>1
    <3>2. g[m - l] = dirbase  BY <2>1, <3>1 DEF Trace
    <3> QED BY <3>1, <3>2, NotTheRoot
  <2> QED BY <2>2, <2>3, <1>1
<1>6. SameNames(p, q, n)
  <2> SUFFICES ASSUME NEW k \in 1 .. n  PROVE create_name(p[k]) = create_name(q[k])
    BY DEF SameNames
  <2>1. n - k \in 0 .. l - 1 /\ n - (n - k) = k /\ m - (n - k) = k  BY <1>1, <1>5
  <2>2. create_name(p[n - (n - k)]) = create_name(q[m - (n - k)])  BY <2>1, <1>4
  <2> QED BY <2>1, <2>2
<1> QED BY <1>5, <1>6

(* f_rename() is not asked to move a directory into itself: the way to     *)
(* where it goes leads past it.                                            *)
Aside(tab, Y, h, o) ==
  /\ Y \in SUBSET DOMAIN tab /\ h \in Y /\ o \notin Y
  /\ \A y \in Y \ {dirbase} : Base(tab[y][1].sclust) \in Y

(* A directory that f_rename() moves is not on the way to where it goes,   *)
(* when its path is not the beginning of the other one.                    *)
LEMMA NotBelow ==
  ASSUME NEW fat, NEW ch, Chained(fat, ch), NEW tab, TreeForm(ch, tab),
         NEW p, NEW n \in Nat, n # 0, NEW f, Trace(tab, p, n - 1, f),
         NEW i \in Shown(tab[f[n - 1]]), "DIR" \in tab[f[n - 1]][i].attr,
         tab[f[n - 1]][i].name = create_name(p[n]),
         NEW q, NEW m \in Nat, NEW g, Trace(tab, q, m, g),
         ~(n <= m /\ SameNames(p, q, n))
  PROVE  Aside(tab, {g[k] : k \in 0 .. m}, g[m], tab[f[n - 1]][i].sclust)
<1> DEFINE o == tab[f[n - 1]][i].sclust
           Y == {g[k] : k \in 0 .. m}
<1>1. Tables(ch, tab) /\ Entered(ch, tab)  BY DEF TreeForm
<1>2. n - 1 \in Nat /\ f[n - 1] \in DOMAIN tab  BY DEF Trace
<1>3. ASSUME NEW k \in 0 .. m, g[k] = o  PROVE FALSE
  <2> DEFINE e == [x \in 0 .. n |-> IF x = n THEN o ELSE f[x]]
  <2>1. /\ e[n] = o /\ \A x \in 0 .. n - 1 : e[x] = f[x] /\ x \in 0 .. n
        /\ \A x \in 1 .. n - 1 : e[x] = f[x] /\ e[x - 1] = f[x - 1]
        /\ e[n - 1] = f[n - 1] /\ e[0] = f[0]
    OBVIOUS
  <2>2. EntryIsSound(ch, tab, f[n - 1], tab[f[n - 1]][i])  BY <1>1, <1>2 DEF Entered
  <2>3. o \in DOMAIN tab  BY <2>2 DEF EntryIsSound
  <2> HIDE DEF e
  <2>4. Trace(tab, p, n, e)
    <3>1. e[0] = dirbase  BY <2>1 DEF Trace
    <3>2. \A x \in 0 .. n : e[x] \in DOMAIN tab
      <4>1. \A x \in 0 .. n : x = n \/ x \in 0 .. n - 1  OBVIOUS
      <4> QED BY <4>1, <2>1, <2>3 DEF Trace
    <3>3. ASSUME NEW x \in 1 .. n
          PROVE  \E j \in Listed(tab[e[x - 1]]) :
                   /\ tab[e[x - 1]][j].name = create_name(p[x])
                   /\ "DIR" \in tab[e[x - 1]][j].attr /\ tab[e[x - 1]][j].sclust = e[x]
      <4>1. CASE x = n
        <5>1. i \in Listed(tab[f[n - 1]])  BY <1>1, <1>2, ListedShown
        <5> QED BY <4>1, <5>1, <2>1
      <4>2. CASE x # n
        <5>1. x \in 1 .. n - 1  BY <4>2
        <5> QED BY <5>1, <2>1 DEF Trace
      <4> QED BY <4>1, <4>2
    <3> QED BY <3>1, <3>2, <3>3 DEF Trace
  <2>5. Trace(tab, q, k, g)
    <3>1. (\A x \in 0 .. k : x \in 0 .. m) /\ \A x \in 1 .. k : x \in 1 .. m  OBVIOUS
    <3> QED BY <3>1 DEF Trace
  <2>6. n = k /\ SameNames(p, q, n)
    <3> HIDE DEF o
    <3> QED BY <2>1, <2>4, <2>5, <1>3, SameWay
  <2> QED BY <2>6
<1>4. Y \in SUBSET DOMAIN tab /\ g[m] \in Y  BY DEF Trace
<1>5. ASSUME NEW y \in Y \ {dirbase}  PROVE Base(tab[y][1].sclust) \in Y
  <2>1. PICK k \in 0 .. m : y = g[k]  BY <1>5
  <2>2. k \in 1 .. m /\ k - 1 \in 0 .. m
    <3>1. k # 0  BY <2>1, <1>5 DEF Trace
    <3> QED BY <3>1
  <2>3. g[k - 1] \in DOMAIN tab /\ g[k - 1] \in Y  BY <2>2 DEF Trace
  <2>4. PICK j \in Shown(tab[g[k - 1]]) :
          "DIR" \in tab[g[k - 1]][j].attr /\ tab[g[k - 1]][j].sclust = g[k]
    BY <2>2, <2>3, <1>1, ListedShown DEF Trace
  <2>5. EntryIsSound(ch, tab, g[k - 1], tab[g[k - 1]][j])  BY <2>3, <1>1 DEF Entered
  <2>6. tab[y][1].sclust = IdOf(g[k - 1])  BY <2>1, <2>4, <2>5 DEF EntryIsSound
  <2>7. g[k - 1] \in Cluster  BY <2>3, <1>1, Heads DEF Tables
  <2> QED BY <2>3, <2>6, <2>7, BaseOf
<1> QED BY <1>3, <1>4, <1>5 DEF Aside

(* An object gets its entry elsewhere: the one in row i of g goes, and one *)
(* in row j of h comes, in a table that may be longer for it.              *)
UpTo(h) == Entry(DotDot, {"DIR"}, IdOf(h), 0)
Moves(tab, g, i, h) == "DIR" \in tab[g][i].attr /\ g # h
Unhooked(tab, g, i, h) ==
  IF Moves(tab, g, i, h) THEN Set(Set(tab, g, i, Gone), tab[g][i].sclust, 1, UpTo(h))
  ELSE Set(tab, g, i, Gone)

(* An object has its entry elsewhere, and its directory goes with it.      *)
LEMMA Moving ==
  ASSUME NEW fat, NEW ch, Chained(fat, ch), NEW tab, TreeForm(ch, tab),
         NEW g \in DOMAIN tab, NEW i \in Shown(tab[g]), NEW h \in DOMAIN tab,
         NEW dh, Longer(ch, dh, h), NEW j \in Rows(dh[h]), FreeRow(tab[h], j),
         NEW name, IsName(name),
         \A k \in Shown(tab[h]) : tab[h][k].name = name => g = h /\ k = i,
         NEW Y, Moves(tab, g, i, h) => Aside(tab, Y, h, tab[g][i].sclust)
  PROVE  TreeForm(dh, Register(Unhooked(tab, g, i, h), h, dh[h], j, [tab[g][i] EXCEPT !.name = name]))
<1> DEFINE e == tab[g][i]
           s == e.sclust
           f == [e EXCEPT !.name = name]
           t == Set(tab, g, i, Gone)
           u == Unhooked(tab, g, i, h)
<1>1. /\ i \in DOMAIN tab[g] /\ IsEntry(e) /\ EntryIsSound(ch, tab, g, e)
      /\ i \in Nat /\ (g # dirbase => i # 0 /\ i # 1)
  BY EntryFacts
<1>2. Tables(ch, tab) /\ Entered(ch, tab) /\ Once(tab) /\ Owned(ch, tab) /\ Upward(tab)
  BY DEF TreeForm
<1>3. SetOf(tab, t, g, i, Gone)  BY <1>1, SetIs
<1>4. Rooted(ch, t, s)  BY Detaching
<1>5. f.name = name /\ f.attr = e.attr /\ f.sclust = s /\ f.size = e.size /\ IsEntry(f)
  <2>1. e = [name |-> e.name, attr |-> e.attr, sclust |-> s, size |-> e.size]
        /\ s \in Cluster \cup {0} /\ e.size \in Nat
    BY <1>1 DEF IsEntry, Entry
  <2> HIDE DEF s
  <2>2. f = [name |-> name, attr |-> e.attr, sclust |-> s, size |-> e.size]
    <3> HIDE DEF e
    <3> QED BY <2>1
  <2> HIDE DEF f, e
  <2> QED BY <2>1, <2>2 DEF IsEntry, Entry
<1>6. Plain(f)
  <2>1. Plain(e)  BY DEF Shown
  <2> HIDE DEF f, e
  <2> QED BY <2>1, <1>5, NamesAre DEF Plain
<1> HIDE DEF t
<1>7. DOMAIN t = DOMAIN tab /\ \A x \in DOMAIN tab : x # g => t[x] = tab[x]
  BY <1>3 DEF SetOf
<1>8. \A y \in DOMAIN tab \ {dirbase} : t[y][1] = tab[y][1] /\ 1 \in DOMAIN t[y]
  <2> SUFFICES ASSUME NEW y \in DOMAIN tab \ {dirbase}
               PROVE  t[y][1] = tab[y][1] /\ 1 \in DOMAIN t[y]
    OBVIOUS
  <2>1. 1 \in DOMAIN tab[y]  BY <1>2, FirstRows
  <2> QED BY <2>1, <1>1, <1>3 DEF SetOf
<1>9. "DIR" \in e.attr => s \in DOMAIN tab \ {dirbase} /\ tab[s][1].sclust = IdOf(g) /\ s # g
  <2> SUFFICES ASSUME "DIR" \in e.attr
               PROVE  s \in DOMAIN tab \ {dirbase} /\ tab[s][1].sclust = IdOf(g) /\ s # g
    OBVIOUS
  <2>1. s \in DOMAIN tab \ {dirbase} /\ tab[s][1].sclust = IdOf(g)  BY <1>1 DEF EntryIsSound
  <2>2. g \in Cluster  BY <1>2, Heads DEF Tables
  <2>3. Base(tab[s][1].sclust) = g  BY <2>1, <2>2, BaseOf
  <2>4. Base(tab[s][1].sclust) \notin {s}
    <3>1. {s} \in SUBSET (DOMAIN tab \ {dirbase})  BY <2>1
    <3> QED BY <3>1, <1>2 DEF Upward
  <2> QED BY <2>1, <2>3, <2>4
<1>10. Rooted(ch, u, s)
  <2>1. CASE Moves(tab, g, i, h)
    <3>1. s \in DOMAIN t /\ h \in DOMAIN t /\ s # dirbase  BY <2>1, <1>7, <1>9 DEF Moves
    <3>2. /\ Y \in SUBSET DOMAIN t /\ h \in Y /\ s \notin Y
          /\ \A y \in Y \ {dirbase} : Base(t[y][1].sclust) \in Y
      BY <2>1, <1>7, <1>8 DEF Aside
    <3>3. Rooted(ch, Set(t, s, 1, Entry(DotDot, {"DIR"}, IdOf(h), 0)), s)
      <4> HIDE DEF s
      <4> QED BY <3>1, <3>2, <1>4, Redirecting
    <3>4. u = Set(t, s, 1, Entry(DotDot, {"DIR"}, IdOf(h), 0))
      BY <2>1 DEF Unhooked, UpTo, t
    <3> QED BY <3>3, <3>4
  <2>2. CASE ~Moves(tab, g, i, h)
    BY <2>2, <1>4 DEF Unhooked, t
  <2> QED BY <2>1, <2>2
<1>11. /\ DOMAIN u = DOMAIN tab /\ \A x \in DOMAIN tab : ~(Moves(tab, g, i, h) /\ x = s) => u[x] = t[x]
       /\ Moves(tab, g, i, h) => u[s][1] = UpTo(h)
  <2>1. CASE Moves(tab, g, i, h)
    <3>1. s \in DOMAIN t /\ 1 \in DOMAIN t[s]  BY <2>1, <1>7, <1>8, <1>9 DEF Moves
    <3>2. SetOf(t, Set(t, s, 1, UpTo(h)), s, 1, UpTo(h))
      <4> HIDE DEF s
      <4> QED BY <3>1, SetIs
    <3>3. u = Set(t, s, 1, UpTo(h))
      BY <2>1 DEF Unhooked, t
    <3> HIDE DEF u
    <3> QED BY <2>1, <3>2, <3>3, <1>7 DEF SetOf
  <2>2. CASE ~Moves(tab, g, i, h)
    <3>1. u = t  BY <2>2 DEF Unhooked, t
    <3> QED BY <2>2, <3>1, <1>7
  <2> QED BY <2>1, <2>2
<1>12. u[h] = t[h]
  <2>1. Moves(tab, g, i, h) => s # h  BY DEF Aside
  <2> HIDE DEF u
  <2> QED BY <2>1, <1>11
<1> HIDE DEF u
<1>13. OpenRow(t[h], j) /\ \A k \in Shown(t[h]) : t[h][k].name # f.name
  <2>1. CASE g = h
    <3>1. /\ DOMAIN t[h] = DOMAIN tab[h] /\ t[h][i].name = DDEM /\ i \in DOMAIN tab[h] /\ ~Plain(t[h][i])
          /\ \A k \in DOMAIN tab[h] : k # i => t[h][k] = tab[h][k]
      BY <2>1, <1>1, <1>3, GoneIs DEF SetOf, Gone, Entry
    <3>2. OpenRow(t[h], j)
      BY <3>1, NamesAre DEF OpenRow, FreeRow
    <3>3. \A k \in Shown(t[h]) : k # i /\ k \in Shown(tab[h]) /\ t[h][k] = tab[h][k]
      BY <3>1 DEF Shown
    <3> HIDE DEF f
    <3> QED BY <3>2, <3>3, <1>5
  <2>2. CASE g # h
    <3>1. t[h] = tab[h]  BY <2>2, <1>7
    <3>2. OpenRow(tab[h], j)  BY DEF OpenRow, FreeRow
    <3> HIDE DEF f
    <3> QED BY <2>2, <3>1, <3>2, <1>5
  <2> QED BY <2>1, <2>2
<1>14. EntryIsSound(ch, u, h, f)
  <2>1. CASE "DIR" \in e.attr
    <3>1. s \in DOMAIN u \ {dirbase}  BY <2>1, <1>9, <1>11
    <3>2. u[s][1].sclust = IdOf(h)
      <4>1. CASE g = h
        <5>1. u[s] = t[s]  BY <2>1, <4>1, <1>9, <1>11 DEF Moves
        <5> QED BY <2>1, <4>1, <5>1, <1>8, <1>9
      <4>2. CASE g # h
        <5>1. u[s][1] = UpTo(h)  BY <2>1, <4>2, <1>11 DEF Moves
        <5> QED BY <5>1 DEF UpTo, Entry
      <4> QED BY <4>1, <4>2
    <3> HIDE DEF f, s
    <3> QED BY <2>1, <3>1, <3>2, <1>5 DEF EntryIsSound
  <2>2. CASE "DIR" \notin e.attr
    <3>1. IF s = 0 THEN e.size = 0
          ELSE /\ s \in DOMAIN ch \ DOMAIN tab
               /\ e.size \in (Len(ch[s]) - 1) * CLSZ + 1 .. Len(ch[s]) * CLSZ
      BY <2>2, <1>1 DEF EntryIsSound
    <3> HIDE DEF f, s, e
    <3> QED BY <2>2, <3>1, <1>5, <1>11 DEF EntryIsSound
  <2> QED BY <2>1, <2>2
<1>15. Rooted(ch, u, f.sclust) /\ h \in DOMAIN u
  BY <1>5, <1>10, <1>11
<1>16. OpenRow(u[h], j) /\ \A k \in Shown(u[h]) : u[h][k].name # f.name
  BY <1>12, <1>13
<1>17. IsEntry(f)  BY <1>5
<1>18. TreeForm(dh, Register(u, h, dh[h], j, f))
  <2> HIDE DEF f
  <2> QED BY <1>6, <1>14, <1>15, <1>16, <1>17, Attaching
<1> QED BY <1>18 DEF u

(***************************************************************************)
(* Files: the cluster and the sector of a position.                        *)
(***************************************************************************)

(* One more than a times b.                                                *)
LEMMA OneMore ==
  ASSUME NEW b \in Nat, NEW a \in Nat
  PROVE  b * a \in Nat /\ b * (a + 1) = (b * a) + b
OBVIOUS

(* Going on within a cluster, and within a sector.                         *)
LEMMA Forward ==
  ASSUME NEW p \in Nat, NEW d \in Nat, d # 0, (p % CLSZ) + d <= CLSZ
  PROVE  /\ (p + d - 1) \div CLSZ = p \div CLSZ
         /\ (p % CLSZ) + d < CLSZ => (p + d) \div CLSZ = p \div CLSZ /\ (p + d) % CLSZ = (p % CLSZ) + d
         /\ (p % CLSZ) + d = CLSZ => (p + d) \div CLSZ = p \div CLSZ + 1 /\ (p + d) % CLSZ = 0
<1> DEFINE a == p \div CLSZ
           x == p % CLSZ
<1>1. a \in Nat /\ x \in 0 .. CLSZ - 1 /\ p = (CLSZ * a) + x /\ x + d <= CLSZ
  BY Position
<1>2. CLSZ \in Nat /\ CLSZ * a \in Nat /\ CLSZ * (a + 1) = (CLSZ * a) + CLSZ
  <2>1. CLSZ \in Nat  BY Sizes
  <2> HIDE DEF a
  <2> QED BY <2>1, <1>1, OneMore
<1> HIDE DEF a, x
<1>3. x + d - 1 \in 0 .. CLSZ - 1 /\ p + d - 1 = (CLSZ * a) + (x + d - 1)
  BY <1>1, <1>2
<1>4. (p + d - 1) \div CLSZ = a  BY <1>1, <1>3, PositionOf
<1>5. ASSUME x + d < CLSZ  PROVE (p + d) \div CLSZ = a /\ (p + d) % CLSZ = x + d
  <2>1. x + d \in 0 .. CLSZ - 1 /\ p + d = (CLSZ * a) + (x + d)  BY <1>1, <1>2, <1>5
  <2> QED BY <2>1, <1>1, PositionOf
<1>6. ASSUME x + d = CLSZ  PROVE (p + d) \div CLSZ = a + 1 /\ (p + d) % CLSZ = 0
  <2>1. 0 \in 0 .. CLSZ - 1 /\ p + d = (CLSZ * (a + 1)) + 0 /\ a + 1 \in Nat
    BY <1>1, <1>2, <1>6, Sizes
  <2> QED BY <2>1, PositionOf
<1> QED BY <1>4, <1>5, <1>6 DEF a, x

(* Going on within a sector.                                               *)
LEMMA SectorOf ==
  ASSUME NEW x \in 0 .. CLSZ - 1, NEW d \in Nat, (x % SS) + d < SS
  PROVE  x + d \in 0 .. CLSZ - 1 /\ (x + d) \div SS = x \div SS /\ (x + d) % SS = (x % SS) + d
<1> DEFINE y == x \div SS
           z == x % SS
<1>1. SS \in Nat /\ SS # 0 /\ CSIZE \in Nat /\ CLSZ = CSIZE * SS /\ CLSZ \in Nat  BY Sizes
<1>2. x \in Nat  BY <1>1
<1>3. y \in Nat /\ z \in 0 .. SS - 1 /\ x = (SS * y) + z /\ z + d < SS
  BY <1>1, <1>2, Division
<1> HIDE DEF y, z
<1>4. z + d \in 0 .. SS - 1 /\ SS * y \in Nat /\ x + d = (SS * y) + (z + d)
  BY <1>1, <1>3
<1>5. (x + d) \div SS = y /\ (x + d) % SS = z + d
  BY <1>1, <1>3, <1>4, Quotient
<1>6. x + d < CLSZ
  <2>1. y < CSIZE
    <3> SUFFICES ASSUME y >= CSIZE  PROVE FALSE
      BY <1>1, <1>3
    <3>1. SS * y >= SS * CSIZE  BY <1>1, <1>3
    <3>2. SS * CSIZE = CLSZ  BY <1>1
    <3> QED BY <3>1, <3>2, <1>1, <1>3, <1>4
  <2>2. SS * (y + 1) <= SS * CSIZE  BY <2>1, <1>1, <1>3
  <2>3. SS * (y + 1) = (SS * y) + SS /\ SS * CSIZE = CLSZ  BY <1>1, <1>3
  <2> QED BY <2>2, <2>3, <1>1, <1>3, <1>4
<1> QED BY <1>5, <1>6, <1>1, <1>2 DEF y, z

(* The end of a sector.                                                    *)
LEMMA SectorEnd ==
  ASSUME NEW p \in Nat
  PROVE  /\ p % SS \in 0 .. SS - 1 /\ p % SS = (p % CLSZ) % SS
         /\ \A d \in Nat : (p % SS) + d <= SS => (p % CLSZ) + d <= CLSZ
         /\ \A d \in Nat : (p % SS) + d = SS => (p + d) % SS = 0
         /\ \A d \in Nat : (p % SS) + d < SS => (p + d) % SS = (p % SS) + d
<1>1. SS \in Nat /\ SS # 0 /\ CSIZE \in Nat /\ CLSZ = CSIZE * SS /\ CLSZ \in Nat  BY Sizes
<1> DEFINE x == p % CLSZ
           y == x \div SS
           z == p % SS
           b == p \div SS
<1>2. y \in 0 .. CSIZE - 1 /\ z \in 0 .. SS - 1 /\ x \in 0 .. CLSZ - 1 /\ x = (SS * y) + z
  BY Position, Sizes
<1>3. b \in Nat /\ p = (SS * b) + z
  BY <1>1, Division
<1>4. z = x % SS
  <2>1. x \in Nat  BY <1>1, <1>2
  <2>2. y \in Nat  BY <1>1, <1>2
  <2> HIDE DEF x, y, z
  <2> QED BY <2>1, <2>2, <1>1, <1>2, Quotient
<1> HIDE DEF x, y, z, b
<1>5. (SS * y) + SS <= CLSZ
  <2>1. SS * (y + 1) <= SS * CSIZE  BY <1>1, <1>2
  <2>2. SS * (y + 1) = (SS * y) + SS /\ SS * CSIZE = CLSZ  BY <1>1, <1>2
  <2> QED BY <2>1, <2>2
<1>6. SS * y \in Nat /\ SS * b \in Nat /\ SS * (b + 1) = (SS * b) + SS  BY <1>1, <1>2, <1>3
<1>7. ASSUME NEW d \in Nat, z + d <= SS  PROVE x + d <= CLSZ
  BY <1>1, <1>2, <1>5, <1>6, <1>7
<1>8. ASSUME NEW d \in Nat, z + d = SS  PROVE (p + d) % SS = 0
  <2>1. p + d = (SS * (b + 1)) + 0 /\ b + 1 \in Nat /\ 0 \in 0 .. SS - 1
    BY <1>1, <1>2, <1>3, <1>6, <1>8
  <2> QED BY <2>1, <1>1, Quotient
<1>9. ASSUME NEW d \in Nat, z + d < SS  PROVE (p + d) % SS = z + d
  <2>1. p + d = (SS * b) + (z + d) /\ z + d \in 0 .. SS - 1
    BY <1>1, <1>2, <1>3, <1>6, <1>9
  <2>2. SS \in Nat /\ SS # 0 /\ b \in Nat  BY <1>1, <1>3
  <2> QED BY <2>1, <2>2, Quotient
<1> QED BY <1>2, <1>4, <1>7, <1>8, <1>9 DEF x, z

(* Whole sectors.                                                          *)
LEMMA Sectors ==
  ASSUME NEW p \in Nat, p % SS = 0, NEW cc \in Nat, cc # 0, cc <= CSIZE - (p % CLSZ) \div SS
  PROVE  /\ cc * SS \in Nat /\ cc * SS # 0 /\ (p % CLSZ) + cc * SS <= CLSZ
         /\ (p + cc * SS) % SS = 0
<1>1. SS \in Nat /\ SS # 0 /\ CSIZE \in Nat /\ CLSZ = CSIZE * SS /\ CLSZ \in Nat  BY Sizes
<1> DEFINE x == p % CLSZ
           y == x \div SS
           b == p \div SS
           n == cc * SS
<1>2. y \in 0 .. CSIZE - 1 /\ x \in 0 .. CLSZ - 1 /\ x = (SS * y) + 0 /\ cc <= CSIZE - y
  BY Position, Sizes
<1>3. b \in Nat /\ p = (SS * b) + 0
  BY <1>1, Division
<1>4. n \in Nat /\ n # 0  BY <1>1
<1> HIDE DEF x, y, b
<1>5. x + n <= CLSZ
  <2>1. SS * (y + cc) <= SS * CSIZE  BY <1>1, <1>2
  <2>2. SS * (y + cc) = (SS * y) + n /\ SS * CSIZE = CLSZ /\ SS * y \in Nat  BY <1>1, <1>2
  <2> HIDE DEF n
  <2> QED BY <2>1, <2>2, <1>1, <1>2, <1>4
<1>6. (p + n) % SS = 0
  <2>1. SS * (b + cc) = (SS * b) + n /\ SS * b \in Nat  BY <1>1, <1>3
  <2>2. p + n = (SS * (b + cc)) + 0 /\ b + cc \in Nat /\ 0 \in 0 .. SS - 1
    <3> HIDE DEF n
    <3> QED BY <2>1, <1>1, <1>3, <1>4
  <2> QED BY <2>2, <1>1, Quotient
<1> QED BY <1>4, <1>5, <1>6 DEF x, y, n

FilForm(f) ==
  /\ DOMAIN f = {"id", "flag", "err", "sclust", "objsize", "fptr", "clust", "sect", "buf", "dir"}
  /\ f.sclust \in Cluster \cup {0} /\ f.clust \in Cluster \cup {0} /\ f.sect \in Sector \cup {0}
  /\ f.objsize \in Nat /\ f.fptr \in 0 .. f.objsize /\ f.id \in Nat /\ DOMAIN f.buf = Slot
  /\ f.err = "OK"

(* The current cluster is the one of the byte before the position, and     *)
(* within a sector the buffer has that sector.                             *)
Points(f, q) ==
  /\ f.fptr > 0 => f.clust = q[(f.fptr - 1) \div CLSZ + 1]
  /\ f.fptr % SS # 0 => f.sect = clst2sect(f.clust) + (f.fptr % CLSZ) \div SS

(* What waits in the buffer is for a sector of the file.                   *)
Buffers(f, q) == "DIRTY" \in f.flag => \E k \in 1 .. Len(q) : f.sect \in SectorsOf(q[k])

(* Behind the bytes within a sector the current cluster and the buffer are *)
(* those of the position.                                                  *)
LEMMA PointsPart ==
  ASSUME NEW q, NEW p \in Nat, NEW n \in Nat, n # 0, (p % SS) + n <= SS,
         NEW f, f.fptr = p + n, f.clust = q[p \div CLSZ + 1],
         f.sect = clst2sect(f.clust) + (p % CLSZ) \div SS
  PROVE  Points(f, q)
<1>1. (p % CLSZ) + n <= CLSZ /\ p % SS \in 0 .. SS - 1 /\ p % SS = (p % CLSZ) % SS
  BY SectorEnd
<1>2. (p + n - 1) \div CLSZ = p \div CLSZ  BY <1>1, Forward
<1>3. f.clust = q[(f.fptr - 1) \div CLSZ + 1]  BY <1>2
<1>4. ASSUME f.fptr % SS # 0  PROVE (f.fptr % CLSZ) \div SS = (p % CLSZ) \div SS
  <2>1. (p % SS) + n < SS
    <3>1. (p % SS) + n # SS  BY <1>4, SectorEnd
    <3> QED BY <3>1, <1>1, Sizes
  <2>2. p % CLSZ \in 0 .. CLSZ - 1 /\ ((p % CLSZ) % SS) + n < SS  BY <1>1, <2>1, Position
  <2>3. (p % CLSZ) + n \in 0 .. CLSZ - 1 /\ ((p % CLSZ) + n) \div SS = (p % CLSZ) \div SS
    BY <2>2, SectorOf
  <2>4. (p % CLSZ) + n < CLSZ  BY <2>3, Sizes
  <2>5. (p + n) % CLSZ = (p % CLSZ) + n  BY <2>4, <1>1, Forward
  <2> QED BY <2>3, <2>5
<1> QED BY <1>3, <1>4 DEF Points

(* Behind whole sectors too.                                               *)
LEMMA PointsWhole ==
  ASSUME NEW q, NEW p \in Nat, p % SS = 0,
         NEW cc \in Nat, cc # 0, cc <= CSIZE - (p % CLSZ) \div SS,
         NEW f, f.fptr = p + cc * SS, f.clust = q[p \div CLSZ + 1]
  PROVE  Points(f, q)
<1>1. /\ cc * SS \in Nat /\ cc * SS # 0 /\ (p % CLSZ) + cc * SS <= CLSZ
      /\ (p + cc * SS) % SS = 0
  BY Sectors
<1> DEFINE n == cc * SS
<1>2. (p + n - 1) \div CLSZ = p \div CLSZ
  <2> HIDE DEF n
  <2>1. n \in Nat /\ n # 0 /\ (p % CLSZ) + n <= CLSZ  BY <1>1 DEF n
  <2> QED BY <2>1, Forward
<1>3. f.fptr % SS = 0 /\ f.clust = q[(f.fptr - 1) \div CLSZ + 1]  BY <1>1, <1>2
<1> QED BY <1>3 DEF Points

(* Where a transfer that begins at a sector finds its cluster.             *)
Facing(f, q) ==
  /\ Csect(f) = (f.fptr % CLSZ) \div SS /\ Csect(f) \in 0 .. CSIZE - 1
  /\ f.fptr \div CLSZ \in Nat
  /\ f.fptr < Len(q) * CLSZ => f.fptr \div CLSZ + 1 \in 1 .. Len(q)
  /\ f.fptr < Len(q) * CLSZ \/ f.fptr \div CLSZ = Len(q)
  /\ Csect(f) # 0 => f.clust = q[f.fptr \div CLSZ + 1] /\ f.fptr < Len(q) * CLSZ
  /\ Csect(f) = 0 => IF f.fptr = 0 THEN f.fptr \div CLSZ = 0 /\ f.fptr < Len(q) * CLSZ
                     ELSE f.fptr \div CLSZ \in 1 .. Len(q) /\ f.clust = q[f.fptr \div CLSZ]

(* At the start of a sector FatFs knows the cluster or the one before it.  *)
LEMMA FacingIs ==
  ASSUME NEW fat, NEW h, NEW q, Strand(fat, h, q), NEW f, Points(f, q), f.fptr \in Nat,
         f.fptr % SS = 0, f.fptr <= Len(q) * CLSZ
  PROVE  Facing(f, q)
<1> DEFINE p == f.fptr
           a == p \div CLSZ
           x == p % CLSZ
           y == x \div SS
           l == Len(q) * CLSZ
<1>1. a \in Nat /\ x \in 0 .. CLSZ - 1 /\ p = (CLSZ * a) + x /\ p \in Nat
      /\ y \in 0 .. CSIZE - 1 /\ x = (SS * y) + 0 /\ Csect(f) = y
  BY Position DEF Csect
<1>2. Len(q) \in Nat /\ Len(q) # 0 /\ CLSZ \in Nat /\ CLSZ # 0 /\ SS \in Nat  BY Sizes DEF Strand
<1>3. l \in Nat /\ l = (CLSZ * Len(q)) + 0 /\ l # 0  BY <1>2, RowIs
<1>4. l \div CLSZ = Len(q) /\ l % CLSZ = 0
  <2>1. 0 \in 0 .. CLSZ - 1  BY <1>2
  <2> HIDE DEF l
  <2> QED BY <2>1, <1>2, <1>3, PositionOf
<1>5. ASSUME p < l  PROVE a + 1 \in 1 .. Len(q)
  <2>1. PlaceOf(fat, h, q, p)  BY <1>1, <1>5, PlaceIn
  <2> QED BY <2>1 DEF PlaceOf
<1>6. p < l \/ a = Len(q)
  <2>1. p < l \/ p = l  BY <1>1, <1>3
  <2>2. p = l => a = Len(q)  BY <1>4
  <2> HIDE DEF p, a, l
  <2> QED BY <2>1, <2>2
<1>7. ASSUME y # 0  PROVE p < l /\ f.clust = q[a + 1]
  <2>1. x # 0
    <3>1. y >= 1 /\ y \in Nat  BY <1>1, <1>7, Sizes
    <3>2. SS * y >= 1
      <4> HIDE DEF y
      <4> QED BY <3>1, Sizes
    <3> DEFINE m == SS * y
    <3>3. x = m + 0 /\ m >= 1 /\ m \in Nat
      <4>1. m \in Nat  BY <3>1, Sizes
      <4> QED BY <3>2, <4>1, <1>1
    <3> HIDE DEF y, x, m
    <3> QED BY <3>3
  <2>2. p # l  BY <2>1, <1>4
  <2>3. p < l  BY <2>2, <1>1, <1>3
  <2>4. p # 0 /\ p - 1 \in Nat
    <3>1. p # 0
      <4>1. CLSZ * a \in Nat  BY <1>1, <1>2, OneMore
      <4> HIDE DEF p, a, x
      <4> QED BY <4>1, <2>1, <1>1
    <3> QED BY <3>1, <1>1
  <2>5. (p - 1) \div CLSZ = a
    <3> DEFINE m == CLSZ * a
    <3>1. x - 1 \in 0 .. CLSZ - 1
      <4>1. x \in 0 .. CLSZ - 1 /\ CLSZ \in Nat  BY <1>1, <1>2
      <4> HIDE DEF x
      <4> QED BY <4>1, <2>1
    <3>2. p - 1 = m + (x - 1)
      <4>1. m \in Nat  BY <1>1, <1>2, OneMore
      <4>2. p = m + x  BY <1>1
      <4> HIDE DEF m, p, x
      <4> QED BY <4>1, <4>2, <1>1
    <3> HIDE DEF p, x, a
    <3> QED BY <3>1, <3>2, <1>1, PositionOf
  <2>6. f.clust = q[(p - 1) \div CLSZ + 1]
    <3>1. p > 0  BY <2>4, <1>1
    <3> QED BY <3>1 DEF Points
  <2> QED BY <2>3, <2>5, <2>6
<1>8. ASSUME y = 0  PROVE IF p = 0 THEN a = 0 /\ p < l
                          ELSE a \in 1 .. Len(q) /\ f.clust = q[a]
  <2>1. x = 0
    <3> HIDE DEF x, y
    <3> QED BY <1>1, <1>2, <1>8
  <2>2. p = CLSZ * a
    <3>1. CLSZ * a \in Nat  BY <1>1, <1>2, OneMore
    <3> HIDE DEF p, x, a
    <3> QED BY <2>1, <3>1, <1>1
  <2>3. CASE p = 0
    <3>1. p < l  BY <2>3, <1>3
    <3>2. a = 0
      <4>1. 0 \in 0 .. CLSZ - 1 /\ (CLSZ * 0) + 0 = 0 /\ 0 \in Nat  BY <1>2
      <4>2. 0 \div CLSZ = 0  BY <4>1, PositionOf
      <4> QED BY <2>3, <4>2
    <3> QED BY <2>3, <3>1, <3>2
  <2>4. CASE p # 0
    <3>1. a # 0
      <4> HIDE DEF a, p
      <4> QED BY <2>2, <2>4, <1>2
    <3>2. a <= Len(q)
      <4>1. a = Len(q) \/ a + 1 \in 1 .. Len(q)  BY <1>5, <1>6
      <4>2. a \in Nat /\ Len(q) \in Nat  BY <1>1, <1>2
      <4> HIDE DEF a
      <4> QED BY <4>1, <4>2
    <3>3. (p - 1) \div CLSZ = a - 1
      <4> DEFINE b == a - 1
                 m == CLSZ * b
      <4>1. b \in Nat /\ b + 1 = a
        <5> HIDE DEF a
        <5> QED BY <3>1, <1>1
      <4> HIDE DEF b
      <4>2. m \in Nat /\ CLSZ * a = m + CLSZ  BY <4>1, <1>2, OneMore
      <4>3. p - 1 = m + (CLSZ - 1)
        <5> HIDE DEF m, p, a
        <5> QED BY <4>2, <2>2, <1>2
      <4>4. CLSZ - 1 \in 0 .. CLSZ - 1  BY <1>2, Sizes
      <4>5. (m + (CLSZ - 1)) \div CLSZ = b  BY <4>1, <4>4, PositionOf
      <4> QED BY <4>3, <4>5 DEF b
    <3>4. f.clust = q[(p - 1) \div CLSZ + 1]
      <4>1. p > 0  BY <2>4, <1>1
      <4> QED BY <4>1 DEF Points
    <3>5. a - 1 + 1 = a /\ a \in 1 .. Len(q)
      <4> HIDE DEF a
      <4> QED BY <3>1, <3>2, <1>1, <1>2
    <3> QED BY <2>4, <3>3, <3>4, <3>5
  <2> QED BY <2>3, <2>4
<1> HIDE DEF p, a, x, y, l
<1>9. f.fptr = p /\ f.fptr \div CLSZ = a /\ f.fptr % CLSZ = x /\ x \div SS = y
  BY DEF p, a, x, y
<1>10. Len(q) * CLSZ = l  BY DEF l
<1> QED BY <1>1, <1>5, <1>6, <1>7, <1>8, <1>9, <1>10 DEF Facing

(* Within a sector the byte before is in the same cluster.                 *)
LEMMA Inside ==
  ASSUME NEW p \in Nat, p % SS # 0
  PROVE  p > 0 /\ (p - 1) \div CLSZ = p \div CLSZ
<1> DEFINE a == p \div CLSZ
           x == p % CLSZ
           m == CLSZ * a
<1>1. a \in Nat /\ x \in 0 .. CLSZ - 1 /\ p = m + x /\ p % SS = x % SS
  BY Position, SectorEnd
<1>2. x # 0
  <2>1. 0 % SS = 0
    <3>1. (SS * 0) + 0 = 0 /\ 0 \in Nat /\ 0 \in 0 .. SS - 1 /\ SS \in Nat /\ SS # 0  BY Sizes
    <3> QED BY <3>1, Quotient
  <2> HIDE DEF x
  <2> QED BY <2>1, <1>1
<1>3. m \in Nat /\ CLSZ \in Nat  BY <1>1, Sizes, OneMore
<1>4. x - 1 \in 0 .. CLSZ - 1 /\ p - 1 = m + (x - 1) /\ p > 0
  <2> HIDE DEF x, m, a
  <2> QED BY <1>1, <1>2, <1>3
<1>5. (m + (x - 1)) \div CLSZ = a
  <2> HIDE DEF x, a
  <2> QED BY <1>1, <1>4, PositionOf
<1> QED BY <1>4, <1>5

(* Sectors of a file are written.                                          *)
LEMMA OwnSectors ==
  ASSUME NEW v, NEW ch, NEW tab, NEW but, Good(v, ch, tab, but),
         NEW o \in DOMAIN ch \ DOMAIN tab, NEW w, Vol(w), w.fat = v.fat,
         \A x \in Sector : (\A k \in 1 .. Len(ch[o]) : x \notin SectorsOf(ch[o][k])) =>
                              w.disk[x] = v.disk[x]
  PROVE  Good(w, ch, tab, but)
<1>1. Chained(w.fat, ch) /\ Tabular(ch, tab) /\ Chained(v.fat, ch)  BY DEF Good
<1>2. ASSUME NEW h \in DOMAIN tab, NEW k \in 1 .. Len(ch[h]), NEW x \in SectorsOf(ch[h][k])
      PROVE  w.disk[x] = v.disk[x]
  <2>1. h \in DOMAIN ch /\ h # o  BY <1>1 DEF Tabular
  <2>2. ch[h][k] \in Cluster  BY <2>1, <1>1, StrandOf DEF Strand
  <2>3. x \in Sector  BY <2>2, SectorsAre
  <2>4. ASSUME NEW j \in 1 .. Len(ch[o]), x \in SectorsOf(ch[o][j])  PROVE FALSE
    <3>1. ch[o][j] \in Cluster  BY <1>1, StrandOf DEF Strand
    <3>2. ch[o][j] = ch[h][k]  BY <2>2, <2>4, <3>1, SectorsAre
    <3> QED BY <2>1, <3>2, <1>1, OnePlace
  <2> QED BY <2>3, <2>4
<1>3. \A h \in DOMAIN tab : h \in DOMAIN ch /\ ch[h] = ch[h]  BY <1>1 DEF Tabular
<1> QED BY <1>1, <1>2, <1>3, GoodAgain

(* A transfer: its state, the chains, and what the file object says.       *)
Filed(s, ch, tab, but) ==
  /\ DOMAIN s = {"v", "fp", "left", "got", "res"} /\ s.left \in Nat /\ s.res = "OK"
  /\ FilForm(s.fp) /\ Good(s.v, ch, tab, but)
  /\ IF s.fp.sclust = 0 THEN s.fp.objsize = 0 /\ "DIRTY" \notin s.fp.flag
     ELSE /\ s.fp.sclust \in DOMAIN ch \ DOMAIN tab
          /\ SizeFits(ch[s.fp.sclust], s.fp.objsize)
          /\ Points(s.fp, ch[s.fp.sclust]) /\ Buffers(s.fp, ch[s.fp.sclust])

(* What a transfer leaves alone of the file object.                        *)
Kin(f, g) ==
  g.id = f.id /\ g.dir = f.dir /\ g.flag \ {"DIRTY", "MODIFIED"} = f.flag \ {"DIRTY", "MODIFIED"}
  /\ ("MODIFIED" \in f.flag => "MODIFIED" \in g.flag)

OnlyFlag(f, g) ==
  /\ DOMAIN g = DOMAIN f /\ g.id = f.id /\ g.err = f.err /\ g.sclust = f.sclust
  /\ g.objsize = f.objsize /\ g.fptr = f.fptr /\ g.clust = f.clust /\ g.sect = f.sect
  /\ g.buf = f.buf /\ g.dir = f.dir
Flushed(s, t, ch, tab, but) ==
  /\ DOMAIN t = {"v", "fp", "left", "got", "res"} /\ t.left = s.left /\ t.got = s.got /\ t.res = s.res
  /\ OnlyFlag(s.fp, t.fp) /\ t.fp.flag = s.fp.flag \ {"DIRTY"}
  /\ Good(t.v, ch, tab, but) /\ SameButDisk(s.v, t.v)

(* The buffer is written to a sector of the file, and no table changes.    *)
LEMMA WriteBackIs ==
  ASSUME NEW s, NEW ch, NEW tab, NEW but,
         DOMAIN s = {"v", "fp", "left", "got", "res"}, FilForm(s.fp), Good(s.v, ch, tab, but),
         "DIRTY" \in s.fp.flag =>
           \E o \in DOMAIN ch \ DOMAIN tab : Buffers(s.fp, ch[o])
  PROVE  Flushed(s, WriteBack(s), ch, tab, but)
<1> DEFINE t == WriteBack(s)
<1>1. CASE "DIRTY" \notin s.fp.flag
  <2>1. t = s  BY <1>1 DEF WriteBack
  <2>2. s.fp.flag \ {"DIRTY"} = s.fp.flag  BY <1>1
  <2> QED BY <2>1, <2>2 DEF Flushed, SameButDisk, OnlyFlag
<1>2. CASE "DIRTY" \in s.fp.flag
  <2>1. PICK o \in DOMAIN ch \ DOMAIN tab : Buffers(s.fp, ch[o])  BY <1>2
  <2>2. PICK k \in 1 .. Len(ch[o]) : s.fp.sect \in SectorsOf(ch[o][k])  BY <1>2, <2>1 DEF Buffers
  <2>3. Vol(s.v) /\ Chained(s.v.fat, ch)  BY DEF Good
  <2>4. s.fp.sect \in Sector
    <3>1. ch[o][k] \in Cluster  BY <2>3, StrandOf DEF Strand
    <3> QED BY <2>2, <3>1, SectorsAre
  <2>5. t = [s EXCEPT !.v.disk[s.fp.sect] = s.fp.buf, !.fp.flag = @ \ {"DIRTY"}]
    BY <1>2 DEF WriteBack
  <2>6. /\ DOMAIN t = {"v", "fp", "left", "got", "res"} /\ t.left = s.left /\ t.got = s.got
        /\ t.res = s.res /\ OnlyFlag(s.fp, t.fp) /\ t.fp.flag = s.fp.flag \ {"DIRTY"}
        /\ t.v = [s.v EXCEPT !.disk[s.fp.sect] = s.fp.buf]
    BY <2>5 DEF OnlyFlag, FilForm
  <2> HIDE DEF t
  <2>7. /\ DOMAIN t.v.disk = Sector /\ t.v.disk[s.fp.sect] = s.fp.buf
        /\ \A x \in Sector : x # s.fp.sect => t.v.disk[x] = s.v.disk[x]
    BY <2>3, <2>4, <2>6 DEF Vol
  <2>8. DOMAIN t.v = DOMAIN s.v /\ SameButDisk(s.v, t.v)
    BY <2>3, <2>6 DEF Vol, SameButDisk
  <2>9. Vol(t.v)
    BY <2>3, <2>7, <2>8 DEF Vol, SameButDisk, FilForm
  <2>10. Good(t.v, ch, tab, but)
    <3>1. \A x \in Sector : (\A j \in 1 .. Len(ch[o]) : x \notin SectorsOf(ch[o][j])) =>
                              t.v.disk[x] = s.v.disk[x]
      BY <2>2, <2>7
    <3>2. t.v.fat = s.v.fat  BY <2>8 DEF SameButDisk
    <3> QED BY <3>1, <3>2, <2>9, OwnSectors
  <2> QED BY <2>6, <2>8, <2>10 DEF Flushed, t
<1> QED BY <1>1, <1>2

(* f_read()                                                                *)
StateForm(s) == DOMAIN s = {"v", "fp", "left", "got", "res"} /\ s.left \in Nat /\ s.res = "OK"
Loose(s, ch, tab, but) ==
  /\ StateForm(s) /\ FilForm(s.fp) /\ Good(s.v, ch, tab, but)
  /\ s.fp.sclust \in DOMAIN ch \ DOMAIN tab
  /\ SizeFits(ch[s.fp.sclust], s.fp.objsize) /\ Buffers(s.fp, ch[s.fp.sclust])
Kept(f, g) ==
  /\ g.id = f.id /\ g.dir = f.dir /\ g.sclust = f.sclust /\ g.objsize = f.objsize
  /\ g.flag \ {"DIRTY"} = f.flag \ {"DIRTY"}

(* A file that has a chain, but for the position.                          *)
LEMMA FiledIsLoose ==
  ASSUME NEW s, NEW ch, NEW tab, NEW but, s.fp.sclust # 0
  PROVE  Filed(s, ch, tab, but) <=>
           Loose(s, ch, tab, but) /\ Points(s.fp, ch[s.fp.sclust])
BY DEF Filed, Loose, StateForm

Advanced(s, t, n) ==
  /\ DOMAIN t = {"v", "fp", "left", "got", "res"} /\ t.v = s.v /\ t.left = s.left - n /\ t.res = s.res
  /\ DOMAIN t.fp = DOMAIN s.fp /\ t.fp.id = s.fp.id /\ t.fp.flag = s.fp.flag /\ t.fp.err = s.fp.err
  /\ t.fp.sclust = s.fp.sclust /\ t.fp.objsize = s.fp.objsize /\ t.fp.fptr = s.fp.fptr + n
  /\ t.fp.clust = s.fp.clust /\ t.fp.sect = s.fp.sect /\ t.fp.buf = s.fp.buf
  /\ t.fp.dir = s.fp.dir

(* Advance() moves the position, and what is left of the transfer.         *)
LEMMA AdvanceIs ==
  ASSUME NEW s, DOMAIN s = {"v", "fp", "left", "got", "res"}, FilForm(s.fp), NEW n, NEW bytes
  PROVE  Advanced(s, Advance(s, n, bytes), n) /\ Advance(s, n, bytes).got = s.got \o bytes
BY DEF Advance, Advanced, FilForm

(* What a step of a transfer that changes no chain does.                   *)
Reads(s, t, ch, tab, but) ==
  /\ Filed(t, ch, tab, but) /\ SameButDisk(s.v, t.v) /\ Kept(s.fp, t.fp)
  /\ t.fp.fptr + t.left = s.fp.fptr + s.left

(* Bytes are read that end where Points() says.                            *)
LEMMA ReadOn ==
  ASSUME NEW s, NEW ch, NEW tab, NEW but, Loose(s, ch, tab, but),
         NEW n \in Nat, n # 0, n <= s.left, s.fp.fptr + s.left <= s.fp.objsize,
         NEW bytes,
         Points(Advance(s, n, bytes).fp, ch[s.fp.sclust])
  PROVE  Reads(s, Advance(s, n, bytes), ch, tab, but)
<1> DEFINE t == Advance(s, n, bytes)
<1>1. StateForm(s) /\ FilForm(s.fp)  BY DEF Loose
<1>2. Advanced(s, t, n)  BY <1>1, AdvanceIs DEF StateForm
<1>3. Points(t.fp, ch[s.fp.sclust])  OBVIOUS
<1> HIDE DEF t
<1>4. s.left \in Nat /\ s.fp.objsize \in Nat /\ s.fp.fptr \in 0 .. s.fp.objsize
  BY <1>1 DEF StateForm, FilForm
<1>5. /\ t.left \in Nat /\ t.fp.fptr \in 0 .. s.fp.objsize
      /\ t.fp.fptr + t.left = s.fp.fptr + s.left
  BY <1>2, <1>4 DEF Advanced
<1>6. StateForm(t) /\ FilForm(t.fp)
  BY <1>1, <1>2, <1>5 DEF StateForm, FilForm, Advanced
<1>7. Loose(t, ch, tab, but)
  <2>1. Buffers(t.fp, ch[s.fp.sclust])  BY <1>2 DEF Loose, Buffers, Advanced
  <2> QED BY <2>1, <1>2, <1>6 DEF Loose, Advanced
<1>8. t.fp.sclust # 0
  <2>1. Chained(t.v.fat, ch) /\ t.fp.sclust \in DOMAIN ch  BY <1>7 DEF Loose, Good
  <2> QED BY <2>1, Heads
<1>9. Filed(t, ch, tab, but)
  BY <1>2, <1>3, <1>7, <1>8, FiledIsLoose DEF Advanced
<1>10. SameButDisk(s.v, t.v) /\ Kept(s.fp, t.fp)
  BY <1>2 DEF Advanced, SameButDisk, Kept
<1> QED BY <1>5, <1>9, <1>10 DEF Reads, t

(* Bytes are read from the buffer.                                         *)
LEMMA ReadPartIs ==
  ASSUME NEW s, NEW ch, NEW tab, NEW but, Loose(s, ch, tab, but),
         s.left # 0, s.fp.fptr + s.left <= s.fp.objsize,
         s.fp.clust = ch[s.fp.sclust][s.fp.fptr \div CLSZ + 1],
         s.fp.sect = clst2sect(s.fp.clust) + (s.fp.fptr % CLSZ) \div SS
  PROVE  Reads(s, ReadPart(s), ch, tab, but)
<1> DEFINE p == s.fp.fptr
           ofs == p % SS
           n == Lesser(SS - ofs, s.left)
           bytes == [k \in 1 .. n |-> s.fp.buf[ofs + k - 1]]
           t == Advance(s, n, bytes)
<1>1. /\ StateForm(s) /\ FilForm(s.fp) /\ p \in Nat /\ s.left \in Nat
      /\ DOMAIN s = {"v", "fp", "left", "got", "res"}
  BY DEF Loose, StateForm, FilForm
<1>2. ofs \in 0 .. SS - 1 /\ SS \in Nat  BY <1>1, SectorEnd, Sizes
<1>3. n \in Nat /\ n # 0 /\ n <= s.left /\ ofs + n <= SS
  <2> HIDE DEF ofs
  <2> QED BY <1>1, <1>2 DEF Lesser
<1>4. ReadPart(s) = t  BY DEF ReadPart
<1>5. Advanced(s, t, n)
  <2> HIDE DEF n, bytes
  <2> QED BY <1>1, AdvanceIs
<1>6. Points(t.fp, ch[s.fp.sclust])
  <2>1. (p % SS) + n <= SS  BY <1>3
  <2> HIDE DEF t, n
  <2>2. t.fp.fptr = p + n /\ t.fp.clust = ch[s.fp.sclust][p \div CLSZ + 1]
        /\ t.fp.sect = clst2sect(t.fp.clust) + (p % CLSZ) \div SS
    BY <1>5 DEF Advanced
  <2> HIDE DEF p
  <2> QED BY <2>1, <2>2, <1>1, <1>3, PointsPart
<1>7. Reads(s, t, ch, tab, but)
  <2> HIDE DEF n, bytes
  <2> QED BY <1>3, <1>6, ReadOn
<1> QED BY <1>4, <1>7

(* Whole sectors are read past the buffer.                                 *)
LEMMA ReadSectorsIs ==
  ASSUME NEW s, NEW ch, NEW tab, NEW but, Loose(s, ch, tab, but),
         s.fp.fptr + s.left <= s.fp.objsize, s.fp.fptr % SS = 0,
         s.fp.clust = ch[s.fp.sclust][s.fp.fptr \div CLSZ + 1],
         NEW cc \in Nat, cc # 0, cc * SS <= s.left,
         cc <= CSIZE - (s.fp.fptr % CLSZ) \div SS, NEW sect
  PROVE  Reads(s, ReadSectors(s, sect, cc), ch, tab, but)
<1> DEFINE p == s.fp.fptr
           n == cc * SS
           Newest(q) == IF "DIRTY" \in s.fp.flag /\ s.fp.sect = q
                        THEN s.fp.buf ELSE s.v.disk[q]
           bytes == [k \in 1 .. n |-> Newest(sect + (k - 1) \div SS)[(k - 1) % SS]]
           t == Advance(s, n, bytes)
<1>1. /\ StateForm(s) /\ FilForm(s.fp) /\ p \in Nat /\ s.left \in Nat
      /\ DOMAIN s = {"v", "fp", "left", "got", "res"}
  BY DEF Loose, StateForm, FilForm
<1>2. n \in Nat /\ n # 0  BY <1>1, Sectors
<1>3. ReadSectors(s, sect, cc) = t  BY DEF ReadSectors
<1>4. Advanced(s, t, n)
  <2> HIDE DEF n, bytes
  <2> QED BY <1>1, AdvanceIs
<1>5. Points(t.fp, ch[s.fp.sclust])
  <2> HIDE DEF t
  <2>1. t.fp.fptr = p + cc * SS /\ t.fp.clust = ch[s.fp.sclust][p \div CLSZ + 1]
    BY <1>4 DEF Advanced
  <2> HIDE DEF p
  <2>2. p % SS = 0 /\ cc <= CSIZE - (p % CLSZ) \div SS  BY DEF p
  <2> QED BY <2>1, <2>2, <1>1, PointsWhole
<1>6. Reads(s, t, ch, tab, but)
  <2>1. n <= s.left  OBVIOUS
  <2> HIDE DEF n, bytes
  <2> QED BY <1>2, <1>5, <2>1, ReadOn
<1> QED BY <1>3, <1>6

(* The buffer gets a sector.                                               *)
Filled(s, t, sect) ==
  /\ DOMAIN t = {"v", "fp", "left", "got", "res"} /\ t.v = s.v /\ t.left = s.left /\ t.res = s.res
  /\ t.got = s.got /\ t.fp.sect = sect /\ t.fp.buf = s.v.disk[sect]
  /\ DOMAIN t.fp = DOMAIN s.fp /\ t.fp.id = s.fp.id /\ t.fp.flag = s.fp.flag /\ t.fp.err = s.fp.err
  /\ t.fp.sclust = s.fp.sclust /\ t.fp.objsize = s.fp.objsize /\ t.fp.fptr = s.fp.fptr
  /\ t.fp.clust = s.fp.clust /\ t.fp.dir = s.fp.dir

(* The buffer gets a sector, and nothing else changes.                     *)
LEMMA FillIs ==
  ASSUME NEW s, DOMAIN s = {"v", "fp", "left", "got", "res"}, FilForm(s.fp), NEW sect
  PROVE  Filled(s, Fill(s, sect), sect)
BY DEF Fill, Filled, FilForm

(* What waits in the buffer is written before it gets another sector.      *)
LEMMA FetchIs ==
  ASSUME NEW s, NEW ch, NEW tab, NEW but, Loose(s, ch, tab, but), NEW sect \in Sector
  PROVE  LET t == Fill(WriteBack(s), sect)
         IN  /\ Loose(t, ch, tab, but) /\ SameButDisk(s.v, t.v) /\ Kept(s.fp, t.fp)
             /\ t.fp.sect = sect /\ t.fp.clust = s.fp.clust /\ t.fp.fptr = s.fp.fptr
             /\ t.left = s.left /\ t.fp.flag = s.fp.flag \ {"DIRTY"}
<1> DEFINE u == WriteBack(s)
           t == Fill(u, sect)
<1>1. StateForm(s) /\ FilForm(s.fp) /\ Good(s.v, ch, tab, but)
      /\ DOMAIN s = {"v", "fp", "left", "got", "res"}
      /\ s.fp.sclust \in DOMAIN ch \ DOMAIN tab /\ Buffers(s.fp, ch[s.fp.sclust])
  BY DEF Loose, StateForm
<1>2. Flushed(s, u, ch, tab, but)  BY <1>1, WriteBackIs
<1> HIDE DEF u
<1>3. FilForm(u.fp) /\ DOMAIN u = {"v", "fp", "left", "got", "res"}
  BY <1>1, <1>2 DEF Flushed, FilForm, OnlyFlag
<1>4. Filled(u, t, sect)  BY <1>3, FillIs
<1> HIDE DEF t
<1>5. Vol(u.v)  BY <1>2 DEF Flushed, Good
<1>6. FilForm(t.fp)
  <2>1. DOMAIN t.fp.buf = Slot  BY <1>4, <1>5 DEF Filled, Vol
  <2> QED BY <2>1, <1>3, <1>4 DEF Filled, FilForm
<1>7. StateForm(t) /\ Good(t.v, ch, tab, but)
  BY <1>1, <1>2, <1>4 DEF StateForm, Flushed, Filled
<1>8. t.fp.flag = s.fp.flag \ {"DIRTY"} /\ t.fp.sclust = s.fp.sclust /\ t.fp.objsize = s.fp.objsize
      /\ t.fp.id = s.fp.id /\ t.fp.dir = s.fp.dir /\ t.fp.clust = s.fp.clust
      /\ t.fp.fptr = s.fp.fptr /\ t.left = s.left /\ t.fp.sect = sect
  BY <1>2, <1>4 DEF Flushed, Filled, OnlyFlag
<1>9. Loose(t, ch, tab, but)
  BY <1>1, <1>6, <1>7, <1>8 DEF Loose, Buffers
<1>10. SameButDisk(s.v, t.v)  BY <1>2, <1>4 DEF Flushed, Filled
<1>11. Kept(s.fp, t.fp)  BY <1>8 DEF Kept
<1> QED BY <1>8, <1>9, <1>10, <1>11 DEF t, u

(* One sector of a read, or several, from a cluster that is known.         *)
LEMMA ReadFromIs ==
  ASSUME NEW s, NEW ch, NEW tab, NEW but, Loose(s, ch, tab, but),
         s.left # 0, s.fp.fptr + s.left <= s.fp.objsize, s.fp.fptr % SS = 0,
         s.fp.clust = ch[s.fp.sclust][s.fp.fptr \div CLSZ + 1], s.fp.clust \in Cluster,
         NEW y, y = (s.fp.fptr % CLSZ) \div SS
  PROVE  Reads(s, ReadFrom(s, clst2sect(s.fp.clust) + y, Lesser(s.left \div SS, CSIZE - y)),
               ch, tab, but)
<1> DEFINE sect == clst2sect(s.fp.clust) + y
           b == s.left \div SS
           cc == Lesser(b, CSIZE - y)
<1>1. s.left \in Nat /\ s.fp.fptr \in Nat /\ SS \in Nat /\ SS # 0 /\ CSIZE \in Nat
  BY Sizes DEF Loose, StateForm, FilForm
<1>2. y \in 0 .. CSIZE - 1  BY <1>1, Position
<1>3. b \in Nat /\ s.left % SS \in 0 .. SS - 1 /\ s.left = (SS * b) + (s.left % SS)
  BY <1>1, Division
<1>4. cc \in Nat /\ cc <= b /\ cc <= CSIZE - y /\ (cc = 0 => b = 0)
  <2> HIDE DEF b
  <2> QED BY <1>1, <1>2, <1>3 DEF Lesser
<1>5. CASE cc # 0
  <2>1. cc * SS <= s.left
    <3>1. SS * cc <= SS * b
      <4> HIDE DEF cc, b
      <4> QED BY <1>1, <1>3, <1>4
    <3>2. SS * cc = cc * SS /\ SS * cc \in Nat
      <4> HIDE DEF cc, b
      <4> QED BY <1>1, <1>4
    <3> DEFINE m == SS * b
               z == s.left % SS
               n == SS * cc
    <3>3. m \in Nat  BY <1>1, <1>3, OneMore
    <3>4. s.left = m + z /\ z \in 0 .. SS - 1 /\ n <= m  BY <1>3, <3>1
    <3>5. n \in Nat  BY <3>2
    <3> HIDE DEF m, z, n
    <3>6. n <= s.left  BY <3>3, <3>4, <3>5, <1>1
    <3> QED BY <3>2, <3>6 DEF n
  <2>2. ReadFrom(s, sect, cc) = ReadSectors(s, sect, cc)
    <3> HIDE DEF cc
    <3> QED BY <1>4, <1>5 DEF ReadFrom
  <2>3. Reads(s, ReadSectors(s, sect, cc), ch, tab, but)
    <3> HIDE DEF cc, sect
    <3> QED BY <1>4, <1>5, <2>1, ReadSectorsIs
  <2> QED BY <2>2, <2>3
<1>6. CASE cc = 0
  <2> DEFINE t == IF s.fp.sect = sect THEN s ELSE Fill(WriteBack(s), sect)
  <2>1. ReadFrom(s, sect, cc) = ReadPart(t)
    <3> HIDE DEF cc
    <3> QED BY <1>6 DEF ReadFrom
  <2>2. sect \in SectorsOf(s.fp.clust) /\ sect \in Sector
    <3>1. clst2sect(s.fp.clust) \in Nat  BY SectorsAre
    <3>2. sect \in SectorsOf(s.fp.clust)
      <4> HIDE DEF cc
      <4> QED BY <3>1, <1>1, <1>2 DEF SectorsOf
    <3> QED BY <3>2, SectorsAre
  <2>3. /\ Loose(t, ch, tab, but) /\ SameButDisk(s.v, t.v) /\ Kept(s.fp, t.fp)
        /\ t.fp.sect = sect /\ t.fp.clust = s.fp.clust /\ t.fp.fptr = s.fp.fptr
        /\ t.left = s.left
    <3>1. CASE s.fp.sect = sect
      BY <3>1 DEF SameButDisk, Kept
    <3>2. CASE s.fp.sect # sect
      <4> HIDE DEF sect
      <4>1. t = Fill(WriteBack(s), sect)  BY <3>2
      <4> HIDE DEF t
      <4> QED BY <4>1, <2>2, FetchIs
    <3> QED BY <3>1, <3>2
  <2>4. t.fp.sclust = s.fp.sclust /\ t.fp.objsize = s.fp.objsize  BY <2>3 DEF Kept
  <2>5. Reads(t, ReadPart(t), ch, tab, but)
    <3>1. t.fp.sect = clst2sect(t.fp.clust) + (t.fp.fptr % CLSZ) \div SS  BY <2>3
    <3> HIDE DEF t
    <3> QED BY <2>3, <2>4, <3>1, ReadPartIs
  <2> HIDE DEF t
  <2>6. Reads(s, ReadPart(t), ch, tab, but)
    BY <2>3, <2>5 DEF Reads, SameButDisk, Kept
  <2> QED BY <2>1, <2>6
<1> QED BY <1>5, <1>6

(* A transfer goes step by step: f_read(), f_write() or f_lseek().         *)
Turn(kind, b, s) ==
  IF kind = "read" THEN ReadStep(s) ELSE IF kind = "write" THEN WriteStep(s, b) ELSE SeekStep(s)
Turns(kind, b, s, N, f) ==
  /\ f = [n \in 0 .. N |-> f[n]] /\ f[0] = s
  /\ \A n \in 1 .. N : f[n] = Turn(kind, b, f[n - 1])

(* There is such a sequence of turns.                                      *)
LEMMA Turning ==
  ASSUME NEW N \in Nat, NEW kind, NEW b, NEW s
  PROVE  \E f : Turns(kind, b, s, N, f)
<1> DEFINE S == {k \in 0 .. N : \E f : Turns(kind, b, s, k, f)}
<1>1. 0 \in S
  <2> DEFINE f == [n \in 0 .. 0 |-> s]
  <2>1. f = [n \in 0 .. 0 |-> f[n]] /\ f[0] = s /\ 1 .. 0 = {}  OBVIOUS
  <2> HIDE DEF f
  <2>2. Turns(kind, b, s, 0, f)  BY <2>1 DEF Turns
  <2> QED BY <2>2
<1>2. ASSUME NEW k \in 0 .. N - 1, k \in S  PROVE k + 1 \in S
  <2>1. PICK f : Turns(kind, b, s, k, f)  BY <1>2
  <2> DEFINE h == [n \in 0 .. k + 1 |-> IF n = k + 1 THEN Turn(kind, b, f[k]) ELSE f[n]]
  <2>2. k \in Nat /\ k + 1 \in 0 .. N /\ k + 1 # 0 /\ (k + 1) - 1 = k /\ k # k + 1
        /\ k + 1 \in 0 .. k + 1 /\ 0 \in 0 .. k + 1
    OBVIOUS
  <2>3. \A n \in 0 .. k : n # k + 1 /\ n \in 0 .. k + 1 /\ h[n] = f[n]
    BY <2>2
  <2>4. h[k + 1] = Turn(kind, b, f[k]) /\ h[k] = f[k] /\ h[0] = s
    <3>1. f[0] = s  BY <2>1 DEF Turns
    <3>2. k \in 0 .. k /\ 0 \in 0 .. k  BY <2>2
    <3> QED BY <3>1, <3>2, <2>2, <2>3
  <2>5. h = [n \in 0 .. k + 1 |-> h[n]]  OBVIOUS
  <2> HIDE DEF h
  <2>6. ASSUME NEW n \in 1 .. k + 1  PROVE h[n] = Turn(kind, b, h[n - 1])
    <3>1. CASE n = k + 1  BY <3>1, <2>2, <2>4
    <3>2. CASE n # k + 1
      <4>1. n \in 1 .. k /\ n \in 0 .. k /\ n - 1 \in 0 .. k  BY <3>2, <2>2
      <4>2. f[n] = Turn(kind, b, f[n - 1])  BY <4>1, <2>1 DEF Turns
      <4> QED BY <4>1, <4>2, <2>3
    <3> QED BY <3>1, <3>2
  <2>7. Turns(kind, b, s, k + 1, h)  BY <2>4, <2>5, <2>6 DEF Turns
  <2> QED BY <2>2, <2>7
<1>3. N \in S
  <2> HIDE DEF S
  <2>1. \A k \in 0 .. N : k \in S  BY <1>1, <1>2, Induction
  <2> QED BY <2>1
<1> QED BY <1>3

(* What a turn of each kind is.                                            *)
LEMMA TurnIs ==
  /\ \A s, b : Turn("read", b, s) = ReadStep(s)
  /\ \A s, b : Turn("write", b, s) = WriteStep(s, b)
  /\ \A s, b : Turn("seek", b, s) = SeekStep(s)
BY DEF Turn

(* The loop of f_read() is such a sequence.                                *)
LEMMA ReadTurns ==
  ASSUME NEW N \in Nat, NEW s
  PROVE  \E f : Turns("read", 0, s, N, f) /\ Repeat(ReadStep, s, N) = f[N]
<1> DEFINE Body(go) == [k \in 0 .. N |-> IF k = 0 THEN s ELSE ReadStep(go[k - 1])]
           f == CHOOSE go : go = Body(go)
<1>1. PICK g : Turns("read", 0, s, N, g)  BY Turning
<1>2. g = Body(g)
  <2>1. g = [k \in 0 .. N |-> g[k]] /\ g[0] = s  BY <1>1 DEF Turns
  <2>2. \A k \in 1 .. N : g[k] = ReadStep(g[k - 1])  BY <1>1, TurnIs DEF Turns
  <2>3. \A k \in 0 .. N : k # 0 => k \in 1 .. N  OBVIOUS
  <2>4. \A k \in 0 .. N : g[k] = IF k = 0 THEN s ELSE ReadStep(g[k - 1])
    <3> HIDE DEF f, Body
    <3> QED BY <2>1, <2>2, <2>3
  <2> QED BY <2>1, <2>4
<1>3. f = Body(f)
  <2> HIDE DEF Body
  <2> QED BY <1>2
<1>4. Repeat(ReadStep, s, N) = f[N]  BY DEF Repeat
<1> HIDE DEF f
<1>5. Turns("read", 0, s, N, f)
  <2>1. \A k \in 0 .. N : f[k] = IF k = 0 THEN s ELSE ReadStep(f[k - 1])  BY <1>3
  <2>2. f = [k \in 0 .. N |-> f[k]]  BY <1>3
  <2>3. \A k \in 1 .. N : f[k] = ReadStep(f[k - 1])  BY <2>1
  <2>4. \A k \in 1 .. N : f[k] = Turn("read", 0, f[k - 1])  BY <2>3, TurnIs
  <2>5. f[0] = s  BY <2>1
  <2> HIDE DEF Body
  <2> QED BY <2>2, <2>4, <2>5 DEF Turns
<1> QED BY <1>4, <1>5

(* The loop of f_write() is.                                               *)
LEMMA WriteTurns ==
  ASSUME NEW N \in Nat, NEW s, NEW b
  PROVE  \E f : Turns("write", b, s, N, f) /\ WriteAll(s, b, N) = f[N]
<1> DEFINE Body(go) == [k \in 0 .. N |-> IF k = 0 THEN s ELSE WriteStep(go[k - 1], b)]
           f == CHOOSE go : go = Body(go)
<1>1. PICK g : Turns("write", b, s, N, g)  BY Turning
<1>2. g = Body(g)
  <2>1. g = [k \in 0 .. N |-> g[k]] /\ g[0] = s  BY <1>1 DEF Turns
  <2>2. \A k \in 1 .. N : g[k] = WriteStep(g[k - 1], b)  BY <1>1, TurnIs DEF Turns
  <2>3. \A k \in 0 .. N : k # 0 => k \in 1 .. N  OBVIOUS
  <2>4. \A k \in 0 .. N : g[k] = IF k = 0 THEN s ELSE WriteStep(g[k - 1], b)
    <3> HIDE DEF f, Body
    <3> QED BY <2>1, <2>2, <2>3
  <2> QED BY <2>1, <2>4
<1>3. f = Body(f)
  <2> HIDE DEF Body
  <2> QED BY <1>2
<1>4. WriteAll(s, b, N) = f[N]  BY DEF Repeat, WriteAll
<1> HIDE DEF f
<1>5. Turns("write", b, s, N, f)
  <2>1. \A k \in 0 .. N : f[k] = IF k = 0 THEN s ELSE WriteStep(f[k - 1], b)  BY <1>3
  <2>2. f = [k \in 0 .. N |-> f[k]]  BY <1>3
  <2>3. \A k \in 1 .. N : f[k] = WriteStep(f[k - 1], b)  BY <2>1
  <2>4. \A k \in 1 .. N : f[k] = Turn("write", b, f[k - 1])  BY <2>3, TurnIs
  <2>5. f[0] = s  BY <2>1
  <2> HIDE DEF Body
  <2> QED BY <2>2, <2>4, <2>5 DEF Turns
<1> QED BY <1>4, <1>5

(* The loop of f_lseek() is.                                               *)
LEMMA SeekTurns ==
  ASSUME NEW N \in Nat, NEW s
  PROVE  \E f : Turns("seek", 0, s, N, f) /\ Repeat(SeekStep, s, N) = f[N]
<1> DEFINE Body(go) == [k \in 0 .. N |-> IF k = 0 THEN s ELSE SeekStep(go[k - 1])]
           f == CHOOSE go : go = Body(go)
<1>1. PICK g : Turns("seek", 0, s, N, g)  BY Turning
<1>2. g = Body(g)
  <2>1. g = [k \in 0 .. N |-> g[k]] /\ g[0] = s  BY <1>1 DEF Turns
  <2>2. \A k \in 1 .. N : g[k] = SeekStep(g[k - 1])  BY <1>1, TurnIs DEF Turns
  <2>3. \A k \in 0 .. N : k # 0 => k \in 1 .. N  OBVIOUS
  <2>4. \A k \in 0 .. N : g[k] = IF k = 0 THEN s ELSE SeekStep(g[k - 1])
    <3> HIDE DEF f, Body
    <3> QED BY <2>1, <2>2, <2>3
  <2> QED BY <2>1, <2>4
<1>3. f = Body(f)
  <2> HIDE DEF Body
  <2> QED BY <1>2
<1>4. Repeat(SeekStep, s, N) = f[N]  BY DEF Repeat
<1> HIDE DEF f
<1>5. Turns("seek", 0, s, N, f)
  <2>1. \A k \in 0 .. N : f[k] = IF k = 0 THEN s ELSE SeekStep(f[k - 1])  BY <1>3
  <2>2. f = [k \in 0 .. N |-> f[k]]  BY <1>3
  <2>3. \A k \in 1 .. N : f[k] = SeekStep(f[k - 1])  BY <2>1
  <2>4. \A k \in 1 .. N : f[k] = Turn("seek", 0, f[k - 1])  BY <2>3, TurnIs
  <2>5. f[0] = s  BY <2>1
  <2> HIDE DEF Body
  <2> QED BY <2>2, <2>4, <2>5 DEF Turns
<1> QED BY <1>4, <1>5

(* The cluster changes, and nothing else.                                  *)
OnlyClust(s, t, c) ==
  /\ DOMAIN t = {"v", "fp", "left", "got", "res"} /\ t.v = s.v /\ t.left = s.left /\ t.got = s.got
  /\ t.res = s.res /\ DOMAIN t.fp = DOMAIN s.fp /\ t.fp.id = s.fp.id /\ t.fp.err = s.fp.err
  /\ t.fp.sclust = s.fp.sclust /\ t.fp.objsize = s.fp.objsize /\ t.fp.fptr = s.fp.fptr
  /\ t.fp.clust = c /\ t.fp.sect = s.fp.sect /\ t.fp.buf = s.fp.buf /\ t.fp.dir = s.fp.dir
  /\ t.fp.flag = s.fp.flag

(* The current cluster is assigned.                                        *)
LEMMA ClustIs ==
  ASSUME NEW s, DOMAIN s = {"v", "fp", "left", "got", "res"}, FilForm(s.fp), NEW c
  PROVE  OnlyClust(s, [s EXCEPT !.fp.clust = c], c)
BY DEF OnlyClust, FilForm

(* One sector of a read, and the bytes of a read.                          *)
LEMMA ReadStepIs ==
  ASSUME NEW s, NEW ch, NEW tab, NEW but, Filed(s, ch, tab, but),
         s.fp.fptr + s.left <= s.fp.objsize
  PROVE  Reads(s, ReadStep(s), ch, tab, but)
<1> DEFINE f == s.fp
           p == f.fptr
           q == ch[f.sclust]
           a == p \div CLSZ
           l == Len(q) * CLSZ
<1>1. /\ StateForm(s) /\ FilForm(f) /\ p \in Nat /\ s.left \in Nat /\ f.objsize \in Nat
      /\ DOMAIN s = {"v", "fp", "left", "got", "res"} /\ s.res = "OK"
  BY DEF Filed, StateForm, FilForm
<1>2. CASE s.left = 0
  <2>1. ReadStep(s) = s  BY <1>2 DEF ReadStep
  <2> QED BY <2>1 DEF Reads, SameButDisk, Kept
<1>3. CASE s.left # 0
  <2>1. f.sclust # 0  BY <1>1, <1>3 DEF Filed
  <2>2. Loose(s, ch, tab, but) /\ Points(f, q)  BY <2>1, FiledIsLoose
  <2>3. CASE ~OnSector(f)
    <3>1. ReadStep(s) = ReadPart(s)  BY <1>1, <1>3, <2>3 DEF ReadStep
    <3>2. p % SS # 0  BY <2>3 DEF OnSector
    <3>3. p > 0 /\ (p - 1) \div CLSZ = p \div CLSZ
      <4> HIDE DEF p
      <4> QED BY <1>1, <3>2, Inside
    <3>4. f.clust = q[p \div CLSZ + 1] /\ f.sect = clst2sect(f.clust) + (p % CLSZ) \div SS
      BY <2>2, <3>2, <3>3 DEF Points
    <3> QED BY <3>1, <3>4, <1>3, <2>2, ReadPartIs
  <2>4. CASE OnSector(f)
    <3>1. Good(s.v, ch, tab, but) /\ Vol(s.v) /\ Chained(s.v.fat, ch) /\ f.sclust \in DOMAIN ch
      BY <2>2 DEF Loose, Good
    <3>2. Strand(s.v.fat, f.sclust, q)  BY <3>1, StrandOf
    <3>3. p % SS = 0  BY <2>4 DEF OnSector
    <3>4. f.objsize <= l
      <4>1. SizeFits(q, f.objsize)  BY <2>2 DEF Loose
      <4>2. l \in Nat /\ (Len(q) - 1) * CLSZ + 1 \in Int
        <5>1. Len(q) - 1 \in Int /\ CLSZ \in Int  BY <3>2, Sizes DEF Strand
        <5>2. (Len(q) - 1) * CLSZ \in Int
          <6> DEFINE m == Len(q) - 1
          <6> HIDE DEF m
          <6>1. m \in Int  BY <5>1 DEF m
          <6>2. m * CLSZ \in Int  BY <6>1, <5>1
          <6> QED BY <6>2 DEF m
        <5>3. l \in Nat  BY <3>2, RowIs
        <5> DEFINE x == (Len(q) - 1) * CLSZ
        <5> HIDE DEF x, l
        <5>4. x + 1 \in Int  BY <5>2 DEF x
        <5> QED BY <5>3, <5>4 DEF x
      <4> HIDE DEF l
      <4>3. f.objsize \in (Len(q) - 1) * CLSZ + 1 .. l  BY <4>1 DEF SizeFits, l
      <4> DEFINE x == (Len(q) - 1) * CLSZ + 1
      <4> HIDE DEF x
      <4> QED BY <4>2, <4>3 DEF x
    <3>5. l \in Nat  BY <3>2, RowIs
    <3>6. p < l /\ p <= l
      <4> HIDE DEF l
      <4> QED BY <3>4, <3>5, <1>1, <1>3
    <3>7. Facing(f, q)
      <4> HIDE DEF q
      <4> QED BY <3>2, <2>2, <3>3, <3>6, <1>1, FacingIs
    <3> DEFINE clst == IF Csect(f) # 0 THEN f.clust
                       ELSE IF f.fptr = 0 THEN f.sclust ELSE get_fat(s.v, f.clust)
    <3>8. a + 1 \in 1 .. Len(q) /\ a \in Nat  BY <3>6, <3>7 DEF Facing
    <3>9. clst = q[a + 1]
      <4>1. CASE Csect(f) # 0  BY <4>1, <3>7 DEF Facing
      <4>2. CASE Csect(f) = 0 /\ p = 0
        <5>1. clst = f.sclust /\ a = 0  BY <4>2, <3>7 DEF Facing
        <5>2. q[1] = f.sclust  BY <3>2 DEF Strand
        <5> HIDE DEF a, clst, q
        <5>3. a + 1 = 1  BY <5>1
        <5> QED BY <5>1, <5>2, <5>3
      <4>3. CASE Csect(f) = 0 /\ p # 0
        <5>1. clst = get_fat(s.v, q[a]) /\ a \in 1 .. Len(q)  BY <4>3, <3>7 DEF Facing
        <5> HIDE DEF a, clst
        <5>2. LinkOf(s.v, q, a)  BY <3>1, <5>1, NextLink
        <5>3. Len(q) \in Nat  BY <3>2 DEF Strand
        <5>4. a < Len(q)
          <6> HIDE DEF q
          <6> QED BY <3>8, <5>3
        <5> QED BY <5>1, <5>2, <5>4 DEF LinkOf
      <4> QED BY <4>1, <4>2, <4>3
    <3>10. clst \in Cluster  BY <3>2, <3>8, <3>9 DEF Strand
    <3> DEFINE t == [s EXCEPT !.fp.clust = clst]
               y == (p % CLSZ) \div SS
    <3>11. ReadStep(s) = ReadFrom(t, clst2sect(clst) + y, Lesser(s.left \div SS, CSIZE - y))
      <4>1. Csect(f) = y  BY <3>7 DEF Facing
      <4> HIDE DEF y
      <4> QED BY <4>1, <1>1, <1>3, <2>4, <3>10 DEF ReadStep
    <3>12. OnlyClust(s, t, clst)
      <4> HIDE DEF clst
      <4> QED BY <1>1, ClustIs
    <3> HIDE DEF t
    <3>13. Loose(t, ch, tab, but)
      <4>1. FilForm(t.fp) /\ StateForm(t)
        <5> HIDE DEF clst
        <5> QED BY <3>10, <3>12, <1>1 DEF OnlyClust, FilForm, StateForm
      <4>2. Buffers(t.fp, ch[t.fp.sclust])
        BY <2>2, <3>12 DEF Loose, Buffers, OnlyClust
      <4> QED BY <4>1, <4>2, <2>2, <3>12 DEF Loose, OnlyClust
    <3>14. Reads(t, ReadStep(s), ch, tab, but)
      <4>1. /\ t.left = s.left /\ t.fp.fptr = p /\ t.fp.objsize = f.objsize /\ t.fp.clust = clst
            /\ t.fp.sclust = f.sclust
        BY <3>12 DEF OnlyClust
      <4> HIDE DEF clst
      <4>2. ReadStep(s) = ReadFrom(t, clst2sect(t.fp.clust) + y, Lesser(t.left \div SS, CSIZE - y))
        BY <3>11, <4>1
      <4>3. /\ t.left # 0 /\ t.fp.fptr + t.left <= t.fp.objsize /\ t.fp.fptr % SS = 0
            /\ t.fp.clust = ch[t.fp.sclust][t.fp.fptr \div CLSZ + 1] /\ t.fp.clust \in Cluster
            /\ y = (t.fp.fptr % CLSZ) \div SS
        BY <4>1, <1>3, <3>3, <3>9, <3>10
      <4> HIDE DEF y
      <4> QED BY <4>2, <4>3, <3>13, ReadFromIs
    <3> QED BY <3>12, <3>14 DEF Reads, OnlyClust, SameButDisk, Kept
  <2> QED BY <2>3, <2>4
<1> QED BY <1>1, <1>2, <1>3

(* A whole read keeps the file in step with its chain.                     *)
LEMMA Reading ==
  ASSUME NEW s, NEW ch, NEW tab, NEW but, Filed(s, ch, tab, but),
         s.fp.fptr + s.left <= s.fp.objsize, NEW N \in Nat
  PROVE  Reads(s, Repeat(ReadStep, s, N), ch, tab, but)
<1>1. PICK f : Turns("read", 0, s, N, f) /\ Repeat(ReadStep, s, N) = f[N]  BY ReadTurns
<1> DEFINE S == {n \in 0 .. N : Reads(s, f[n], ch, tab, but)}
<1>2. 0 \in S
  <2>1. f[0] = s  BY <1>1 DEF Turns
  <2>2. Reads(s, s, ch, tab, but)  BY DEF Reads, SameButDisk, Kept
  <2> QED BY <2>1, <2>2
<1>3. ASSUME NEW n \in 0 .. N - 1, n \in S  PROVE n + 1 \in S
  <2>1. Reads(s, f[n], ch, tab, but)  BY <1>3
  <2>2. n + 1 \in 1 .. N /\ n + 1 \in 0 .. N /\ (n + 1) - 1 = n  OBVIOUS
  <2>3. f[n + 1] = ReadStep(f[n])  BY <1>1, <2>2, TurnIs DEF Turns
  <2>4. f[n].fp.fptr + f[n].left <= f[n].fp.objsize /\ Filed(f[n], ch, tab, but)
    BY <2>1 DEF Reads, Kept
  <2>5. Reads(f[n], f[n + 1], ch, tab, but)  BY <2>3, <2>4, ReadStepIs
  <2>6. Reads(s, f[n + 1], ch, tab, but)  BY <2>1, <2>5 DEF Reads, SameButDisk, Kept
  <2> QED BY <2>2, <2>6
<1>4. N \in S
  <2> HIDE DEF S
  <2>1. \A n \in 0 .. N : n \in S  BY <1>2, <1>3, Induction
  <2> QED BY <2>1
<1> QED BY <1>1, <1>4

(* f_write(): the size of the file and the length of its chain agree, but  *)
(* for a moment when the chain has got a cluster for the position.         *)
Fits(q, size, p) == SizeFits(q, size) \/ (size = (Len(q) - 1) * CLSZ /\ p = size)

(* Sizes of chains and of their clusters but the last.                     *)
LEMMA Products ==
  ASSUME NEW b \in Nat, NEW l \in Nat, l # 0, NEW a \in Nat, a + 1 <= l
  PROVE  /\ (l - 1) * b \in Nat /\ l * b \in Nat /\ l * b = (l - 1) * b + b
         /\ b * a \in Nat /\ b * a <= (l - 1) * b
<1> DEFINE k == l - 1
<1>1. k \in Nat /\ a <= k /\ l = k + 1  OBVIOUS
<1> HIDE DEF k
<1>2. k * b \in Nat /\ b * k = k * b /\ b * a \in Nat /\ (k + 1) * b = k * b + b  BY <1>1
<1>3. b * a <= b * k  BY <1>1
<1> QED BY <1>1, <1>2, <1>3 DEF k

(* Bytes within the last cluster, or before it, leave the size in step.    *)
LEMMA FitsMore ==
  ASSUME NEW q, Len(q) \in Nat, NEW size \in Nat, NEW p \in 0 .. size,
         p \div CLSZ + 1 \in 1 .. Len(q), Fits(q, size, p),
         NEW n \in Nat, n # 0, (p % CLSZ) + n <= CLSZ,
         NEW new, new = IF p + n > size THEN p + n ELSE size
  PROVE  SizeFits(q, new) /\ new \in Nat /\ p + n \in 0 .. new
<1> DEFINE a == p \div CLSZ
           x == p % CLSZ
           m == (Len(q) - 1) * CLSZ
           l == Len(q) * CLSZ
           u == CLSZ * a
<1>1. p \in Nat  OBVIOUS
<1>2. a \in Nat /\ x \in 0 .. CLSZ - 1 /\ p = u + x /\ CLSZ \in Nat
  BY <1>1, Position, Sizes
<1>3. m \in Nat /\ l \in Nat /\ l = m + CLSZ /\ u \in Nat /\ u <= m
  <2>1. Len(q) # 0 /\ a + 1 <= Len(q)  BY <1>2
  <2> HIDE DEF a
  <2> QED BY <2>1, <1>2, Products
<1>4. size \in m + 1 .. l \/ (size = m /\ p = size)
  BY DEF Fits, SizeFits
<1>5. x + n <= CLSZ  OBVIOUS
<1> HIDE DEF a, x, m, l, u
<1>6. new \in m + 1 .. l  BY <1>1, <1>2, <1>3, <1>4, <1>5
<1>7. new \in Nat /\ p + n \in 0 .. new  BY <1>1
<1> QED BY <1>6, <1>7 DEF SizeFits, m, l

(* Changes of one file's chain follow one another.                         *)
LEMMA RechainsOn ==
  ASSUME NEW ch, NEW dh, NEW eh, NEW s, NEW r, NEW t, Rechains(ch, dh, s, r), Rechains(dh, eh, r, t),
         s # 0 => s \in DOMAIN ch, 0 \notin DOMAIN ch
  PROVE  Rechains(ch, eh, s, t)
<1>1. DOMAIN dh = (DOMAIN ch \ {s}) \cup ({r} \ {0}) /\ (r = s \/ r \notin DOMAIN ch)
  BY DEF Rechains
<1>2. DOMAIN eh = (DOMAIN dh \ {r}) \cup ({t} \ {0}) /\ (t = r \/ t \notin DOMAIN dh)
  BY DEF Rechains
<1>3. DOMAIN eh = (DOMAIN ch \ {s}) \cup ({t} \ {0})  BY <1>1, <1>2
<1>4. ASSUME NEW x \in DOMAIN ch, x # s  PROVE eh[x] = ch[x]
  <2>1. x \in DOMAIN dh /\ x # r  BY <1>1, <1>4
  <2>2. dh[x] = ch[x] /\ eh[x] = dh[x]  BY <1>4, <2>1 DEF Rechains
  <2> QED BY <2>2
<1>5. t = s \/ t \notin DOMAIN ch  BY <1>1, <1>2
<1> QED BY <1>3, <1>4, <1>5 DEF Rechains

(* A chain that does not change.                                           *)
LEMMA RechainsSame ==
  ASSUME NEW ch, NEW s, s # 0 => s \in DOMAIN ch, 0 \notin DOMAIN ch
  PROVE  Rechains(ch, ch, s, s)
BY DEF Rechains

(* The file object is where its next bytes go.                             *)
Ready(s, ch, tab, but) ==
  /\ StateForm(s) /\ FilForm(s.fp) /\ Good(s.v, ch, tab, but)
  /\ s.fp.sclust \in DOMAIN ch \ DOMAIN tab
  /\ Fits(ch[s.fp.sclust], s.fp.objsize, s.fp.fptr)
  /\ s.fp.fptr \div CLSZ + 1 \in 1 .. Len(ch[s.fp.sclust])
  /\ s.fp.clust = ch[s.fp.sclust][s.fp.fptr \div CLSZ + 1]

(* What is written is accepted: of n bytes                                 *)
Accepted(s, t, n) ==
  /\ DOMAIN t = {"v", "fp", "left", "got", "res"} /\ t.v = s.v /\ t.left = s.left - n /\ t.res = s.res
  /\ DOMAIN t.fp = DOMAIN s.fp /\ t.fp.id = s.fp.id /\ t.fp.flag = s.fp.flag /\ t.fp.err = s.fp.err
  /\ t.fp.sclust = s.fp.sclust /\ t.fp.fptr = s.fp.fptr + n
  /\ t.fp.objsize = IF s.fp.fptr + n > s.fp.objsize THEN s.fp.fptr + n ELSE s.fp.objsize
  /\ t.fp.clust = s.fp.clust /\ t.fp.sect = s.fp.sect /\ t.fp.buf = s.fp.buf
  /\ t.fp.dir = s.fp.dir
Counted(s, bytes) ==
  \E U : bytes \in Seq(U) /\ s.got \in Seq(U) /\ Len(s.got) + s.left = Len(bytes)

(* A part of a sequence.                                                   *)
LEMMA Part ==
  ASSUME NEW U, NEW b \in Seq(U), NEW i \in Nat, NEW n \in Nat, i + n <= Len(b)
  PROVE  SubSeq(b, i + 1, i + n) \in Seq(U) /\ Len(SubSeq(b, i + 1, i + n)) = n
<1> DEFINE s == SubSeq(b, i + 1, i + n)
<1>1. s = [k \in 1 .. n |-> b[k + i]]
  <2>1. s = [k \in 1 .. ((i + n) - (i + 1) + 1) |-> b[k + (i + 1) - 1]]  OBVIOUS
  <2>2. (i + n) - (i + 1) + 1 = n  OBVIOUS
  <2>3. \A k \in 1 .. n : k + (i + 1) - 1 = k + i  OBVIOUS
  <2> QED BY <2>1, <2>2, <2>3
<1>2. \A k \in 1 .. n : k + i \in 1 .. Len(b)  OBVIOUS
<1>3. \A k \in 1 .. n : b[k + i] \in U  BY <1>2
<1>4. s \in [1 .. n -> U]  BY <1>1, <1>3
<1> HIDE DEF s
<1>5. s \in Seq(U) /\ Len(s) = n  BY <1>4
<1> QED BY <1>5 DEF s

(* Two sequences joined.                                                   *)
LEMMA Joined ==
  ASSUME NEW U, NEW a \in Seq(U), NEW b \in Seq(U)
  PROVE  a \o b \in Seq(U) /\ Len(a \o b) = Len(a) + Len(b)
OBVIOUS

(* Accept() moves the position and the size, and counts the bytes.         *)
LEMMA AcceptIs ==
  ASSUME NEW s, StateForm(s), FilForm(s.fp), NEW bytes, Counted(s, bytes),
         NEW n \in Nat, n <= s.left
  PROVE  Accepted(s, Accept(s, bytes, n), n) /\ Counted(Accept(s, bytes, n), bytes)
<1> DEFINE sub == SubSeq(bytes, Len(s.got) + 1, Len(s.got) + n)
           a == Advance(s, n, sub)
           t == Accept(s, bytes, n)
<1>1. PICK U : bytes \in Seq(U) /\ s.got \in Seq(U) /\ Len(s.got) + s.left = Len(bytes)
  BY DEF Counted
<1>2. DOMAIN s = {"v", "fp", "left", "got", "res"} /\ s.left \in Nat  BY DEF StateForm
<1>3. sub \in Seq(U) /\ Len(sub) = n
  <2>1. Len(s.got) \in Nat /\ Len(s.got) + n <= Len(bytes)  BY <1>1, <1>2
  <2> QED BY <2>1, <1>1, Part
<1> HIDE DEF sub
<1>4. Advanced(s, a, n) /\ a.got = s.got \o sub  BY <1>2, AdvanceIs
<1>5. DOMAIN a.fp = DOMAIN s.fp /\ DOMAIN a = DOMAIN s /\ "objsize" \in DOMAIN a.fp
  BY <1>2, <1>4 DEF Advanced, FilForm
<1>6. t = [a EXCEPT !.fp.objsize = IF a.fp.fptr > a.fp.objsize THEN a.fp.fptr ELSE a.fp.objsize]
  BY <1>5, <1>2 DEF Accept, sub
<1> HIDE DEF a, t
<1>7. Accepted(s, t, n) /\ t.got = a.got
  BY <1>2, <1>4, <1>5, <1>6 DEF Accepted, Advanced, FilForm
<1>8. t.got \in Seq(U) /\ Len(t.got) = Len(s.got) + n
  <2>1. t.got = s.got \o sub  BY <1>4, <1>7
  <2>2. s.got \in Seq(U) /\ sub \in Seq(U) /\ Len(sub) = n  BY <1>1, <1>3
  <2> QED BY <2>1, <2>2, Joined
<1>9. Len(t.got) + t.left = Len(bytes)
  BY <1>1, <1>2, <1>7, <1>8 DEF Accepted
<1> QED BY <1>1, <1>7, <1>8, <1>9 DEF Counted, t

Wrote(s, t, ch, tab, but, bytes) ==
  /\ Filed(t, ch, tab, but) /\ Counted(t, bytes) /\ t.left < s.left /\ Keeps(s.v, t.v)
  /\ Kin(s.fp, t.fp) /\ t.fp.sclust = s.fp.sclust

(* Bytes that are accepted leave the file in step with its chain.          *)
LEMMA AcceptedIs ==
  ASSUME NEW s, NEW ch, NEW tab, NEW but, Ready(s, ch, tab, but), NEW bytes, Counted(s, bytes),
         NEW n \in Nat, n # 0, n <= s.left, (s.fp.fptr % CLSZ) + n <= CLSZ,
         Buffers(s.fp, ch[s.fp.sclust]), Points(Accept(s, bytes, n).fp, ch[s.fp.sclust])
  PROVE  Wrote(s, Accept(s, bytes, n), ch, tab, but, bytes)
<1> DEFINE t == Accept(s, bytes, n)
           q == ch[s.fp.sclust]
<1>1. StateForm(s) /\ FilForm(s.fp) /\ Good(s.v, ch, tab, but) /\ s.left \in Nat
  BY DEF Ready, StateForm
<1>2. Accepted(s, t, n) /\ Counted(t, bytes)  BY <1>1, AcceptIs
<1>3. Points(t.fp, q)  OBVIOUS
<1> HIDE DEF t
<1>4. Chained(s.v.fat, ch) /\ s.fp.sclust \in DOMAIN ch \ DOMAIN tab  BY DEF Ready, Good
<1>5. Len(q) \in Nat  BY <1>4, StrandOf DEF Strand
<1>6. SizeFits(q, t.fp.objsize) /\ t.fp.objsize \in Nat /\ t.fp.fptr \in 0 .. t.fp.objsize
  <2>1. s.fp.objsize \in Nat /\ s.fp.fptr \in 0 .. s.fp.objsize  BY <1>1 DEF FilForm
  <2>2. s.fp.fptr \div CLSZ + 1 \in 1 .. Len(q) /\ Fits(q, s.fp.objsize, s.fp.fptr)  BY DEF Ready
  <2> HIDE DEF q
  <2> QED BY <2>1, <2>2, <1>2, <1>5, FitsMore DEF Accepted
<1>7. FilForm(t.fp)  BY <1>1, <1>2, <1>6 DEF FilForm, Accepted
<1>8. t.left \in Nat /\ t.left < s.left  BY <1>1, <1>2 DEF Accepted
<1>9. s.fp.sclust # 0  BY <1>4, Heads
<1>10. Buffers(t.fp, q)  BY <1>2 DEF Accepted, Buffers
<1>11. Filed(t, ch, tab, but)
  <2> HIDE DEF q
  <2>1. t.fp.sclust = s.fp.sclust /\ t.v = s.v /\ t.res = "OK"
        /\ DOMAIN t = {"v", "fp", "left", "got", "res"}
    BY <1>1, <1>2 DEF Accepted, StateForm
  <2> QED BY <2>1, <1>1, <1>3, <1>4, <1>6, <1>7, <1>8, <1>9, <1>10 DEF Filed, q
<1>12. Keeps(s.v, t.v)
  <2>1. t.v = s.v  BY <1>2 DEF Accepted
  <2> QED BY <2>1, KeepsSame
<1> QED BY <1>2, <1>8, <1>11, <1>12 DEF Wrote, Kin, Accepted, t

(* Bytes go to the buffer.                                                 *)
LEMMA WritePartIs ==
  ASSUME NEW s, NEW ch, NEW tab, NEW but, Ready(s, ch, tab, but), NEW bytes, Counted(s, bytes),
         s.left # 0, s.fp.sect = clst2sect(s.fp.clust) + (s.fp.fptr % CLSZ) \div SS
  PROVE  Wrote(s, WritePart(s, bytes), ch, tab, but, bytes)
<1> DEFINE p == s.fp.fptr
           q == ch[s.fp.sclust]
           ofs == p % SS
           n == Lesser(SS - ofs, s.left)
           buf == [i \in Slot |-> IF i \in ofs .. ofs + n - 1
                                  THEN bytes[Len(s.got) + i - ofs + 1] ELSE s.fp.buf[i]]
           u == [s EXCEPT !.fp.buf = buf, !.fp.flag = @ \cup {"DIRTY"}]
           t == Accept(u, bytes, n)
<1>1. /\ StateForm(s) /\ FilForm(s.fp) /\ Good(s.v, ch, tab, but) /\ s.left \in Nat /\ p \in Nat
      /\ DOMAIN s = {"v", "fp", "left", "got", "res"}
  BY DEF Ready, StateForm, FilForm
<1>2. ofs \in 0 .. SS - 1 /\ SS \in Nat  BY <1>1, SectorEnd, Sizes
<1>3. n \in Nat /\ n # 0 /\ n <= s.left /\ ofs + n <= SS
  <2> HIDE DEF ofs
  <2> QED BY <1>1, <1>2 DEF Lesser
<1>4. WritePart(s, bytes) = t  BY DEF WritePart
<1>5. /\ DOMAIN u = {"v", "fp", "left", "got", "res"} /\ u.v = s.v /\ u.left = s.left /\ u.got = s.got
      /\ u.res = s.res /\ DOMAIN u.fp = DOMAIN s.fp /\ u.fp.id = s.fp.id /\ u.fp.err = s.fp.err
      /\ u.fp.sclust = s.fp.sclust /\ u.fp.objsize = s.fp.objsize /\ u.fp.fptr = p
      /\ u.fp.clust = s.fp.clust /\ u.fp.sect = s.fp.sect /\ u.fp.dir = s.fp.dir
      /\ u.fp.flag = s.fp.flag \cup {"DIRTY"} /\ DOMAIN u.fp.buf = Slot
  <2>1. DOMAIN buf = Slot  OBVIOUS
  <2> HIDE DEF buf
  <2> QED BY <2>1, <1>1 DEF FilForm
<1> HIDE DEF u
<1>6. Ready(u, ch, tab, but)
  BY <1>5 DEF Ready, StateForm, FilForm
<1>7. Counted(u, bytes)  BY <1>5 DEF Counted
<1>8. q[p \div CLSZ + 1] \in Cluster /\ p \div CLSZ + 1 \in 1 .. Len(q)
  <2>1. Strand(s.v.fat, s.fp.sclust, q)  BY StrandOf DEF Ready, Good
  <2>2. p \div CLSZ + 1 \in 1 .. Len(q)  BY DEF Ready
  <2> QED BY <2>1, <2>2 DEF Strand
<1>9. s.fp.clust = q[p \div CLSZ + 1]  BY DEF Ready
<1>10. Buffers(u.fp, q)
  <2> DEFINE y == (p % CLSZ) \div SS
  <2>1. y \in 0 .. CSIZE - 1  BY <1>1, Position
  <2>2. s.fp.sect = clst2sect(s.fp.clust) + y  OBVIOUS
  <2>3. clst2sect(s.fp.clust) \in Nat /\ CSIZE \in Nat  BY <1>8, <1>9, SectorsAre, Sizes
  <2> HIDE DEF y, q
  <2>4. s.fp.sect \in SectorsOf(q[p \div CLSZ + 1])  BY <2>1, <2>2, <2>3, <1>9 DEF SectorsOf
  <2> QED BY <2>4, <1>5, <1>8 DEF Buffers
<1>11. (p % CLSZ) + n <= CLSZ
  <2> HIDE DEF n
  <2>1. (p % SS) + n <= SS  BY <1>3
  <2> QED BY <2>1, <1>1, <1>3, SectorEnd
<1>12. Points(t.fp, q)
  <2>1. Accepted(u, t, n)
    <3> HIDE DEF n
    <3> QED BY <1>1, <1>3, <1>5, <1>6, <1>7, AcceptIs DEF Ready
  <2> HIDE DEF t
  <2>2. t.fp.fptr = p + n /\ t.fp.clust = q[p \div CLSZ + 1]
        /\ t.fp.sect = clst2sect(t.fp.clust) + (p % CLSZ) \div SS
    BY <2>1, <1>5, <1>9 DEF Accepted
  <2>3. (p % SS) + n <= SS  BY <1>3
  <2> HIDE DEF p, n, q
  <2> QED BY <2>2, <2>3, <1>1, <1>3, PointsPart
<1>13. Wrote(u, t, ch, tab, but, bytes)
  <2>1. n <= u.left /\ (u.fp.fptr % CLSZ) + n <= CLSZ /\ Buffers(u.fp, ch[u.fp.sclust])
        /\ Points(Accept(u, bytes, n).fp, ch[u.fp.sclust])
    BY <1>3, <1>5, <1>10, <1>11, <1>12
  <2> HIDE DEF n
  <2> QED BY <2>1, <1>3, <1>6, <1>7, AcceptedIs
<1> HIDE DEF t
<1>14. Wrote(s, t, ch, tab, but, bytes)
  BY <1>5, <1>13 DEF Wrote, Kin
<1> QED BY <1>4, <1>14

(* Whole sectors go to the card past the buffer.                           *)
LEMMA WriteSectorsIs ==
  ASSUME NEW s, NEW ch, NEW tab, NEW but, Ready(s, ch, tab, but), NEW bytes, Counted(s, bytes),
         "DIRTY" \notin s.fp.flag, s.fp.fptr % SS = 0,
         NEW cc \in Nat, cc # 0, cc * SS <= s.left,
         NEW y, y = (s.fp.fptr % CLSZ) \div SS, cc <= CSIZE - y,
         NEW sect, sect = clst2sect(s.fp.clust) + y
  PROVE  Wrote(s, WriteSectors(s, bytes, sect, cc), ch, tab, but, bytes)
<1> DEFINE p == s.fp.fptr
           q == ch[s.fp.sclust]
           n == cc * SS
           Item(x, i) == bytes[Len(s.got) + (x - sect) * SS + i + 1]
           disk == [x \in Sector |-> IF x \in sect .. sect + cc - 1
                                     THEN [i \in Slot |-> Item(x, i)] ELSE s.v.disk[x]]
           u == [s EXCEPT !.v.disk = disk]
           a == Accept(u, bytes, n)
           b == [a EXCEPT !.fp.buf = disk[s.fp.sect], !.fp.flag = @ \ {"DIRTY"}]
           t == IF s.fp.sect \in sect .. sect + cc - 1 THEN b ELSE a
<1>1. /\ StateForm(s) /\ FilForm(s.fp) /\ Good(s.v, ch, tab, but) /\ s.left \in Nat /\ p \in Nat
      /\ DOMAIN s = {"v", "fp", "left", "got", "res"} /\ Vol(s.v)
  BY DEF Ready, StateForm, FilForm, Good
<1>2. WriteSectors(s, bytes, sect, cc) = t  BY DEF WriteSectors
<1>3. /\ DOMAIN u = {"v", "fp", "left", "got", "res"} /\ u.fp = s.fp /\ u.left = s.left
      /\ u.got = s.got /\ u.res = s.res /\ SameButDisk(s.v, u.v) /\ DOMAIN u.v = DOMAIN s.v
      /\ u.v.disk = disk
  <2> HIDE DEF disk
  <2> QED BY <1>1 DEF SameButDisk, Vol
<1>4. DOMAIN disk = Sector /\ \A x \in Sector : DOMAIN disk[x] = Slot
  BY <1>1 DEF Vol
<1>5. \A x \in Sector : x \notin sect .. sect + cc - 1 => disk[x] = s.v.disk[x]
  OBVIOUS
<1> HIDE DEF disk, u
<1>6. Vol(u.v)  BY <1>1, <1>3, <1>4 DEF Vol, SameButDisk
<1>7. s.fp.sclust \in DOMAIN ch \ DOMAIN tab /\ Chained(s.v.fat, ch)  BY DEF Ready, Good
<1>8. q[p \div CLSZ + 1] \in Cluster /\ p \div CLSZ + 1 \in 1 .. Len(q)
  <2>1. Strand(s.v.fat, s.fp.sclust, q)  BY <1>7, StrandOf
  <2>2. p \div CLSZ + 1 \in 1 .. Len(q)  BY DEF Ready
  <2> QED BY <2>1, <2>2 DEF Strand
<1>9. s.fp.clust = q[p \div CLSZ + 1]  BY DEF Ready
<1>10. sect .. sect + cc - 1 \subseteq SectorsOf(s.fp.clust)
  <2>1. y \in 0 .. CSIZE - 1  BY <1>1, Position
  <2>2. clst2sect(s.fp.clust) \in Nat /\ CSIZE \in Nat  BY <1>8, <1>9, SectorsAre, Sizes
  <2> QED BY <2>1, <2>2 DEF SectorsOf
<1>11. Good(u.v, ch, tab, but)
  <2>1. ASSUME NEW x \in Sector, \A k \in 1 .. Len(q) : x \notin SectorsOf(q[k])
        PROVE  u.v.disk[x] = s.v.disk[x]
    <3>1. x \notin SectorsOf(s.fp.clust)  BY <2>1, <1>8, <1>9
    <3>2. x \notin sect .. sect + cc - 1
      <4> HIDE DEF q
      <4> QED BY <3>1, <1>10
    <3> QED BY <3>2, <1>3, <1>5
  <2>2. u.v.fat = s.v.fat  BY <1>3 DEF SameButDisk
  <2> QED BY <2>1, <2>2, <1>1, <1>6, <1>7, OwnSectors
<1>12. Ready(u, ch, tab, but)
  BY <1>3, <1>11 DEF Ready, StateForm
<1>13. Counted(u, bytes)  BY <1>3 DEF Counted
<1>14. n \in Nat /\ n # 0 /\ n <= s.left /\ (p % CLSZ) + n <= CLSZ
  <2> HIDE DEF p
  <2>1. p % SS = 0 /\ cc <= CSIZE - (p % CLSZ) \div SS  BY DEF p
  <2> QED BY <2>1, <1>1, Sectors
<1>15. Accepted(u, a, n)
  <2> HIDE DEF n
  <2> QED BY <1>1, <1>3, <1>12, <1>13, <1>14, AcceptIs DEF Ready
<1> HIDE DEF a
<1>16. Points(a.fp, q)
  <2>1. a.fp.fptr = p + cc * SS /\ a.fp.clust = q[p \div CLSZ + 1]
    BY <1>3, <1>9, <1>15 DEF Accepted
  <2>2. p % SS = 0 /\ cc <= CSIZE - (p % CLSZ) \div SS  OBVIOUS
  <2> HIDE DEF p, q
  <2> QED BY <2>1, <2>2, <1>1, PointsWhole
<1>17. Wrote(u, a, ch, tab, but, bytes)
  <2>1. n <= u.left /\ (u.fp.fptr % CLSZ) + n <= CLSZ /\ Buffers(u.fp, ch[u.fp.sclust])
        /\ Points(Accept(u, bytes, n).fp, ch[u.fp.sclust])
    BY <1>3, <1>14, <1>16 DEF a, Buffers
  <2> HIDE DEF n
  <2> QED BY <2>1, <1>12, <1>13, <1>14, AcceptedIs DEF a
<1>18. Keeps(s.v, u.v)  BY <1>3, KeepsSame DEF SameButDisk
<1>19. Wrote(s, a, ch, tab, but, bytes)
  BY <1>3, <1>17, <1>18, KeepsOn DEF Wrote
<1>20. CASE s.fp.sect \in sect .. sect + cc - 1
  <2>1. s.fp.sect \in Sector
    <3>1. SectorsOf(s.fp.clust) \subseteq Sector  BY <1>8, <1>9, SectorsAre
    <3> QED BY <3>1, <1>10, <1>20
  <2>2. DOMAIN disk[s.fp.sect] = Slot  BY <2>1, <1>4
  <2>3. /\ DOMAIN b = {"v", "fp", "left", "got", "res"} /\ b.v = a.v /\ b.left = a.left
        /\ b.got = a.got /\ b.res = a.res /\ DOMAIN b.fp = DOMAIN a.fp /\ b.fp.id = a.fp.id
        /\ b.fp.err = a.fp.err /\ b.fp.sclust = a.fp.sclust /\ b.fp.objsize = a.fp.objsize
        /\ b.fp.fptr = a.fp.fptr /\ b.fp.clust = a.fp.clust /\ b.fp.sect = a.fp.sect
        /\ b.fp.dir = a.fp.dir /\ b.fp.flag = a.fp.flag \ {"DIRTY"} /\ DOMAIN b.fp.buf = Slot
    BY <2>2, <1>1, <1>3, <1>15 DEF FilForm, Accepted
  <2> HIDE DEF b
  <2>4. Filed(a, ch, tab, but)  BY <1>19 DEF Wrote
  <2>5. Filed(b, ch, tab, but)
    BY <2>3, <2>4 DEF Filed, FilForm, Points, Buffers
  <2>6. Wrote(s, b, ch, tab, but, bytes)
    BY <2>3, <2>5, <1>19 DEF Wrote, Counted, Kin
  <2> QED BY <2>6, <1>2, <1>20
<1>21. CASE s.fp.sect \notin sect .. sect + cc - 1
  BY <1>2, <1>19, <1>21
<1> QED BY <1>20, <1>21

(* What goes to a cluster, which the position is at a sector of.           *)
LEMMA WriteToIs ==
  ASSUME NEW s, NEW ch, NEW tab, NEW but, Ready(s, ch, tab, but), NEW bytes, Counted(s, bytes),
         "DIRTY" \notin s.fp.flag, s.fp.fptr % SS = 0, s.left # 0,
         NEW y, y = (s.fp.fptr % CLSZ) \div SS
  PROVE  Wrote(s, WriteTo(s, bytes, clst2sect(s.fp.clust) + y, Lesser(s.left \div SS, CSIZE - y)),
               ch, tab, but, bytes)
<1> DEFINE sect == clst2sect(s.fp.clust) + y
           b == s.left \div SS
           cc == Lesser(b, CSIZE - y)
<1>1. s.left \in Nat /\ s.fp.fptr \in Nat /\ SS \in Nat /\ SS # 0 /\ CSIZE \in Nat
      /\ DOMAIN s = {"v", "fp", "left", "got", "res"} /\ FilForm(s.fp)
  BY Sizes DEF Ready, StateForm, FilForm
<1>2. y \in 0 .. CSIZE - 1  BY <1>1, Position
<1>3. b \in Nat /\ s.left % SS \in 0 .. SS - 1 /\ s.left = (SS * b) + (s.left % SS)
  BY <1>1, Division
<1>4. cc \in Nat /\ cc <= b /\ cc <= CSIZE - y
  <2> HIDE DEF b
  <2> QED BY <1>1, <1>2, <1>3 DEF Lesser
<1>5. CASE cc # 0
  <2>1. cc * SS <= s.left
    <3>1. SS * cc <= SS * b
      <4> HIDE DEF cc, b
      <4> QED BY <1>1, <1>3, <1>4
    <3>2. SS * cc = cc * SS /\ SS * cc \in Nat
      <4> HIDE DEF cc, b
      <4> QED BY <1>1, <1>4
    <3> DEFINE m == SS * b
               z == s.left % SS
               n == SS * cc
    <3>3. m \in Nat  BY <1>1, <1>3, OneMore
    <3>4. s.left = m + z /\ z \in 0 .. SS - 1 /\ n <= m  BY <1>3, <3>1
    <3>5. n \in Nat  BY <3>2
    <3> HIDE DEF m, z, n
    <3>6. n <= s.left  BY <3>3, <3>4, <3>5, <1>1
    <3> QED BY <3>2, <3>6 DEF n
  <2>2. WriteTo(s, bytes, sect, cc) = WriteSectors(s, bytes, sect, cc)
    <3> HIDE DEF cc
    <3> QED BY <1>4, <1>5 DEF WriteTo
  <2>3. Wrote(s, WriteSectors(s, bytes, sect, cc), ch, tab, but, bytes)
    <3> HIDE DEF cc
    <3> QED BY <1>4, <1>5, <2>1, WriteSectorsIs
  <2> QED BY <2>2, <2>3
<1>6. CASE cc = 0
  <2> DEFINE t == IF s.fp.sect # sect /\ s.fp.fptr < s.fp.objsize THEN Fill(s, sect)
                  ELSE [s EXCEPT !.fp.sect = sect]
  <2>1. WriteTo(s, bytes, sect, cc) = WritePart(t, bytes)
    <3> HIDE DEF cc
    <3> QED BY <1>6 DEF WriteTo
  <2>2. Vol(s.v) /\ s.fp.clust \in Cluster
    <3>1. Chained(s.v.fat, ch) /\ s.fp.sclust \in DOMAIN ch /\ Vol(s.v)  BY DEF Ready, Good
    <3>2. Strand(s.v.fat, s.fp.sclust, ch[s.fp.sclust])  BY <3>1, StrandOf
    <3> QED BY <3>1, <3>2 DEF Ready, Strand
  <2>3. sect \in Sector
    <3>1. clst2sect(s.fp.clust) \in Nat /\ SectorsOf(s.fp.clust) \subseteq Sector
      BY <2>2, SectorsAre
    <3>2. sect \in SectorsOf(s.fp.clust)
      <4> HIDE DEF cc
      <4> QED BY <3>1, <1>1, <1>2 DEF SectorsOf
    <3> QED BY <3>1, <3>2
  <2>4. /\ DOMAIN t = {"v", "fp", "left", "got", "res"} /\ t.v = s.v /\ t.left = s.left
        /\ t.res = s.res /\ t.got = s.got /\ t.fp.sect = sect /\ DOMAIN t.fp.buf = Slot
        /\ DOMAIN t.fp = DOMAIN s.fp /\ t.fp.id = s.fp.id /\ t.fp.flag = s.fp.flag
        /\ t.fp.err = s.fp.err /\ t.fp.sclust = s.fp.sclust /\ t.fp.objsize = s.fp.objsize
        /\ t.fp.fptr = s.fp.fptr /\ t.fp.clust = s.fp.clust /\ t.fp.dir = s.fp.dir
    <3>1. CASE s.fp.sect # sect /\ s.fp.fptr < s.fp.objsize
      <4>1. t = Fill(s, sect)  BY <3>1
      <4>2. Filled(s, t, sect)
        <5> HIDE DEF sect
        <5> QED BY <4>1, <1>1, FillIs
      <4>3. DOMAIN s.v.disk[sect] = Slot  BY <2>2, <2>3 DEF Vol
      <4> HIDE DEF t, sect
      <4> QED BY <4>2, <4>3 DEF Filled
    <3>2. CASE ~(s.fp.sect # sect /\ s.fp.fptr < s.fp.objsize)
      <4> HIDE DEF sect
      <4>1. t = [s EXCEPT !.fp.sect = sect]  BY <3>2
      <4> HIDE DEF t
      <4> QED BY <4>1, <1>1 DEF FilForm
    <3> QED BY <3>1, <3>2
  <2> HIDE DEF t
  <2>5. Ready(t, ch, tab, but)
    <3> HIDE DEF sect
    <3> QED BY <2>3, <2>4 DEF Ready, StateForm, FilForm
  <2>6. Counted(t, bytes)  BY <2>4 DEF Counted
  <2>7. Wrote(t, WritePart(t, bytes), ch, tab, but, bytes)
    <3>1. t.left # 0 /\ t.fp.sect = clst2sect(t.fp.clust) + (t.fp.fptr % CLSZ) \div SS
      BY <2>4
    <3> QED BY <3>1, <2>5, <2>6, WritePartIs
  <2>8. Wrote(s, WritePart(t, bytes), ch, tab, but, bytes)
    BY <2>4, <2>7 DEF Wrote, Kin
  <2> QED BY <2>1, <2>8
<1> QED BY <1>5, <1>6

(* The chain of a file gets longer, or begins.                             *)
LongerFile(v, ch, tab, but, h, r, dh) ==
  /\ Good(r.v, dh, tab, but) /\ Rechains(ch, dh, h, h) /\ Keeps(v, r.v)
  /\ h \in DOMAIN dh \ DOMAIN tab /\ Len(dh[h]) = Len(ch[h]) + 1
  /\ dh[h][Len(ch[h]) + 1] = r.clst /\ r.clst \in Cluster
  /\ \A k \in 1 .. Len(ch[h]) : dh[h][k] = ch[h][k]

(* The chain of a file gets a cluster more.                                *)
LEMMA GrowFile ==
  ASSUME NEW v, NEW ch, NEW tab, NEW but, Good(v, ch, tab, but), NEW h \in DOMAIN ch \ DOMAIN tab,
         NEW r, Allocated(v, ch[h][Len(ch[h])], r)
  PROVE  LongerFile(v, ch, tab, but, h, r, Grown(ch, h, r.clst))
<1> DEFINE dh == Grown(ch, h, r.clst)
<1>1. Vol(v) /\ Chained(v.fat, ch) /\ Tabular(ch, tab)  BY DEF Good
<1>2. Chained(r.v.fat, dh)  BY <1>1, LongerChain
<1>3. Strand(v.fat, h, ch[h]) /\ r.clst \in Cluster /\ r.clst \in Free(v)
  BY <1>1, StrandOf DEF Allocated, Free
<1>4. DOMAIN dh = DOMAIN ch /\ dh[h] = Append(ch[h], r.clst)
      /\ \A g \in DOMAIN ch : g # h => dh[g] = ch[g]
  BY DEF Grown
<1> HIDE DEF dh
<1>5. /\ Len(dh[h]) = Len(ch[h]) + 1 /\ dh[h][Len(ch[h]) + 1] = r.clst
      /\ \A k \in 1 .. Len(ch[h]) : dh[h][k] = ch[h][k]
  BY <1>3, <1>4 DEF Strand
<1>6. \A g \in DOMAIN tab : g \in DOMAIN dh /\ dh[g] = ch[g]
  BY <1>1, <1>4 DEF Tabular
<1>7. Good(r.v, dh, tab, but)
  <2>1. Vol(r.v) /\ r.v.disk = v.disk  BY DEF Allocated
  <2> QED BY <2>1, <1>2, <1>6, GoodAgain
<1>8. Rechains(ch, dh, h, h)
  <2>1. 0 \notin DOMAIN ch  BY <1>1, Heads
  <2> QED BY <2>1, <1>4 DEF Rechains
<1>9. Keeps(v, r.v)  BY DEF Allocated
<1> QED BY <1>3, <1>4, <1>5, <1>7, <1>8, <1>9 DEF LongerFile, dh

NewFile(v, ch, tab, but, r, dh) ==
  /\ Good(r.v, dh, tab, but) /\ Rechains(ch, dh, 0, r.clst) /\ Keeps(v, r.v)
  /\ r.clst \in DOMAIN dh \ DOMAIN tab /\ dh[r.clst] = << r.clst >> /\ r.clst \in Cluster

(* A file gets its first cluster.                                          *)
LEMMA StartFile ==
  ASSUME NEW v, NEW ch, NEW tab, NEW but, Good(v, ch, tab, but), NEW r, Allocated(v, 0, r)
  PROVE  NewFile(v, ch, tab, but, r, Plus(ch, r.clst))
<1> DEFINE dh == Plus(ch, r.clst)
<1>1. Vol(v) /\ Chained(v.fat, ch) /\ Tabular(ch, tab)  BY DEF Good
<1>2. Chained(r.v.fat, dh)  BY <1>1, NewChain
<1>3. r.clst \in Free(v) /\ r.clst \in Cluster /\ r.clst \notin DOMAIN ch
  BY <1>1, FreeIsFree DEF Allocated
<1>4. DOMAIN dh = DOMAIN ch \cup {r.clst} /\ dh[r.clst] = << r.clst >>
      /\ \A g \in DOMAIN ch : g # r.clst => dh[g] = ch[g]
  BY DEF Plus
<1> HIDE DEF dh
<1>5. \A g \in DOMAIN tab : g \in DOMAIN dh /\ dh[g] = ch[g] /\ g # r.clst
  BY <1>1, <1>3, <1>4 DEF Tabular
<1>6. Good(r.v, dh, tab, but)
  <2>1. Vol(r.v) /\ r.v.disk = v.disk  BY DEF Allocated
  <2> QED BY <2>1, <1>2, <1>5, GoodAgain
<1>7. Rechains(ch, dh, 0, r.clst)
  <2>1. 0 \notin DOMAIN ch /\ r.clst # 0  BY <1>1, <1>3, Heads, Sizes
  <2> QED BY <2>1, <1>3, <1>4 DEF Rechains
<1>8. Keeps(v, r.v)  BY DEF Allocated
<1> QED BY <1>3, <1>4, <1>5, <1>6, <1>7, <1>8 DEF NewFile, dh

(* The cluster to write to                                                 *)
NewHead(f, r) == IF f.sclust = 0 THEN r.clst ELSE f.sclust
ToWrite(s, ch, tab, but, r, dh, o) ==
  /\ Good(r.v, dh, tab, but) /\ Rechains(ch, dh, s.fp.sclust, o) /\ o = NewHead(s.fp, r)
  /\ o \in DOMAIN dh \ DOMAIN tab /\ Keeps(s.v, r.v) /\ r.clst \in Cluster
  /\ s.fp.fptr \div CLSZ + 1 \in 1 .. Len(dh[o])
  /\ r.clst = dh[o][s.fp.fptr \div CLSZ + 1]
  /\ Fits(dh[o], s.fp.objsize, s.fp.fptr) /\ Buffers(s.fp, dh[o])

(* f_write() has the cluster of the position, gets one, or has no room.    *)
LEMMA WriteClusterIs ==
  ASSUME NEW s, NEW ch, NEW tab, NEW but, Filed(s, ch, tab, but), s.fp.fptr % SS = 0
  PROVE  \/ NoRoom(s.v, WriteCluster(s))
         \/ \E dh : \E o : ToWrite(s, ch, tab, but, WriteCluster(s), dh, o)
<1> DEFINE f == s.fp
           p == f.fptr
           h == f.sclust
           q == ch[h]
           a == p \div CLSZ
           l == Len(q) * CLSZ
           r == WriteCluster(s)
<1>1. /\ FilForm(f) /\ p \in Nat /\ f.objsize \in Nat /\ p <= f.objsize /\ Good(s.v, ch, tab, but)
      /\ Vol(s.v) /\ Chained(s.v.fat, ch)
  BY DEF Filed, FilForm, Good
<1>2. CASE h = 0
  <2>1. f.objsize = 0 /\ "DIRTY" \notin f.flag  BY <1>2 DEF Filed
  <2>2. p = 0  BY <2>1, <1>1
  <2>3. a = 0 /\ Csect(f) = 0
    <3>1. 0 \in 0 .. CLSZ - 1 /\ (CLSZ * 0) + 0 = 0 /\ 0 \in Nat /\ SS * 0 + 0 = 0 /\ 0 \in 0 .. SS - 1
          /\ CSIZE * 0 + 0 = 0 /\ 0 \in 0 .. CSIZE - 1
      BY Sizes
    <3>2. 0 \div CLSZ = 0  BY <3>1, PositionOf
    <3>3. SS \in Nat /\ SS # 0 /\ CSIZE \in Nat /\ CSIZE # 0  BY Sizes
    <3>4. 0 \div SS = 0  BY <3>1, <3>3, Quotient
    <3>5. 0 % CSIZE = 0  BY <3>1, <3>3, Quotient
    <3> HIDE DEF p
    <3>6. Csect(f) = (p \div SS) % CSIZE  BY DEF Csect, p
    <3> QED BY <2>2, <3>2, <3>4, <3>5, <3>6
  <2>4. r = create_chain(s.v, 0)  BY <1>2, <2>2, <2>3 DEF WriteCluster
  <2>5. CASE NoRoom(s.v, r)  BY <2>5
  <2>6. CASE Allocated(s.v, 0, r)
    <3> DEFINE dh == Plus(ch, r.clst)
               o == r.clst
    <3>1. NewFile(s.v, ch, tab, but, r, dh)
      <4> HIDE DEF r
      <4> QED BY <2>6, <1>1, StartFile
    <3> HIDE DEF dh, r
    <3>2. Len(dh[o]) = 1 /\ dh[o][1] = o  BY <3>1 DEF NewFile
    <3>3. Fits(dh[o], 0, 0)
      <4>1. (1 - 1) * CLSZ = 0  BY Sizes
      <4> QED BY <4>1, <3>2 DEF Fits
    <3>4. a + 1 = 1  BY <2>3
    <3>5. Buffers(f, dh[o])  BY <2>1 DEF Buffers
    <3> HIDE DEF a
    <3>6. a + 1 \in 1 .. Len(dh[o]) /\ o = dh[o][a + 1]  BY <3>2, <3>4
    <3>7. o = NewHead(f, r)  BY <1>2 DEF NewHead
    <3>8. ToWrite(s, ch, tab, but, r, dh, o)
      BY <3>1, <3>3, <3>5, <3>6, <3>7, <1>2, <2>1, <2>2 DEF NewFile, ToWrite, a
    <3> QED BY <3>8 DEF r
  <2> QED BY <2>4, <2>5, <2>6, <1>1, Allocation
<1>3. CASE h # 0
  <2>1. /\ h \in DOMAIN ch \ DOMAIN tab /\ SizeFits(q, f.objsize) /\ Points(f, q) /\ Buffers(f, q)
    BY <1>3 DEF Filed
  <2>2. Strand(s.v.fat, h, q)  BY <1>1, <2>1, StrandOf
  <2>3. Len(q) \in Nat /\ Len(q) # 0 /\ CLSZ \in Nat /\ l \in Nat /\ q[1] = h
    <3>1. l \in Nat  BY <2>2, RowIs
    <3> HIDE DEF l
    <3> QED BY <3>1, <2>2, Sizes DEF Strand
  <2>4. f.objsize <= l
    <3> DEFINE m == (Len(q) - 1) * CLSZ
    <3>1. m \in Nat
      <4>1. 0 \in Nat /\ 0 + 1 <= Len(q)  BY <2>3
      <4> HIDE DEF q
      <4> QED BY <4>1, <2>3, Products
    <3>2. f.objsize \in m + 1 .. l  BY <2>1 DEF SizeFits
    <3> HIDE DEF m, l
    <3> QED BY <3>1, <3>2, <2>3
  <2>5. p <= l
    <3> HIDE DEF l
    <3> QED BY <2>3, <2>4, <1>1
  <2>6. Facing(f, q)
    <3> HIDE DEF q
    <3> QED BY <2>1, <2>2, <2>5, <1>1, FacingIs
  <2>7. a \in Nat  BY <2>6 DEF Facing
  <2>8. ASSUME r.v = s.v, a + 1 \in 1 .. Len(q), r.clst = q[a + 1]
        PROVE  \E dh : \E o : ToWrite(s, ch, tab, but, r, dh, o)
    <3> HIDE DEF r
    <3>1. Rechains(ch, ch, h, h)
      <4>1. 0 \notin DOMAIN ch  BY <1>1, Heads
      <4> QED BY <4>1, <2>1, RechainsSame
    <3>2. Keeps(s.v, r.v)  BY <2>8, KeepsSame
    <3>3. r.clst \in Cluster  BY <2>2, <2>8 DEF Strand
    <3>4. NewHead(f, r) = h  BY <1>3 DEF NewHead
    <3>5. Fits(q, f.objsize, p)  BY <2>1 DEF Fits
    <3>6. ToWrite(s, ch, tab, but, r, ch, h)
      BY <3>1, <3>2, <3>3, <3>4, <3>5, <2>1, <2>8, <1>1 DEF ToWrite
    <3> QED BY <3>6
  <2>9. CASE Csect(f) # 0
    <3>1. r.v = s.v /\ r.clst = f.clust  BY <2>9 DEF WriteCluster
    <3>2. a + 1 \in 1 .. Len(q) /\ f.clust = q[a + 1]  BY <2>6, <2>9 DEF Facing
    <3> QED BY <2>8, <3>1, <3>2
  <2>10. CASE Csect(f) = 0 /\ p = 0
    <3>1. r.v = s.v /\ r.clst = h  BY <2>10, <1>3 DEF WriteCluster
    <3>2. a = 0 /\ a + 1 \in 1 .. Len(q)  BY <2>6, <2>10 DEF Facing
    <3> HIDE DEF a, r, q
    <3>3. a + 1 = 1  BY <3>2
    <3>4. r.clst = q[a + 1]  BY <3>1, <3>3, <2>3
    <3> QED BY <2>8, <3>1, <3>2, <3>4 DEF r
  <2>11. CASE Csect(f) = 0 /\ p # 0
    <3>1. r = create_chain(s.v, f.clust)  BY <2>11 DEF WriteCluster
    <3>2. a \in 1 .. Len(q) /\ f.clust = q[a]  BY <2>6, <2>11 DEF Facing
    <3>3. LinkOf(s.v, q, a)
      <4> HIDE DEF a
      <4> QED BY <3>2, <1>1, <2>1, NextLink
    <3>4. CASE a < Len(q)
      <4>1. r = [v |-> s.v, clst |-> q[a + 1]]  BY <3>1, <3>2, <3>3, <3>4 DEF LinkOf
      <4>2. a + 1 \in 1 .. Len(q)
        <5> HIDE DEF a, q
        <5> QED BY <3>4, <2>3, <2>7
      <4>3. r.v = s.v /\ r.clst = q[a + 1]
        <5> HIDE DEF r
        <5> QED BY <4>1
      <4> QED BY <2>8, <4>2, <4>3
    <3>5. CASE ~(a < Len(q))
      <4>1. a = Len(q)
        <5> HIDE DEF a, q
        <5> QED BY <3>2, <3>5, <2>3
      <4>2. f.clust \in Cluster /\ s.v.fat[f.clust] = EOC
        BY <3>2, <3>3, <4>1 DEF LinkOf
      <4>3. CASE NoRoom(s.v, r)  BY <4>3
      <4>4. CASE Allocated(s.v, f.clust, r)
        <5> DEFINE dh == Grown(ch, h, r.clst)
        <5>1. LongerFile(s.v, ch, tab, but, h, r, dh)
          <6>1. f.clust = ch[h][Len(ch[h])]  BY <3>2, <4>1
          <6>2. Allocated(s.v, ch[h][Len(ch[h])], r)  BY <4>4, <6>1
          <6> HIDE DEF r
          <6> QED BY <6>2, <1>1, <2>1, GrowFile
        <5> HIDE DEF dh, r
        <5>2. Len(dh[h]) = a + 1 /\ dh[h][a + 1] = r.clst  BY <5>1, <4>1 DEF LongerFile
        <5>3. a + 1 \in 1 .. Len(dh[h])
          <6> HIDE DEF a
          <6> QED BY <5>2, <2>7
        <5>4. f.objsize = p /\ p = (Len(dh[h]) - 1) * CLSZ
          <6>1. ~(a + 1 \in 1 .. Len(q))
            <7> HIDE DEF a, q
            <7> QED BY <4>1, <2>3
          <6>2. ~(p < l)  BY <6>1, <2>6 DEF Facing
          <6>3. p = l /\ f.objsize = p
            <7> HIDE DEF l
            <7> QED BY <6>2, <2>3, <2>4, <2>5, <1>1
          <6>4. Len(dh[h]) - 1 = Len(q)
            <7> HIDE DEF a, q
            <7> QED BY <5>2, <4>1, <2>3
          <6> QED BY <6>3, <6>4
        <5>5. Fits(dh[h], f.objsize, p)  BY <5>4 DEF Fits
        <5>6. Buffers(f, dh[h])
          <6>1. \A k \in 1 .. Len(q) : k \in 1 .. Len(dh[h]) /\ dh[h][k] = q[k]
            BY <5>1, <2>3 DEF LongerFile
          <6>2. Buffers(f, q)  BY <2>1
          <6> HIDE DEF q
          <6> QED BY <6>1, <6>2 DEF Buffers
        <5>7. NewHead(f, r) = h  BY <1>3 DEF NewHead
        <5>8. ToWrite(s, ch, tab, but, r, dh, h)
          BY <5>1, <5>2, <5>3, <5>5, <5>6, <5>7 DEF ToWrite, LongerFile
        <5> QED BY <5>8 DEF r
      <4> QED BY <3>1, <4>2, <4>3, <4>4, <1>1, Allocation
    <3> QED BY <3>4, <3>5
  <2> QED BY <2>9, <2>10, <2>11
<1> QED BY <1>2, <1>3

(* Products are monotonic.                                                 *)
LEMMA Times ==
  ASSUME NEW b \in Nat, NEW m \in Nat, NEW n \in Nat, m <= n
  PROVE  b * m <= b * n
<1>1. PICK d \in Nat : n = m + d
  <2>1. n - m \in Nat /\ n = m + (n - m)  OBVIOUS
  <2> QED BY <2>1
<1>2. b * n = b * m + b * d /\ b * m \in Nat /\ b * d \in Nat  BY <1>1
<1> QED BY <1>2

(* Bytes of a file are in clusters of its chain.                           *)
LEMMA LastByte ==
  ASSUME NEW fat, NEW h, NEW q, Strand(fat, h, q), NEW size \in Nat, SizeFits(q, size),
         NEW p \in 1 .. size
  PROVE  (p - 1) \div CLSZ \in Nat /\ (p - 1) \div CLSZ + 1 \in 1 .. Len(q)
<1> DEFINE m == (Len(q) - 1) * CLSZ
           l == Len(q) * CLSZ
           b == (p - 1) \div CLSZ
           x == (p - 1) % CLSZ
           u == CLSZ * b
<1>1. Len(q) \in Nat /\ Len(q) # 0 /\ CLSZ \in Nat /\ CLSZ # 0  BY Sizes DEF Strand
<1>2. m \in Nat /\ l \in Nat /\ l = m + CLSZ
  <2>1. 0 \in Nat /\ 0 + 1 <= Len(q)  BY <1>1
  <2> QED BY <2>1, <1>1, Products
<1>3. p - 1 \in Nat  OBVIOUS
<1>4. b \in Nat /\ x \in 0 .. CLSZ - 1 /\ p - 1 = u + x
  BY <1>3, Position
<1>5. size \in m + 1 .. l  BY DEF SizeFits
<1>6. p - 1 < l
  <2> HIDE DEF m, l
  <2> QED BY <1>2, <1>3, <1>5
<1>7. b < Len(q)
  <2> SUFFICES ASSUME ~(b < Len(q))  PROVE FALSE  OBVIOUS
  <2>1. Len(q) <= b
    <3> HIDE DEF b
    <3> QED BY <1>1, <1>4
  <2>2. CLSZ * Len(q) <= CLSZ * b
    <3> HIDE DEF b
    <3> QED BY <2>1, <1>1, <1>4, Times
  <2>3. CLSZ * Len(q) = l  BY <1>1
  <2>4. u \in Nat
    <3> HIDE DEF b
    <3> QED BY <1>1, <1>4
  <2>5. l <= u  BY <2>2, <2>3
  <2> HIDE DEF l, u, x, b
  <2> QED BY <2>4, <2>5, <1>2, <1>3, <1>4, <1>6
<1> HIDE DEF b
<1>8. b + 1 \in 1 .. Len(q)  BY <1>1, <1>4, <1>7
<1> QED BY <1>4, <1>8 DEF b

Accounts(t, bytes) ==
  Counted(t, bytes) \/ (t.left = 0 /\ (CountIsRight(t.v) => Free(t.v) = {}))
Writes(s, t, ch, tab, but, bytes) ==
  \E dh : /\ Filed(t, dh, tab, but) /\ Rechains(ch, dh, s.fp.sclust, t.fp.sclust)
          /\ Keeps(s.v, t.v) /\ Kin(s.fp, t.fp) /\ Accounts(t, bytes)

(* What Filed says of the chains                                           *)
LEMMA FiledHeads ==
  ASSUME NEW s, NEW ch, NEW tab, NEW but, Filed(s, ch, tab, but)
  PROVE  /\ 0 \notin DOMAIN ch /\ (s.fp.sclust # 0 => s.fp.sclust \in DOMAIN ch)
         /\ Good(s.v, ch, tab, but) /\ Vol(s.v) /\ Chained(s.v.fat, ch)
<1>1. Good(s.v, ch, tab, but) /\ Vol(s.v) /\ Chained(s.v.fat, ch)  BY DEF Filed, Good
<1>2. 0 \notin DOMAIN ch  BY <1>1, Heads
<1>3. s.fp.sclust # 0 => s.fp.sclust \in DOMAIN ch  BY DEF Filed
<1> QED BY <1>1, <1>2, <1>3

(* A write that ends changes nothing more.                                 *)
LEMMA WritesSame ==
  ASSUME NEW s, NEW ch, NEW tab, NEW but, Filed(s, ch, tab, but), NEW bytes, Accounts(s, bytes)
  PROVE  Writes(s, s, ch, tab, but, bytes)
<1>1. Rechains(ch, ch, s.fp.sclust, s.fp.sclust)  BY FiledHeads, RechainsSame
<1>2. Keeps(s.v, s.v)  BY KeepsSame
<1> QED BY <1>1, <1>2 DEF Writes, Kin

(* One turn of f_write() keeps the file in step, and gets on.              *)
LEMMA WriteStepIs ==
  ASSUME NEW s, NEW ch, NEW tab, NEW but, Filed(s, ch, tab, but), NEW bytes, Accounts(s, bytes)
  PROVE  /\ Writes(s, WriteStep(s, bytes), ch, tab, but, bytes)
         /\ WriteStep(s, bytes).left <= s.left
         /\ s.left # 0 => WriteStep(s, bytes).left < s.left
<1> DEFINE f == s.fp
           p == f.fptr
           h == f.sclust
           q == ch[h]
           t == WriteStep(s, bytes)
<1>1. /\ StateForm(s) /\ FilForm(f) /\ p \in Nat /\ s.left \in Nat /\ f.objsize \in Nat
      /\ DOMAIN s = {"v", "fp", "left", "got", "res"} /\ s.res = "OK" /\ p <= f.objsize
      /\ Good(s.v, ch, tab, but) /\ Chained(s.v.fat, ch)
  BY DEF Filed, StateForm, FilForm, Good
<1>2. CASE s.left = 0
  <2>1. t = s  BY <1>2 DEF WriteStep
  <2> HIDE DEF t
  <2>2. Writes(s, t, ch, tab, but, bytes)  BY <2>1, WritesSame
  <2> QED BY <2>1, <2>2, <1>1, <1>2 DEF t
<1>3. CASE s.left # 0
  <2>1. Counted(s, bytes)  BY <1>3 DEF Accounts
  <2>2. ASSUME NEW u, NEW dh, NEW o, Rechains(ch, dh, h, o), Keeps(s.v, u.v), Kin(f, u.fp),
               u.left = s.left, u.fp.sclust = o, Wrote(u, t, dh, tab, but, bytes)
        PROVE  Writes(s, t, ch, tab, but, bytes) /\ t.left < s.left /\ t.left <= s.left
    <3> HIDE DEF t
    <3>1. Rechains(ch, dh, h, t.fp.sclust) /\ Filed(t, dh, tab, but) /\ Counted(t, bytes)
      BY <2>2 DEF Wrote
    <3>2. Keeps(s.v, t.v)  BY <2>2, KeepsOn DEF Wrote
    <3>3. Kin(f, t.fp)  BY <2>2 DEF Wrote, Kin
    <3>4. t.left < s.left /\ t.left \in Nat  BY <2>2 DEF Wrote, Filed
    <3>5. Writes(s, t, ch, tab, but, bytes)  BY <3>1, <3>2, <3>3 DEF Writes, Accounts
    <3> QED BY <3>4, <3>5, <1>1
  <2>3. CASE ~OnSector(f)
    <3>1. t = WritePart(s, bytes)  BY <1>1, <1>3, <2>3 DEF WriteStep
    <3>2. p % SS # 0  BY <2>3 DEF OnSector
    <3>3. p > 0 /\ (p - 1) \div CLSZ = p \div CLSZ
      <4> HIDE DEF p
      <4> QED BY <1>1, <3>2, Inside
    <3>4. h # 0
      <4>1. f.objsize # 0
        <5> HIDE DEF p
        <5> QED BY <3>3, <1>1
      <4> QED BY <4>1 DEF Filed
    <3>5. /\ h \in DOMAIN ch \ DOMAIN tab /\ SizeFits(q, f.objsize) /\ Points(f, q) /\ Buffers(f, q)
      BY <3>4 DEF Filed
    <3>6. f.clust = q[p \div CLSZ + 1] /\ f.sect = clst2sect(f.clust) + (p % CLSZ) \div SS
      BY <3>2, <3>3, <3>5 DEF Points
    <3>7. Strand(s.v.fat, h, q)  BY <1>1, <3>5, StrandOf
    <3>8. p \div CLSZ + 1 \in 1 .. Len(q)
      <4>1. p \in 1 .. f.objsize
        <5> HIDE DEF p
        <5> QED BY <3>3, <1>1
      <4>2. (p - 1) \div CLSZ + 1 \in 1 .. Len(q)
        <5> HIDE DEF p, q
        <5> QED BY <4>1, <3>5, <3>7, <1>1, LastByte
      <4> QED BY <4>2, <3>3
    <3>9. Ready(s, ch, tab, but)
      BY <3>5, <3>6, <3>8, <1>1 DEF Ready, Fits
    <3>10. Wrote(s, t, ch, tab, but, bytes)
      <4> HIDE DEF t
      <4> QED BY <3>1, <3>6, <3>9, <2>1, <1>3, WritePartIs
    <3>11. Rechains(ch, ch, h, h)  BY FiledHeads, RechainsSame
    <3>12. Keeps(s.v, s.v)  BY KeepsSame
    <3>13. Kin(f, s.fp)  BY DEF Kin
    <3> QED BY <2>2, <3>10, <3>11, <3>12, <3>13
  <2>4. CASE OnSector(f)
    <3> DEFINE r == WriteCluster(s)
               y == (p % CLSZ) \div SS
               o == NewHead(f, r)
    <3>1. t = WriteIn(s, bytes, r)  BY <1>1, <1>3, <2>4 DEF WriteStep
    <3>2. p % SS = 0  BY <2>4 DEF OnSector
    <3>3. CASE NoRoom(s.v, r)
      <4>1. r.clst = 0 /\ r.v = s.v /\ (CountIsRight(s.v) => Free(s.v) = {})
        BY <3>3 DEF NoRoom
      <4> HIDE DEF r
      <4>2. t = [s EXCEPT !.left = 0]  BY <3>1, <4>1 DEF WriteIn
      <4> HIDE DEF t
      <4>3. DOMAIN t = {"v", "fp", "left", "got", "res"} /\ t.v = s.v /\ t.fp = s.fp /\ t.left = 0
            /\ t.res = s.res
        BY <4>2, <1>1
      <4>4. Filed(t, ch, tab, but)  BY <4>3 DEF Filed
      <4>5. Accounts(t, bytes)  BY <4>1, <4>3 DEF Accounts
      <4>6. Writes(t, t, ch, tab, but, bytes)  BY <4>4, <4>5, WritesSame
      <4>7. Writes(s, t, ch, tab, but, bytes)  BY <4>3, <4>6 DEF Writes
      <4> QED BY <4>3, <4>7, <1>1, <1>3 DEF t
    <3>4. ASSUME NEW dh, NEW oo, ToWrite(s, ch, tab, but, r, dh, oo)
          PROVE  Writes(s, t, ch, tab, but, bytes) /\ t.left < s.left /\ t.left <= s.left
      <4> HIDE DEF r
      <4>1. oo = o /\ r.clst \in Cluster /\ r.clst # 0 /\ r.clst # 1 /\ o # 0
        <5>1. o \in DOMAIN dh /\ Chained(r.v.fat, dh) /\ oo = o  BY <3>4 DEF ToWrite, Good
        <5>2. o # 0
          <6> HIDE DEF o
          <6> QED BY <5>1, Heads
        <5>3. r.clst \in Cluster  BY <3>4 DEF ToWrite
        <5> QED BY <5>1, <5>2, <5>3, Sizes
      <4> DEFINE u == [s EXCEPT !.v = r.v, !.fp.clust = r.clst,
                                !.fp.sclust = IF @ = 0 THEN r.clst ELSE @]
                 w == WriteBack(u)
      <4>2. /\ DOMAIN u = {"v", "fp", "left", "got", "res"} /\ u.v = r.v /\ u.left = s.left
            /\ u.got = s.got /\ u.res = s.res /\ DOMAIN u.fp = DOMAIN f /\ u.fp.id = f.id
            /\ u.fp.err = f.err /\ u.fp.sclust = o /\ u.fp.objsize = f.objsize /\ u.fp.fptr = p
            /\ u.fp.clust = r.clst /\ u.fp.sect = f.sect /\ u.fp.buf = f.buf /\ u.fp.dir = f.dir
            /\ u.fp.flag = f.flag
        BY <1>1 DEF FilForm, NewHead
      <4>3. t = WriteTo(w, bytes, clst2sect(r.clst) + y, Lesser(s.left \div SS, CSIZE - y))
        <5>1. Csect(f) = y
          <6>1. (p \div SS) % CSIZE = y
            <7> HIDE DEF p
            <7> QED BY <1>1, Position
          <6> QED BY <6>1 DEF Csect
        <5> HIDE DEF y
        <5> QED BY <3>1, <4>1, <5>1 DEF WriteIn
      <4> HIDE DEF u, o
      <4>4. o \in DOMAIN dh \ DOMAIN tab /\ Good(u.v, dh, tab, but) /\ Buffers(u.fp, dh[o])
        BY <3>4, <4>1, <4>2 DEF ToWrite, Buffers
      <4>5. FilForm(u.fp)
        <5>1. o \in Cluster
          <6>1. Chained(u.v.fat, dh)  BY <4>4 DEF Good
          <6> QED BY <6>1, <4>4, Heads
        <5> QED BY <5>1, <4>1, <4>2, <1>1 DEF FilForm
      <4>6. Flushed(u, w, dh, tab, but)
        <5> HIDE DEF w
        <5> QED BY <4>2, <4>4, <4>5, WriteBackIs DEF w
      <4> HIDE DEF w
      <4>7. /\ DOMAIN w = {"v", "fp", "left", "got", "res"} /\ w.left = s.left /\ w.got = s.got
            /\ w.res = "OK" /\ w.fp.sclust = o /\ w.fp.objsize = f.objsize /\ w.fp.fptr = p
            /\ w.fp.clust = r.clst /\ Good(w.v, dh, tab, but) /\ w.fp.flag = f.flag \ {"DIRTY"}
            /\ SameButDisk(u.v, w.v) /\ FilForm(w.fp) /\ w.fp.id = f.id /\ w.fp.dir = f.dir
        BY <4>2, <4>5, <4>6, <1>1 DEF Flushed, OnlyFlag, FilForm
      <4>8. Ready(w, dh, tab, but)
        <5>1. p \div CLSZ + 1 \in 1 .. Len(dh[o]) /\ r.clst = dh[o][p \div CLSZ + 1]
              /\ Fits(dh[o], f.objsize, p)
          BY <3>4, <4>1 DEF ToWrite
        <5> HIDE DEF p
        <5> QED BY <5>1, <4>4, <4>7, <1>1 DEF Ready, StateForm
      <4>9. Counted(w, bytes)  BY <4>7, <2>1 DEF Counted
      <4>10. Wrote(w, t, dh, tab, but, bytes)
        <5>1. t = WriteTo(w, bytes, clst2sect(w.fp.clust) + y, Lesser(w.left \div SS, CSIZE - y))
          BY <4>3, <4>7
        <5>2. y = (w.fp.fptr % CLSZ) \div SS /\ w.fp.fptr % SS = 0 /\ w.left # 0
              /\ "DIRTY" \notin w.fp.flag
          BY <4>7, <3>2, <1>3
        <5> HIDE DEF y, t
        <5> QED BY <5>1, <5>2, <4>8, <4>9, WriteToIs
      <4>11. Rechains(ch, dh, h, o)  BY <3>4, <4>1 DEF ToWrite
      <4>12. Keeps(s.v, w.v)
        <5>1. Keeps(s.v, r.v)  BY <3>4 DEF ToWrite
        <5>2. Keeps(u.v, w.v)  BY <4>7, KeepsSame DEF SameButDisk
        <5> QED BY <5>1, <5>2, <4>2, KeepsOn
      <4>13. Kin(f, w.fp)  BY <4>7 DEF Kin
      <4> HIDE DEF t
      <4> QED BY <4>7, <4>10, <4>11, <4>12, <4>13, <2>2 DEF t
    <3>5. NoRoom(s.v, r) \/ \E dh : \E oo : ToWrite(s, ch, tab, but, r, dh, oo)
      <4> HIDE DEF p
      <4>1. s.fp.fptr % SS = 0  BY <3>2 DEF p
      <4> QED BY <4>1, WriteClusterIs
    <3> QED BY <3>3, <3>4, <3>5
  <2> QED BY <2>3, <2>4
<1> QED BY <1>1, <1>2, <1>3

(* Turns of f_write() follow one another.                                  *)
LEMMA WritesOn ==
  ASSUME NEW s, NEW ch, NEW tab, NEW but, Filed(s, ch, tab, but), NEW bytes,
         NEW t, NEW dh, Filed(t, dh, tab, but), Rechains(ch, dh, s.fp.sclust, t.fp.sclust),
         Keeps(s.v, t.v), Kin(s.fp, t.fp), NEW u, Writes(t, u, dh, tab, but, bytes)
  PROVE  Writes(s, u, ch, tab, but, bytes)
<1>1. PICK eh : /\ Filed(u, eh, tab, but) /\ Rechains(dh, eh, t.fp.sclust, u.fp.sclust)
                /\ Keeps(t.v, u.v) /\ Kin(t.fp, u.fp) /\ Accounts(u, bytes)
  BY DEF Writes
<1>2. Rechains(ch, eh, s.fp.sclust, u.fp.sclust)  BY <1>1, FiledHeads, RechainsOn
<1>3. Keeps(s.v, u.v)  BY <1>1, KeepsOn
<1>4. Kin(s.fp, u.fp)  BY <1>1 DEF Kin
<1> QED BY <1>1, <1>2, <1>3, <1>4 DEF Writes

(* The bytes of a write                                                    *)
LEMMA Writing ==
  ASSUME NEW s, NEW ch, NEW tab, NEW but, Filed(s, ch, tab, but), NEW bytes, Counted(s, bytes),
         NEW N \in Nat, s.left <= N
  PROVE  LET t == WriteAll(s, bytes, N)
         IN  Writes(s, t, ch, tab, but, bytes) /\ t.left = 0
<1>1. PICK f : Turns("write", bytes, s, N, f) /\ WriteAll(s, bytes, N) = f[N]
  BY WriteTurns
<1> DEFINE S == {n \in 0 .. N : /\ Writes(s, f[n], ch, tab, but, bytes)
                                /\ f[n].left \in Nat /\ f[n].left <= N - n}
<1>2. 0 \in S
  <2>1. f[0] = s  BY <1>1 DEF Turns
  <2>2. Writes(s, s, ch, tab, but, bytes)  BY WritesSame DEF Accounts
  <2>3. s.left \in Nat  BY DEF Filed
  <2> QED BY <2>1, <2>2, <2>3
<1>3. ASSUME NEW n \in 0 .. N - 1, n \in S  PROVE n + 1 \in S
  <2>1. Writes(s, f[n], ch, tab, but, bytes) /\ f[n].left \in Nat /\ f[n].left <= N - n  BY <1>3
  <2>2. n + 1 \in 1 .. N /\ n + 1 \in 0 .. N /\ (n + 1) - 1 = n  OBVIOUS
  <2>3. f[n + 1] = WriteStep(f[n], bytes)  BY <1>1, <2>2, TurnIs DEF Turns
  <2>4. PICK dh : /\ Filed(f[n], dh, tab, but) /\ Rechains(ch, dh, s.fp.sclust, f[n].fp.sclust)
                  /\ Keeps(s.v, f[n].v) /\ Kin(s.fp, f[n].fp) /\ Accounts(f[n], bytes)
    BY <2>1 DEF Writes
  <2>5. /\ Writes(f[n], f[n + 1], dh, tab, but, bytes) /\ f[n + 1].left <= f[n].left
        /\ f[n].left # 0 => f[n + 1].left < f[n].left
    BY <2>3, <2>4, WriteStepIs
  <2>6. Writes(s, f[n + 1], ch, tab, but, bytes)  BY <2>4, <2>5, WritesOn
  <2>7. f[n + 1].left \in Nat  BY <2>5 DEF Writes, Filed
  <2>8. f[n + 1].left <= N - (n + 1)  BY <2>1, <2>5, <2>7
  <2> QED BY <2>2, <2>6, <2>7, <2>8
<1>4. N \in S
  <2> HIDE DEF S
  <2>1. \A n \in 0 .. N : n \in S  BY <1>2, <1>3, Induction
  <2> QED BY <2>1
<1> QED BY <1>1, <1>4

(* f_lseek(): on the way to position ofs.                                  *)
Full(v) == CountIsRight(v) => Free(v) = {}
SeekSame(f, g) ==
  /\ DOMAIN g = DOMAIN f /\ g.id = f.id /\ g.flag = f.flag /\ g.err = f.err
  /\ g.objsize = f.objsize /\ g.sect = f.sect /\ g.buf = f.buf /\ g.dir = f.dir
OnChain(u, s, ofs, ch, dh, tab, a) ==
  LET o == s.fp.sclust
      q == dh[o]
      writes == "WRITE" \in s.fp.flag
  IN  /\ o \in DOMAIN dh \ DOMAIN tab /\ a \in Nat /\ a + 1 \in 1 .. Len(q)
      /\ s.fp.clust = q[a + 1] /\ Buffers(s.fp, q)
      /\ \/ dh = ch /\ o = u.fp.sclust /\ SizeFits(q, s.fp.objsize)
         \/ s.fp.objsize <= (Len(q) - 1) * CLSZ /\ a + 1 = Len(q) /\ writes
      /\ \/ s.left > 0 /\ s.fp.fptr = CLSZ * a /\ s.fp.fptr + s.left = ofs
         \/ s.left = 0 /\ s.fp.fptr = CLSZ * (a + 1) /\ a + 1 = Len(q) /\ Full(s.v) /\ writes
Lost(u, s, ch, dh) ==
  /\ s.fp.sclust = 0 /\ u.fp.sclust = 0 /\ s.fp.clust = 0 /\ dh = ch /\ s.fp.fptr = 0 /\ s.left = 0
  /\ Full(s.v)
Seeks(u, s, ofs, ch, dh, tab, but, a) ==
  /\ StateForm(s) /\ SeekSame(u.fp, s.fp) /\ s.fp.fptr \in Nat
  /\ Good(s.v, dh, tab, but) /\ Rechains(ch, dh, u.fp.sclust, s.fp.sclust) /\ Keeps(u.v, s.v)
  /\ Lost(u, s, ch, dh) \/ OnChain(u, s, ofs, ch, dh, tab, a)

(* f_lseek() starts at the current cluster or at the first.                *)
LEMMA SeekStartIs ==
  ASSUME NEW ch, NEW tab, NEW but, Filed(Transfer(0), ch, tab, but), NEW ofs \in Nat, ofs # 0,
         "WRITE" \in fp.flag \/ ofs <= fp.objsize
  PROVE  \E dh : \E a \in Nat : Seeks(Transfer(0), SeekStart(ofs), ofs, ch, dh, tab, but, a)
<1> DEFINE u == Transfer(0)
           h == fp.sclust
           q == ch[h]
           near == fp.fptr > 0 /\ (ofs - 1) \div CLSZ >= (fp.fptr - 1) \div CLSZ
           b == (fp.fptr - 1) \div CLSZ
           base == b * CLSZ
           From(r) == [Transfer(ofs) EXCEPT !.v = r.v, !.fp.fptr = 0,
                         !.fp.sclust = r.clst, !.fp.clust = r.clst,
                         !.left = IF r.clst = 0 THEN 0 ELSE @]
           t == SeekStart(ofs)
<1>1. /\ u.fp = fp /\ u.v = vol /\ u.left = 0 /\ u.res = "OK"
      /\ DOMAIN u = {"v", "fp", "left", "got", "res"}
  BY DEF Transfer
<1> HIDE DEF u
<1>2. /\ FilForm(fp) /\ Good(vol, ch, tab, but) /\ Chained(vol.fat, ch) /\ Vol(vol)
      /\ fp.objsize \in Nat /\ fp.fptr \in 0 .. fp.objsize /\ 0 \notin DOMAIN ch
      /\ (h # 0 => h \in DOMAIN ch \ DOMAIN tab /\ SizeFits(q, fp.objsize) /\ Points(fp, q)
                   /\ Buffers(fp, q))
      /\ (h = 0 => fp.objsize = 0 /\ "DIRTY" \notin fp.flag)
  BY <1>1, FiledHeads DEF Filed, FilForm, u
<1>3. t = IF near THEN [Transfer(ofs - base) EXCEPT !.fp.fptr = base]
          ELSE From(IF h = 0 THEN create_chain(vol, 0) ELSE [v |-> vol, clst |-> h])
  BY DEF SeekStart
<1>4. CLSZ \in Nat /\ CLSZ # 0 /\ CLSZ * 0 = 0  BY Sizes
<1>5. CASE near
  <2>1. fp.fptr \in 1 .. fp.objsize
    <3>1. fp.fptr > 0  BY <1>5
    <3> QED BY <3>1, <1>2
  <2>2. h # 0
    <3> SUFFICES ASSUME h = 0  PROVE FALSE  OBVIOUS
    <3>1. fp.objsize = 0  BY <1>2
    <3> QED BY <2>1, <3>1
  <2>3. Strand(vol.fat, h, q)  BY <1>2, <2>2, StrandOf
  <2>4. b \in Nat /\ b + 1 \in 1 .. Len(q)
    <3> HIDE DEF q
    <3> QED BY <1>2, <2>1, <2>2, <2>3, LastByte DEF q
  <2>5. t = [Transfer(ofs - base) EXCEPT !.fp.fptr = base]
    <3> HIDE DEF near
    <3> QED BY <1>3, <1>5
  <2>6. base \in Nat /\ base = CLSZ * b
    <3> HIDE DEF b
    <3> QED BY <2>4, <1>4
  <2>7. ofs - base \in Nat /\ ofs - base # 0
    <3> DEFINE x == (ofs - 1) % CLSZ
               d == (ofs - 1) \div CLSZ
               m == CLSZ * d
    <3>1. ofs - 1 \in Nat  OBVIOUS
    <3>2. x \in 0 .. CLSZ - 1 /\ d \in Nat /\ ofs - 1 = m + x  BY <3>1, Position
    <3>3. d >= b  BY <1>5
    <3>4. CLSZ * b <= m /\ m \in Nat
      <4> HIDE DEF b, d
      <4>1. b <= d  BY <3>2, <3>3, <2>4
      <4>2. CLSZ * b <= CLSZ * d  BY <4>1, <3>2, <2>4, <1>4, Times
      <4>3. CLSZ * d \in Nat  BY <3>2, <1>4
      <4> QED BY <4>2, <4>3
    <3>5. base <= m  BY <3>4, <2>6
    <3> HIDE DEF base, m, x
    <3> QED BY <3>1, <3>2, <3>4, <3>5, <2>6, <1>4
  <2>8. /\ DOMAIN t = {"v", "fp", "left", "got", "res"} /\ t.v = vol /\ t.left = ofs - base
        /\ t.res = "OK" /\ DOMAIN t.fp = DOMAIN fp /\ t.fp.fptr = base /\ t.fp.sclust = h
        /\ t.fp.clust = fp.clust /\ SeekSame(fp, t.fp)
    <3> HIDE DEF base, t
    <3> QED BY <2>5, <1>2 DEF Transfer, FilForm, SeekSame
  <2> HIDE DEF t, base
  <2>9. StateForm(t) /\ t.fp.fptr \in Nat  BY <2>6, <2>7, <2>8 DEF StateForm
  <2>10. t.fp.clust = q[b + 1]
    <3>1. fp.fptr > 0  BY <1>5
    <3> QED BY <2>8, <3>1, <1>2, <2>2 DEF Points
  <2>11. t.left > 0 /\ t.fp.fptr = CLSZ * b /\ t.fp.fptr + t.left = ofs
    <3>1. t.left > 0 /\ t.fp.fptr + t.left = ofs  BY <2>6, <2>7, <2>8
    <3> QED BY <3>1, <2>6, <2>8
  <2>12. Buffers(t.fp, q)  BY <1>2, <2>2, <2>8 DEF Buffers, SeekSame
  <2>13. t.fp.objsize = fp.objsize  BY <2>8 DEF SeekSame
  <2>14. OnChain(u, t, ofs, ch, ch, tab, b)
    <3> HIDE DEF b
    <3> QED BY <1>1, <1>2, <2>2, <2>4, <2>8, <2>10, <2>11, <2>12, <2>13 DEF OnChain
  <2>15. Rechains(ch, ch, h, h)  BY <1>2, RechainsSame
  <2>16. Keeps(vol, vol)  BY KeepsSame
  <2>17. Seeks(u, t, ofs, ch, ch, tab, but, b)
    BY <1>1, <1>2, <2>8, <2>9, <2>14, <2>15, <2>16 DEF Seeks
  <2> QED BY <2>4, <2>17 DEF t, u
<1>6. CASE ~near
  <2> DEFINE r == IF h = 0 THEN create_chain(vol, 0) ELSE [v |-> vol, clst |-> h]
  <2>1. t = From(r)
    <3> HIDE DEF near, From
    <3> QED BY <1>3, <1>6
  <2> HIDE DEF r, near, t
  <2>2. /\ DOMAIN t = {"v", "fp", "left", "got", "res"} /\ t.v = r.v
        /\ t.left = IF r.clst = 0 THEN 0 ELSE ofs
        /\ t.res = "OK" /\ DOMAIN t.fp = DOMAIN fp /\ t.fp.fptr = 0 /\ t.fp.sclust = r.clst
        /\ t.fp.clust = r.clst /\ SeekSame(fp, t.fp)
    BY <2>1, <1>2 DEF Transfer, FilForm, SeekSame
  <2>3. StateForm(t) /\ t.fp.fptr \in Nat /\ t.fp.flag = fp.flag /\ t.fp.objsize = fp.objsize
        /\ t.fp.sect = fp.sect
    BY <2>2 DEF StateForm, SeekSame
  <2>4. CASE h # 0
    <3>1. r.v = vol /\ r.clst = h  BY <2>4 DEF r
    <3>2. Strand(vol.fat, h, q)  BY <1>2, <2>4, StrandOf
    <3>3. 0 \in Nat /\ 0 + 1 \in 1 .. Len(q) /\ q[0 + 1] = h
      <4>1. Len(q) \in 1 .. NCLST /\ q[1] = h  BY <3>2 DEF Strand
      <4> HIDE DEF q
      <4> QED BY <4>1, Sizes
    <3>4. Buffers(t.fp, q)  BY <1>2, <2>4, <2>3 DEF Buffers
    <3>5. t.left = ofs /\ t.left > 0 /\ t.fp.fptr = CLSZ * 0 /\ t.fp.fptr + t.left = ofs
      BY <2>2, <3>1, <2>4, <1>4
    <3>6. OnChain(u, t, ofs, ch, ch, tab, 0)
      BY <1>1, <1>2, <2>2, <2>3, <2>4, <3>1, <3>3, <3>4, <3>5 DEF OnChain
    <3>7. Rechains(ch, ch, h, h)  BY <1>2, RechainsSame
    <3>8. Keeps(vol, vol)  BY KeepsSame
    <3>9. Seeks(u, t, ofs, ch, ch, tab, but, 0)
      BY <1>1, <1>2, <2>2, <2>3, <3>1, <3>6, <3>7, <3>8 DEF Seeks
    <3> QED BY <3>9 DEF t, u
  <2>5. CASE h = 0
    <3>1. r = create_chain(vol, 0)  BY <2>5 DEF r
    <3>2. fp.objsize = 0 /\ "WRITE" \in fp.flag /\ "DIRTY" \notin fp.flag
      <4>1. fp.objsize = 0  BY <1>2, <2>5
      <4> QED BY <4>1, <1>2, <2>5
    <3>3. CASE NoRoom(vol, r)
      <4>1. r.clst = 0 /\ r.v = vol /\ Full(vol)  BY <3>3 DEF NoRoom, Full
      <4>2. Lost(u, t, ch, ch)  BY <1>1, <2>2, <2>5, <4>1 DEF Lost
      <4>3. Rechains(ch, ch, h, h)  BY <1>2, RechainsSame
      <4>4. Keeps(vol, vol)  BY KeepsSame
      <4>5. Seeks(u, t, ofs, ch, ch, tab, but, 0)
        BY <1>1, <1>2, <2>2, <2>3, <2>5, <4>1, <4>2, <4>3, <4>4 DEF Seeks
      <4> QED BY <4>5 DEF t, u
    <3>4. CASE Allocated(vol, 0, r)
      <4> DEFINE dh == Plus(ch, r.clst)
                 o == r.clst
      <4>1. NewFile(vol, ch, tab, but, r, dh)  BY <3>4, <1>2, StartFile
      <4> HIDE DEF dh
      <4>2. Len(dh[o]) = 1 /\ dh[o][0 + 1] = o /\ 0 + 1 \in 1 .. Len(dh[o]) /\ o # 0
            /\ (Len(dh[o]) - 1) * CLSZ = 0 /\ 0 + 1 = Len(dh[o])
        BY <4>1, <1>4, Sizes DEF NewFile
      <4>3. Buffers(t.fp, dh[o])  BY <2>3, <3>2 DEF Buffers
      <4>4. t.left > 0 /\ t.fp.fptr = CLSZ * 0 /\ t.fp.fptr + t.left = ofs
        BY <2>2, <4>2, <1>4
      <4>5. t.fp.objsize <= (Len(dh[o]) - 1) * CLSZ  BY <2>3, <3>2, <4>2
      <4>6. OnChain(u, t, ofs, ch, dh, tab, 0)
        BY <2>2, <2>3, <3>2, <4>1, <4>2, <4>3, <4>4, <4>5 DEF OnChain, NewFile
      <4>7. Seeks(u, t, ofs, ch, dh, tab, but, 0)
        BY <1>1, <2>2, <2>3, <2>5, <4>1, <4>6 DEF Seeks, NewFile
      <4> QED BY <4>7 DEF t, u
    <3> QED BY <3>1, <3>3, <3>4, <1>2, Allocation
  <2> QED BY <2>4, <2>5
<1> QED BY <1>5, <1>6

SeekGoesOn(u, t, ofs, ch, tab, but, n) ==
  \E dh : \E a \in Nat : Seeks(u, t, ofs, ch, dh, tab, but, a) /\ (t.left <= CLSZ \/ a >= n)

(* f_lseek() goes to the next cluster, gets one, or stops where the chain  *)
(* does for there is no room.                                              *)
LEMMA SeekStepIs ==
  ASSUME NEW u, NEW ch, NEW tab, NEW but, Filed(u, ch, tab, but), NEW ofs \in Nat,
         "WRITE" \in u.fp.flag \/ ofs <= u.fp.objsize, NEW n \in Nat,
         NEW s, SeekGoesOn(u, s, ofs, ch, tab, but, n)
  PROVE  SeekGoesOn(u, SeekStep(s), ofs, ch, tab, but, n + 1)
<1>1. PICK dh : \E a \in Nat : Seeks(u, s, ofs, ch, dh, tab, but, a) /\ (s.left <= CLSZ \/ a >= n)
  BY DEF SeekGoesOn
<1>2. PICK a \in Nat : Seeks(u, s, ofs, ch, dh, tab, but, a) /\ (s.left <= CLSZ \/ a >= n)
  BY <1>1
<1> DEFINE t == SeekStep(s)
           o == s.fp.sclust
           q == dh[o]
           c == q[a + 1]
<1>3. CLSZ \in Nat /\ CLSZ # 0  BY Sizes
<1>4. CASE s.left <= CLSZ
  <2>1. t = s  BY <1>4 DEF SeekStep
  <2> QED BY <2>1, <1>2, <1>4 DEF SeekGoesOn
<1>5. CASE ~(s.left <= CLSZ)
  <2>1. /\ StateForm(s) /\ SeekSame(u.fp, s.fp) /\ s.fp.fptr \in Nat /\ FilForm(u.fp)
        /\ Good(s.v, dh, tab, but) /\ Vol(s.v) /\ Chained(s.v.fat, dh)
        /\ Rechains(ch, dh, u.fp.sclust, o) /\ Keeps(u.v, s.v)
    BY <1>2 DEF Seeks, Good, Filed
  <2>2. s.left # 0 /\ s.left > CLSZ /\ s.left \in Nat /\ s.res = "OK"
        /\ DOMAIN s = {"v", "fp", "left", "got", "res"}
    BY <2>1, <1>3, <1>5 DEF StateForm
  <2>3. OnChain(u, s, ofs, ch, dh, tab, a)  BY <1>2, <2>2 DEF Seeks, Lost
  <2>4. /\ o \in DOMAIN dh \ DOMAIN tab /\ a + 1 \in 1 .. Len(q)
        /\ s.fp.clust = c /\ Buffers(s.fp, q)
        /\ \/ dh = ch /\ o = u.fp.sclust /\ SizeFits(q, s.fp.objsize)
           \/ s.fp.objsize <= (Len(q) - 1) * CLSZ /\ a + 1 = Len(q) /\ "WRITE" \in s.fp.flag
        /\ s.fp.fptr = CLSZ * a /\ s.fp.fptr + s.left = ofs
    BY <2>2, <2>3 DEF OnChain
  <2> DEFINE on == [s EXCEPT !.left = @ - CLSZ, !.fp.fptr = @ + CLSZ]
             Into(r) == IF r.clst = 0 /\ "WRITE" \in s.fp.flag THEN [on EXCEPT !.left = 0]
                        ELSE IF r.clst \notin Cluster THEN Abort(on)
                        ELSE [on EXCEPT !.v = r.v, !.fp.clust = r.clst]
             r == IF "WRITE" \in s.fp.flag THEN create_chain(s.v, s.fp.clust)
                  ELSE [v |-> s.v, clst |-> get_fat(s.v, s.fp.clust)]
             writes == "WRITE" \in s.fp.flag
  <2>5. t = Into(r)
    <3> HIDE DEF on
    <3> QED BY <1>5, <2>2 DEF SeekStep, on
  <2>6. Strand(s.v.fat, o, q) /\ LinkOf(s.v, q, a + 1)
    BY <2>1, <2>4, StrandOf, NextLink
  <2>7. Len(q) \in Nat /\ Len(q) # 0 /\ a + 1 <= Len(q) /\ c \in Cluster /\ Len(q) <= NCLST
    <3>1. Len(q) \in 1 .. NCLST  BY <2>6 DEF Strand
    <3> HIDE DEF q
    <3> QED BY <3>1, <2>4, <2>6, Sizes DEF LinkOf
  <2>8. /\ CLSZ * a \in Nat /\ CLSZ * (a + 1) = (CLSZ * a) + CLSZ
        /\ (Len(q) - 1) * CLSZ \in Nat /\ Len(q) * CLSZ = (Len(q) - 1) * CLSZ + CLSZ
        /\ CLSZ * a <= (Len(q) - 1) * CLSZ
    <3>1. CLSZ * a \in Nat /\ CLSZ * (a + 1) = (CLSZ * a) + CLSZ  BY <1>3, OneMore
    <3> HIDE DEF q
    <3>2. /\ (Len(q) - 1) * CLSZ \in Nat /\ Len(q) * CLSZ = (Len(q) - 1) * CLSZ + CLSZ
          /\ CLSZ * a <= (Len(q) - 1) * CLSZ
      BY <2>7, <1>3, Products
    <3> QED BY <3>1, <3>2
  <2>9. s.fp.flag = u.fp.flag /\ s.fp.objsize = u.fp.objsize /\ u.fp.objsize \in Nat
        /\ DOMAIN s.fp = DOMAIN u.fp /\ s.fp.sect = u.fp.sect
    BY <2>1 DEF SeekSame, FilForm
  <2>10. \/ r.clst = 0 /\ writes /\ NoRoom(s.v, r) /\ a + 1 = Len(q)
         \/ r.clst \in Cluster /\ r.v = s.v /\ a + 1 < Len(q) /\ r.clst = q[a + 2]
         \/ r.clst \in Cluster /\ Allocated(s.v, c, r) /\ a + 1 = Len(q) /\ writes
    <3>1. CASE a + 1 < Len(q)
      <4>1. q[a + 2] \in Cluster /\ get_fat(s.v, c) = q[a + 2]
            /\ create_chain(s.v, c) = [v |-> s.v, clst |-> q[a + 2]]
        <5>1. (a + 1) + 1 = a + 2  OBVIOUS
        <5> HIDE DEF q
        <5> QED BY <5>1, <3>1, <2>6 DEF LinkOf
      <4>2. r = [v |-> s.v, clst |-> q[a + 2]]  BY <4>1, <2>4
      <4> HIDE DEF r
      <4>3. r.v = s.v /\ r.clst = q[a + 2]  BY <4>2
      <4>4. r.clst \in Cluster  BY <4>1, <4>3
      <4> HIDE DEF c, q
      <4> QED BY <3>1, <4>3, <4>4
    <3>2. CASE ~(a + 1 < Len(q))
      <4>1. a + 1 = Len(q)
        <5> HIDE DEF q
        <5> QED BY <3>2, <2>7
      <4>2. writes
        <5> SUFFICES ASSUME ~writes  PROVE FALSE  OBVIOUS
        <5>1. SizeFits(q, s.fp.objsize) /\ ofs <= s.fp.objsize  BY <2>4, <2>9
        <5> DEFINE m == (Len(q) - 1) * CLSZ
                   l == Len(q) * CLSZ
                   w == CLSZ * a
        <5>2. s.fp.objsize \in m + 1 .. l  BY <5>1 DEF SizeFits
        <5>3. w = m
          <6> HIDE DEF q
          <6>1. Len(q) - 1 = a  BY <4>1, <2>7
          <6>2. a * CLSZ = CLSZ * a  BY <1>3
          <6> QED BY <6>1, <6>2
        <5>4. s.fp.fptr = w /\ s.fp.fptr + s.left = ofs /\ m \in Nat /\ l = m + CLSZ
          BY <2>4, <2>8
        <5> HIDE DEF m, l, w
        <5> QED BY <5>1, <5>2, <5>3, <5>4, <2>2, <2>9, <1>3
      <4>3. c \in Cluster /\ s.v.fat[c] = EOC
        <5> HIDE DEF q
        <5> QED BY <4>1, <2>6 DEF LinkOf
      <4>4. r = create_chain(s.v, c)  BY <4>2, <2>4
      <4>5. NoRoom(s.v, r) \/ Allocated(s.v, c, r)
        <5> HIDE DEF c, r
        <5> QED BY <4>3, <4>4, <2>1, Allocation
      <4>6. Allocated(s.v, c, r) => r.clst \in Cluster
        <5> HIDE DEF c, r
        <5> QED BY DEF Allocated, Free
      <4>7. NoRoom(s.v, r) => r.clst = 0
        <5> HIDE DEF r
        <5> QED BY DEF NoRoom
      <4> HIDE DEF c, q, r, writes
      <4> QED BY <4>1, <4>2, <4>5, <4>6, <4>7
    <3> QED BY <3>1, <3>2
  <2> HIDE DEF r
  <2>11. 0 \notin Cluster  BY Sizes
  <2>12. /\ DOMAIN on = {"v", "fp", "left", "got", "res"} /\ on.v = s.v /\ on.left = s.left - CLSZ
         /\ on.res = "OK" /\ DOMAIN on.fp = DOMAIN s.fp /\ on.fp.fptr = s.fp.fptr + CLSZ
         /\ on.fp.sclust = o /\ on.fp.clust = c /\ SeekSame(u.fp, on.fp)
    BY <2>1, <2>2, <2>4, <2>9 DEF SeekSame, FilForm
  <2> HIDE DEF on
  <2>13. CASE r.clst = 0 /\ writes /\ NoRoom(s.v, r) /\ a + 1 = Len(q)
    <3>1. t = [on EXCEPT !.left = 0]  BY <2>5, <2>13
    <3> HIDE DEF t
    <3>2. /\ DOMAIN t = {"v", "fp", "left", "got", "res"} /\ t.v = s.v /\ t.left = 0
          /\ t.res = "OK" /\ t.fp = on.fp
      BY <3>1, <2>12
    <3>3. StateForm(t) /\ t.fp.fptr = CLSZ * (a + 1) /\ t.fp.fptr \in Nat
      <4>1. t.fp.fptr = CLSZ * (a + 1)  BY <3>2, <2>4, <2>8, <2>12
      <4>2. CLSZ * (a + 1) \in Nat
        <5>1. a + 1 \in Nat  OBVIOUS
        <5> QED BY <5>1, <1>3, OneMore
      <4> QED BY <4>1, <4>2, <3>2 DEF StateForm
    <3>4. Full(s.v)  BY <2>13 DEF NoRoom, Full
    <3>5. /\ t.fp.sclust = o /\ t.fp.clust = c /\ t.fp.objsize = s.fp.objsize /\ t.fp.flag = s.fp.flag
          /\ t.fp.sect = s.fp.sect
      BY <3>2, <2>9, <2>12 DEF SeekSame
    <3>6. OnChain(u, t, ofs, ch, dh, tab, a)
      <4>1. Buffers(t.fp, q)  BY <3>5, <2>4 DEF Buffers
      <4> QED BY <4>1, <3>2, <3>3, <3>4, <3>5, <2>4, <2>13 DEF OnChain
    <3>7. Seeks(u, t, ofs, ch, dh, tab, but, a)
      BY <3>2, <3>3, <3>5, <3>6, <2>1, <2>12 DEF Seeks
    <3> QED BY <3>2, <3>7, <1>3 DEF SeekGoesOn, t
  <2>14. ASSUME r.clst \in Cluster
         PROVE  /\ DOMAIN t = {"v", "fp", "left", "got", "res"} /\ t.v = r.v /\ t.left = s.left - CLSZ
                /\ t.res = "OK" /\ SeekSame(u.fp, t.fp) /\ t.fp.fptr = s.fp.fptr + CLSZ
                /\ t.fp.sclust = o /\ t.fp.clust = r.clst
                /\ t.fp.objsize = s.fp.objsize /\ t.fp.flag = s.fp.flag /\ t.fp.sect = s.fp.sect
    <3>1. t = [on EXCEPT !.v = r.v, !.fp.clust = r.clst]  BY <2>5, <2>11, <2>14
    <3> HIDE DEF t
    <3>2. /\ DOMAIN t = {"v", "fp", "left", "got", "res"} /\ t.v = r.v /\ t.left = on.left
          /\ t.res = on.res /\ DOMAIN t.fp = DOMAIN on.fp /\ t.fp.id = on.fp.id
          /\ t.fp.flag = on.fp.flag /\ t.fp.err = on.fp.err /\ t.fp.objsize = on.fp.objsize
          /\ t.fp.sect = on.fp.sect /\ t.fp.buf = on.fp.buf /\ t.fp.dir = on.fp.dir
          /\ t.fp.fptr = on.fp.fptr /\ t.fp.sclust = on.fp.sclust /\ t.fp.clust = r.clst
      BY <3>1, <2>1, <2>9, <2>12 DEF FilForm
    <3> QED BY <3>2, <2>9, <2>12 DEF SeekSame
  <2>15. ASSUME r.clst \in Cluster, NEW eh, Good(r.v, eh, tab, but), Rechains(dh, eh, o, o),
                Keeps(s.v, r.v), o \in DOMAIN eh, a + 2 \in 1 .. Len(eh[o]), eh[o][a + 2] = r.clst,
                Buffers(s.fp, eh[o]),
                \/ eh = ch /\ o = u.fp.sclust /\ SizeFits(eh[o], s.fp.objsize)
                \/ s.fp.objsize <= (Len(eh[o]) - 1) * CLSZ /\ a + 2 = Len(eh[o]) /\ writes
         PROVE  SeekGoesOn(u, t, ofs, ch, tab, but, n + 1)
    <3> HIDE DEF t
    <3> DEFINE b == a + 1
    <3>1. b \in Nat /\ b + 1 = a + 2 /\ (s.left <= CLSZ \/ b >= n + 1) /\ b >= n + 1
      BY <1>2, <1>5
    <3>2. /\ t.left \in Nat /\ t.left > 0 /\ t.fp.fptr = CLSZ * b /\ t.fp.fptr + t.left = ofs
          /\ t.fp.fptr \in Nat
      <4>1. CLSZ * b = s.fp.fptr + CLSZ  BY <2>4, <2>8
      <4> HIDE DEF b
      <4>2. t.left = s.left - CLSZ /\ t.fp.fptr = s.fp.fptr + CLSZ  BY <2>14, <2>15
      <4>3. s.fp.fptr + s.left = ofs /\ s.fp.fptr \in Nat  BY <2>1, <2>4
      <4>4. t.left \in Nat /\ t.left > 0 /\ t.fp.fptr + t.left = ofs /\ t.fp.fptr \in Nat
        BY <4>2, <4>3, <2>2, <1>3
      <4> QED BY <4>1, <4>2, <4>4
    <3>3. StateForm(t)  BY <3>2, <2>14, <2>15 DEF StateForm
    <3>4. Buffers(t.fp, eh[o])  BY <2>14, <2>15 DEF Buffers
    <3>5. o \in DOMAIN eh \ DOMAIN tab  BY <2>4, <2>15
    <3> HIDE DEF b
    <3>6. OnChain(u, t, ofs, ch, eh, tab, b)
      BY <3>1, <3>2, <3>4, <3>5, <2>14, <2>15 DEF OnChain
    <3>7. Rechains(ch, eh, u.fp.sclust, o)
      <4>1. 0 \notin DOMAIN ch /\ (u.fp.sclust # 0 => u.fp.sclust \in DOMAIN ch)  BY FiledHeads
      <4> HIDE DEF o
      <4> QED BY <4>1, <2>1, <2>15, RechainsOn
    <3>8. Keeps(u.v, r.v)  BY <2>1, <2>15, KeepsOn
    <3>9. Seeks(u, t, ofs, ch, eh, tab, but, b)
      BY <3>2, <3>3, <3>6, <3>7, <3>8, <2>14, <2>15 DEF Seeks
    <3> QED BY <3>1, <3>9 DEF SeekGoesOn
  <2>16. CASE r.clst \in Cluster /\ r.v = s.v /\ a + 1 < Len(q) /\ r.clst = q[a + 2]
    <3>1. dh = ch /\ o = u.fp.sclust /\ SizeFits(q, s.fp.objsize)
      <4>1. a + 1 # Len(q)
        <5> HIDE DEF q
        <5> QED BY <2>16, <2>7
      <4> QED BY <4>1, <2>4
    <3>2. a + 2 \in 1 .. Len(q)
      <4> HIDE DEF q
      <4> QED BY <2>16, <2>7
    <3>3. Rechains(dh, dh, o, o)
      <4>1. 0 \notin DOMAIN dh  BY <2>1, Heads
      <4> QED BY <4>1, <2>4, RechainsSame
    <3>4. Keeps(s.v, r.v)  BY <2>16, KeepsSame
    <3>5. Good(r.v, dh, tab, but)  BY <2>1, <2>16
    <3>6. o \in DOMAIN dh /\ a + 2 \in 1 .. Len(dh[o]) /\ dh[o][a + 2] = r.clst
          /\ Buffers(s.fp, dh[o])
      BY <3>2, <2>4, <2>16
    <3>7. dh = ch /\ o = u.fp.sclust /\ SizeFits(dh[o], s.fp.objsize)  BY <3>1
    <3>8. r.clst \in Cluster  BY <2>16
    <3> HIDE DEF t, q, c, o
    <3> QED BY <3>3, <3>4, <3>5, <3>6, <3>7, <3>8, <2>15 DEF t
  <2>17. CASE r.clst \in Cluster /\ Allocated(s.v, c, r) /\ a + 1 = Len(q) /\ writes
    <3> DEFINE eh == Grown(dh, o, r.clst)
    <3>1. LongerFile(s.v, dh, tab, but, o, r, eh)
      <4>1. c = dh[o][Len(dh[o])]  BY <2>17
      <4>2. Allocated(s.v, dh[o][Len(dh[o])], r)  BY <4>1, <2>17
      <4> HIDE DEF eh
      <4> QED BY <4>2, <2>1, <2>4, GrowFile DEF eh
    <3> HIDE DEF eh
    <3>2. /\ Good(r.v, eh, tab, but) /\ Rechains(dh, eh, o, o) /\ Keeps(s.v, r.v)
          /\ o \in DOMAIN eh \ DOMAIN tab /\ Len(eh[o]) = Len(q) + 1
          /\ eh[o][Len(q) + 1] = r.clst
          /\ \A k \in 1 .. Len(q) : eh[o][k] = q[k]
      BY <3>1 DEF LongerFile
    <3> HIDE DEF q
    <3>3. a + 2 = Len(q) + 1 /\ a + 2 = Len(eh[o]) /\ a + 2 \in 1 .. Len(eh[o])
          /\ Len(eh[o]) - 1 = Len(q)
      BY <3>2, <2>7, <2>17
    <3>4. Buffers(s.fp, eh[o])
      <4>1. \A k \in 1 .. Len(q) : k \in 1 .. Len(eh[o])  BY <3>2, <2>7
      <4> QED BY <4>1, <3>2, <2>4 DEF Buffers
    <3>5. s.fp.objsize <= (Len(eh[o]) - 1) * CLSZ
      <4> DEFINE m == (Len(q) - 1) * CLSZ
                 l == Len(q) * CLSZ
      <4>1. s.fp.objsize \in m + 1 .. l \/ s.fp.objsize <= m  BY <2>4 DEF SizeFits, q
      <4>2. m \in Nat /\ l = m + CLSZ  BY <2>8
      <4> HIDE DEF m, l
      <4>3. s.fp.objsize <= l  BY <4>1, <4>2, <2>9, <1>3
      <4> QED BY <4>3, <3>3 DEF l
    <3>6. /\ r.clst \in Cluster /\ Good(r.v, eh, tab, but) /\ Rechains(dh, eh, o, o)
          /\ Keeps(s.v, r.v) /\ o \in DOMAIN eh /\ eh[o][a + 2] = r.clst
          /\ a + 2 = Len(eh[o]) /\ writes
      BY <3>2, <3>3, <2>17
    <3> HIDE DEF t, c, o, writes
    <3> QED BY <3>3, <3>4, <3>5, <3>6, <2>15 DEF t
  <2> QED BY <2>10, <2>13, <2>16, <2>17
<1> QED BY <1>4, <1>5

=============================================================================
