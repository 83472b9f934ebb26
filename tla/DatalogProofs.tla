--------------------------- MODULE DatalogProofs ---------------------------
(***************************************************************************)
(* Theorems about Datalog: its inductive invariant, what follows from it,  *)
(* and that logging to the card implements DurableLog.                     *)
(*                                                                         *)
(* The first part is about cards alone: chains of clusters, what makes a   *)
(* card sound, and which writes of one sector leave it sound.  The second  *)
(* states the invariant: what is on the card at any moment, and how it     *)
(* relates to what FatFs holds in memory.  The third has a lemma for each  *)
(* step of FatFs, named for the step, then for the steps of datalog.c and  *)
(* the loss of power.  The theorems come last.                             *)
(***************************************************************************)
EXTENDS Datalog, FiniteSetTheorems, WellFoundedInduction, TLAPS

(***************************************************************************)
(* Numbers.                                                                *)
(***************************************************************************)
CB == SS * CSIZE                                      \* slots of a cluster

(* Induction up to a bound, over the numbers of a set. *)
LEMMA Induction ==
  ASSUME NEW n \in Nat, NEW S, 0 \in S, \A k \in 0 .. n - 1 : k \in S => k + 1 \in S
  PROVE  \A k \in 0 .. n : k \in S
<1> DEFINE I == 0 .. n
           R == StrictSubsetOrdering(I)
           T == {X \in SUBSET I : \E k \in I : k \notin S /\ X = 0 .. k}
<1>1. IsWellFoundedOn(R, SUBSET I)
  <2>1. IsFiniteSet(I)  BY FS_Interval
  <2> HIDE DEF I
  <2> QED BY <2>1, FS_StrictSubsetOrderingWellFounded, FS_FiniteSubsetsOfFinite
<1> SUFFICES ASSUME NEW j \in I, j \notin S  PROVE FALSE
  OBVIOUS
<1>2. T # {} /\ T \subseteq SUBSET I
  <2>1. 0 .. j \in T  OBVIOUS
  <2> QED BY <2>1
<1>3. PICK X \in T : \A Y \in T : << Y, X >> \notin R
  <2> HIDE DEF T, R, I
  <2> QED BY <1>1, <1>2, WFMin
<1>4. PICK k \in I : k \notin S /\ X = 0 .. k
  BY <1>3
<1>5. k # 0 /\ k - 1 \in 0 .. n - 1
  BY <1>4
<1>6. k - 1 \notin S
  <2>1. (k - 1) + 1 = k  BY <1>5
  <2> QED BY <1>4, <1>5, <2>1
<1>7. 0 .. k - 1 \in T
  <2>1. k - 1 \in I /\ 0 .. k - 1 \subseteq I  BY <1>5
  <2> QED BY <1>6, <2>1
<1>8. << 0 .. k - 1, X >> \in R
  <2>1. 0 .. k - 1 \subseteq X /\ k \in X /\ k \notin 0 .. k - 1  BY <1>4, <1>5
  <2>2. 0 .. k - 1 \in SUBSET I /\ X \in SUBSET I  BY <1>5, <1>4
  <2> QED BY <2>1, <2>2 DEF StrictSubsetOrdering
<1> QED BY <1>3, <1>7, <1>8

(* Division with a remainder. *)
LEMMA Division ==
  ASSUME NEW b \in Nat, b # 0, NEW a \in Nat
  PROVE  a \div b \in Nat /\ a % b \in 0 .. b - 1 /\ a = (b * (a \div b)) + (a % b)
OBVIOUS

(* Division undoes multiplication. *)
LEMMA Quotient ==
  ASSUME NEW b \in Nat, b # 0, NEW q \in Nat, NEW r \in 0 .. b - 1
  PROVE  (b * q + r) \div b = q /\ (b * q + r) % b = r
<1> DEFINE a == b * q + r
           p == a \div b
           t == a % b
<1>1. a \in Nat  OBVIOUS
<1>2. p \in Nat /\ t \in 0 .. b - 1 /\ a = b * p + t
  <2> HIDE DEF a
  <2> QED BY <1>1, Division
<1> HIDE DEF p, t
<1>3. b * (p - q) = r - t  BY <1>2
<1>4. p = q
  <2>1. CASE p >= q + 1
    <3>1. b * (p - q) >= b  BY <2>1, <1>2
    <3> QED BY <3>1, <1>2, <1>3
  <2>2. CASE q >= p + 1
    <3>1. b * (q - p) >= b  BY <2>2, <1>2
    <3>2. b * (q - p) = 0 - b * (p - q)  BY <1>2
    <3> QED BY <3>1, <3>2, <1>2, <1>3
  <2> QED BY <2>1, <2>2, <1>2
<1> QED BY <1>3, <1>4, <1>2 DEF p, t

(* One position on, the quotient or the remainder grows. *)
LEMMA NextPosition ==
  ASSUME NEW b \in Nat, b # 0, NEW a \in Nat
  PROVE  IF (a + 1) % b = 0
         THEN (a + 1) \div b = (a \div b) + 1 /\ a % b = b - 1
         ELSE (a + 1) \div b = a \div b /\ (a + 1) % b = (a % b) + 1
<1> DEFINE q == a \div b
           r == a % b
<1>1. q \in Nat /\ r \in 0 .. b - 1 /\ a = b * q + r  BY Division
<1> HIDE DEF q, r
<1>2. CASE r = b - 1
  <2>1. a + 1 = b * (q + 1) + 0  BY <1>1, <1>2
  <2>2. (b * (q + 1) + 0) \div b = q + 1 /\ (b * (q + 1) + 0) % b = 0
    BY Quotient, <1>1
  <2> QED BY <2>1, <2>2, <1>2 DEF q, r
<1>3. CASE r # b - 1
  <2>1. a + 1 = b * q + (r + 1) /\ r + 1 \in 0 .. b - 1  BY <1>1, <1>3
  <2>2. (b * q + (r + 1)) \div b = q /\ (b * q + (r + 1)) % b = r + 1
    BY Quotient, <1>1, <2>1
  <2>3. (a + 1) \div b = q /\ (a + 1) % b = r + 1  BY <2>1, <2>2
  <2> QED BY <2>3, <1>1 DEF q, r
<1> QED BY <1>2, <1>3

(* A sum that stays below the divisor leaves the quotient alone. *)
LEMMA Within ==
  ASSUME NEW b \in Nat, b # 0, NEW a \in Nat, NEW j \in Nat, (a % b) + j < b
  PROVE  (a + j) \div b = a \div b /\ (a + j) % b = (a % b) + j
<1> DEFINE q == a \div b
           r == a % b
<1>1. q \in Nat /\ r \in 0 .. b - 1 /\ a = b * q + r  BY Division
<1>2. r + j < b  OBVIOUS
<1> HIDE DEF q, r
<1>3. a + j = b * q + (r + j) /\ r + j \in 0 .. b - 1  BY <1>1, <1>2
<1>4. (b * q + (r + j)) \div b = q /\ (b * q + (r + j)) % b = r + j
  BY Quotient, <1>1, <1>3
<1> QED BY <1>3, <1>4 DEF q, r

(* The sizes of a volume are positive, and so are their products. *)
LEMMA Sizes ==
  /\ SS \in Nat /\ SS # 0 /\ CSIZE \in Nat /\ CSIZE # 0 /\ NCLST \in Nat /\ NCLST # 0
  /\ CB \in Nat /\ CB # 0 /\ NCLST * CB \in Nat /\ NCLST * CSIZE * SS = NCLST * CB
  /\ CardSlot = 0 .. NCLST * CB - 1
<1>1. /\ SS \in Nat /\ SS # 0 /\ CSIZE \in Nat /\ CSIZE # 0 /\ NCLST \in Nat /\ NCLST # 0
  BY FatFsAssumption
<1>2. SS * CSIZE \in Nat /\ SS * CSIZE # 0  BY <1>1
<1>3. NCLST * CSIZE * SS = NCLST * (SS * CSIZE)  BY <1>1
<1>4. NCLST * (SS * CSIZE) \in Nat  BY <1>1, <1>2
<1> QED BY <1>1, <1>2, <1>3, <1>4 DEF CB, CardSlot

(* A slot of a chain by its cluster, its sector and its place there. *)
LEMMA Position ==
  ASSUME NEW i \in Nat
  PROVE  /\ i \div CB \in Nat /\ (i \div SS) % CSIZE \in 0 .. CSIZE - 1 /\ i % SS \in Slot
         /\ i \div SS \in Nat /\ i \div SS = CSIZE * (i \div CB) + ((i \div SS) % CSIZE)
         /\ i = SS * (i \div SS) + (i % SS)
         /\ i % CB = SS * ((i \div SS) % CSIZE) + (i % SS)
         /\ i \in CardSlot => i \div CB \in 0 .. NCLST - 1
<1> DEFINE q == i \div SS
           r == i % SS
           t == q \div CSIZE
           u == q % CSIZE
<1>1. q \in Nat /\ r \in 0 .. SS - 1 /\ i = SS * q + r
  BY Sizes, Division
<1>2. t \in Nat /\ u \in 0 .. CSIZE - 1 /\ q = CSIZE * t + u
  <2> HIDE DEF q
  <2> QED BY <1>1, Sizes, Division
<1>3. u \in 0 .. CSIZE - 1 /\ r \in 0 .. SS - 1 /\ t \in Nat  BY <1>1, <1>2
<1>4. SS * u + r \in 0 .. CB - 1
  <2> HIDE DEF u, r
  <2>1. SS * u <= SS * (CSIZE - 1)  BY <1>3, Sizes
  <2>2. SS * u \in Nat  BY <1>3, Sizes
  <2>3. SS * (CSIZE - 1) = SS * CSIZE - SS  BY Sizes
  <2> QED BY <2>1, <2>2, <2>3, <1>3, Sizes DEF CB
<1>5. i = CB * t + (SS * u + r)
  <2> HIDE DEF q, r, t, u
  <2>1. i = SS * (CSIZE * t + u) + r  BY <1>1, <1>2
  <2> QED BY <2>1, <1>2, <1>1, Sizes DEF CB
<1>6. i \div CB = t /\ i % CB = SS * u + r
  <2> HIDE DEF t, u, r
  <2>1. (CB * t + (SS * u + r)) \div CB = t /\ (CB * t + (SS * u + r)) % CB = SS * u + r
    <3> DEFINE v == SS * u + r
    <3> HIDE DEF v
    <3> SUFFICES (CB * t + v) \div CB = t /\ (CB * t + v) % CB = v  BY DEF v
    <3>1. v \in 0 .. CB - 1  BY <1>4 DEF v
    <3> QED BY <1>3, <3>1, Sizes, Quotient
  <2> QED BY <1>5, <2>1
<1>7. i \in CardSlot => t \in 0 .. NCLST - 1
  <2> HIDE DEF t, u, r
  <2> SUFFICES ASSUME i < NCLST * CB, t >= NCLST PROVE FALSE
    BY <1>3, Sizes
  <2>1. CB * t >= CB * NCLST  BY <1>3, Sizes
  <2> QED BY <2>1, <1>3, <1>4, <1>5, Sizes
<1> QED BY <1>1, <1>2, <1>6, <1>7 DEF Slot

(* The cluster, the sector and the slot that a position stands for *)
LEMMA InRange ==
  ASSUME NEW i \in CardSlot
  PROVE  /\ i \in Nat /\ i \div CB \in 0 .. NCLST - 1 /\ i \div CB \in 0 .. NCLST
         /\ (i \div SS) % CSIZE \in 0 .. CSIZE - 1 /\ i % SS \in Slot
<1>1. i \in Nat  BY Sizes
<1>2. /\ i \div CB \in 0 .. NCLST - 1
      /\ (i \div SS) % CSIZE \in 0 .. CSIZE - 1 /\ i % SS \in Slot
  BY <1>1, Position
<1>3. 0 .. NCLST - 1 \subseteq 0 .. NCLST  BY Sizes
<1> QED BY <1>1, <1>2, <1>3

(* A position is known by its cluster, its sector and its slot. *)
LEMMA PositionIsUnique ==
  ASSUME NEW i \in Nat, NEW j \in Nat, i \div CB = j \div CB,
         (i \div SS) % CSIZE = (j \div SS) % CSIZE
  PROVE  i \div SS = j \div SS /\ (i % SS = j % SS => i = j)
<1>1. i \div SS = j \div SS
  <2>1. i \div SS = CSIZE * (i \div CB) + ((i \div SS) % CSIZE)  BY Position
  <2>2. j \div SS = CSIZE * (j \div CB) + ((j \div SS) % CSIZE)  BY Position
  <2> QED BY <2>1, <2>2
<1>2. i = SS * (i \div SS) + (i % SS)  BY Position
<1>3. j = SS * (j \div SS) + (j % SS)  BY Position
<1> QED BY <1>1, <1>2, <1>3

(***************************************************************************)
(* Chains of clusters.                                                     *)
(***************************************************************************)
LinkVal == {0, EOC} \cup Cluster                   \* what an entry of the FAT holds
Maps == [Cluster -> LinkVal]

(* No cluster follows two others. *)
OneWay(n) == \A c, e \in Cluster : n[c] \in Cluster /\ n[c] = n[e] => c = e

(* A cluster that follows none *)
Top(n, h) == h \in Cluster /\ \A c \in Cluster : n[c] # h

(* What leads somewhere in n leads there in m too. *)
Extends(n, m) == \A c \in Cluster : n[c] \in Cluster => m[c] = n[c]

(* The entries of the FAT that mean something else than a link are no      *)
(* clusters.                                                               *)
LEMMA Constants ==
  /\ dirbase \in Cluster /\ EOC \in Nat /\ Unknown \in Nat /\ n_fatent \in Nat
  /\ EOC \notin Cluster /\ 0 \notin Cluster /\ EOC # 0 /\ Cluster \subseteq Nat
  /\ Unknown \notin Cluster /\ EOC > 1 /\ \A c \in Cluster : c > 1
BY Sizes DEF dirbase, Cluster, EOC, Unknown, n_fatent

(* A chain follows the FAT from its first cluster on. *)
LEMMA ChainDef ==
  ASSUME NEW n \in Maps, NEW c
  PROVE  /\ Chain(n, c)[0] = c
         /\ \A k \in 1 .. NCLST : Chain(n, c)[k] = Follow(n, Chain(n, c)[k - 1])
         /\ \A k \in 0 .. NCLST : Chain(n, c)[k] \in LinkVal \cup {c}
<1> DEFINE V == LinkVal \cup {c}
           Fits(f, k) == /\ f \in [0 .. k -> V] /\ f[0] = c
                         /\ \A j \in 1 .. k : f[j] = Follow(n, f[j - 1])
           S == {k \in 0 .. NCLST : \E f \in [0 .. k -> V] : Fits(f, k)}
           Step(at) == [k \in 0 .. NCLST |-> IF k = 0 THEN c ELSE Follow(n, at[k - 1])]
<1>1. \A v \in V : Follow(n, v) \in V
  BY DEF Maps, Follow, LinkVal
<1>2. 0 \in S
  <2> DEFINE f == [j \in 0 .. 0 |-> c]
  <2>1. f \in [0 .. 0 -> V]  OBVIOUS
  <2>2. Fits(f, 0)  OBVIOUS
  <2>3. 0 \in 0 .. NCLST  BY Sizes
  <2> HIDE DEF f, Fits
  <2> QED BY <2>1, <2>2, <2>3
<1>3. ASSUME NEW k \in 0 .. NCLST - 1, k \in S  PROVE k + 1 \in S
  <2>1. PICK f \in [0 .. k -> V] : Fits(f, k)  BY <1>3
  <2> DEFINE g == [j \in 0 .. k + 1 |-> IF j = k + 1 THEN Follow(n, f[k]) ELSE f[j]]
  <2>2. k \in Nat /\ k + 1 \in 0 .. NCLST  BY Sizes
  <2>3. g \in [0 .. k + 1 -> V]
    <3>1. Follow(n, f[k]) \in V  BY <1>1, <2>1, <2>2
    <3> QED BY <3>1, <2>1, <2>2
  <2>4. g[0] = c  BY <2>1, <2>2
  <2>5. ASSUME NEW j \in 1 .. k + 1  PROVE g[j] = Follow(n, g[j - 1])
    <3>1. CASE j = k + 1
      <4>1. g[j] = Follow(n, f[k]) /\ g[j - 1] = f[k]  BY <3>1, <2>2
      <4> QED BY <4>1
    <3>2. CASE j # k + 1
      <4>1. j \in 1 .. k /\ j - 1 \in 0 .. k  BY <3>2, <2>2
      <4>2. g[j] = f[j] /\ g[j - 1] = f[j - 1]  BY <4>1, <2>2
      <4> QED BY <4>1, <4>2, <2>1
    <3> QED BY <3>1, <3>2
  <2>6. Fits(g, k + 1)  BY <2>3, <2>4, <2>5
  <2> QED BY <2>2, <2>3, <2>6
<1>4. NCLST \in S
  <2>1. \A k \in 0 .. NCLST - 1 : k \in S => k + 1 \in S  BY <1>3
  <2>2. \A k \in 0 .. NCLST : k \in S
    <3> HIDE DEF S
    <3> QED BY <1>2, <2>1, Induction, Sizes
  <2> HIDE DEF S
  <2> QED BY <2>2, Sizes
<1>5. PICK f \in [0 .. NCLST -> V] : Fits(f, NCLST)  BY <1>4
<1>6. f = Step(f)  BY <1>5, Sizes
<1>7. Chain(n, c) = CHOOSE at : at = Step(at)  BY DEF Chain
<1>8. Chain(n, c) = Step(Chain(n, c))
  <2> HIDE DEF Step
  <2> QED BY <1>6, <1>7
<1> DEFINE h == Chain(n, c)
<1>9. /\ h[0] = c /\ \A k \in 1 .. NCLST : h[k] = Follow(n, h[k - 1])
  <2> HIDE DEF h
  <2>1. h = Step(h)  BY <1>8 DEF h
  <2> QED BY <2>1, Sizes
<1>10. \A k \in 0 .. NCLST : h[k] \in V
  <2> HIDE DEF h
  <2> DEFINE W == {k \in 0 .. NCLST : h[k] \in V}
  <2>1. 0 \in W  BY <1>9, Sizes
  <2>2. \A k \in 0 .. NCLST - 1 : k \in W => k + 1 \in W
    <3> TAKE k \in 0 .. NCLST - 1
    <3> HAVE k \in W
    <3>1. k + 1 \in 1 .. NCLST /\ (k + 1) - 1 = k /\ k + 1 \in 0 .. NCLST  BY Sizes
    <3> QED BY <3>1, <1>9, <1>1
  <2>3. \A k \in 0 .. NCLST : k \in W
    <3> HIDE DEF W
    <3> QED BY <2>1, <2>2, Induction, Sizes
  <2> QED BY <2>3
<1> QED BY <1>9, <1>10

(* Step by step. *)
LEMMA ChainStep ==
  ASSUME NEW n \in Maps, NEW c, NEW k \in 0 .. NCLST - 1
  PROVE  /\ Chain(n, c)[k + 1] = Follow(n, Chain(n, c)[k])
         /\ Chain(n, c)[k + 1] \in Cluster =>
              Chain(n, c)[k] \in Cluster /\ Chain(n, c)[k + 1] = n[Chain(n, c)[k]]
         /\ Chain(n, c)[k] \in Cluster => Chain(n, c)[k + 1] = n[Chain(n, c)[k]]
<1>1. k + 1 \in 1 .. NCLST /\ (k + 1) - 1 = k  BY Sizes
<1>2. Chain(n, c)[k + 1] = Follow(n, Chain(n, c)[k])  BY <1>1, ChainDef
<1> QED BY <1>2, Constants DEF Follow

(* The clusters come before the end. *)
LEMMA ChainPrefix ==
  ASSUME NEW n \in Maps, NEW c, NEW k \in 0 .. NCLST, Chain(n, c)[k] \in Cluster
  PROVE  \A j \in 0 .. k : Chain(n, c)[j] \in Cluster
<1> DEFINE S == {j \in 0 .. k : Chain(n, c)[k - j] \in Cluster}
<1>1. 0 \in S  BY Sizes
<1>2. ASSUME NEW j \in 0 .. k - 1, j \in S  PROVE j + 1 \in S
  <2>1. k - (j + 1) \in 0 .. NCLST - 1 /\ (k - (j + 1)) + 1 = k - j /\ j + 1 \in 0 .. k
    BY Sizes
  <2>2. Chain(n, c)[(k - (j + 1)) + 1] \in Cluster  BY <1>2, <2>1
  <2>3. Chain(n, c)[k - (j + 1)] \in Cluster  BY <2>1, <2>2, ChainStep
  <2> QED BY <2>1, <2>3
<1>3. \A j \in 0 .. k : j \in S
  <2> HIDE DEF S
  <2> QED BY <1>1, <1>2, Induction, Sizes
<1> TAKE j \in 0 .. k
<1>4. k - j \in S /\ k - (k - j) = j  BY <1>3, Sizes
<1> QED BY <1>4

(* Two chains that begin at the top have no cluster in common, and none    *)
(* has a cluster twice.                                                    *)
LEMMA ChainsMeetNowhere ==
  ASSUME NEW n \in Maps, OneWay(n), NEW g, Top(n, g), NEW h, Top(n, h),
         NEW i \in 0 .. NCLST, NEW j \in 0 .. NCLST,
         Chain(n, g)[i] \in Cluster, Chain(n, g)[i] = Chain(n, h)[j]
  PROVE  i = j /\ g = h
<1> DEFINE G == Chain(n, g)
           H == Chain(n, h)
           S == {k \in 0 .. NCLST : \A l \in 0 .. NCLST :
                   G[k] \in Cluster /\ G[k] = H[l] => k = l /\ g = h}
<1>1. G[0] = g /\ H[0] = h  BY ChainDef
<1>2. ASSUME NEW l \in 0 .. NCLST, l # 0, H[l] \in Cluster
      PROVE  /\ l - 1 \in 0 .. NCLST /\ H[l - 1] \in Cluster /\ H[l] = n[H[l - 1]]
  <2>1. l - 1 \in 0 .. NCLST - 1 /\ (l - 1) + 1 = l /\ l - 1 \in 0 .. NCLST  BY <1>2, Sizes
  <2> QED BY <1>2, <2>1, ChainStep
<1> HIDE DEF G, H
<1>3. 0 \in S
  <2> SUFFICES ASSUME NEW l \in 0 .. NCLST, G[0] \in Cluster, G[0] = H[l]
               PROVE  0 = l /\ g = h
    BY Sizes
  <2>1. l = 0  BY <1>1, <1>2 DEF Top
  <2> QED BY <2>1, <1>1
<1>4. ASSUME NEW k \in 0 .. NCLST - 1, k \in S  PROVE k + 1 \in S
  <2> SUFFICES ASSUME NEW l \in 0 .. NCLST, G[k + 1] \in Cluster, G[k + 1] = H[l]
               PROVE  k + 1 = l /\ g = h
    BY Sizes
  <2>1. G[k] \in Cluster /\ G[k + 1] = n[G[k]]  BY ChainStep DEF G
  <2>2. l # 0  BY <2>1, <1>1 DEF Top
  <2>3. l - 1 \in 0 .. NCLST /\ H[l - 1] \in Cluster /\ H[l] = n[H[l - 1]]  BY <2>2, <1>2
  <2>4. G[k] = H[l - 1]  BY <2>1, <2>3 DEF OneWay
  <2>5. k = l - 1 /\ g = h  BY <2>1, <2>3, <2>4, <1>4
  <2> QED BY <2>5, Sizes
<1>5. \A k \in 0 .. NCLST : k \in S
  <2> HIDE DEF S
  <2> QED BY <1>3, <1>4, Induction, Sizes
<1> QED BY <1>5 DEF G, H

(* So no chain is longer than the volume has clusters. *)
LEMMA ChainEnds ==
  ASSUME NEW n \in Maps, OneWay(n), NEW h, Top(n, h)
  PROVE  Chain(n, h)[NCLST] \notin Cluster
<1> SUFFICES ASSUME Chain(n, h)[NCLST] \in Cluster  PROVE FALSE
  OBVIOUS
<1> DEFINE P == 0 .. NCLST
           f == [k \in P |-> Chain(n, h)[k]]
<1>1. f \in [P -> Cluster]  BY ChainPrefix, Sizes
<1>2. IsFiniteSet(P) /\ Cardinality(P) = NCLST + 1
  BY FS_Interval, Sizes
<1>3. IsFiniteSet(Cluster) /\ Cardinality(Cluster) = NCLST
  BY FS_Interval, Sizes DEF Cluster, n_fatent
<1>4. \E j, k \in P : j # k /\ f[j] = f[k]
  <2> HIDE DEF f, P
  <2> QED BY <1>1, <1>2, <1>3, FS_PigeonHole, Sizes
<1>5. PICK j \in P, k \in P : j # k /\ f[j] = f[k]  BY <1>4
<1>6. Chain(n, h)[j] \in Cluster /\ Chain(n, h)[j] = Chain(n, h)[k]  BY <1>1, <1>5
<1> QED BY <1>5, <1>6, ChainsMeetNowhere

(* A chain is only ever continued. *)
LEMMA ChainGrows ==
  ASSUME NEW n \in Maps, NEW m \in Maps, Extends(n, m), NEW h,
         NEW k \in 0 .. NCLST, Chain(n, h)[k] \in Cluster
  PROVE  Chain(m, h)[k] = Chain(n, h)[k]
<1> DEFINE S == {j \in 0 .. k : Chain(m, h)[j] = Chain(n, h)[j]}
<1>1. 0 \in S  BY ChainDef, Sizes
<1>2. ASSUME NEW j \in 0 .. k - 1, j \in S  PROVE j + 1 \in S
  <2>1. j \in 0 .. NCLST - 1 /\ j + 1 \in 0 .. k  BY Sizes
  <2>2. Chain(n, h)[j] \in Cluster /\ Chain(n, h)[j + 1] \in Cluster  BY <2>1, ChainPrefix
  <2>3. Chain(n, h)[j + 1] = n[Chain(n, h)[j]] /\ Chain(m, h)[j + 1] = m[Chain(m, h)[j]]
    BY <1>2, <2>1, <2>2, ChainStep
  <2> QED BY <1>2, <2>1, <2>2, <2>3 DEF Extends
<1>3. \A j \in 0 .. k : j \in S
  <2> HIDE DEF S
  <2> QED BY <1>1, <1>2, Induction, Sizes
<1> QED BY <1>3, Sizes

(* And by no more than the cluster y that was linked to its end x. *)
LEMMA ChainContinued ==
  ASSUME NEW n \in Maps, NEW x \in Cluster, NEW y \in Cluster, x # y,
         n[x] = EOC, n[y] = EOC,
         NEW m \in Maps, m[x] = y, \A c \in Cluster : c # x => m[c] = n[c],
         NEW h, NEW k \in 0 .. NCLST, Chain(m, h)[k] \in Cluster
  PROVE  \/ Chain(m, h)[k] = Chain(n, h)[k]
         \/ Chain(m, h)[k] = y /\ k > 0 /\ Chain(n, h)[k - 1] = x
<1> DEFINE S == {j \in 0 .. NCLST : Chain(m, h)[j] \in Cluster =>
                   \/ Chain(m, h)[j] = Chain(n, h)[j]
                   \/ Chain(m, h)[j] = y /\ j > 0 /\ Chain(n, h)[j - 1] = x}
<1>1. m \in Maps /\ m[x] = y /\ \A c \in Cluster : c # x => m[c] = n[c]
  OBVIOUS
<1>2. 0 \in S  BY <1>1, ChainDef, Sizes
<1>3. ASSUME NEW j \in 0 .. NCLST - 1, j \in S  PROVE j + 1 \in S
  <2> SUFFICES ASSUME Chain(m, h)[j + 1] \in Cluster
               PROVE  \/ Chain(m, h)[j + 1] = Chain(n, h)[j + 1]
                      \/ /\ Chain(m, h)[j + 1] = y /\ j + 1 > 0
                         /\ Chain(n, h)[(j + 1) - 1] = x
    BY Sizes
  <2>1. Chain(m, h)[j] \in Cluster /\ Chain(m, h)[j + 1] = m[Chain(m, h)[j]]
    BY <1>1, ChainStep
  <2>2. CASE Chain(m, h)[j] = y
    BY <2>1, <2>2, <1>1, Constants
  <2>3. CASE Chain(m, h)[j] # y
    <3>1. Chain(m, h)[j] = Chain(n, h)[j]  BY <1>3, <2>1, <2>3
    <3>2. Chain(n, h)[j + 1] = n[Chain(n, h)[j]]  BY <2>1, <3>1, ChainStep
    <3>3. j + 1 > 0 /\ (j + 1) - 1 = j  BY Sizes
    <3> QED BY <2>1, <3>1, <3>2, <3>3, <1>1
  <2> QED BY <2>2, <2>3
<1>4. \A j \in 0 .. NCLST : j \in S
  <2> HIDE DEF S
  <2> QED BY <1>2, <1>3, Induction, Sizes
<1> QED BY <1>4

(***************************************************************************)
(* Images of the card.                                                     *)
(***************************************************************************)
DirVal == [name : 0 .. MaxName, sclust : Cluster \cup {0}, size : 0 .. NCLST * CB]
PieceVal == [of : 0 .. MaxName, row : Nat]
SlotVal == DirVal \cup PieceVal
FatVal == [next : LinkVal]
InfoVal == [free : 0 .. NCLST \cup {Unknown}, next : 0 .. Unknown]

Image(d) ==
  /\ DOMAIN d = Sector /\ d = [s \in Sector |-> d[s]]
  /\ \A c \in 0 .. n_fatent - 1 : d[FatSector(c)] \in [Slot -> FatVal]
  /\ \A c \in Cluster, k \in 0 .. CSIZE - 1 : d[DataSector(c, k)] \in [Slot -> SlotVal]
  /\ d[InfoSector] \in InfoVal

(* The FAT: no cluster follows two others, none leads to the first one of  *)
(* the root directory or to a free one.                                    *)
LinksOK(n) ==
  /\ n \in Maps /\ OneWay(n)
  /\ Top(n, dirbase) /\ n[dirbase] # 0
  /\ \A c \in Cluster : n[c] \in Cluster => n[n[c]] # 0

(* The first cluster of a chain that is not the root directory's *)
IsHead(n, h) == Top(n, h) /\ h # dirbase /\ n[h] # 0

FreeSet(n) == {c \in Cluster : n[c] = 0}

Root(d) == Chain(Links(d), dirbase)
DirAt(d, i) == SlotOf(d, Root(d), i)
EntryAt(d, i) == i \in CardSlot /\ IsEntry(DirAt(d, i))
InRoot(d, c) == \E k \in 0 .. NCLST : Root(d)[k] = c

(* The root directory: no name and no first cluster twice, nothing after   *)
(* its end, and no entries elsewhere.                                      *)
NoNameTwice(d) ==
  \A i, j \in CardSlot :
    EntryAt(d, i) /\ EntryAt(d, j) /\ DirAt(d, i).name = DirAt(d, j).name => i = j
NoHeadTwice(d) ==
  \A i, j \in CardSlot :
    /\ EntryAt(d, i) /\ EntryAt(d, j)
    /\ DirAt(d, i).sclust # 0 /\ DirAt(d, i).sclust = DirAt(d, j).sclust
    => i = j
NothingAfterTheEnd(d) ==
  \A i, j \in CardSlot : i < j /\ DirAt(d, i) = NoEntry => ~EntryAt(d, j)
NoEntryElsewhere(d) ==
  \A c \in Cluster, k \in 0 .. CSIZE - 1, s \in Slot :
    ~InRoot(d, c) => ~IsEntry(d[DataSector(c, k)][s])

(* Every file has a chain of its own, which holds what was written. *)
Holds(d, h, of, size) ==
  \A p \in 0 .. size - 1 : SlotOf(d, Chain(Links(d), h), p) = Expected(of, p)
FilesOK(d) ==
  \A i \in CardSlot : EntryAt(d, i) =>
    LET e == DirAt(d, i)
    IN  /\ e.sclust # 0 => IsHead(Links(d), e.sclust)
        /\ Holds(d, e.sclust, e.name, e.size)

Counted(d) == Cardinality(FreeSet(Links(d))) <= d[InfoSector].free

Sound(d) ==
  /\ Image(d) /\ LinksOK(Links(d))
  /\ NoNameTwice(d) /\ NoHeadTwice(d) /\ NothingAfterTheEnd(d) /\ NoEntryElsewhere(d)
  /\ FilesOK(d) /\ Counted(d)

(* The image e comes from d by allocation and by new or longer files. *)
Behind(d, e) ==
  /\ \A c \in Cluster :
       /\ Links(d)[c] \in Cluster => Links(e)[c] = Links(d)[c]
       /\ Links(d)[c] # 0 => Links(e)[c] # 0
  /\ \A i \in CardSlot : EntryAt(d, i) =>
       /\ EntryAt(e, i) /\ DirAt(d, i).name = DirAt(e, i).name
       /\ DirAt(d, i).sclust \in {0, DirAt(e, i).sclust}
       /\ DirAt(d, i).size <= DirAt(e, i).size

Put(d, s, data) == [d EXCEPT ![s] = data]

(* Slot i of the chain ch is in sector k of cluster c. *)
InSector(ch, i, c, k) == ch[i \div CB] = c /\ (i \div SS) % CSIZE = k

(* Sectors have names of their own. *)
LEMMA SectorNames ==
  /\ \A c, e \in Nat : FatSector(c) = FatSector(e) <=> c \div SS = e \div SS
  /\ \A c, e, k, l : DataSector(c, k) = DataSector(e, l) <=> c = e /\ k = l
  /\ \A c, e, k : /\ FatSector(c) # DataSector(e, k) /\ FatSector(c) # InfoSector
                  /\ DataSector(e, k) # InfoSector /\ InfoSector # Nowhere
                  /\ FatSector(c) # Nowhere /\ DataSector(e, k) # Nowhere
  /\ \A c \in Cluster : FatSector(c) \in Sector /\ c \in 0 .. n_fatent - 1
  /\ \A c \in Cluster, k \in 0 .. CSIZE - 1 : DataSector(c, k) \in Sector
  /\ InfoSector \in Sector /\ Nowhere \notin Sector
<1>1. \A c, e \in Nat : FatSector(c) = FatSector(e) <=> c \div SS = e \div SS
  BY DEF FatSector
<1>2. \A c, e, k, l : DataSector(c, k) = DataSector(e, l) <=> c = e /\ k = l
  BY DEF DataSector
<1>3. \A c, e, k : FatSector(c) # DataSector(e, k) /\ FatSector(c) # InfoSector
  BY DEF FatSector, DataSector, InfoSector
<1>4. \A e, k : DataSector(e, k) # InfoSector /\ DataSector(e, k) # Nowhere
  BY DEF DataSector, InfoSector, Nowhere
<1>5. \A c : FatSector(c) # Nowhere /\ InfoSector # Nowhere
  BY DEF FatSector, InfoSector, Nowhere
<1>6. \A c \in Cluster : FatSector(c) \in Sector /\ c \in 0 .. n_fatent - 1
  BY Sizes DEF Sector, Cluster, n_fatent
<1>7. \A c \in Cluster, k \in 0 .. CSIZE - 1 : DataSector(c, k) \in Sector
  BY DEF Sector
<1>8. InfoSector \in Sector  BY DEF Sector
<1>9. Nowhere \notin Sector  BY <1>4, <1>5 DEF Sector
<1> QED BY <1>1, <1>2, <1>3, <1>4, <1>5, <1>6, <1>7, <1>8, <1>9

(* The place of a cluster in the FAT *)
LEMMA FatPlace ==
  ASSUME NEW c \in Cluster
  PROVE  /\ c % SS \in Slot /\ c \in Nat
         /\ \A e \in Cluster : FatSector(c) = FatSector(e) /\ c % SS = e % SS => c = e
<1>1. c \in Nat /\ c % SS \in Slot  BY Position, Constants
<1>2. ASSUME NEW e \in Cluster, FatSector(c) = FatSector(e), c % SS = e % SS
      PROVE  c = e
  <2>1. e \in Nat /\ c \div SS = e \div SS  BY <1>1, <1>2, Constants, SectorNames
  <2>2. c = SS * (c \div SS) + (c % SS)  BY <1>1, Position
  <2>3. e = SS * (e \div SS) + (e % SS)  BY <2>1, Position
  <2> QED BY <1>2, <2>1, <2>2, <2>3
<1> QED BY <1>1, <1>2

(* The FAT of a card is a map from clusters to links. *)
LEMMA LinksType ==
  ASSUME NEW d, Image(d)
  PROVE  /\ Links(d) \in Maps
         /\ \A c \in Cluster : Links(d)[c] = d[FatSector(c)][c % SS].next
<1>1. ASSUME NEW c \in Cluster  PROVE d[FatSector(c)][c % SS].next \in LinkVal
  <2>1. d[FatSector(c)] \in [Slot -> FatVal]  BY SectorNames DEF Image
  <2>2. d[FatSector(c)][c % SS] \in FatVal  BY <2>1, FatPlace
  <2> QED BY <2>2 DEF FatVal
<1> QED BY <1>1 DEF Links, Maps

(* What can be in a slot: an entry has a name, a piece of text is none. *)
LEMMA SlotValues ==
  /\ Junk \in PieceVal /\ NoEntry \in DirVal /\ Junk # NoEntry
  /\ \A v \in PieceVal : ~IsEntry(v)
  /\ \A v \in SlotVal : IsEntry(v) => v \in DirVal /\ v.name \in 1 .. MaxName
  /\ \A v \in DirVal : ~IsEntry(v) => v.name = 0
  /\ ~IsEntry(Junk) /\ ~IsEntry(NoEntry) /\ MaxName \in Nat /\ MaxName # 0
<1>1. MaxName \in Nat /\ MaxName # 0  BY DatalogAssumption
<1>2. Junk \in PieceVal  BY <1>1 DEF Junk, PieceVal
<1>3. NoEntry \in DirVal  BY <1>1, Sizes DEF NoEntry, DirVal
<1>4. \A v \in PieceVal : ~IsEntry(v)  BY DEF PieceVal, IsEntry
<1>5. \A v \in DirVal : (IsEntry(v) <=> v.name # 0) /\ v.name \in 0 .. MaxName
  BY DEF DirVal, IsEntry
<1>6. NoEntry.name = 0  BY DEF NoEntry
<1>7. Junk # NoEntry
  <2>1. DOMAIN Junk = {"of", "row"}  BY DEF Junk
  <2>2. "name" \in DOMAIN NoEntry  BY DEF NoEntry
  <2> QED BY <2>1, <2>2
<1> QED BY <1>1, <1>2, <1>3, <1>4, <1>5, <1>6, <1>7 DEF SlotVal

(* The slot of a chain, where it has one *)
LEMMA SlotOfChain ==
  ASSUME NEW d, Image(d), NEW ch, NEW i \in Nat
  PROVE  /\ SlotOf(d, ch, i) = IF ch[i \div CB] \in Cluster
                               THEN d[DataSector(ch[i \div CB], (i \div SS) % CSIZE)][i % SS]
                               ELSE Junk
         /\ SlotOf(d, ch, i) \in SlotVal
         /\ SlotOf(d, ch, i) # Junk => ch[i \div CB] \in Cluster
<1>1. SlotOf(d, ch, i) = IF ch[i \div CB] \in Cluster
                         THEN d[DataSector(ch[i \div CB], (i \div SS) % CSIZE)][i % SS]
                         ELSE Junk
  BY DEF SlotOf, CB
<1>2. SlotOf(d, ch, i) \in SlotVal
  <2>1. CASE ch[i \div CB] \in Cluster
    <3>1. (i \div SS) % CSIZE \in 0 .. CSIZE - 1 /\ i % SS \in Slot  BY Position
    <3>2. d[DataSector(ch[i \div CB], (i \div SS) % CSIZE)] \in [Slot -> SlotVal]
      BY <2>1, <3>1 DEF Image
    <3> QED BY <1>1, <2>1, <3>1, <3>2
  <2>2. CASE ch[i \div CB] \notin Cluster
    BY <1>1, <2>2, SlotValues DEF SlotVal
  <2> QED BY <2>1, <2>2
<1> QED BY <1>1, <1>2

(* The ranges of an entry in the root directory *)
LEMMA EntryType ==
  ASSUME NEW d, Image(d), NEW i, EntryAt(d, i)
  PROVE  /\ i \in Nat /\ DirAt(d, i) \in DirVal /\ DirAt(d, i).name \in 1 .. MaxName
         /\ DirAt(d, i).size \in 0 .. NCLST * CB
         /\ DirAt(d, i).sclust \in Cluster \cup {0}
         /\ Root(d)[i \div CB] \in Cluster /\ DirAt(d, i) # NoEntry
<1>1. i \in Nat  BY Sizes DEF EntryAt
<1>2. DirAt(d, i) \in SlotVal /\ IsEntry(DirAt(d, i))  BY <1>1, SlotOfChain DEF EntryAt, DirAt
<1>3. DirAt(d, i) # Junk /\ DirAt(d, i) # NoEntry  BY <1>2, SlotValues
<1>4. DirAt(d, i) \in DirVal /\ DirAt(d, i).name \in 1 .. MaxName  BY <1>2, SlotValues
<1>5. Root(d)[i \div CB] \in Cluster  BY <1>1, <1>3, SlotOfChain DEF DirAt
<1>6. DirAt(d, i).size \in 0 .. NCLST * CB /\ DirAt(d, i).sclust \in Cluster \cup {0}
  BY <1>4 DEF DirVal
<1> QED BY <1>1, <1>3, <1>4, <1>5, <1>6

(* A data sector is written. *)
LEMMA DataEdit ==
  ASSUME NEW d, Image(d), NEW c \in Cluster, NEW k \in 0 .. CSIZE - 1,
         NEW data \in [Slot -> SlotVal], NEW e, e = Put(d, DataSector(c, k), data)
  PROVE  /\ Image(e) /\ Links(e) = Links(d) /\ Root(e) = Root(d)
         /\ e[InfoSector] = d[InfoSector]
         /\ \A ch : \A i \in Nat :
              SlotOf(e, ch, i) = IF InSector(ch, i, c, k)
                                 THEN data[i % SS] ELSE SlotOf(d, ch, i)
<1>1. DataSector(c, k) \in Sector  BY SectorNames
<1>2. /\ DOMAIN e = Sector /\ e = [s \in Sector |-> e[s]]
      /\ \A s \in Sector : e[s] = IF s = DataSector(c, k) THEN data ELSE d[s]
  BY <1>1 DEF Image, Put
<1>3. \A b \in 0 .. n_fatent - 1 : e[FatSector(b)] = d[FatSector(b)]
  BY <1>2, SectorNames DEF Sector
<1>4. e[InfoSector] = d[InfoSector]  BY <1>2, SectorNames
<1>5. \A b \in Cluster, l \in 0 .. CSIZE - 1 :
        e[DataSector(b, l)] = IF b = c /\ l = k THEN data ELSE d[DataSector(b, l)]
  BY <1>2, SectorNames
<1>6. Image(e)
  <2>1. \A b \in 0 .. n_fatent - 1 : e[FatSector(b)] \in [Slot -> FatVal]
    BY <1>3 DEF Image
  <2>2. ASSUME NEW b \in Cluster, NEW l \in 0 .. CSIZE - 1
        PROVE  e[DataSector(b, l)] \in [Slot -> SlotVal]
    <3>1. d[DataSector(b, l)] \in [Slot -> SlotVal]  BY DEF Image
    <3>2. e[DataSector(b, l)] = IF b = c /\ l = k THEN data ELSE d[DataSector(b, l)]
      BY <1>5
    <3> QED BY <3>1, <3>2
  <2>3. e[InfoSector] \in InfoVal  BY <1>4 DEF Image
  <2> QED BY <1>2, <2>1, <2>2, <2>3 DEF Image
<1>7. Links(e) = Links(d)  BY <1>3, SectorNames DEF Links
<1>8. ASSUME NEW ch, NEW i \in Nat
      PROVE  SlotOf(e, ch, i) = IF InSector(ch, i, c, k)
                                THEN data[i % SS] ELSE SlotOf(d, ch, i)
  <2>1. (i \div SS) % CSIZE \in 0 .. CSIZE - 1  BY Position
  <2>2. SlotOf(e, ch, i) = IF ch[i \div CB] \in Cluster
                           THEN e[DataSector(ch[i \div CB], (i \div SS) % CSIZE)][i % SS]
                           ELSE Junk
    BY <1>6, SlotOfChain
  <2>3. SlotOf(d, ch, i) = IF ch[i \div CB] \in Cluster
                           THEN d[DataSector(ch[i \div CB], (i \div SS) % CSIZE)][i % SS]
                           ELSE Junk
    BY SlotOfChain
  <2> QED BY <1>5, <2>1, <2>2, <2>3 DEF InSector
<1> QED BY <1>4, <1>6, <1>7, <1>8 DEF Root

(* The sector belongs to one place of one chain. *)
LEMMA DataSectorOwner ==
  ASSUME NEW n, LinksOK(n), NEW g, Top(n, g), NEW h, Top(n, h),
         NEW q \in CardSlot, NEW c \in Cluster, NEW k, InSector(Chain(n, g), q, c, k),
         NEW p \in CardSlot
  PROVE  InSector(Chain(n, h), p, c, k) <=> h = g /\ p \div SS = q \div SS
<1>1. p \in Nat /\ q \in Nat  BY InRange
<1>2. p \div CB \in 0 .. NCLST /\ q \div CB \in 0 .. NCLST  BY InRange
<1>3. ASSUME InSector(Chain(n, h), p, c, k)
      PROVE  h = g /\ p \div SS = q \div SS
  <2>1. h = g /\ p \div CB = q \div CB
    BY <1>2, <1>3, ChainsMeetNowhere DEF LinksOK, InSector
  <2> QED BY <1>1, <1>3, <2>1, PositionIsUnique DEF InSector
<1>4. ASSUME p \div SS = q \div SS  PROVE p \div CB = q \div CB
  <2> DEFINE s == p \div SS
  <2>1. s \in Nat /\ s = CSIZE * (p \div CB) + (s % CSIZE) /\ s % CSIZE \in 0 .. CSIZE - 1
        /\ p \div CB \in Nat
    BY <1>1, Position
  <2>2. s = CSIZE * (q \div CB) + (s % CSIZE) /\ q \div CB \in Nat
    BY <1>1, <1>4, Position
  <2> HIDE DEF s
  <2> DEFINE u == s % CSIZE
  <2>3. u \in 0 .. CSIZE - 1 /\ s = CSIZE * (p \div CB) + u /\ s = CSIZE * (q \div CB) + u
    BY <2>1, <2>2
  <2> HIDE DEF u
  <2>4. (CSIZE * (p \div CB) + u) \div CSIZE = p \div CB  BY <2>1, <2>3, Sizes, Quotient
  <2>5. (CSIZE * (q \div CB) + u) \div CSIZE = q \div CB  BY <2>2, <2>3, Sizes, Quotient
  <2> QED BY <2>3, <2>4, <2>5
<1>5. ASSUME h = g, p \div SS = q \div SS  PROVE InSector(Chain(n, h), p, c, k)
  BY <1>4, <1>5 DEF InSector
<1> QED BY <1>3, <1>5

(* A slot of the directory is written. *)
LEMMA DirEdit ==
  ASSUME NEW d, Sound(d), NEW i \in CardSlot,
         NEW c \in Cluster, NEW k \in 0 .. CSIZE - 1, InSector(Root(d), i, c, k),
         NEW v, NEW data \in [Slot -> SlotVal],
         \A s \in Slot : data[s] = IF s = i % SS THEN v ELSE d[DataSector(c, k)][s],
         NEW e, e = Put(d, DataSector(c, k), data)
  PROVE  /\ Image(e) /\ Links(e) = Links(d) /\ Root(e) = Root(d) /\ Counted(e)
         /\ NoEntryElsewhere(e)
         /\ \A j \in CardSlot : DirAt(e, j) = IF j = i THEN v ELSE DirAt(d, j)
         /\ \A h : \A p \in CardSlot : Top(Links(d), h) /\ h # dirbase =>
              SlotOf(e, Chain(Links(d), h), p) = SlotOf(d, Chain(Links(d), h), p)
<1>1. i \in Nat /\ i % SS \in Slot /\ i \div CB \in 0 .. NCLST  BY InRange
<1>2. Image(d) /\ LinksOK(Links(d)) /\ Top(Links(d), dirbase)  BY DEF Sound, LinksOK
<1>3. /\ Image(e) /\ Links(e) = Links(d) /\ Root(e) = Root(d)
      /\ e[InfoSector] = d[InfoSector]
      /\ \A ch : \A j \in Nat :
           SlotOf(e, ch, j) = IF InSector(ch, j, c, k)
                              THEN data[j % SS] ELSE SlotOf(d, ch, j)
  BY <1>2, DataEdit
<1>4. ASSUME NEW j \in CardSlot  PROVE DirAt(e, j) = IF j = i THEN v ELSE DirAt(d, j)
  <2>1. j \in Nat /\ j % SS \in Slot  BY InRange
  <2>2. DirAt(e, j) = IF InSector(Root(d), j, c, k) THEN data[j % SS] ELSE DirAt(d, j)
    BY <1>3, <2>1 DEF DirAt
  <2>3. InSector(Root(d), j, c, k) <=> j \div SS = i \div SS
    BY <1>2, DataSectorOwner DEF Root
  <2>4. j \div SS = i \div SS /\ j % SS = i % SS => j = i
    <3>1. j = SS * (j \div SS) + (j % SS)  BY <2>1, Position
    <3>2. i = SS * (i \div SS) + (i % SS)  BY <1>1, Position
    <3> QED BY <3>1, <3>2
  <2>5. InSector(Root(d), j, c, k) => DirAt(d, j) = d[DataSector(c, k)][j % SS]
    BY <1>2, <2>1, SlotOfChain DEF DirAt, InSector
  <2> QED BY <1>1, <2>1, <2>2, <2>3, <2>4, <2>5
<1>5. ASSUME NEW h, NEW p \in CardSlot, Top(Links(d), h), h # dirbase
      PROVE  SlotOf(e, Chain(Links(d), h), p) = SlotOf(d, Chain(Links(d), h), p)
  <2>1. ~InSector(Chain(Links(d), h), p, c, k)
    BY <1>2, <1>5, DataSectorOwner DEF Root
  <2>2. p \in Nat  BY InRange
  <2> QED BY <1>3, <2>1, <2>2
<1>6. NoEntryElsewhere(e)
  <2> SUFFICES ASSUME NEW b \in Cluster, NEW l \in 0 .. CSIZE - 1, NEW s \in Slot,
                      ~InRoot(d, b)
               PROVE  ~IsEntry(e[DataSector(b, l)][s])
    BY <1>3 DEF NoEntryElsewhere, InRoot
  <2>1. b # c  BY <1>1 DEF InRoot, InSector
  <2>2. e[DataSector(b, l)] = d[DataSector(b, l)]
    <3>1. DataSector(b, l) \in Sector /\ DataSector(b, l) # DataSector(c, k)
      BY <2>1, SectorNames
    <3> QED BY <3>1, <1>2 DEF Image, Put
  <2> QED BY <2>2 DEF Sound, NoEntryElsewhere
<1>7. Counted(e)  BY <1>3 DEF Sound, Counted
<1> QED BY <1>3, <1>4, <1>5, <1>6, <1>7

(* What a file holds can be read. *)
LEMMA FileSlot ==
  ASSUME NEW d, Sound(d), NEW i, EntryAt(d, i), NEW p \in 0 .. DirAt(d, i).size - 1
  PROVE  /\ p \in CardSlot /\ Chain(Links(d), DirAt(d, i).sclust)[p \div CB] \in Cluster
         /\ SlotOf(d, Chain(Links(d), DirAt(d, i).sclust), p) = Expected(DirAt(d, i).name, p)
         /\ DirAt(d, i).sclust # 0 /\ IsHead(Links(d), DirAt(d, i).sclust)
<1> DEFINE x == DirAt(d, i)
           ch == Chain(Links(d), x.sclust)
<1>1. x.name \in 1 .. MaxName /\ x.size \in 0 .. NCLST * CB /\ x.sclust \in Cluster \cup {0}
  BY EntryType DEF Sound
<1>2. p \in CardSlot /\ p \in Nat  BY <1>1, Sizes
<1>3. SlotOf(d, ch, p) = Expected(x.name, p) /\ (x.sclust # 0 => IsHead(Links(d), x.sclust))
  BY DEF Sound, FilesOK, Holds, EntryAt
<1>4. Expected(x.name, p) # Junk
  <2>1. Expected(x.name, p).of = x.name  BY DEF Expected, Piece
  <2>2. Junk.of = 0  BY DEF Junk
  <2> QED BY <1>1, <2>1, <2>2
<1>5. ch[p \div CB] \in Cluster  BY <1>2, <1>3, <1>4, SlotOfChain DEF Sound
<1>6. x.sclust # 0
  <2>1. p \div CB \in 0 .. NCLST /\ Links(d) \in Maps
    BY <1>2, InRange DEF Sound, LinksOK
  <2>2. ch[0] \in Cluster  BY <1>5, <2>1, ChainPrefix
  <2> QED BY <2>1, <2>2, ChainDef, Constants
<1> QED BY <1>2, <1>3, <1>5, <1>6

(* An entry is filled in: a new file, of no length yet. *)
Full(d, i) == \A j \in CardSlot : j < i => DirAt(d, j) # NoEntry
NoKey(d, key) == \A i \in CardSlot : EntryAt(d, i) => DirAt(d, i).name # key
Register(key) == [name |-> key, sclust |-> 0, size |-> 0]

(* A new name in the first free entry of the root directory leaves the     *)
(* card sound: dir_register().                                             *)
LEMMA Registering ==
  ASSUME NEW d, Sound(d), NEW i \in CardSlot, Full(d, i), DirAt(d, i) = NoEntry,
         NEW key \in 1 .. MaxName, NoKey(d, key),
         NEW c \in Cluster, NEW k \in 0 .. CSIZE - 1, InSector(Root(d), i, c, k),
         NEW data \in [Slot -> SlotVal],
         NEW v, v = Register(key),
         \A s \in Slot : data[s] = IF s = i % SS THEN v ELSE d[DataSector(c, k)][s],
         NEW e, e = Put(d, DataSector(c, k), data)
  PROVE  /\ Sound(e) /\ Behind(d, e) /\ Links(e) = Links(d) /\ Root(e) = Root(d)
         /\ e[InfoSector] = d[InfoSector]
         /\ \A j \in CardSlot : DirAt(e, j) = IF j = i THEN v ELSE DirAt(d, j)
         /\ \A h : \A p \in CardSlot : Top(Links(d), h) /\ h # dirbase =>
              SlotOf(e, Chain(Links(d), h), p) = SlotOf(d, Chain(Links(d), h), p)
<1>1. v \in DirVal /\ IsEntry(v) /\ v.name = key /\ v.sclust = 0 /\ v.size = 0 /\ v # NoEntry
  <2>1. v.name = key /\ v.sclust = 0 /\ v.size = 0 /\ IsEntry(v)
    BY SlotValues DEF Register, IsEntry
  <2>2. v \in DirVal
    BY SlotValues, Sizes DEF Register, DirVal
  <2>3. v # NoEntry  BY <2>1, SlotValues
  <2> QED BY <2>1, <2>2, <2>3
<1>2. /\ Image(e) /\ Links(e) = Links(d) /\ Root(e) = Root(d) /\ Counted(e)
      /\ NoEntryElsewhere(e)
      /\ \A j \in CardSlot : DirAt(e, j) = IF j = i THEN v ELSE DirAt(d, j)
      /\ \A h : \A p \in CardSlot : Top(Links(d), h) /\ h # dirbase =>
           SlotOf(e, Chain(Links(d), h), p) = SlotOf(d, Chain(Links(d), h), p)
  BY DirEdit
<1>3. i \in Nat /\ \A j \in CardSlot : j \in Nat  BY InRange
<1>4. ~EntryAt(d, i)  BY SlotValues DEF EntryAt
<1>5. \A j \in CardSlot : EntryAt(e, j) <=> j = i \/ EntryAt(d, j)
  BY <1>1, <1>2 DEF EntryAt
<1>6. NoNameTwice(e)
  BY <1>1, <1>2, <1>5 DEF NoNameTwice, NoKey, Sound
<1>7. NoHeadTwice(e)
  BY <1>1, <1>2, <1>5 DEF NoHeadTwice, Sound
<1>8. NothingAfterTheEnd(e)
  <2> SUFFICES ASSUME NEW a \in CardSlot, NEW b \in CardSlot, a < b,
                      DirAt(e, a) = NoEntry, EntryAt(e, b)
               PROVE  FALSE
    BY DEF NothingAfterTheEnd
  <2>1. a # i /\ DirAt(d, a) = NoEntry  BY <1>1, <1>2
  <2>2. b = i  BY <1>5, <2>1 DEF Sound, NothingAfterTheEnd
  <2> QED BY <2>1, <2>2 DEF Full
<1>9. FilesOK(e)
  <2> SUFFICES ASSUME NEW j \in CardSlot, EntryAt(e, j)
               PROVE  /\ DirAt(e, j).sclust # 0 => IsHead(Links(e), DirAt(e, j).sclust)
                      /\ Holds(e, DirAt(e, j).sclust, DirAt(e, j).name, DirAt(e, j).size)
    BY DEF FilesOK
  <2>1. CASE j = i
    BY <1>1, <1>2, <2>1 DEF Holds
  <2>2. CASE j # i
    <3>1. EntryAt(d, j) /\ DirAt(e, j) = DirAt(d, j)  BY <1>2, <1>5, <2>2
    <3>2. DirAt(e, j).sclust # 0 => IsHead(Links(e), DirAt(e, j).sclust)
      BY <1>2, <3>1 DEF Sound, FilesOK
    <3>3. Holds(e, DirAt(e, j).sclust, DirAt(e, j).name, DirAt(e, j).size)
      <4> SUFFICES ASSUME NEW p \in 0 .. DirAt(d, j).size - 1
                   PROVE  SlotOf(e, Chain(Links(d), DirAt(d, j).sclust), p)
                            = Expected(DirAt(d, j).name, p)
        BY <1>2, <3>1 DEF Holds
      <4> QED BY <1>2, <3>1, FileSlot DEF IsHead
    <3> QED BY <3>2, <3>3
  <2> QED BY <2>1, <2>2
<1>10. Sound(e)
  BY <1>2, <1>6, <1>7, <1>8, <1>9 DEF Sound
<1>11. Behind(d, e)
  <2>1. ASSUME NEW j \in CardSlot, EntryAt(d, j)
        PROVE  /\ EntryAt(e, j) /\ DirAt(d, j) = DirAt(e, j)
               /\ DirAt(d, j).size <= DirAt(e, j).size
    <3>1. j # i /\ DirAt(d, j).size \in Nat  BY <1>4, <2>1, EntryType, Sizes DEF Sound
    <3>2. EntryAt(e, j) /\ DirAt(d, j) = DirAt(e, j)  BY <1>2, <1>5, <2>1, <3>1
    <3> QED BY <3>1, <3>2
  <2> QED BY <1>2, <2>1 DEF Behind
<1>12. e[InfoSector] = d[InfoSector]  BY DataEdit DEF Sound
<1> QED BY <1>2, <1>10, <1>11, <1>12

(* An entry gets the first cluster x and the length z of its file. *)
LEMMA Updating ==
  ASSUME NEW d, Sound(d), NEW i, EntryAt(d, i),
         NEW x \in Cluster \cup {0}, NEW z \in 0 .. NCLST * CB,
         DirAt(d, i).sclust \in {0, x}, DirAt(d, i).size <= z,
         x # 0 => IsHead(Links(d), x),
         \A j \in CardSlot : EntryAt(d, j) /\ j # i /\ x # 0 => DirAt(d, j).sclust # x,
         Holds(d, x, DirAt(d, i).name, z),
         NEW v, v = [name |-> DirAt(d, i).name, sclust |-> x, size |-> z],
         NEW c \in Cluster, NEW k \in 0 .. CSIZE - 1, InSector(Root(d), i, c, k),
         NEW data \in [Slot -> SlotVal],
         \A s \in Slot : data[s] = IF s = i % SS THEN v ELSE d[DataSector(c, k)][s],
         NEW e, e = Put(d, DataSector(c, k), data)
  PROVE  /\ Sound(e) /\ Behind(d, e) /\ Links(e) = Links(d) /\ Root(e) = Root(d)
         /\ e[InfoSector] = d[InfoSector]
         /\ \A j \in CardSlot : DirAt(e, j) = IF j = i THEN v ELSE DirAt(d, j)
         /\ \A h : \A p \in CardSlot : Top(Links(d), h) /\ h # dirbase =>
              SlotOf(e, Chain(Links(d), h), p) = SlotOf(d, Chain(Links(d), h), p)
<1>1. /\ v.name = DirAt(d, i).name /\ v.sclust = x /\ v.size = z
      /\ v.name \in 1 .. MaxName /\ v \in DirVal /\ IsEntry(v) /\ v # NoEntry
  <2>1. DirAt(d, i).name \in 1 .. MaxName  BY EntryType DEF Sound
  <2>2. v.name = DirAt(d, i).name /\ v.sclust = x /\ v.size = z  OBVIOUS
  <2>3. v \in DirVal /\ IsEntry(v)
    BY <2>1, SlotValues, Sizes DEF DirVal, IsEntry
  <2> QED BY <2>1, <2>2, <2>3, SlotValues
<1>2. i \in CardSlot  BY DEF EntryAt
<1>3. /\ Image(e) /\ Links(e) = Links(d) /\ Root(e) = Root(d) /\ Counted(e)
      /\ NoEntryElsewhere(e)
      /\ \A j \in CardSlot : DirAt(e, j) = IF j = i THEN v ELSE DirAt(d, j)
      /\ \A h : \A p \in CardSlot : Top(Links(d), h) /\ h # dirbase =>
           SlotOf(e, Chain(Links(d), h), p) = SlotOf(d, Chain(Links(d), h), p)
  BY <1>2, DirEdit
<1>4. i \in Nat /\ \A j \in CardSlot : j \in Nat  BY <1>2, InRange
<1>5. \A j \in CardSlot : EntryAt(e, j) <=> EntryAt(d, j)
  BY <1>1, <1>3 DEF EntryAt
<1>6. NoNameTwice(e)
  BY <1>1, <1>2, <1>3, <1>5 DEF NoNameTwice, Sound
<1>7. NoHeadTwice(e)
  BY <1>1, <1>2, <1>3, <1>5 DEF NoHeadTwice, Sound
<1>8. NothingAfterTheEnd(e)
  BY <1>1, <1>3, <1>5 DEF NothingAfterTheEnd, Sound
<1>9. FilesOK(e)
  <2> SUFFICES ASSUME NEW j \in CardSlot, EntryAt(e, j)
               PROVE  /\ DirAt(e, j).sclust # 0 => IsHead(Links(e), DirAt(e, j).sclust)
                      /\ Holds(e, DirAt(e, j).sclust, DirAt(e, j).name, DirAt(e, j).size)
    BY DEF FilesOK
  <2>1. CASE j = i
    <3>1. x # 0 => IsHead(Links(e), x)  BY <1>3
    <3>2. Holds(e, x, v.name, z)
      <4> SUFFICES ASSUME NEW p \in 0 .. z - 1
                   PROVE  SlotOf(e, Chain(Links(d), x), p) = Expected(v.name, p)
        BY <1>3 DEF Holds
      <4>1. SlotOf(d, Chain(Links(d), x), p) = Expected(v.name, p)
        BY <1>1 DEF Holds
      <4>2. p \in CardSlot  BY Sizes
      <4>3. x # 0
        <5> SUFFICES ASSUME x = 0 PROVE FALSE  OBVIOUS
        <5>1. p \div CB \in 0 .. NCLST /\ p \in Nat /\ Links(d) \in Maps
          BY <4>2, InRange DEF Sound, LinksOK
        <5>2. Chain(Links(d), 0)[p \div CB] \notin Cluster
          <6>1. Chain(Links(d), 0)[0] = 0  BY <5>1, ChainDef
          <6> QED BY <5>1, <6>1, ChainPrefix, Constants
        <5>3. SlotOf(d, Chain(Links(d), x), p) = Junk
          BY <5>1, <5>2, SlotOfChain DEF Sound
        <5>4. Expected(v.name, p).of = v.name  BY DEF Expected, Piece
        <5>5. Junk.of = 0  BY DEF Junk
        <5> QED BY <1>1, <4>1, <5>3, <5>4, <5>5
      <4> QED BY <1>3, <4>1, <4>2, <4>3 DEF IsHead
    <3> QED BY <1>1, <1>3, <2>1, <3>1, <3>2
  <2>2. CASE j # i
    <3>1. EntryAt(d, j) /\ DirAt(e, j) = DirAt(d, j)  BY <1>3, <1>5, <2>2
    <3>2. DirAt(e, j).sclust # 0 => IsHead(Links(e), DirAt(e, j).sclust)
      BY <1>3, <3>1 DEF Sound, FilesOK
    <3>3. Holds(e, DirAt(e, j).sclust, DirAt(e, j).name, DirAt(e, j).size)
      <4> SUFFICES ASSUME NEW p \in 0 .. DirAt(d, j).size - 1
                   PROVE  SlotOf(e, Chain(Links(d), DirAt(d, j).sclust), p)
                            = Expected(DirAt(d, j).name, p)
        BY <1>3, <3>1 DEF Holds
      <4> QED BY <1>3, <3>1, FileSlot DEF IsHead
    <3> QED BY <3>2, <3>3
  <2> QED BY <2>1, <2>2
<1>10. Sound(e)
  BY <1>3, <1>6, <1>7, <1>8, <1>9 DEF Sound
<1>11. Behind(d, e)
  <2>1. ASSUME NEW j \in CardSlot, EntryAt(d, j)
        PROVE  /\ EntryAt(e, j) /\ DirAt(d, j).name = DirAt(e, j).name
               /\ DirAt(d, j).sclust \in {0, DirAt(e, j).sclust}
               /\ DirAt(d, j).size <= DirAt(e, j).size
    <3>1. DirAt(d, j).size \in Nat  BY <2>1, EntryType, Sizes DEF Sound
    <3>2. CASE j = i  BY <1>1, <1>3, <1>5, <2>1, <3>2
    <3>3. CASE j # i  BY <1>3, <1>5, <2>1, <3>1, <3>3
    <3> QED BY <3>2, <3>3
  <2> QED BY <1>3, <2>1 DEF Behind
<1>12. e[InfoSector] = d[InfoSector]  BY DataEdit DEF Sound
<1> QED BY <1>3, <1>10, <1>11, <1>12

(* A sector of a file is written, with what the files that own it are to   *)
(* hold there.                                                             *)
LEMMA FileEdit ==
  ASSUME NEW d, Sound(d), NEW c \in Cluster, NEW k \in 0 .. CSIZE - 1,
         NEW data \in [Slot -> PieceVal],
         \A p \in CardSlot : ~InSector(Root(d), p, c, k),
         \A i \in CardSlot : EntryAt(d, i) =>
           \A p \in CardSlot :
             /\ InSector(Chain(Links(d), DirAt(d, i).sclust), p, c, k)
             /\ p < DirAt(d, i).size
             => data[p % SS] = Expected(DirAt(d, i).name, p),
         NEW e, e = Put(d, DataSector(c, k), data)
  PROVE  /\ Sound(e) /\ Links(e) = Links(d) /\ Root(e) = Root(d)
         /\ e[InfoSector] = d[InfoSector]
         /\ \A j \in CardSlot : DirAt(e, j) = DirAt(d, j)
         /\ \A ch : \A i \in Nat :
              SlotOf(e, ch, i) = IF InSector(ch, i, c, k)
                                 THEN data[i % SS] ELSE SlotOf(d, ch, i)
<1>1. Image(d) /\ data \in [Slot -> SlotVal]  BY DEF Sound, SlotVal
<1>2. /\ Image(e) /\ Links(e) = Links(d) /\ Root(e) = Root(d)
      /\ e[InfoSector] = d[InfoSector]
      /\ \A ch : \A i \in Nat :
           SlotOf(e, ch, i) = IF InSector(ch, i, c, k)
                              THEN data[i % SS] ELSE SlotOf(d, ch, i)
  BY <1>1, DataEdit
<1>3. \A j \in CardSlot : DirAt(e, j) = DirAt(d, j)
  BY <1>2, InRange DEF DirAt
<1>4. \A j \in CardSlot : EntryAt(e, j) <=> EntryAt(d, j)
  BY <1>3 DEF EntryAt
<1>5. NoNameTwice(e) /\ NoHeadTwice(e)
  BY <1>3, <1>4 DEF NoNameTwice, NoHeadTwice, Sound
<1>6. NothingAfterTheEnd(e)
  BY <1>3, <1>4 DEF NothingAfterTheEnd, Sound
<1>7. NoEntryElsewhere(e)
  <2> SUFFICES ASSUME NEW b \in Cluster, NEW l \in 0 .. CSIZE - 1, NEW s \in Slot,
                      ~InRoot(d, b)
               PROVE  ~IsEntry(e[DataSector(b, l)][s])
    BY <1>2 DEF NoEntryElsewhere, InRoot
  <2>1. DataSector(b, l) \in Sector  BY SectorNames
  <2>2. CASE DataSector(b, l) = DataSector(c, k)
    <3>1. e[DataSector(b, l)] = data  BY <1>1, <2>1, <2>2 DEF Image, Put
    <3> QED BY <3>1, SlotValues
  <2>3. CASE DataSector(b, l) # DataSector(c, k)
    <3>1. e[DataSector(b, l)] = d[DataSector(b, l)]  BY <1>1, <2>1, <2>3 DEF Image, Put
    <3> QED BY <3>1 DEF Sound, NoEntryElsewhere
  <2> QED BY <2>2, <2>3
<1>8. FilesOK(e)
  <2> SUFFICES ASSUME NEW j \in CardSlot, EntryAt(d, j)
               PROVE  /\ DirAt(d, j).sclust # 0 => IsHead(Links(d), DirAt(d, j).sclust)
                      /\ Holds(e, DirAt(d, j).sclust, DirAt(d, j).name, DirAt(d, j).size)
    BY <1>2, <1>3, <1>4 DEF FilesOK
  <2>1. DirAt(d, j).sclust # 0 => IsHead(Links(d), DirAt(d, j).sclust)
    BY DEF Sound, FilesOK
  <2>2. ASSUME NEW p \in 0 .. DirAt(d, j).size - 1
        PROVE  SlotOf(e, Chain(Links(d), DirAt(d, j).sclust), p) = Expected(DirAt(d, j).name, p)
    <3> DEFINE ch == Chain(Links(d), DirAt(d, j).sclust)
    <3>1. p \in CardSlot /\ SlotOf(d, ch, p) = Expected(DirAt(d, j).name, p)  BY FileSlot
    <3>2. p \in Nat /\ p < DirAt(d, j).size
      <4>1. DirAt(d, j).size \in Nat  BY <1>1, EntryType, Sizes
      <4> QED BY <4>1
    <3>3. SlotOf(e, ch, p) = IF InSector(ch, p, c, k) THEN data[p % SS] ELSE SlotOf(d, ch, p)
      BY <1>2, <3>2
    <3> QED BY <3>1, <3>2, <3>3
  <2> QED BY <1>2, <2>1, <2>2 DEF Holds
<1>9. Counted(e)  BY <1>2 DEF Sound, Counted
<1>10. Sound(e)  BY <1>2, <1>5, <1>6, <1>7, <1>8, <1>9 DEF Sound
<1> QED BY <1>2, <1>3, <1>10

(* A sector of the root directory behind the end is cleared. *)
NothingAfter(d, i) == \A j \in CardSlot : j > i => ~EntryAt(d, j)

(* Zeros past the end of the directory leave the card sound: dir_clear(). *)
LEMMA Clearing ==
  ASSUME NEW d, Sound(d), NEW c \in Cluster, NEW k \in 0 .. CSIZE - 1,
         NEW q \in CardSlot, InSector(Root(d), q, c, k),
         NEW i \in CardSlot, NothingAfter(d, i), Full(d, i),
         \A p \in CardSlot : InSector(Root(d), p, c, k) => p > i,
         NEW e, e = Put(d, DataSector(c, k), Zeros)
  PROVE  /\ Sound(e) /\ Links(e) = Links(d) /\ Root(e) = Root(d)
         /\ e[InfoSector] = d[InfoSector]
         /\ \A j \in CardSlot : j <= i => DirAt(e, j) = DirAt(d, j)
         /\ \A j \in CardSlot : EntryAt(e, j) <=> EntryAt(d, j)
         /\ \A j \in CardSlot : EntryAt(d, j) => DirAt(e, j) = DirAt(d, j)
<1>1. /\ Image(d) /\ Zeros \in [Slot -> SlotVal] /\ \A s \in Slot : Zeros[s] = NoEntry
  BY SlotValues DEF Sound, SlotVal, Zeros
<1>2. /\ Image(e) /\ Links(e) = Links(d) /\ Root(e) = Root(d)
      /\ e[InfoSector] = d[InfoSector]
      /\ \A ch : \A p \in Nat :
           SlotOf(e, ch, p) = IF InSector(ch, p, c, k)
                              THEN Zeros[p % SS] ELSE SlotOf(d, ch, p)
  BY <1>1, DataEdit
<1>3. \A j \in CardSlot : DirAt(e, j) = IF InSector(Root(d), j, c, k)
                                        THEN NoEntry ELSE DirAt(d, j)
  BY <1>1, <1>2, InRange DEF DirAt
<1>4. i \in Nat /\ \A j \in CardSlot : j \in Nat  BY InRange
<1>5. \A j \in CardSlot : j <= i => DirAt(e, j) = DirAt(d, j)
  BY <1>3, <1>4
<1>6. \A j \in CardSlot : EntryAt(e, j) => EntryAt(d, j)
  BY <1>3, SlotValues DEF EntryAt
<1>7. \A j \in CardSlot : EntryAt(d, j) => EntryAt(e, j) /\ DirAt(e, j) = DirAt(d, j)
  <2> TAKE j \in CardSlot
  <2> HAVE EntryAt(d, j)
  <2>1. j <= i  BY <1>4 DEF NothingAfter
  <2> QED BY <1>5, <2>1 DEF EntryAt
<1>8. NoNameTwice(e) /\ NoHeadTwice(e)
  BY <1>6, <1>7 DEF NoNameTwice, NoHeadTwice, Sound
<1>9. NothingAfterTheEnd(e)
  <2> SUFFICES ASSUME NEW a \in CardSlot, NEW b \in CardSlot, a < b,
                      DirAt(e, a) = NoEntry, EntryAt(d, b)
               PROVE  FALSE
    BY <1>6 DEF NothingAfterTheEnd
  <2>1. a < i  BY <1>4 DEF NothingAfter
  <2> QED BY <1>4, <1>5, <2>1 DEF Full
<1>10. NoEntryElsewhere(e)
  <2> SUFFICES ASSUME NEW b \in Cluster, NEW l \in 0 .. CSIZE - 1, NEW s \in Slot,
                      ~InRoot(d, b)
               PROVE  ~IsEntry(e[DataSector(b, l)][s])
    BY <1>2 DEF NoEntryElsewhere, InRoot
  <2>1. DataSector(b, l) \in Sector  BY SectorNames
  <2>2. CASE DataSector(b, l) = DataSector(c, k)
    <3>1. e[DataSector(b, l)] = Zeros  BY <1>1, <2>1, <2>2 DEF Image, Put
    <3> QED BY <1>1, <3>1, SlotValues
  <2>3. CASE DataSector(b, l) # DataSector(c, k)
    <3>1. e[DataSector(b, l)] = d[DataSector(b, l)]  BY <1>1, <2>1, <2>3 DEF Image, Put
    <3> QED BY <3>1 DEF Sound, NoEntryElsewhere
  <2> QED BY <2>2, <2>3
<1>11. FilesOK(e)
  <2> SUFFICES ASSUME NEW j \in CardSlot, EntryAt(d, j)
               PROVE  /\ DirAt(d, j).sclust # 0 => IsHead(Links(d), DirAt(d, j).sclust)
                      /\ Holds(e, DirAt(d, j).sclust, DirAt(d, j).name, DirAt(d, j).size)
    BY <1>2, <1>6, <1>7 DEF FilesOK
  <2>1. DirAt(d, j).sclust # 0 => IsHead(Links(d), DirAt(d, j).sclust)
    BY DEF Sound, FilesOK
  <2>2. ASSUME NEW p \in 0 .. DirAt(d, j).size - 1
        PROVE  SlotOf(e, Chain(Links(d), DirAt(d, j).sclust), p) = Expected(DirAt(d, j).name, p)
    <3> DEFINE ch == Chain(Links(d), DirAt(d, j).sclust)
    <3>1. /\ p \in CardSlot /\ SlotOf(d, ch, p) = Expected(DirAt(d, j).name, p)
          /\ IsHead(Links(d), DirAt(d, j).sclust)
      BY FileSlot
    <3>2. p \in Nat  BY <3>1, InRange
    <3>3. SlotOf(e, ch, p) = IF InSector(ch, p, c, k) THEN Zeros[p % SS] ELSE SlotOf(d, ch, p)
      BY <1>2, <3>2
    <3>4. ~InSector(ch, p, c, k)
      BY <3>1, DataSectorOwner DEF Root, IsHead, Sound, LinksOK
    <3> QED BY <3>1, <3>3, <3>4
  <2> QED BY <1>2, <2>1, <2>2 DEF Holds
<1>12. Counted(e)  BY <1>2 DEF Sound, Counted
<1>13. Sound(e)  BY <1>2, <1>8, <1>9, <1>10, <1>11, <1>12 DEF Sound
<1> QED BY <1>2, <1>5, <1>6, <1>7, <1>13

(* FSInfo is written. *)
LEMMA InfoEdit ==
  ASSUME NEW d, Sound(d), NEW info \in InfoVal,
         Cardinality(FreeSet(Links(d))) <= info.free,
         NEW e, e = Put(d, InfoSector, info)
  PROVE  /\ Sound(e) /\ Links(e) = Links(d) /\ Root(e) = Root(d)
         /\ \A j \in CardSlot : DirAt(e, j) = DirAt(d, j)
         /\ \A ch : \A p \in Nat : SlotOf(e, ch, p) = SlotOf(d, ch, p)
<1>1. Image(d)  BY DEF Sound
<1>2. /\ DOMAIN e = Sector /\ e = [s \in Sector |-> e[s]]
      /\ \A s \in Sector : e[s] = IF s = InfoSector THEN info ELSE d[s]
  BY <1>1, SectorNames DEF Image, Put
<1>3. \A b \in 0 .. n_fatent - 1 : e[FatSector(b)] = d[FatSector(b)]
  <2> TAKE b \in 0 .. n_fatent - 1
  <2>1. FatSector(b) \in Sector  BY DEF Sector
  <2>2. FatSector(b) # InfoSector  BY SectorNames
  <2> QED BY <1>2, <2>1, <2>2
<1>4. \A b \in Cluster, l \in 0 .. CSIZE - 1 : e[DataSector(b, l)] = d[DataSector(b, l)]
  BY <1>2, SectorNames
<1>5. e[InfoSector] = info  BY <1>2, SectorNames
<1>6. Image(e)
  <2>1. \A b \in 0 .. n_fatent - 1 : e[FatSector(b)] \in [Slot -> FatVal]
    BY <1>1, <1>3 DEF Image
  <2>2. \A b \in Cluster, l \in 0 .. CSIZE - 1 : e[DataSector(b, l)] \in [Slot -> SlotVal]
    BY <1>1, <1>4 DEF Image
  <2> QED BY <1>2, <1>5, <2>1, <2>2 DEF Image
<1>7. Links(e) = Links(d)  BY <1>3, SectorNames DEF Links
<1>8. Root(e) = Root(d)  BY <1>7 DEF Root
<1>9. ASSUME NEW ch, NEW p \in Nat  PROVE SlotOf(e, ch, p) = SlotOf(d, ch, p)
  <2>1. (p \div SS) % CSIZE \in 0 .. CSIZE - 1  BY Position
  <2> QED BY <1>1, <1>4, <1>6, <2>1, SlotOfChain
<1>10. \A j \in CardSlot : DirAt(e, j) = DirAt(d, j)
  BY <1>8, <1>9, InRange DEF DirAt
<1>11. \A j \in CardSlot : EntryAt(e, j) <=> EntryAt(d, j)
  BY <1>10 DEF EntryAt
<1>12. NoNameTwice(e) /\ NoHeadTwice(e)
  BY <1>10, <1>11 DEF NoNameTwice, NoHeadTwice, Sound
<1>13. NothingAfterTheEnd(e)
  BY <1>10, <1>11 DEF NothingAfterTheEnd, Sound
<1>14. NoEntryElsewhere(e)
  BY <1>4, <1>8 DEF NoEntryElsewhere, InRoot, Sound
<1>15. FilesOK(e)
  <2> SUFFICES ASSUME NEW j \in CardSlot, EntryAt(d, j)
               PROVE  /\ DirAt(d, j).sclust # 0 => IsHead(Links(d), DirAt(d, j).sclust)
                      /\ Holds(e, DirAt(d, j).sclust, DirAt(d, j).name, DirAt(d, j).size)
    BY <1>7, <1>10, <1>11 DEF FilesOK
  <2>1. DirAt(d, j).sclust # 0 => IsHead(Links(d), DirAt(d, j).sclust)
    BY DEF Sound, FilesOK
  <2>2. ASSUME NEW p \in 0 .. DirAt(d, j).size - 1
        PROVE  SlotOf(e, Chain(Links(d), DirAt(d, j).sclust), p) = Expected(DirAt(d, j).name, p)
    <3>1. p \in CardSlot  BY FileSlot
    <3> QED BY <1>9, <3>1, FileSlot, InRange
  <2> QED BY <1>7, <2>1, <2>2 DEF Holds
<1>16. Counted(e)  BY <1>5, <1>7 DEF Counted
<1>17. Sound(e)  BY <1>6, <1>7, <1>12, <1>13, <1>14, <1>15, <1>16 DEF Sound
<1> QED BY <1>7, <1>8, <1>9, <1>10, <1>17

(* A position that is not ahead is in no later cluster. *)
LEMMA Division2 ==
  ASSUME NEW a \in Nat, NEW b \in Nat, a <= b
  PROVE  a \div CB <= b \div CB
<1> DEFINE q == a \div CB
           r == b \div CB
           u == a % CB
           v == b % CB
<1>1. q \in Nat /\ u \in 0 .. CB - 1 /\ a = (CB * q) + u  BY Sizes, Division
<1>2. r \in Nat /\ v \in 0 .. CB - 1 /\ b = (CB * r) + v  BY Sizes, Division
<1> SUFFICES ASSUME q >= r + 1  PROVE FALSE
  BY <1>1, <1>2
<1> HIDE DEF q, r, u, v
<1>3. CB * q >= CB * (r + 1)  BY <1>1, <1>2, Sizes
<1>4. CB * (r + 1) = (CB * r) + CB  BY <1>2, Sizes
<1> QED BY <1>1, <1>2, <1>3, <1>4, Sizes

(* An entry of the FAT is written. *)
LEMMA FatEdit ==
  ASSUME NEW d, Image(d), NEW x \in Cluster, NEW y \in LinkVal,
         NEW data \in [Slot -> FatVal],
         \A s \in Slot : data[s] = IF s = x % SS THEN FatEntry(y) ELSE d[FatSector(x)][s],
         NEW e, e = Put(d, FatSector(x), data)
  PROVE  /\ Image(e) /\ e[InfoSector] = d[InfoSector]
         /\ Links(e) = [Links(d) EXCEPT ![x] = y]
         /\ \A b \in Cluster, l \in 0 .. CSIZE - 1 : e[DataSector(b, l)] = d[DataSector(b, l)]
         /\ \A ch : \A i \in Nat : SlotOf(e, ch, i) = SlotOf(d, ch, i)
<1>1. FatSector(x) \in Sector  BY SectorNames
<1>2. /\ DOMAIN e = Sector /\ e = [s \in Sector |-> e[s]]
      /\ \A s \in Sector : e[s] = IF s = FatSector(x) THEN data ELSE d[s]
  BY <1>1 DEF Image, Put
<1>3. ASSUME NEW b \in 0 .. n_fatent - 1
      PROVE  e[FatSector(b)] = IF FatSector(b) = FatSector(x) THEN data ELSE d[FatSector(b)]
  <2>1. FatSector(b) \in Sector  BY DEF Sector
  <2> QED BY <1>2, <2>1
<1>4. ASSUME NEW b \in Cluster, NEW l \in 0 .. CSIZE - 1
      PROVE  e[DataSector(b, l)] = d[DataSector(b, l)]
  <2>1. DataSector(b, l) \in Sector /\ DataSector(b, l) # FatSector(x)  BY SectorNames
  <2> QED BY <1>2, <2>1
<1>5. e[InfoSector] = d[InfoSector]  BY <1>2, SectorNames
<1>6. Image(e)
  <2>1. \A b \in 0 .. n_fatent - 1 : e[FatSector(b)] \in [Slot -> FatVal]
    BY <1>3 DEF Image
  <2>2. \A b \in Cluster, l \in 0 .. CSIZE - 1 : e[DataSector(b, l)] \in [Slot -> SlotVal]
    BY <1>4 DEF Image
  <2>3. e[InfoSector] \in InfoVal  BY <1>5 DEF Image
  <2> QED BY <1>2, <2>1, <2>2, <2>3 DEF Image
<1>7. Links(e) = [Links(d) EXCEPT ![x] = y]
  <2>1. ASSUME NEW b \in Cluster  PROVE Links(e)[b] = IF b = x THEN y ELSE Links(d)[b]
    <3>1. /\ Links(e)[b] = e[FatSector(b)][b % SS].next
          /\ Links(d)[b] = d[FatSector(b)][b % SS].next
      BY <1>6, LinksType
    <3>2. b \in 0 .. n_fatent - 1 /\ b % SS \in Slot /\ x % SS \in Slot
      BY SectorNames, FatPlace
    <3>3. CASE b = x
      <4>1. Links(e)[b] = data[x % SS].next  BY <1>3, <3>1, <3>2, <3>3
      <4>2. data[x % SS] = FatEntry(y)  BY <3>2
      <4> QED BY <3>3, <4>1, <4>2 DEF FatEntry
    <3>4. CASE b # x /\ FatSector(b) = FatSector(x)
      <4>1. b % SS # x % SS  BY <3>4, FatPlace
      <4>2. Links(e)[b] = data[b % SS].next  BY <1>3, <3>1, <3>2, <3>4
      <4>3. data[b % SS] = d[FatSector(b)][b % SS]  BY <3>2, <3>4, <4>1
      <4> QED BY <3>1, <3>4, <4>2, <4>3
    <3>5. CASE FatSector(b) # FatSector(x)
      BY <1>3, <3>1, <3>2, <3>5
    <3> QED BY <3>3, <3>4, <3>5
  <2>2. Links(e) \in Maps /\ Links(d) \in Maps  BY <1>6, LinksType
  <2> QED BY <2>1, <2>2 DEF Maps
<1>8. ASSUME NEW ch, NEW p \in Nat  PROVE SlotOf(e, ch, p) = SlotOf(d, ch, p)
  <2>1. (p \div SS) % CSIZE \in 0 .. CSIZE - 1  BY Position
  <2> QED BY <1>4, <1>6, <2>1, SlotOfChain
<1> QED BY <1>4, <1>5, <1>6, <1>7, <1>8

(* The FAT changed, the data did not. *)
SameData(d, e) ==
  /\ e[InfoSector] = d[InfoSector]
  /\ \A b \in Cluster, l \in 0 .. CSIZE - 1 : e[DataSector(b, l)] = d[DataSector(b, l)]
  /\ \A ch : \A i \in Nat : SlotOf(e, ch, i) = SlotOf(d, ch, i)

(* What a longer FAT leaves as it was *)
KeepsFiles(d, e) ==
  /\ \A j \in CardSlot : Root(d)[j \div CB] \in Cluster =>
       Root(e)[j \div CB] = Root(d)[j \div CB] /\ DirAt(e, j) = DirAt(d, j)
  /\ \A j \in CardSlot : EntryAt(e, j) <=> EntryAt(d, j)
  /\ \A j \in CardSlot : EntryAt(d, j) => DirAt(e, j) = DirAt(d, j)
  /\ \A h : \A p \in CardSlot : Chain(Links(d), h)[p \div CB] \in Cluster =>
       /\ Chain(Links(e), h)[p \div CB] = Chain(Links(d), h)[p \div CB]
       /\ SlotOf(e, Chain(Links(e), h), p) = SlotOf(d, Chain(Links(d), h), p)

(* Marking or linking a free cluster leaves the card sound: put_fat(). *)
LEMMA Allocating ==
  ASSUME NEW d, Sound(d), NEW e, Image(e), SameData(d, e),
         LinksOK(Links(e)), Extends(Links(d), Links(e)),
         \A c \in Cluster : Links(d)[c] # 0 => Links(e)[c] # 0,
         \A i \in CardSlot : EntryAt(d, i) /\ DirAt(d, i).sclust # 0 =>
           IsHead(Links(e), DirAt(d, i).sclust),
         \A k \in 0 .. NCLST : Root(e)[k] \in Cluster =>
           Root(e)[k] = Root(d)[k] \/ ~InRoot(d, Root(e)[k])
  PROVE  Sound(e) /\ Behind(d, e) /\ KeepsFiles(d, e)
<1>1. Image(d) /\ Links(d) \in Maps /\ Links(e) \in Maps  BY DEF Sound, LinksOK
<1>2. ASSUME NEW h, NEW p \in CardSlot, Chain(Links(d), h)[p \div CB] \in Cluster
      PROVE  /\ Chain(Links(e), h)[p \div CB] = Chain(Links(d), h)[p \div CB]
             /\ SlotOf(e, Chain(Links(e), h), p) = SlotOf(d, Chain(Links(d), h), p)
  <2>1. p \in Nat /\ p \div CB \in 0 .. NCLST  BY InRange
  <2>2. Chain(Links(e), h)[p \div CB] = Chain(Links(d), h)[p \div CB]
    BY <1>1, <1>2, <2>1, ChainGrows
  <2>3. SlotOf(e, Chain(Links(e), h), p) = SlotOf(d, Chain(Links(e), h), p)
    BY <2>1 DEF SameData
  <2>4. SlotOf(d, Chain(Links(e), h), p) = SlotOf(d, Chain(Links(d), h), p)
    BY <1>1, <2>1, <2>2, SlotOfChain
  <2> QED BY <2>2, <2>3, <2>4
<1>3. \A j \in CardSlot : Root(d)[j \div CB] \in Cluster =>
        Root(e)[j \div CB] = Root(d)[j \div CB] /\ DirAt(e, j) = DirAt(d, j)
  BY <1>2 DEF Root, DirAt
<1>4. ASSUME NEW j \in CardSlot, EntryAt(d, j)
      PROVE  EntryAt(e, j) /\ DirAt(e, j) = DirAt(d, j)
  <2>1. Root(d)[j \div CB] \in Cluster  BY <1>1, <1>4, EntryType
  <2> QED BY <1>3, <1>4, <2>1 DEF EntryAt
<1>5. ASSUME NEW j \in CardSlot, EntryAt(e, j)  PROVE EntryAt(d, j)
  <2>1. j \in Nat /\ j \div CB \in 0 .. NCLST /\ j % SS \in Slot
        /\ (j \div SS) % CSIZE \in 0 .. CSIZE - 1
    BY InRange
  <2>2. Root(e)[j \div CB] \in Cluster  BY <1>5, EntryType
  <2>3. CASE Root(e)[j \div CB] = Root(d)[j \div CB]
    <3>1. DirAt(e, j) = DirAt(d, j)  BY <1>3, <2>2, <2>3
    <3> QED BY <1>5, <3>1 DEF EntryAt
  <2>4. CASE ~InRoot(d, Root(e)[j \div CB])
    <3> DEFINE c == Root(e)[j \div CB]
               k == (j \div SS) % CSIZE
    <3>1. DirAt(e, j) = e[DataSector(c, k)][j % SS]
      BY <2>1, <2>2, SlotOfChain DEF DirAt
    <3>2. e[DataSector(c, k)] = d[DataSector(c, k)]
      BY <2>1, <2>2 DEF SameData
    <3>3. ~IsEntry(d[DataSector(c, k)][j % SS])
      BY <2>1, <2>2, <2>4 DEF Sound, NoEntryElsewhere
    <3> QED BY <1>5, <3>1, <3>2, <3>3 DEF EntryAt
  <2> QED BY <2>1, <2>2, <2>3, <2>4
<1>6. NoNameTwice(e) /\ NoHeadTwice(e)
  BY <1>4, <1>5 DEF NoNameTwice, NoHeadTwice, Sound
<1>7. NothingAfterTheEnd(e)
  <2> SUFFICES ASSUME NEW a \in CardSlot, NEW b \in CardSlot, a < b,
                      DirAt(e, a) = NoEntry, EntryAt(e, b)
               PROVE  FALSE
    BY DEF NothingAfterTheEnd
  <2>1. EntryAt(d, b) /\ Root(d)[b \div CB] \in Cluster  BY <1>1, <1>5, EntryType
  <2>2. a \in Nat /\ b \in Nat /\ a \div CB \in Nat /\ b \div CB \in 0 .. NCLST
    BY InRange, Sizes
  <2>3. a \div CB <= b \div CB  BY <2>2, Division2
  <2>4. Root(d)[a \div CB] \in Cluster
    <3>1. a \div CB \in 0 .. b \div CB  BY <2>2, <2>3
    <3> QED BY <1>1, <2>1, <2>2, <3>1, ChainPrefix DEF Root
  <2>5. DirAt(d, a) = NoEntry  BY <1>3, <2>4
  <2> QED BY <2>1, <2>5 DEF Sound, NothingAfterTheEnd
<1>8. NoEntryElsewhere(e)
  <2> SUFFICES ASSUME NEW c \in Cluster, NEW k \in 0 .. CSIZE - 1, NEW s \in Slot,
                      ~InRoot(e, c)
               PROVE  ~IsEntry(d[DataSector(c, k)][s])
    BY DEF NoEntryElsewhere, SameData
  <2>1. ~InRoot(d, c)
    <3> SUFFICES ASSUME NEW l \in 0 .. NCLST, Root(d)[l] = c  PROVE FALSE
      BY DEF InRoot
    <3>1. Root(e)[l] = c  BY <1>1, ChainGrows DEF Root
    <3> QED BY <3>1 DEF InRoot
  <2> QED BY <2>1 DEF Sound, NoEntryElsewhere
<1>9. FilesOK(e)
  <2> SUFFICES ASSUME NEW j \in CardSlot, EntryAt(d, j)
               PROVE  /\ DirAt(d, j).sclust # 0 => IsHead(Links(e), DirAt(d, j).sclust)
                      /\ Holds(e, DirAt(d, j).sclust, DirAt(d, j).name, DirAt(d, j).size)
    BY <1>4, <1>5 DEF FilesOK
  <2>1. Holds(e, DirAt(d, j).sclust, DirAt(d, j).name, DirAt(d, j).size)
    <3> SUFFICES ASSUME NEW p \in 0 .. DirAt(d, j).size - 1
                 PROVE  SlotOf(e, Chain(Links(e), DirAt(d, j).sclust), p)
                          = Expected(DirAt(d, j).name, p)
      BY DEF Holds
    <3> QED BY <1>2, FileSlot
  <2> QED BY <2>1
<1>10. Counted(e)
  <2>1. FreeSet(Links(e)) \subseteq FreeSet(Links(d)) /\ FreeSet(Links(d)) \subseteq Cluster
    BY DEF FreeSet
  <2>2. IsFiniteSet(Cluster)  BY FS_Interval, Sizes DEF Cluster, n_fatent
  <2>3. IsFiniteSet(FreeSet(Links(d)))  BY <2>1, <2>2, FS_Subset
  <2>4. /\ Cardinality(FreeSet(Links(e))) <= Cardinality(FreeSet(Links(d)))
        /\ Cardinality(FreeSet(Links(e))) \in Nat /\ Cardinality(FreeSet(Links(d))) \in Nat
    BY <2>1, <2>3, FS_Subset, FS_CardinalityType
  <2>5. d[InfoSector].free \in Nat  BY <1>1, Constants DEF Image, InfoVal
  <2> QED BY <2>4, <2>5 DEF Sound, Counted, SameData
<1>11. Sound(e)  BY <1>6, <1>7, <1>8, <1>9, <1>10 DEF Sound
<1>12. Behind(d, e)
  <2>1. ASSUME NEW j \in CardSlot, EntryAt(d, j)
        PROVE  /\ EntryAt(e, j) /\ DirAt(d, j) = DirAt(e, j)
               /\ DirAt(d, j).size <= DirAt(e, j).size
    <3>1. DirAt(d, j).size \in Nat  BY <1>1, <2>1, EntryType, Sizes
    <3> QED BY <1>4, <2>1, <3>1
  <2> QED BY <2>1 DEF Behind, Extends
<1>13. KeepsFiles(d, e)  BY <1>2, <1>3, <1>4, <1>5 DEF KeepsFiles
<1> QED BY <1>11, <1>12, <1>13

(* A free cluster becomes a chain of its own. *)
LEMMA Marking ==
  ASSUME NEW d, Sound(d), NEW x \in Cluster, Links(d)[x] = 0,
         NEW data \in [Slot -> FatVal],
         \A s \in Slot : data[s] = IF s = x % SS THEN FatEntry(EOC) ELSE d[FatSector(x)][s],
         NEW e, e = Put(d, FatSector(x), data)
  PROVE  /\ Sound(e) /\ Behind(d, e) /\ KeepsFiles(d, e)
         /\ e[InfoSector] = d[InfoSector]
         /\ Links(e) = [Links(d) EXCEPT ![x] = EOC] /\ IsHead(Links(e), x)
         /\ \A j \in CardSlot : EntryAt(d, j) => DirAt(d, j).sclust # x
<1> DEFINE n == Links(d)
           m == [n EXCEPT ![x] = EOC]
<1>1. Image(d) /\ LinksOK(n) /\ n \in Maps /\ EOC \in LinkVal
  BY DEF Sound, LinksOK, LinkVal
<1>2. /\ Image(e) /\ e[InfoSector] = d[InfoSector] /\ Links(e) = m /\ SameData(d, e)
  BY <1>1, FatEdit DEF SameData
<1>3. /\ m \in Maps /\ m[x] = EOC /\ \A c \in Cluster : c # x => m[c] = n[c]
      /\ EOC \notin Cluster /\ EOC # 0 /\ 0 \notin Cluster /\ dirbase \in Cluster
  BY <1>1, Constants DEF Maps
<1> HIDE DEF m
<1>4. x # dirbase /\ \A c \in Cluster : n[c] # x
  BY <1>1 DEF LinksOK
<1>5. LinksOK(m) /\ Extends(n, m) /\ Extends(m, n)
  BY <1>1, <1>3 DEF LinksOK, OneWay, Top, Extends
<1>6. \A h : IsHead(n, h) => IsHead(m, h)
  BY <1>1, <1>3 DEF IsHead, Top
<1>7. IsHead(m, x)  BY <1>3, <1>4 DEF IsHead, Top
<1>8. \A c \in Cluster : n[c] # 0 => m[c] # 0  BY <1>3
<1>9. \A i \in CardSlot : EntryAt(d, i) /\ DirAt(d, i).sclust # 0 => IsHead(n, DirAt(d, i).sclust)
  BY DEF Sound, FilesOK
<1>10. \A k \in 0 .. NCLST : Root(e)[k] \in Cluster => Root(e)[k] = Root(d)[k]
  BY <1>1, <1>2, <1>3, <1>5, ChainGrows DEF Root
<1>11. Sound(e) /\ Behind(d, e) /\ KeepsFiles(d, e)
  BY <1>2, <1>5, <1>6, <1>8, <1>9, <1>10, Allocating
<1>12. \A j \in CardSlot : EntryAt(d, j) => DirAt(d, j).sclust # x
  BY <1>3, <1>9 DEF IsHead
<1> QED BY <1>2, <1>7, <1>11, <1>12 DEF m

(* Such a cluster, y, is linked to the end x of another chain. *)
LEMMA Linking ==
  ASSUME NEW d, Sound(d), NEW x \in Cluster, Links(d)[x] = EOC,
         NEW y, IsHead(Links(d), y), Links(d)[y] = EOC, x # y,
         \A i \in CardSlot : EntryAt(d, i) => DirAt(d, i).sclust # y,
         NEW data \in [Slot -> FatVal],
         \A s \in Slot : data[s] = IF s = x % SS THEN FatEntry(y) ELSE d[FatSector(x)][s],
         NEW e, e = Put(d, FatSector(x), data)
  PROVE  /\ Sound(e) /\ Behind(d, e) /\ KeepsFiles(d, e)
         /\ e[InfoSector] = d[InfoSector]
         /\ Links(e) = [Links(d) EXCEPT ![x] = y]
         /\ \A h : IsHead(Links(d), h) /\ h # y => IsHead(Links(e), h)
<1> DEFINE n == Links(d)
           m == [n EXCEPT ![x] = y]
<1>1. Image(d) /\ LinksOK(n) /\ n \in Maps /\ y \in Cluster /\ y \in LinkVal
  BY DEF Sound, LinksOK, LinkVal, IsHead, Top
<1>2. /\ Image(e) /\ e[InfoSector] = d[InfoSector] /\ Links(e) = m /\ SameData(d, e)
  BY <1>1, FatEdit DEF SameData
<1>3. /\ m \in Maps /\ m[x] = y /\ \A c \in Cluster : c # x => m[c] = n[c]
      /\ EOC \notin Cluster /\ EOC # 0 /\ 0 \notin Cluster /\ dirbase \in Cluster
  BY <1>1, Constants DEF Maps
<1> HIDE DEF m
<1>4. y # dirbase /\ (\A c \in Cluster : n[c] # y) /\ m[y] = EOC
  BY <1>1, <1>3 DEF IsHead, Top
<1>5. LinksOK(m) /\ Extends(n, m)
  <2>1. m[dirbase] # 0  BY <1>1, <1>3 DEF LinksOK
  <2>2. OneWay(m)  BY <1>1, <1>3, <1>4 DEF LinksOK, OneWay
  <2>3. Top(m, dirbase)  BY <1>1, <1>3, <1>4 DEF LinksOK, Top
  <2>4. \A c \in Cluster : m[c] \in Cluster => m[m[c]] # 0
    BY <1>1, <1>3, <1>4 DEF LinksOK
  <2>5. Extends(n, m)  BY <1>3 DEF Extends
  <2> QED BY <1>3, <2>1, <2>2, <2>3, <2>4, <2>5 DEF LinksOK
<1>6. \A h : IsHead(n, h) /\ h # y => IsHead(m, h)
  BY <1>1, <1>3 DEF IsHead, Top
<1>7. \A c \in Cluster : n[c] # 0 => m[c] # 0  BY <1>1, <1>3
<1>8. \A i \in CardSlot : EntryAt(d, i) /\ DirAt(d, i).sclust # 0 => IsHead(m, DirAt(d, i).sclust)
  BY <1>6 DEF Sound, FilesOK
<1>9. ASSUME NEW k \in 0 .. NCLST, Root(e)[k] \in Cluster
      PROVE  Root(e)[k] = Root(d)[k] \/ ~InRoot(d, Root(e)[k])
  <2>1. Root(e)[k] = Root(d)[k] \/ Root(e)[k] = y
    BY <1>1, <1>2, <1>3, <1>4, <1>9, ChainContinued DEF Root
  <2>2. ~InRoot(d, y)
    <3> SUFFICES ASSUME NEW l \in 0 .. NCLST, Root(d)[l] = y  PROVE FALSE
      BY DEF InRoot
    <3>1. Chain(n, y)[0] = y /\ 0 \in 0 .. NCLST  BY <1>1, ChainDef, Sizes
    <3>2. Top(n, y) /\ Top(n, dirbase) /\ OneWay(n)  BY <1>1 DEF IsHead, LinksOK
    <3>3. Chain(n, dirbase)[l] \in Cluster /\ Chain(n, dirbase)[l] = Chain(n, y)[0]
      BY <1>1, <3>1 DEF Root
    <3>4. dirbase = y  BY <1>1, <3>1, <3>2, <3>3, ChainsMeetNowhere
    <3> QED BY <1>4, <3>4
  <2> QED BY <2>1, <2>2
<1>10. Sound(e) /\ Behind(d, e) /\ KeepsFiles(d, e)
  BY <1>2, <1>5, <1>7, <1>8, <1>9, Allocating
<1> QED BY <1>2, <1>6, <1>10 DEF m

(* Being behind is reflexive *)
LEMMA BehindItself ==
  ASSUME NEW d, Sound(d)  PROVE Behind(d, d)
<1>1. \A j \in CardSlot : EntryAt(d, j) => DirAt(d, j).size <= DirAt(d, j).size
  <2> TAKE j \in CardSlot
  <2> HAVE EntryAt(d, j)
  <2>1. DirAt(d, j).size \in Nat  BY EntryType, Sizes DEF Sound
  <2> QED BY <2>1
<1> QED BY <1>1 DEF Behind

(* and transitive, *)
LEMMA BehindMore ==
  ASSUME NEW d, NEW e, NEW f, Sound(d), Sound(e), Sound(f), Behind(d, e), Behind(e, f)
  PROVE  Behind(d, f)
<1>1. ASSUME NEW j \in CardSlot, EntryAt(d, j)
      PROVE  /\ EntryAt(f, j) /\ DirAt(d, j).name = DirAt(f, j).name
             /\ DirAt(d, j).sclust \in {0, DirAt(f, j).sclust}
             /\ DirAt(d, j).size <= DirAt(f, j).size
  <2>1. EntryAt(e, j) /\ EntryAt(f, j)  BY <1>1 DEF Behind
  <2>2. /\ DirAt(d, j).size \in Nat /\ DirAt(e, j).size \in Nat /\ DirAt(f, j).size \in Nat
    BY <1>1, <2>1, EntryType, Sizes DEF Sound
  <2>3. DirAt(d, j).size <= DirAt(e, j).size /\ DirAt(e, j).size <= DirAt(f, j).size
    BY <1>1, <2>1 DEF Behind
  <2>4. DirAt(d, j).size <= DirAt(f, j).size  BY <2>2, <2>3
  <2> QED BY <1>1, <2>1, <2>4 DEF Behind
<1>2. \A c \in Cluster :
        /\ Links(d)[c] \in Cluster => Links(f)[c] = Links(d)[c]
        /\ Links(d)[c] # 0 => Links(f)[c] # 0
  BY DEF Behind
<1> QED BY <1>1, <1>2 DEF Behind

(* The same chains and the same directory *)
SameFiles(d, e) == Links(d) = Links(e) /\ \A j \in CardSlot : DirAt(d, j) = DirAt(e, j)

(* it depends on the directory and the FAT alone, *)
LEMMA BehindSame ==
  ASSUME NEW d, NEW e, Behind(d, e), NEW x, NEW y, SameFiles(d, x), SameFiles(e, y)
  PROVE  Behind(x, y)
<1>1. \A j \in CardSlot : /\ EntryAt(d, j) <=> EntryAt(x, j)
                          /\ EntryAt(e, j) <=> EntryAt(y, j)
  BY DEF EntryAt, SameFiles
<1> QED BY <1>1 DEF Behind, SameFiles

(* and what is behind has no chain that the other lacks. *)
LEMMA BehindChain ==
  ASSUME NEW d, NEW e, Sound(d), Sound(e), Behind(d, e), NEW h, NEW k \in 0 .. NCLST,
         Chain(Links(d), h)[k] \in Cluster
  PROVE  Chain(Links(e), h)[k] = Chain(Links(d), h)[k]
<1>1. Links(d) \in Maps /\ Links(e) \in Maps  BY DEF Sound, LinksOK
<1>2. Extends(Links(d), Links(e))  BY DEF Behind, Extends
<1> QED BY <1>1, <1>2, ChainGrows

(* The number of free clusters *)
LEMMA FreeCount ==
  ASSUME NEW n \in Maps
  PROVE  /\ IsFiniteSet(FreeSet(n)) /\ Cardinality(FreeSet(n)) \in Nat
         /\ Cardinality(FreeSet(n)) <= NCLST
         /\ Cardinality(FreeSet(n)) = 0 <=> FreeSet(n) = {}
         /\ \A x \in Cluster, y \in LinkVal : y # 0 /\ n[x] # 0 =>
              FreeSet([n EXCEPT ![x] = y]) = FreeSet(n)
         /\ \A x \in Cluster, y \in LinkVal : y # 0 /\ n[x] = 0 =>
              Cardinality(FreeSet([n EXCEPT ![x] = y])) = Cardinality(FreeSet(n)) - 1
<1>1. IsFiniteSet(Cluster) /\ Cardinality(Cluster) = NCLST
  BY FS_Interval, Sizes DEF Cluster, n_fatent
<1>2. FreeSet(n) \subseteq Cluster  BY DEF FreeSet
<1>3. IsFiniteSet(FreeSet(n)) /\ Cardinality(FreeSet(n)) <= NCLST
  BY <1>1, <1>2, FS_Subset
<1>4. Cardinality(FreeSet(n)) \in Nat /\ (Cardinality(FreeSet(n)) = 0 <=> FreeSet(n) = {})
  BY <1>3, FS_CardinalityType, FS_EmptySet
<1>5. ASSUME NEW x \in Cluster, NEW y \in LinkVal, y # 0, n[x] # 0
      PROVE  FreeSet([n EXCEPT ![x] = y]) = FreeSet(n)
  BY <1>5 DEF FreeSet, Maps
<1>6. ASSUME NEW x \in Cluster, NEW y \in LinkVal, y # 0, n[x] = 0
      PROVE  Cardinality(FreeSet([n EXCEPT ![x] = y])) = Cardinality(FreeSet(n)) - 1
  <2>1. FreeSet([n EXCEPT ![x] = y]) = FreeSet(n) \ {x} /\ x \in FreeSet(n)
    BY <1>6 DEF FreeSet, Maps
  <2> QED BY <1>3, <2>1, FS_RemoveElement
<1> QED BY <1>3, <1>4, <1>5, <1>6

(***************************************************************************)
(* Walking along the directory.                                            *)
(***************************************************************************)

(* Slots of one sector *)
LEMMA SameSector ==
  ASSUME NEW p \in Nat, NEW q \in CardSlot, p \div SS = q \div SS
  PROVE  /\ p \in CardSlot /\ p \div CB = q \div CB
         /\ (p \div SS) % CSIZE = (q \div SS) % CSIZE
<1>1. q \in Nat /\ q \div CB \in 0 .. NCLST - 1  BY InRange
<1>2. p \div CB = q \div CB
  <2> DEFINE s == p \div SS
  <2>1. /\ s \in Nat /\ s = CSIZE * (p \div CB) + (s % CSIZE)
        /\ s % CSIZE \in 0 .. CSIZE - 1 /\ p \div CB \in Nat
    BY Position
  <2>2. s = CSIZE * (q \div CB) + (s % CSIZE) /\ q \div CB \in Nat
    BY <1>1, Position
  <2> HIDE DEF s
  <2> DEFINE u == s % CSIZE
  <2>3. u \in 0 .. CSIZE - 1 /\ s = CSIZE * (p \div CB) + u /\ s = CSIZE * (q \div CB) + u
    BY <2>1, <2>2
  <2> HIDE DEF u
  <2>4. (CSIZE * (p \div CB) + u) \div CSIZE = p \div CB  BY <2>1, <2>3, Sizes, Quotient
  <2>5. (CSIZE * (q \div CB) + u) \div CSIZE = q \div CB  BY <2>2, <2>3, Sizes, Quotient
  <2> QED BY <2>3, <2>4, <2>5
<1>3. p \in CardSlot
  <2> DEFINE t == p \div CB
             r == p % CB
  <2>1. r \in 0 .. CB - 1 /\ p = (CB * t) + r /\ t \in 0 .. NCLST - 1
    BY <1>1, <1>2, Sizes, Division
  <2> HIDE DEF t, r
  <2>2. CB * t <= CB * (NCLST - 1) /\ CB * (NCLST - 1) = NCLST * CB - CB
    BY <2>1, Sizes
  <2>3. CB * t \in Nat  BY <2>1, Sizes
  <2> QED BY <2>1, <2>2, <2>3, Sizes
<1> QED BY <1>2, <1>3

(* Every slot of every cluster of a chain is at some position. *)
LEMMA SlotExists ==
  ASSUME NEW t \in 0 .. NCLST - 1, NEW k \in 0 .. CSIZE - 1, NEW r \in Slot
  PROVE  \E i \in CardSlot : i \div CB = t /\ (i \div SS) % CSIZE = k /\ i % SS = r
<1> DEFINE s == CSIZE * t + k
           i == SS * s + r
<1>1. t \in Nat /\ k \in Nat /\ s \in Nat /\ r \in 0 .. SS - 1  BY Sizes DEF Slot
<1>2. s \div CSIZE = t /\ s % CSIZE = k  BY <1>1, Sizes, Quotient
<1>3. i \in Nat /\ i \div SS = s /\ i % SS = r
  <2> HIDE DEF s
  <2> QED BY <1>1, Sizes, Quotient
<1>4. s \in 0 .. (CSIZE * NCLST) - 1
  <2>1. CSIZE * t <= CSIZE * (NCLST - 1)  BY Sizes
  <2>2. CSIZE * (NCLST - 1) = (CSIZE * NCLST) - CSIZE  BY Sizes
  <2> QED BY <1>1, <2>1, <2>2, Sizes
<1>5. i \in CardSlot
  <2> DEFINE m == CSIZE * NCLST
  <2>1. m \in Nat /\ SS * m = NCLST * CB  BY Sizes DEF CB
  <2>2. s \in 0 .. m - 1  BY <1>4
  <2> HIDE DEF s, m
  <2>3. SS * s <= SS * (m - 1) /\ SS * (m - 1) = (SS * m) - SS  BY <1>1, <2>1, <2>2, Sizes
  <2> QED BY <1>1, <1>3, <2>1, <2>2, <2>3, Sizes
<1>6. i \div CB = t
  <2>1. i \div SS = CSIZE * (i \div CB) + ((i \div SS) % CSIZE) /\ i \div CB \in Nat
    BY <1>3, Position
  <2> DEFINE w == i \div CB
  <2>2. s = CSIZE * w + k /\ w \in Nat  BY <1>2, <1>3, <2>1
  <2> HIDE DEF w, s, i
  <2>3. (CSIZE * w + k) \div CSIZE = w  BY <2>2, Sizes, Quotient
  <2> QED BY <1>2, <2>2, <2>3 DEF w
<1> QED BY <1>2, <1>3, <1>5, <1>6

(* Every sector of a cluster has a first position. *)
LEMMA PositionExists ==
  ASSUME NEW t \in 0 .. NCLST - 1, NEW k \in 0 .. CSIZE - 1
  PROVE  \E i \in CardSlot : i \div CB = t /\ (i \div SS) % CSIZE = k /\ i % SS = 0
<1>1. 0 \in Slot  BY Sizes DEF Slot
<1> QED BY <1>1, SlotExists

(* A cluster of a chain is not free. *)
LEMMA ChainLinked ==
  ASSUME NEW n, LinksOK(n), NEW h, n[h] # 0, NEW k \in 0 .. NCLST, Chain(n, h)[k] \in Cluster
  PROVE  n[Chain(n, h)[k]] # 0
<1>1. n \in Maps  BY DEF LinksOK
<1>2. CASE k = 0
  BY <1>1, <1>2, ChainDef
<1>3. CASE k # 0
  <2>1. k - 1 \in 0 .. NCLST - 1 /\ (k - 1) + 1 = k  BY <1>3, Sizes
  <2>2. /\ Chain(n, h)[k - 1] \in Cluster
        /\ Chain(n, h)[k] = n[Chain(n, h)[k - 1]]
    BY <1>1, <2>1, ChainStep
  <2> QED BY <2>2 DEF LinksOK
<1> QED BY <1>2, <1>3

(* The next slot of a chain: in the same cluster, or in the one its FAT    *)
(* entry names, or there is none.                                          *)
LEMMA NextSlot ==
  ASSUME NEW n, LinksOK(n), NEW h, Top(n, h), NEW i \in CardSlot,
         Chain(n, h)[i \div CB] \in Cluster
  PROVE  /\ ~LastOfCluster(i) => i + 1 \in CardSlot /\ (i + 1) \div CB = i \div CB
         /\ LastOfCluster(i) => (i + 1) \div CB = (i \div CB) + 1
         /\ LastOfCluster(i) /\ n[Chain(n, h)[i \div CB]] \in Cluster =>
              /\ i + 1 \in CardSlot
              /\ Chain(n, h)[(i + 1) \div CB] = n[Chain(n, h)[i \div CB]]
         /\ LastOfCluster(i) /\ n[Chain(n, h)[i \div CB]] \notin Cluster =>
              \A j \in CardSlot : j > i => Chain(n, h)[j \div CB] \notin Cluster
<1> DEFINE q == i \div CB
           r == i % CB
           c == Chain(n, h)[q]
<1>1. i \in Nat /\ q \in 0 .. NCLST - 1 /\ r \in 0 .. CB - 1 /\ i = (CB * q) + r
  BY InRange, Sizes, Division
<1>2. LastOfCluster(i) <=> (i + 1) % CB = 0  BY DEF LastOfCluster, CB
<1>3. IF (i + 1) % CB = 0
      THEN (i + 1) \div CB = q + 1 /\ r = CB - 1
      ELSE (i + 1) \div CB = q /\ (i + 1) % CB = r + 1
  BY <1>1, Sizes, NextPosition
<1>4. (i + 1) % CB \in 0 .. CB - 1 /\ i + 1 \in Nat  BY <1>1, Sizes, Division
<1>5. n \in Maps /\ OneWay(n)  BY DEF LinksOK
<1>6. Chain(n, h)[q + 1] = n[c]  BY <1>1, <1>5, ChainStep
<1>7. Chain(n, h)[NCLST] \notin Cluster  BY <1>5, ChainEnds
<1>8. ASSUME NEW t \in 0 .. NCLST - 1, NEW x \in 0 .. CB - 1  PROVE (CB * t) + x \in CardSlot
  <2>1. CB * t <= CB * (NCLST - 1) /\ CB * (NCLST - 1) = NCLST * CB - CB
    BY Sizes
  <2>2. CB * t \in Nat  BY Sizes
  <2> QED BY <2>1, <2>2, Sizes
<1>9. ASSUME ~LastOfCluster(i)  PROVE i + 1 \in CardSlot /\ (i + 1) \div CB = q
  <2> HIDE DEF q, r
  <2>1. r + 1 \in 0 .. CB - 1 /\ i + 1 = (CB * q) + (r + 1)
    BY <1>1, <1>2, <1>3, <1>4, <1>9, Sizes
  <2>2. (CB * q) + (r + 1) \in CardSlot  BY <1>1, <1>8, <2>1
  <2> QED BY <1>2, <1>3, <1>9, <2>1, <2>2
<1>10. ASSUME LastOfCluster(i), n[c] \in Cluster
       PROVE  i + 1 \in CardSlot /\ Chain(n, h)[(i + 1) \div CB] = n[c]
  <2>1. (i + 1) \div CB = q + 1 /\ r = CB - 1  BY <1>2, <1>3, <1>10
  <2>2. q + 1 \in 0 .. NCLST - 1  BY <1>1, <1>6, <1>7, <1>10, Sizes
  <2>3. i + 1 = (CB * (q + 1)) + 0
    <3> HIDE DEF q, r
    <3> QED BY <1>1, <2>1, Sizes
  <2>4. (CB * (q + 1)) + 0 \in CardSlot
    <3> HIDE DEF q, r
    <3>1. 0 \in 0 .. CB - 1  BY Sizes
    <3> QED BY <1>8, <2>2, <3>1
  <2> QED BY <1>6, <2>1, <2>3, <2>4
<1>11. ASSUME LastOfCluster(i), n[c] \notin Cluster, NEW j \in CardSlot, j > i,
              Chain(n, h)[j \div CB] \in Cluster
       PROVE  FALSE
  <2>1. (i + 1) \div CB = q + 1  BY <1>2, <1>3, <1>11
  <2>2. j \in Nat /\ j \div CB \in 0 .. NCLST /\ i + 1 <= j  BY <1>1, <1>11, InRange
  <2>3. q + 1 <= j \div CB  BY <1>4, <2>1, <2>2, Division2
  <2>4. q + 1 \in 0 .. j \div CB  BY <1>1, <2>2, <2>3
  <2>5. Chain(n, h)[q + 1] \in Cluster  BY <1>5, <1>11, <2>2, <2>4, ChainPrefix
  <2> QED BY <1>6, <1>11, <2>5
<1> QED BY <1>2, <1>3, <1>9, <1>10, <1>11

(* The same for the root directory *)
LEMMA RootNext ==
  ASSUME NEW d, Sound(d), NEW i \in CardSlot, NEW c \in Cluster, c = Root(d)[i \div CB]
  PROVE  /\ ~LastOfCluster(i) => i + 1 \in CardSlot /\ Root(d)[(i + 1) \div CB] = c
         /\ LastOfCluster(i) /\ Links(d)[c] \in Cluster =>
              i + 1 \in CardSlot /\ Root(d)[(i + 1) \div CB] = Links(d)[c]
         /\ LastOfCluster(i) /\ Links(d)[c] = EOC => NothingAfter(d, i)
         /\ Links(d)[c] \in Cluster \cup {EOC}
<1> DEFINE n == Links(d)
<1>1. LinksOK(n) /\ Top(n, dirbase) /\ n[dirbase] # 0 /\ n \in Maps  BY DEF Sound, LinksOK
<1>2. Chain(n, dirbase)[i \div CB] \in Cluster  BY DEF Root
<1>3. i \div CB \in 0 .. NCLST  BY InRange
<1>4. n[c] # 0  BY <1>1, <1>2, <1>3, ChainLinked DEF Root
<1>5. n[c] \in Cluster \cup {EOC}  BY <1>1, <1>4 DEF Maps, LinkVal
<1>6. /\ ~LastOfCluster(i) => i + 1 \in CardSlot /\ (i + 1) \div CB = i \div CB
      /\ LastOfCluster(i) /\ n[c] \in Cluster =>
           i + 1 \in CardSlot /\ Root(d)[(i + 1) \div CB] = n[c]
      /\ LastOfCluster(i) /\ n[c] \notin Cluster =>
           \A j \in CardSlot : j > i => Root(d)[j \div CB] \notin Cluster
  BY <1>1, <1>2, NextSlot DEF Root
<1>7. ASSUME LastOfCluster(i), n[c] = EOC  PROVE NothingAfter(d, i)
  <2>1. \A j \in CardSlot : j > i => Root(d)[j \div CB] \notin Cluster
    BY <1>6, <1>7, Constants
  <2> QED BY <2>1, EntryType DEF NothingAfter, Sound
<1> QED BY <1>5, <1>6, <1>7

(* What a longer FAT does not disturb *)
LEMMA KeptScan ==
  ASSUME NEW d, Sound(d), NEW e, Sound(e), KeepsFiles(d, e), NEW i \in CardSlot,
         Root(d)[i \div CB] \in Cluster
  PROVE  /\ Root(e)[i \div CB] = Root(d)[i \div CB] /\ DirAt(e, i) = DirAt(d, i)
         /\ \A key : NoKey(d, key) => NoKey(e, key)
         /\ Full(d, i) => Full(e, i)
         /\ NothingAfter(d, i) => NothingAfter(e, i)
<1>1. Root(e)[i \div CB] = Root(d)[i \div CB] /\ DirAt(e, i) = DirAt(d, i)
  BY DEF KeepsFiles
<1>2. \A key : NoKey(d, key) => NoKey(e, key)  BY DEF KeepsFiles, NoKey
<1>3. NothingAfter(d, i) => NothingAfter(e, i)  BY DEF KeepsFiles, NothingAfter
<1>4. ASSUME Full(d, i)  PROVE Full(e, i)
  <2> SUFFICES ASSUME NEW j \in CardSlot, j < i  PROVE DirAt(e, j) # NoEntry
    BY DEF Full
  <2>1. /\ j \in Nat /\ i \in Nat /\ j \div CB \in Nat /\ i \div CB \in 0 .. NCLST
        /\ j \div CB <= i \div CB
    <3>1. j \in Nat /\ i \in Nat /\ j <= i  BY InRange
    <3>2. j \div CB \in 0 .. NCLST - 1 /\ i \div CB \in 0 .. NCLST  BY InRange
    <3>3. j \div CB \in Nat  BY <3>2, Sizes
    <3> QED BY <3>1, <3>2, <3>3, Division2
  <2>2. j \div CB \in 0 .. i \div CB  BY <2>1
  <2>3. Root(d)[j \div CB] \in Cluster
    BY <2>1, <2>2, ChainPrefix DEF Root, Sound, LinksOK
  <2> QED BY <1>4, <2>3 DEF KeepsFiles, Full
<1> QED BY <1>1, <1>2, <1>3, <1>4

(***************************************************************************)
(* Writing what a file is to hold.                                         *)
(***************************************************************************)

(* A sector of the chain of h is written on a card d that comes before s.  *)
LEMMA FileWrite ==
  ASSUME NEW d, Sound(d), NEW s, Sound(s), Behind(d, s),
         NEW h, IsHead(Links(s), h), NEW q \in CardSlot,
         NEW c \in Cluster, NEW k \in 0 .. CSIZE - 1, InSector(Chain(Links(s), h), q, c, k),
         NEW data \in [Slot -> PieceVal], NEW of, NEW z \in Nat,
         \A i \in CardSlot : EntryAt(s, i) /\ DirAt(s, i).sclust = h =>
           DirAt(s, i).name = of /\ DirAt(s, i).size <= z,
         \A p \in CardSlot : p \div SS = q \div SS /\ p < z => data[p % SS] = Expected(of, p),
         NEW e, e = Put(d, DataSector(c, k), data)
  PROVE  /\ Sound(e) /\ SameFiles(d, e) /\ e[InfoSector] = d[InfoSector]
         /\ \A ch : \A i \in Nat :
              SlotOf(e, ch, i) = IF InSector(ch, i, c, k)
                                 THEN data[i % SS] ELSE SlotOf(d, ch, i)
<1>1. LinksOK(Links(s)) /\ Top(Links(s), dirbase) /\ Top(Links(s), h) /\ h # dirbase
  BY DEF Sound, LinksOK, IsHead
<1>2. ASSUME NEW g, NEW p \in CardSlot, InSector(Chain(Links(d), g), p, c, k)
      PROVE  InSector(Chain(Links(s), g), p, c, k)
  <2>1. p \div CB \in 0 .. NCLST  BY InRange
  <2>2. Chain(Links(d), g)[p \div CB] \in Cluster  BY <1>2 DEF InSector
  <2>3. Chain(Links(s), g)[p \div CB] = Chain(Links(d), g)[p \div CB]
    BY <2>1, <2>2, BehindChain
  <2> QED BY <1>2, <2>3 DEF InSector
<1>3. ASSUME NEW p \in CardSlot, InSector(Root(d), p, c, k)  PROVE FALSE
  <2>1. InSector(Chain(Links(s), dirbase), p, c, k)  BY <1>2, <1>3 DEF Root
  <2> QED BY <1>1, <2>1, DataSectorOwner
<1>4. ASSUME NEW i \in CardSlot, EntryAt(d, i), NEW p \in CardSlot,
             InSector(Chain(Links(d), DirAt(d, i).sclust), p, c, k), p < DirAt(d, i).size
      PROVE  data[p % SS] = Expected(DirAt(d, i).name, p)
  <2>1. p \in Nat /\ DirAt(d, i).size \in Nat /\ DirAt(s, i).size \in Nat /\ EntryAt(s, i)
    BY <1>4, InRange, EntryType, Sizes DEF Sound, Behind
  <2>2. p \in 0 .. DirAt(d, i).size - 1  BY <1>4, <2>1
  <2>3. DirAt(d, i).sclust # 0  BY <1>4, <2>2, FileSlot
  <2>4. /\ DirAt(s, i).sclust = DirAt(d, i).sclust /\ DirAt(s, i).name = DirAt(d, i).name
        /\ DirAt(d, i).size <= DirAt(s, i).size
    BY <1>4, <2>3 DEF Behind
  <2>5. Top(Links(s), DirAt(s, i).sclust)
    BY <2>1, <2>3, <2>4 DEF Sound, FilesOK, IsHead
  <2>6. InSector(Chain(Links(s), DirAt(s, i).sclust), p, c, k)  BY <1>2, <1>4, <2>4
  <2>7. DirAt(s, i).sclust = h /\ p \div SS = q \div SS
    BY <1>1, <2>5, <2>6, DataSectorOwner
  <2>8. DirAt(s, i).name = of /\ DirAt(s, i).size <= z  BY <2>1, <2>7
  <2>9. p < z  BY <1>4, <2>1, <2>4, <2>8
  <2> QED BY <2>4, <2>7, <2>8, <2>9
<1>5. /\ Sound(e) /\ Links(e) = Links(d) /\ e[InfoSector] = d[InfoSector]
      /\ \A j \in CardSlot : DirAt(e, j) = DirAt(d, j)
      /\ \A ch : \A i \in Nat :
           SlotOf(e, ch, i) = IF InSector(ch, i, c, k) THEN data[i % SS] ELSE SlotOf(d, ch, i)
  BY <1>3, <1>4, FileEdit
<1> QED BY <1>5 DEF SameFiles

(* What the entries of a card are *)
LEMMA EntriesAre ==
  ASSUME NEW d
  PROVE  /\ \A i \in CardSlot : EntryAt(d, i) => DirAt(d, i) \in Entries(d)
         /\ \A e \in Entries(d) : \E i \in CardSlot : EntryAt(d, i) /\ e = DirAt(d, i)
BY DEF Entries, EntryAt, DirAt, Root

(* What a header and a row are *)
LEMMA RowSizes ==
  /\ HdrLen \in Nat /\ HdrLen # 0 /\ RowLen \in Nat /\ RowLen # 0
  /\ \A r \in Nat : RowEnd(r) \in Nat /\ RowEnd(r + 1) = RowEnd(r) + RowLen /\ RowEnd(r) >= HdrLen
  /\ RowEnd(0) = HdrLen
  /\ \A r, s \in Nat : r < s => RowEnd(r) < RowEnd(s)
<1>1. HdrLen \in Nat /\ HdrLen # 0 /\ RowLen \in Nat /\ RowLen # 0  BY DatalogAssumption
<1>2. ASSUME NEW r \in Nat
      PROVE  RowEnd(r) \in Nat /\ RowEnd(r + 1) = RowEnd(r) + RowLen /\ RowEnd(r) >= HdrLen
  <2>1. r * RowLen \in Nat /\ (r + 1) * RowLen = (r * RowLen) + RowLen  BY <1>1
  <2> QED BY <1>1, <2>1 DEF RowEnd
<1>3. RowEnd(0) = HdrLen  BY <1>1 DEF RowEnd
<1>4. ASSUME NEW r \in Nat, NEW s \in Nat, r < s  PROVE RowEnd(r) < RowEnd(s)
  <2>1. (s - r) * RowLen >= 1 * RowLen  BY <1>1, <1>4
  <2>2. s * RowLen = (r * RowLen) + ((s - r) * RowLen)  BY <1>1
  <2>3. r * RowLen \in Nat /\ s * RowLen \in Nat /\ (s - r) * RowLen \in Nat  BY <1>1, <1>4
  <2> QED BY <1>1, <2>1, <2>2, <2>3 DEF RowEnd
<1> QED BY <1>1, <1>2, <1>3, <1>4

(* The header's slots hold the header, a row's slots the row. *)
LEMMA ExpectedIs ==
  ASSUME NEW n, NEW i \in Nat
  PROVE  /\ i < HdrLen => Expected(n, i) = Piece(n, 0)
         /\ \A r \in Nat : RowEnd(r) <= i /\ i < RowEnd(r + 1) => Expected(n, i) = Piece(n, r + 1)
<1>1. HdrLen \in Nat /\ RowLen \in Nat /\ RowLen # 0  BY RowSizes
<1>2. ASSUME NEW r \in Nat, RowEnd(r) <= i, i < RowEnd(r + 1)
      PROVE  Expected(n, i) = Piece(n, r + 1)
  <2> DEFINE m == RowLen * r
             x == i - HdrLen - m
  <2>1. m \in Nat /\ r * RowLen = m /\ RowEnd(r + 1) = RowEnd(r) + RowLen /\ RowEnd(r) = HdrLen + m
    BY <1>1, RowSizes DEF RowEnd
  <2>2. x \in 0 .. RowLen - 1 /\ i - HdrLen = m + x /\ ~(i < HdrLen)
    <3> HIDE DEF m
    <3> QED BY <1>1, <1>2, <2>1
  <2> HIDE DEF x
  <2>3. (RowLen * r + x) \div RowLen = r  BY <1>1, <2>2, Quotient
  <2>4. (i - HdrLen) \div RowLen = r  BY <2>2, <2>3
  <2>5. 1 + (i - HdrLen) \div RowLen = r + 1
    <3> HIDE DEF m
    <3> QED BY <2>4
  <2> QED BY <2>2, <2>5 DEF Expected
<1> QED BY <1>2 DEF Expected

(***************************************************************************)
(* The inductive invariant.  What FatFs sees is the card with the window   *)
(* in place of its sector when the window is dirty.  The card and what     *)
(* FatFs sees are sound at any time, so that it does not matter when power *)
(* is lost, and what FatFs sees only goes on from what the card holds.     *)
(***************************************************************************)
Seen == IF win.wflag THEN Put(disk, win.sect, win.data) ELSE disk

Points == {"idle", "mount", "fsinfo", "find", "find_next", "alloc", "alloc_next", "clear",
           "zero", "chain", "status", "contig", "search", "link", "found", "got", "write",
           "place", "fill", "sync", "entry", "sync_fs", "sync_info"}
Waits == {"closed", "mount", "stat", "open", "header", "hsync", "hclose", "ready", "row",
          "rsync"}
ScanPoints == {"find", "find_next", "alloc", "alloc_next"}
AllocPoints == {"chain", "status", "contig", "search", "link", "found", "got"}
GrowPoints == AllocPoints \cup {"clear", "zero"}
WritePoints == AllocPoints \cup {"write", "place", "fill"}
SyncPoints == {"sync", "entry", "sync_fs", "sync_info"}

Windows == [sect : Sector \cup {Nowhere}, data : [Slot -> FatVal \cup SlotVal],
            wflag : BOOLEAN]
FileObjects ==
  [sclust : Cluster \cup {0}, objsize : Nat, fptr : Nat, clust : Cluster \cup {0},
   sect : Sector \cup {Nowhere}, buf : [Slot -> PieceVal], dirty : BOOLEAN,
   modified : BOOLEAN, err : {"OK", "DISK_ERR"}, dir_sect : Sector \cup {Nowhere}, dir : Slot]
Positions == [ofs : Nat, clust : Cluster]
Locals == [clst : Cluster \cup {0}, scl : 0 .. Unknown, ncl : Cluster \cup {0}]

Types ==
  /\ win \in Windows
  /\ vol \in [last_clst : 0 .. Unknown, free_clst : 0 .. NCLST \cup {Unknown},
              fsi : {"off", "clean", "changed"}]
  /\ fp \in FileObjects
  /\ dp \in Positions
  /\ cc \in Locals
  /\ call \in [op : {"none", "mount", "stat", "open", "write", "sync", "close"},
               key : 0 .. MaxName, item : PieceVal, todo : Nat]
  /\ pc \in Points /\ res \in {"OK", "NO_FILE", "EXIST", "DISK_ERR", "DENIED"}
  /\ dl \in Waits /\ fname \in 0 .. MaxName

CardOK == Sound(disk) /\ Sound(Seen) /\ Behind(disk, Seen)

(* The sectors that go through the window *)
Tracked(d, s) ==
  \/ \E c \in Cluster : s = FatSector(c)
  \/ \E c \in Cluster, k \in 0 .. CSIZE - 1 : InRoot(d, c) /\ s = DataSector(c, k)

(* The window may differ from what it stands for only when the next use of *)
(* it is to be dropped.                                                    *)
Stale ==
  \/ dl = "closed" \/ pc = "mount"
  \/ pc = "zero" /\ call.todo = CSIZE
  \/ dl = "open" /\ pc = "idle" /\ res # "OK"
WindowOK ==
  /\ win.sect \in {Nowhere, InfoSector} \/ Tracked(Seen, win.sect)
  /\ win.wflag => Tracked(Seen, win.sect)
  /\ ~Stale /\ Tracked(Seen, win.sect) => win.data = Seen[win.sect]

VolumeOK ==
  dl \notin {"closed", "mount"} \/ (dl = "mount" /\ pc = "idle" /\ res = "OK") =>
    Cardinality(FreeSet(Links(Seen))) + (IF pc \in {"link", "found"} THEN 1 ELSE 0)
      <= vol.free_clst

(* Which calls datalog.c waits for, and where they can be *)
Control ==
  /\ dl \in {"closed", "ready"} => pc = "idle"
  /\ dl = "mount" => call.op = "mount" /\ pc \in {"mount", "fsinfo", "idle"}
  /\ dl = "stat" => call.op = "stat" /\ pc \in {"find", "find_next", "idle"}
  /\ dl = "open" => call.op = "open" /\ pc \in ScanPoints \cup GrowPoints \cup {"idle"}
  /\ dl \in {"header", "row"} => call.op = "write" /\ pc \in WritePoints \cup {"idle"}
  /\ dl \in {"hsync", "rsync"} => call.op = "sync" /\ pc \in SyncPoints \cup {"idle"}
  /\ dl = "hclose" => call.op = "close" /\ pc \in SyncPoints \cup {"idle"}
  /\ dl \notin {"closed", "mount"} => fname \in 1 .. MaxName
  /\ dl \in {"stat", "open"} => call.key = fname
  /\ pc = "fsinfo" => ~win.wflag

(* A directory is searched from its top; what was passed is in use. *)
NotYet(d, key, i) == \A j \in CardSlot : EntryAt(d, j) /\ j < i => DirAt(d, j).name # key
Passed(d, i) == LastOfCluster(i) /\ DirAt(d, i) # NoEntry
ScanOK ==
  pc \in ScanPoints =>
    /\ dp.ofs \in CardSlot /\ dp.clust = Root(Seen)[dp.ofs \div CB]
    /\ Full(Seen, dp.ofs)
    /\ pc \in {"find_next", "alloc_next"} => Passed(Seen, dp.ofs)
    /\ pc \in {"alloc", "alloc_next"} => NoKey(Seen, call.key)
    /\ pc = "find" => NotYet(Seen, call.key, dp.ofs)
    /\ pc = "find_next" => NotYet(Seen, call.key, dp.ofs + 1)

(* A directory that grows, and the end it grows at *)
GrowOK ==
  dl = "open" /\ pc \in GrowPoints =>
    /\ NoKey(Seen, call.key) /\ dp.ofs \in CardSlot
    /\ Full(Seen, dp.ofs) /\ Passed(Seen, dp.ofs) /\ NothingAfter(Seen, dp.ofs)
    /\ cc.clst \in Cluster /\ cc.clst = Root(Seen)[dp.ofs \div CB]
    /\ pc = "zero" => ~win.wflag /\ call.todo \in 1 .. CSIZE
                      /\ win.sect = DataSector(cc.ncl, 0) /\ win.data = Zeros

(* The cluster that is looked for, and what was found *)
Fresh(s, c) ==
  /\ IsHead(Links(s), c) /\ Links(s)[c] = EOC
  /\ \A i \in CardSlot : EntryAt(s, i) => DirAt(s, i).sclust # c
Visited(scl, ncl) ==
  IF ncl > scl THEN scl + 1 .. ncl - 1
  ELSE (scl + 1 .. n_fatent - 1) \cup (2 .. ncl - 1)
AllocOK ==
  /\ pc \in {"chain", "status", "contig", "search", "link"} /\ cc.clst # 0 =>
       Links(Seen)[cc.clst] = EOC
  /\ pc \in {"status", "contig", "link"} => cc.clst # 0
  /\ pc = "contig" => cc.scl = cc.clst /\ cc.ncl = SuccCluster(cc.clst)
  /\ pc = "search" =>
       /\ cc.scl \in 1 .. n_fatent - 1 /\ cc.ncl \in Cluster
       /\ \A c \in Cluster : c \in Visited(cc.scl, cc.ncl) => Links(Seen)[c] # 0
  /\ pc = "link" \/ (pc \in {"found", "got"} /\ cc.clst = 0) =>
       Fresh(Seen, cc.ncl) /\ (dl # "open" => fp.sclust # cc.ncl)
  /\ pc = "link" => cc.clst # cc.ncl
  /\ pc \in {"found", "got", "clear", "zero"} /\ cc.clst # 0 =>
       cc.ncl \in Cluster /\ Links(Seen)[cc.clst] = cc.ncl /\ Links(Seen)[cc.ncl] = EOC

(* The open file: its entry, its chain and its text *)
IsOpen ==
  \/ dl \in {"header", "hsync", "hclose", "ready", "row", "rsync"}
  \/ dl = "open" /\ pc = "idle" /\ res = "OK"
File == Chain(Links(Seen), fp.sclust)
Last == fp.fptr - 1
SectorIs(p, s) ==
  /\ File[p \div CB] \in Cluster
  /\ s = DataSector(File[p \div CB], (p \div SS) % CSIZE)
TheEntry(d, i) == EntryAt(d, i) /\ DirAt(d, i).name = fname
EntryOK ==
  \E i \in CardSlot :
    /\ TheEntry(Seen, i) /\ fp.dir = i % SS
    /\ fp.dir_sect = DataSector(Root(Seen)[i \div CB], (i \div SS) % CSIZE)
    /\ DirAt(Seen, i).sclust \in {0, fp.sclust} /\ DirAt(Seen, i).size <= fp.objsize
    /\ \A j \in CardSlot : EntryAt(Seen, j) /\ j # i /\ fp.sclust # 0 =>
         DirAt(Seen, j).sclust # fp.sclust
ChainOK ==
  /\ fp.sclust # 0 => IsHead(Links(Seen), fp.sclust)
  /\ fp.fptr = fp.objsize /\ fp.fptr <= NCLST * CB
  /\ fp.fptr > 0 => fp.sclust # 0 /\ File[Last \div CB] \in Cluster
  /\ fp.dirty => fp.fptr > 0 /\ SectorIs(Last, fp.sect)
  /\ fp.fptr % SS # 0 => SectorIs(Last, fp.sect)
TextOK ==
  \A p \in CardSlot : p < fp.fptr =>
    /\ p \div SS = Last \div SS => fp.buf[p % SS] = Expected(fname, p)
    /\ ~(p \div SS = Last \div SS /\ fp.dirty) => SlotOf(Seen, File, p) = Expected(fname, p)
FileOK == IsOpen => EntryOK /\ ChainOK /\ TextOK

(* Where the file ends *)
EndOK ==
  IsOpen /\ pc \notin {"place", "fill"} =>
    /\ fp.fptr = 0 => fp.sclust = 0
    /\ dl = "open" => fp.fptr = 0
    /\ fp.err = "OK" =>
         /\ fp.clust = IF fp.fptr = 0 THEN 0 ELSE File[Last \div CB]
         /\ fp.clust # 0 /\ pc \notin {"found", "got"} => Links(Seen)[fp.clust] = EOC

(* A write under way, and what it takes next unless there is no room *)
NoRoom == FreeSet(Links(Seen)) = {} /\ AtCluster
Taking ==
  \/ dl = "header" /\ fp.fptr + call.todo = HdrLen
  \/ dl = "row" /\ fp.fptr + call.todo = RowEnd(rows + 1) /\ fp.fptr >= RowEnd(rows)
  \/ NoRoom /\ call.todo > 0 /\ pc \in {"write", "chain", "status", "contig", "search", "idle"}
WriteOK ==
  dl \in {"header", "row"} =>
    /\ call.item = Piece(fname, IF dl = "header" THEN 0 ELSE rows + 1)
    /\ pc # "idle" => IF fp.err = "OK" THEN Taking ELSE pc = "write"
    /\ pc \in AllocPoints => AtCluster /\ call.todo > 0 /\ cc.clst = fp.clust
    /\ pc = "idle" => IF res = "OK" THEN /\ fp.err = "OK" /\ fp.modified /\ Taking
                                         /\ call.todo > 0 => NoRoom
                      ELSE fp.err # "OK"
PlaceOK ==
  pc \in {"place", "fill"} =>
    /\ call.todo > 0 /\ fp.sclust # 0 /\ fp.fptr \in CardSlot
    /\ fp.clust \in Cluster /\ fp.clust = File[fp.fptr \div CB]
    /\ Links(Seen)[fp.clust] = EOC
    /\ pc = "place" => AtSector
    /\ pc = "fill" => SectorIs(fp.fptr, fp.sect) /\ (AtSector => ~fp.dirty)

SyncOK ==
  /\ dl = "rsync" /\ pc = "sync" => fp.modified
  /\ pc \in {"entry", "sync_fs", "sync_info"} => ~fp.dirty
  /\ pc = "sync_fs" =>
       /\ win.wflag
       /\ \E i \in CardSlot : TheEntry(Seen, i) /\ DirAt(Seen, i).size = fp.objsize
  /\ pc = "sync_info" => ~win.wflag
  /\ dl = "rsync" /\ (pc = "sync_info" \/ (pc = "idle" /\ res = "OK")) =>
       \E i \in CardSlot : TheEntry(disk, i) /\ DirAt(disk, i).size = fp.objsize

(* The rows the caller knows of *)
DurableAt(d, n) == \E i \in CardSlot : TheEntry(d, i) /\ DirAt(d, i).size >= n
AtRow == fp.err # "OK" \/ fp.fptr = RowEnd(rows) \/ NoRoom
RowsOK ==
  /\ rows \in Nat /\ acked \subseteq 1 .. rows /\ failedSyncs \in Nat
  /\ rows_since_sync \in 0 .. DATALOG_SYNC_ROWS - 1
  /\ rows > 0 => dl \in {"ready", "row", "rsync"} /\ RowEnd(rows) <= fp.objsize
  /\ dl = "hsync" => fp.err = "OK"
  /\ dl \in {"ready", "hsync"} => AtRow
  /\ dl = "rsync" => rows > 0 /\ fp.err = "OK" /\ fp.fptr = RowEnd(rows)
Pending == IF dl = "rsync" THEN DATALOG_SYNC_ROWS - 1 ELSE rows_since_sync
LossOK ==
  \E b \in 0 .. rows :
    /\ b > 0 => DurableAt(disk, RowEnd(b))
    /\ Cardinality({r \in acked : r > b}) <=
         (DATALOG_SYNC_ROWS - 1) * failedSyncs + Pending

Inv ==
  /\ Types /\ CardOK /\ WindowOK /\ VolumeOK /\ Control
  /\ ScanOK /\ GrowOK /\ AllocOK
  /\ FileOK /\ EndOK /\ WriteOK /\ PlaceOK /\ SyncOK
  /\ RowsOK /\ LossOK

(* The window stays one when it is written to. *)
LEMMA WindowRecord ==
  ASSUME NEW w \in Windows, NEW x \in [Slot -> FatVal \cup SlotVal]
  PROVE  [w EXCEPT !.wflag = TRUE, !.data = x] \in Windows
<1> DEFINE A == Sector \cup {Nowhere}
           B == [Slot -> FatVal \cup SlotVal]
<1>1. w \in [sect : A, data : B, wflag : BOOLEAN] /\ x \in B  BY DEF Windows
<1> HIDE DEF A, B
<1>2. [w EXCEPT !.wflag = TRUE, !.data = x] \in [sect : A, data : B, wflag : BOOLEAN]
  BY <1>1
<1> QED BY <1>2 DEF A, B, Windows

(* A file object before it is used, and as f_open() leaves it *)
LEMMA ClosedFile ==
  ASSUME NEW s \in Sector \cup {Nowhere}, NEW i \in Slot
  PROVE  /\ Closed \in FileObjects
         /\ [Closed EXCEPT !.modified = TRUE, !.dir_sect = s, !.dir = i] \in FileObjects
<1>1. 0 \in Slot /\ [j \in Slot |-> Junk] \in [Slot -> PieceVal]  BY SlotValues, Sizes DEF Slot
<1>2. Closed \in FileObjects  BY <1>1 DEF Closed, FileObjects
<1>3. [Closed EXCEPT !.modified = TRUE, !.dir_sect = s, !.dir = i] \in FileObjects
  <2> DEFINE A == Sector \cup {Nowhere}
             B == [Slot -> PieceVal]
             C == Cluster \cup {0}
             D == Slot
  <2>1. /\ Closed \in [sclust : C, objsize : Nat, fptr : Nat, clust : C, sect : A, buf : B,
                        dirty : BOOLEAN, modified : BOOLEAN, err : {"OK", "DISK_ERR"},
                        dir_sect : A, dir : D]
        /\ s \in A /\ i \in D
    BY <1>2 DEF FileObjects
  <2> HIDE DEF A, B, C, D
  <2>2. [Closed EXCEPT !.modified = TRUE, !.dir_sect = s, !.dir = i] \in
           [sclust : C, objsize : Nat, fptr : Nat, clust : C, sect : A, buf : B,
            dirty : BOOLEAN, modified : BOOLEAN, err : {"OK", "DISK_ERR"},
            dir_sect : A, dir : D]
    BY <2>1
  <2> QED BY <2>2 DEF A, B, C, D, FileObjects
<1> QED BY <1>2, <1>3

(***************************************************************************)
(* The window.                                                             *)
(***************************************************************************)
LEMMA PutPut ==
  ASSUME NEW d, NEW s, NEW x, NEW t, NEW y
  PROVE  /\ Put(Put(d, s, x), s, x) = Put(d, s, x)
         /\ Put(Put(d, s, x), s, y) = Put(d, s, y)
         /\ s # t => Put(Put(d, s, x), t, y) = Put(Put(d, t, y), s, x)
BY DEF Put

(* What lies in a dirty window is what FatFs sees. *)
LEMMA Flushed ==
  ASSUME CardOK, win.wflag, NEW ok \in BOOLEAN, DiskWrite(win.sect, win.data, ok),
         win'.sect = win.sect, win'.data = win.data, win'.wflag = ~ok
  PROVE  /\ Seen' = Seen /\ disk' \in {disk, Seen} /\ (ok => disk' = Seen)
         /\ CardOK' /\ Behind(disk, disk')
<1>1. disk' \in {disk, Put(disk, win.sect, win.data)}
      /\ (ok => disk' = Put(disk, win.sect, win.data))
  BY DEF DiskWrite, Put
<1>2. Seen = Put(disk, win.sect, win.data)  BY DEF Seen
<1>3. Seen' = IF win'.wflag THEN Put(disk', win'.sect, win'.data) ELSE disk'
  BY DEF Seen
<1>4. Seen' = Seen
  <2>1. CASE ok
    <3>1. ~win'.wflag  BY <2>1
    <3> QED BY <1>1, <1>2, <1>3, <2>1, <3>1
  <2>2. CASE ~ok
    <3>1. win'.wflag  BY <2>2
    <3>2. Seen' = Put(disk', win.sect, win.data)  BY <1>3, <3>1
    <3>3. Put(Put(disk, win.sect, win.data), win.sect, win.data) = Put(disk, win.sect, win.data)
      BY PutPut
    <3> QED BY <1>1, <1>2, <3>2, <3>3
  <2> QED BY <2>1, <2>2
<1>5. Sound(disk) /\ Sound(Seen) /\ Behind(disk, Seen)  BY DEF CardOK
<1>6. Behind(disk, disk) /\ Behind(Seen, Seen)  BY <1>5, BehindItself
<1>7. Sound(disk') /\ Behind(disk', Seen) /\ Behind(disk, disk')
  BY <1>1, <1>2, <1>5, <1>6
<1>8. CardOK'  BY <1>4, <1>5, <1>7 DEF CardOK
<1> QED BY <1>1, <1>2, <1>4, <1>7, <1>8

(* The window is written to. *)
LEMMA Dirtied ==
  ASSUME disk' = disk, win'.sect = win.sect, win'.wflag = TRUE
  PROVE  Seen' = Put(Seen, win.sect, win'.data)
<1>1. Seen' = Put(disk, win.sect, win'.data)  BY DEF Seen
<1>2. CASE win.wflag
  BY <1>1, <1>2, PutPut DEF Seen
<1>3. CASE ~win.wflag
  BY <1>1, <1>3 DEF Seen
<1> QED BY <1>2, <1>3

(* The card is written to, past the window. *)
LEMMA Past ==
  ASSUME NEW s, NEW data, disk' = Put(disk, s, data), win.wflag => win.sect # s,
         win'.sect = win.sect, win'.data = win.data, win'.wflag = win.wflag
  PROVE  Seen' = Put(Seen, s, data)
<1>1. Seen' = IF win.wflag THEN Put(disk', win.sect, win.data) ELSE disk'
  BY DEF Seen
<1> QED BY <1>1, PutPut DEF Seen

(* What FatFs sees does not change by what a clean window holds. *)
LEMMA SameSeen ==
  ASSUME disk' = disk, win' = win \/ (~win.wflag /\ ~win'.wflag)
  PROVE  Seen' = Seen
BY DEF Seen

(* A sector of the FAT in the window *)
LEMMA ReadFat ==
  ASSUME CardOK, WindowOK, ~Stale, NEW c \in Cluster, win.sect = FatSector(c)
  PROVE  /\ Fat(c) = Links(Seen)[c] /\ win.data = Seen[FatSector(c)]
         /\ win.data \in [Slot -> FatVal] /\ Tracked(Seen, win.sect)
<1>1. Tracked(Seen, win.sect)  BY DEF Tracked
<1>2. win.data = Seen[FatSector(c)]  BY <1>1 DEF WindowOK
<1>3. Image(Seen)  BY DEF CardOK, Sound
<1>4. win.data \in [Slot -> FatVal]  BY <1>2, <1>3, SectorNames DEF Image
<1>5. Fat(c) = Links(Seen)[c]  BY <1>2, <1>3, LinksType DEF Fat
<1> QED BY <1>1, <1>2, <1>4, <1>5

(* A sector of the root directory in the window *)
LEMMA ReadDir ==
  ASSUME CardOK, WindowOK, ~Stale, NEW i \in CardSlot, NEW c \in Cluster,
         Root(Seen)[i \div CB] = c, NEW k, k = (i \div SS) % CSIZE,
         win.sect = DataSector(c, k)
  PROVE  /\ win.data[i % SS] = DirAt(Seen, i) /\ win.data = Seen[DataSector(c, k)]
         /\ win.data \in [Slot -> SlotVal] /\ Tracked(Seen, win.sect)
         /\ InSector(Root(Seen), i, c, k) /\ k \in 0 .. CSIZE - 1 /\ i % SS \in Slot
<1>1. k \in 0 .. CSIZE - 1 /\ i % SS \in Slot /\ i \in Nat /\ i \div CB \in 0 .. NCLST
  BY InRange
<1>2. Tracked(Seen, win.sect)  BY <1>1 DEF Tracked, InRoot
<1>3. win.data = Seen[DataSector(c, k)]  BY <1>2 DEF WindowOK
<1>4. Image(Seen)  BY DEF CardOK, Sound
<1>5. win.data \in [Slot -> SlotVal]  BY <1>1, <1>3, <1>4 DEF Image
<1>6. win.data[i % SS] = DirAt(Seen, i)
  BY <1>1, <1>3, <1>4, SlotOfChain DEF DirAt
<1>7. InSector(Root(Seen), i, c, k)  BY DEF InSector
<1> QED BY <1>1, <1>2, <1>3, <1>5, <1>6, <1>7

(***************************************************************************)
(* What steps leave as it was.                                             *)
(***************************************************************************)
LEMMA WindowFrame ==
  ASSUME WindowOK, Seen' = Seen, win'.sect = win.sect, win'.data = win.data,
         win'.wflag => win.wflag, Stale => Stale'
  PROVE  WindowOK'
BY DEF WindowOK

(* The sectors that go through the window are those of the FAT and of the  *)
(* directory.                                                              *)
LEMMA TrackedSectors ==
  ASSUME NEW d, NEW s, Tracked(d, s)
  PROVE  s \in Sector /\ s # InfoSector /\ s # Nowhere
BY SectorNames DEF Tracked

(* The window is written to, *)
LEMMA WindowPut ==
  ASSUME DOMAIN Seen = Sector, Seen' = Put(Seen, win.sect, win'.data),
         win'.sect = win.sect, Tracked(Seen', win.sect)
  PROVE  WindowOK'
<1>1. win.sect \in Sector  BY TrackedSectors
<1>2. Seen'[win.sect] = win'.data  BY <1>1 DEF Put
<1>3. Tracked(Seen', win'.sect)  OBVIOUS
<1>4. win'.data = Seen'[win'.sect]  BY <1>2
<1> QED BY <1>3, <1>4 DEF WindowOK

(* and the card past it. *)
LEMMA WindowPast ==
  ASSUME WindowOK, DOMAIN Seen = Sector, NEW s, NEW data, Seen' = Put(Seen, s, data),
         ~Tracked(Seen, s), Root(Seen') = Root(Seen),
         win'.sect = win.sect, win'.data = win.data, win'.wflag => win.wflag, Stale => Stale'
  PROVE  WindowOK'
<1>1. \A t : Tracked(Seen', t) <=> Tracked(Seen, t)  BY DEF Tracked, InRoot
<1>2. Tracked(Seen, win.sect) => Seen'[win.sect] = Seen[win.sect]
  <2> HAVE Tracked(Seen, win.sect)
  <2>1. win.sect \in Sector /\ win.sect # s  BY TrackedSectors
  <2> QED BY <2>1 DEF Put
<1>3. win'.sect \in {Nowhere, InfoSector} \/ Tracked(Seen', win'.sect)
  BY <1>1 DEF WindowOK
<1>4. win'.wflag => Tracked(Seen', win'.sect)  BY <1>1 DEF WindowOK
<1>5. ~Stale' /\ Tracked(Seen', win'.sect) => win'.data = Seen'[win'.sect]
  BY <1>1, <1>2 DEF WindowOK
<1> QED BY <1>3, <1>4, <1>5 DEF WindowOK

(* The card and what FatFs sees stay as they are. *)
LEMMA CardFrame ==
  ASSUME CardOK, disk' = disk, Seen' = Seen  PROVE CardOK' /\ Behind(disk, disk')
<1>1. Behind(disk, disk)  BY BehindItself DEF CardOK
<1> QED BY <1>1 DEF CardOK

(* The count of free clusters goes on bounding those there are. *)
LEMMA VolumeFrame ==
  ASSUME VolumeOK, dl \notin {"closed", "mount"}, vol' = vol, Links(Seen') = Links(Seen),
         pc \in {"link", "found"} <=> pc' \in {"link", "found"}
  PROVE  VolumeOK'
<1>1. Cardinality(FreeSet(Links(Seen))) + (IF pc \in {"link", "found"} THEN 1 ELSE 0)
        <= vol.free_clst
  BY DEF VolumeOK
<1> QED BY <1>1 DEF VolumeOK

(* No directory is being searched, *)
LEMMA OutsideScan == ASSUME pc' \notin ScanPoints  PROVE ScanOK'
BY DEF ScanOK

(* none is growing, *)
LEMMA OutsideGrow == ASSUME dl' # "open" \/ pc' \notin GrowPoints  PROVE GrowOK'
BY DEF GrowOK

(* no cluster is being looked for. *)
LEMMA OutsideAlloc == ASSUME pc' \notin GrowPoints  PROVE AllocOK'
BY DEF AllocOK, GrowPoints, AllocPoints

(* No file is open, or about to be. *)
LEMMA NoFile ==
  ASSUME dl' \in {"closed", "mount", "stat", "open"},
         ~(dl' = "open" /\ pc' = "idle" /\ res' = "OK"),
         pc' \notin {"place", "fill", "entry", "sync_fs", "sync_info"}
  PROVE  FileOK' /\ EndOK' /\ WriteOK' /\ PlaceOK' /\ SyncOK'
<1>1. ~IsOpen'  BY DEF IsOpen
<1> QED BY <1>1 DEF FileOK, EndOK, WriteOK, PlaceOK, SyncOK

(* The file object, but for clust, err and modified *)
FileKept ==
  /\ fp'.sclust = fp.sclust /\ fp'.objsize = fp.objsize /\ fp'.fptr = fp.fptr
  /\ fp'.sect = fp.sect /\ fp'.buf = fp.buf /\ fp'.dirty = fp.dirty
  /\ fp'.dir_sect = fp.dir_sect /\ fp'.dir = fp.dir

(* The open file stays as it is. *)
LEMMA FileFrame ==
  ASSUME FileOK, IsOpen, Seen' = Seen, FileKept, fname' = fname
  PROVE  FileOK'
<1>1. EntryOK /\ ChainOK /\ TextOK  BY DEF FileOK
<1>2. EntryOK'  BY <1>1 DEF EntryOK, TheEntry, FileKept
<1>3. ChainOK'  BY <1>1 DEF ChainOK, FileKept, File, Last, SectorIs
<1>4. TextOK'  BY <1>1 DEF TextOK, FileKept, File, Last
<1> QED BY <1>2, <1>3, <1>4 DEF FileOK

(* A longer FAT *)
LEMMA FileGrows ==
  ASSUME FileOK, IsOpen, Types, CardOK, Sound(Seen'), KeepsFiles(Seen, Seen'),
         fp.sclust # 0 => IsHead(Links(Seen'), fp.sclust), FileKept, fname' = fname
  PROVE  /\ FileOK'
         /\ \A p \in CardSlot : p < fp.fptr =>
              Chain(Links(Seen'), fp.sclust)[p \div CB] = File[p \div CB]
<1>1. EntryOK /\ ChainOK /\ TextOK  BY DEF FileOK
<1>2. EntryOK'
  <2>1. PICK i \in CardSlot :
          /\ TheEntry(Seen, i) /\ fp.dir = i % SS
          /\ fp.dir_sect = DataSector(Root(Seen)[i \div CB], (i \div SS) % CSIZE)
          /\ DirAt(Seen, i).sclust \in {0, fp.sclust} /\ DirAt(Seen, i).size <= fp.objsize
          /\ \A j \in CardSlot : EntryAt(Seen, j) /\ j # i /\ fp.sclust # 0 =>
               DirAt(Seen, j).sclust # fp.sclust
    BY <1>1 DEF EntryOK
  <2>2. Root(Seen)[i \div CB] \in Cluster  BY <2>1, EntryType DEF TheEntry, CardOK, Sound
  <2>3. Root(Seen')[i \div CB] = Root(Seen)[i \div CB] /\ DirAt(Seen', i) = DirAt(Seen, i)
    BY <2>2 DEF KeepsFiles
  <2>4. TheEntry(Seen, i)'  BY <2>1, <2>3 DEF TheEntry, KeepsFiles
  <2>5. \A j \in CardSlot : EntryAt(Seen', j) /\ j # i /\ fp.sclust # 0 =>
          DirAt(Seen', j).sclust # fp.sclust
    BY <2>1 DEF KeepsFiles
  <2> QED BY <2>1, <2>3, <2>4, <2>5 DEF EntryOK, FileKept
<1>3. \A p \in CardSlot : p < fp.fptr =>
        /\ File[p \div CB] \in Cluster /\ File'[p \div CB] = File[p \div CB]
        /\ SlotOf(Seen', File', p) = SlotOf(Seen, File, p)
  <2> SUFFICES ASSUME NEW p \in CardSlot, p < fp.fptr
               PROVE  /\ File[p \div CB] \in Cluster /\ File'[p \div CB] = File[p \div CB]
                      /\ SlotOf(Seen', File', p) = SlotOf(Seen, File, p)
    OBVIOUS
  <2>1. fp.fptr \in Nat /\ p \in Nat /\ fp.fptr > 0 /\ fp.fptr <= NCLST * CB
    BY <1>1, InRange DEF Types, FileObjects, ChainOK
  <2>2. Last \in CardSlot /\ Last \in Nat /\ p <= Last  BY <2>1, Sizes DEF Last
  <2>3. /\ File[Last \div CB] \in Cluster /\ Last \div CB \in 0 .. NCLST
        /\ p \div CB \in 0 .. NCLST - 1 /\ p \div CB <= Last \div CB
    BY <1>1, <2>1, <2>2, InRange, Division2 DEF ChainOK
  <2>4. p \div CB \in 0 .. Last \div CB  BY <2>3, Sizes
  <2>5. File[p \div CB] \in Cluster
    BY <2>3, <2>4, ChainPrefix DEF File, CardOK, Sound, LinksOK
  <2>6. File' = Chain(Links(Seen'), fp.sclust)  BY DEF File, FileKept
  <2> QED BY <2>5, <2>6 DEF KeepsFiles, File
<1>4. File' = Chain(Links(Seen'), fp.sclust)  BY DEF File, FileKept
<1>5. ChainOK'
  <2>1. fp.fptr \in Nat  BY DEF Types, FileObjects
  <2>2. fp.fptr > 0 => Last \in CardSlot /\ Last < fp.fptr
    BY <1>1, <2>1, Sizes DEF ChainOK, Last
  <2>3. fp.fptr > 0 => File'[Last \div CB] = File[Last \div CB]  BY <1>3, <2>2
  <2>4. fp.fptr % SS # 0 => fp.fptr > 0  BY <2>1, Sizes
  <2>5. Last' = Last  BY DEF Last, FileKept
  <2>6. fp.fptr > 0 => \A s : SectorIs(Last, s)' <=> SectorIs(Last, s)
    BY <2>3, <2>5 DEF SectorIs
  <2> QED BY <1>1, <2>3, <2>4, <2>5, <2>6 DEF ChainOK, FileKept
<1>6. TextOK'
  <2>1. Last' = Last  BY DEF Last, FileKept
  <2> QED BY <1>1, <1>3, <2>1 DEF TextOK, FileKept
<1> QED BY <1>2, <1>3, <1>4, <1>5, <1>6 DEF FileOK

(* The rows that were taken stay within the file. *)
LEMMA RowsFrame ==
  ASSUME RowsOK, UNCHANGED logVars, rows > 0 => RowEnd(rows) <= fp'.objsize,
         dl \in {"ready", "hsync", "rsync"} =>
           fp'.err = fp.err /\ fp'.fptr = fp.fptr /\ Links(Seen') = Links(Seen)
  PROVE  RowsOK'
<1>1. dl \in {"ready", "hsync", "rsync"} => (AtRow' <=> AtRow)
  BY DEF AtRow, NoRoom, AtCluster, logVars
<1> QED BY <1>1 DEF RowsOK, logVars

(* What is durable on a card is so on one that comes after it. *)
LEMMA DurableStays ==
  ASSUME NEW d, NEW e, Sound(d), Sound(e), Behind(d, e), NEW n \in Nat, DurableAt(d, n)
  PROVE  DurableAt(e, n)
<1>1. PICK i \in CardSlot : TheEntry(d, i) /\ DirAt(d, i).size >= n  BY DEF DurableAt
<1>2. DirAt(d, i).size \in Nat /\ EntryAt(e, i) /\ DirAt(e, i).size \in Nat
  BY <1>1, EntryType, Sizes DEF TheEntry, Behind, Sound
<1>3. TheEntry(e, i) /\ DirAt(e, i).size >= n  BY <1>1, <1>2 DEF TheEntry, Behind
<1> QED BY <1>3 DEF DurableAt

(* No row is lost that was not lost before. *)
LEMMA LossFrame ==
  ASSUME LossOK, RowsOK, UNCHANGED logVars, CardOK, CardOK', Behind(disk, disk')
  PROVE  LossOK'
<1>1. PICK b \in 0 .. rows :
        /\ b > 0 => DurableAt(disk, RowEnd(b))
        /\ Cardinality({r \in acked : r > b}) <=
             (DATALOG_SYNC_ROWS - 1) * failedSyncs + Pending
  BY DEF LossOK
<1>2. b > 0 => DurableAt(disk', RowEnd(b))
  <2>1. b \in Nat  BY DEF RowsOK
  <2>2. RowEnd(b) \in Nat  BY <2>1, RowSizes
  <2> QED BY <1>1, <2>2, DurableStays DEF CardOK
<1>3. b > 0 => DurableAt(disk, RowEnd(b))'  BY <1>2 DEF DurableAt, TheEntry, logVars
<1>4. rows' = rows /\ acked' = acked /\ failedSyncs' = failedSyncs /\ Pending' = Pending
  BY DEF logVars, Pending
<1> QED BY <1>1, <1>3, <1>4 DEF LossOK

(***************************************************************************)
(* Looking for a name and for a free entry.                                *)
(***************************************************************************)

(* What datalog.c waits for while FatFs is at a point *)
LEMMA Where ==
  ASSUME Types, Control
  PROVE  /\ pc \in {"mount", "fsinfo"} => dl = "mount"
         /\ pc \in {"find", "find_next"} => dl \in {"stat", "open"} /\ call.op = dl
         /\ pc \in {"alloc", "alloc_next", "clear", "zero"} => dl = "open" /\ call.op = "open"
         /\ pc \in AllocPoints => \/ dl = "open" /\ call.op = "open"
                                  \/ dl \in {"header", "row"} /\ call.op = "write"
         /\ pc \in {"write", "place", "fill"} => dl \in {"header", "row"} /\ call.op = "write"
         /\ pc \in SyncPoints => /\ dl \in {"hsync", "rsync", "hclose"}
                                 /\ call.op \in {"sync", "close"}
BY DEF Types, Control, Waits, Points, ScanPoints, AllocPoints, GrowPoints, WritePoints, SyncPoints

(* A session begins without rows. *)
LEMMA NoRows ==
  ASSUME RowsOK, dl \in {"closed", "mount", "stat", "open", "header", "hsync", "hclose"}
  PROVE  rows = 0
BY DEF RowsOK

(* A search looks at the entry of its position, or at the link of its      *)
(* cluster.                                                                *)
LEMMA ScanFacts ==
  ASSUME Types, CardOK, WindowOK, Control, ScanOK, pc \in ScanPoints, win.sect = Want
  PROVE  /\ dl \in {"stat", "open"} /\ ~Stale /\ Sound(Seen)
         /\ dp.ofs \in CardSlot /\ dp.ofs \in Nat
         /\ dp.clust \in Cluster /\ dp.clust = Root(Seen)[dp.ofs \div CB]
         /\ pc \in {"find", "alloc"} =>
              /\ Entry = DirAt(Seen, dp.ofs)
              /\ win.sect = DataSector(dp.clust, (dp.ofs \div SS) % CSIZE)
         /\ pc \in {"find_next", "alloc_next"} => Fat(dp.clust) = Links(Seen)[dp.clust]
<1>1. dl \in {"stat", "open"}  BY Where DEF ScanPoints
<1>2. ~Stale  BY <1>1 DEF Stale, ScanPoints
<1>3. /\ dp.ofs \in CardSlot /\ dp.clust \in Cluster /\ dp.clust = Root(Seen)[dp.ofs \div CB]
      /\ Sound(Seen)
  BY DEF ScanOK, Types, Positions, CardOK
<1>4. dp.ofs \in Nat  BY <1>3, InRange
<1>5. ASSUME pc \in {"find", "alloc"}
      PROVE  /\ Entry = DirAt(Seen, dp.ofs)
             /\ win.sect = DataSector(dp.clust, (dp.ofs \div SS) % CSIZE)
  <2>1. win.sect = DataSector(dp.clust, (dp.ofs \div SS) % CSIZE)
    BY <1>5 DEF Want, DirSector
  <2>2. win.data[dp.ofs % SS] = DirAt(Seen, dp.ofs)  BY <1>2, <1>3, <2>1, ReadDir
  <2> QED BY <2>1, <2>2 DEF Entry
<1>6. ASSUME pc \in {"find_next", "alloc_next"}  PROVE Fat(dp.clust) = Links(Seen)[dp.clust]
  <2>1. win.sect = FatSector(dp.clust)  BY <1>6 DEF Want
  <2> QED BY <1>2, <1>3, <2>1, ReadFat
<1> QED BY <1>1, <1>2, <1>3, <1>4, <1>5, <1>6

(* Steps that only move on *)
LEMMA ScanStep ==
  ASSUME Inv, pc \in ScanPoints, disk' = disk, win' = win, vol' = vol, fp' = fp, call' = call,
         UNCHANGED logVars, pc' \in ScanPoints \cup {"chain", "idle"},
         dl = "stat" => pc' \in {"find", "find_next", "idle"},
         pc' = "idle" /\ dl = "open" => res' # "OK",
         dp' \in Positions,
         cc' \in Locals,
         res' \in {"OK", "NO_FILE", "EXIST", "DISK_ERR", "DENIED"},
         ScanOK', GrowOK', AllocOK'
  PROVE  Inv'
<1>1. /\ Types /\ CardOK /\ WindowOK /\ VolumeOK /\ Control /\ RowsOK /\ LossOK
  BY DEF Inv
<1>2. dl \in {"stat", "open"} /\ dl' = dl /\ fname' = fname  BY <1>1, Where DEF ScanPoints, logVars
<1>3. Seen' = Seen  BY SameSeen
<1>4. Types'  BY <1>1, <1>2 DEF Types, ScanPoints, Points
<1>5. CardOK' /\ Behind(disk, disk')  BY <1>1, <1>3, CardFrame
<1>6. WindowOK'
  <2>1. ~Stale  BY <1>2 DEF Stale, ScanPoints
  <2> QED BY <1>1, <1>3, <2>1, WindowFrame
<1>7. VolumeOK'
  BY <1>1, <1>2, <1>3, VolumeFrame DEF ScanPoints
<1>8. Control'  BY <1>1, <1>2 DEF Control, ScanPoints, GrowPoints, AllocPoints
<1>9. FileOK' /\ EndOK' /\ WriteOK' /\ PlaceOK' /\ SyncOK'
  BY <1>2, NoFile DEF ScanPoints
<1>10. RowsOK'
  <2>1. rows = 0  BY <1>1, <1>2, NoRows
  <2> QED BY <1>1, <1>2, <2>1, RowsFrame
<1>11. LossOK'  BY <1>1, <1>5, LossFrame
<1> QED BY <1>4, <1>5, <1>6, <1>7, <1>8, <1>9, <1>10, <1>11 DEF Inv

(* The search begins at the top of the root directory. *)
LEMMA RootStart ==
  ASSUME NEW d, Sound(d)
  PROVE  0 \in CardSlot /\ Root(d)[0 \div CB] = dirbase /\ Full(d, 0)
<1>1. 0 \div CB = 0  BY Sizes
<1>2. 0 \in CardSlot  BY Sizes
<1>3. Root(d)[0] = dirbase  BY ChainDef DEF Root, Sound, LinksOK
<1>4. Full(d, 0)  BY InRange DEF Full
<1> QED BY <1>1, <1>2, <1>3, <1>4

(* A name that is nowhere: what f_stat() and f_open() do then *)
LEMMA MissingStep ==
  ASSUME Inv, pc \in {"find", "find_next"}, NoKey(Seen, call.key), Missing,
         UNCHANGED << disk, win, vol, fp, cc, call, faults >>, UNCHANGED logVars
  PROVE  Inv'
<1>1. Types /\ CardOK /\ Control /\ Sound(Seen) /\ dl \in {"stat", "open"} /\ call.op = dl
  BY Where DEF Inv, CardOK
<1>2. Seen' = Seen  BY SameSeen
<1>3. dl' = dl  BY DEF logVars
<1>4. CASE dl = "stat"
  <2>1. pc' = "idle" /\ res' = "NO_FILE" /\ dp' = dp  BY <1>1, <1>4 DEF Missing, Return
  <2>2. ScanOK' /\ GrowOK' /\ AllocOK'
    BY <2>1, OutsideScan, OutsideGrow, OutsideAlloc DEF ScanPoints, GrowPoints, AllocPoints
  <2>3. /\ dp' \in Positions
        /\ cc' \in Locals
    BY <1>1, <2>1 DEF Types
  <2> QED BY <1>4, <2>1, <2>2, <2>3, ScanStep DEF ScanPoints
<1>5. CASE dl = "open"
  <2>1. pc' = "alloc" /\ res' = res /\ dp' = Rewind /\ call' = call
    BY <1>1, <1>5 DEF Missing, Goto
  <2>2. dp'.ofs = 0 /\ dp'.clust = dirbase /\ dp' \in Positions
    BY <2>1, Constants DEF Rewind, Positions
  <2>3. ScanOK'
    BY <1>1, <1>2, <2>1, <2>2, RootStart DEF ScanOK
  <2>4. GrowOK' /\ AllocOK'
    BY <2>1, OutsideGrow, OutsideAlloc DEF GrowPoints, AllocPoints
  <2>5. /\ cc' \in Locals
        /\ res' \in {"OK", "NO_FILE", "EXIST", "DISK_ERR", "DENIED"}
    BY <1>1, <2>1 DEF Types
  <2> QED BY <1>5, <2>1, <2>2, <2>3, <2>4, <2>5, ScanStep DEF ScanPoints
<1> QED BY <1>1, <1>4, <1>5

(* The next entry of the directory, where it does not take the FAT *)
LEMMA NextEntryStep ==
  ASSUME Inv, pc \in {"find", "alloc"}, NEW p, p = IF pc = "find" THEN "find_next" ELSE "alloc_next",
         win.sect = Want, NextEntry(p), Entry # NoEntry,
         pc = "find" /\ EntryAt(Seen, dp.ofs) => DirAt(Seen, dp.ofs).name # call.key,
         UNCHANGED << disk, win, vol, fp, cc, call, faults >>, UNCHANGED logVars
  PROVE  Inv'
<1>1. Types /\ CardOK /\ WindowOK /\ Control /\ ScanOK /\ pc \in ScanPoints
  BY DEF Inv, ScanPoints
<1>2. /\ dl \in {"stat", "open"} /\ Sound(Seen) /\ dp.ofs \in CardSlot /\ dp.ofs \in Nat
      /\ dp.clust \in Cluster /\ dp.clust = Root(Seen)[dp.ofs \div CB]
      /\ Entry = DirAt(Seen, dp.ofs)
  BY <1>1, ScanFacts
<1>3. Seen' = Seen /\ call' = call  BY SameSeen
<1>4. Full(Seen, dp.ofs)  BY <1>1 DEF ScanOK
<1>5. pc = "alloc" => NoKey(Seen, call.key) /\ dl = "open"  BY <1>1, Where DEF ScanOK
<1>6. pc = "find" => NotYet(Seen, call.key, dp.ofs)  BY <1>1 DEF ScanOK
<1>7. pc = "find" => NotYet(Seen, call.key, dp.ofs + 1)
  BY <1>2, <1>6, InRange DEF NotYet
<1>8. /\ cc' \in Locals
      /\ res \in {"OK", "NO_FILE", "EXIST", "DISK_ERR", "DENIED"}
      /\ dp \in Positions
  BY <1>1 DEF Types
<1>9. CASE LastOfCluster(dp.ofs)
  <2>1. pc' = p /\ res' = res /\ dp' = dp  BY <1>9 DEF NextEntry, Goto
  <2>2. Passed(Seen, dp.ofs)  BY <1>2, <1>9 DEF Passed
  <2>3. ScanOK'
    BY <1>2, <1>3, <1>4, <1>5, <1>7, <2>1, <2>2 DEF ScanOK, ScanPoints
  <2>4. GrowOK' /\ AllocOK'
    BY <2>1, OutsideGrow, OutsideAlloc DEF GrowPoints, AllocPoints
  <2> QED BY <1>1, <1>5, <1>8, <2>1, <2>3, <2>4, ScanStep DEF ScanPoints
<1>10. CASE ~LastOfCluster(dp.ofs)
  <2>1. pc' = pc /\ res' = res /\ dp' = [dp EXCEPT !.ofs = @ + 1]  BY <1>10 DEF NextEntry
  <2>2. /\ dp'.ofs = dp.ofs + 1 /\ dp'.clust = dp.clust
        /\ dp' \in Positions
    BY <1>8, <2>1 DEF Positions
  <2>3. dp.ofs + 1 \in CardSlot /\ Root(Seen)[(dp.ofs + 1) \div CB] = dp.clust
    BY <1>2, <1>10, RootNext
  <2>4. Full(Seen, dp.ofs + 1)
    BY <1>2, <1>4, InRange DEF Full
  <2>5. ScanOK'
    BY <1>3, <1>5, <1>7, <2>1, <2>2, <2>3, <2>4 DEF ScanOK, ScanPoints
  <2>6. GrowOK' /\ AllocOK'
    BY <2>1, OutsideGrow, OutsideAlloc DEF GrowPoints, AllocPoints
  <2> QED BY <1>1, <1>5, <1>8, <2>1, <2>2, <2>5, <2>6, ScanStep DEF ScanPoints
<1> QED BY <1>9, <1>10

(* dir_find() keeps the invariant, and f_stat() answers that there is no   *)
(* file only when the directory has none of that name.                     *)
LEMMA DirFindStep ==
  ASSUME Inv, DirFind, UNCHANGED logVars
  PROVE  Inv' /\ (pc' = "idle" /\ res' = "NO_FILE" => NoKey(Seen, call.key))
<1>1. /\ pc = "find" /\ win.sect = Want
      /\ UNCHANGED << disk, win, vol, fp, cc, call, faults >>
  BY DEF DirFind, At
<1>2. Types /\ CardOK /\ WindowOK /\ Control /\ ScanOK /\ pc \in ScanPoints
  BY <1>1 DEF Inv, ScanPoints
<1>3. /\ dl \in {"stat", "open"} /\ Sound(Seen) /\ dp.ofs \in CardSlot /\ dp.ofs \in Nat
      /\ Entry = DirAt(Seen, dp.ofs)
  BY <1>1, <1>2, ScanFacts
<1>4. NotYet(Seen, call.key, dp.ofs)  BY <1>1, <1>2 DEF ScanOK
<1>5. CASE Entry = NoEntry
  <2>1. NoKey(Seen, call.key)
    <3> SUFFICES ASSUME NEW j \in CardSlot, EntryAt(Seen, j)
                 PROVE  DirAt(Seen, j).name # call.key
      BY DEF NoKey
    <3>1. j \in Nat  BY InRange
    <3>2. j # dp.ofs  BY <1>3, <1>5, EntryType DEF Sound
    <3>3. ~(dp.ofs < j)  BY <1>3, <1>5 DEF Sound, NothingAfterTheEnd
    <3>4. j < dp.ofs  BY <1>3, <3>1, <3>2, <3>3
    <3> QED BY <1>4, <3>4 DEF NotYet
  <2>2. Missing  BY <1>5 DEF DirFind
  <2> QED BY <1>1, <2>1, <2>2, MissingStep
<1>6. CASE Entry # NoEntry /\ Named(Entry, call.key)
  <2>1. /\ pc' = "idle" /\ res' = (IF call.op = "stat" THEN "OK" ELSE "EXIST") /\ dp' = dp
    BY <1>6 DEF DirFind, Return
  <2>2. ScanOK' /\ GrowOK' /\ AllocOK'
    BY <2>1, OutsideScan, OutsideGrow, OutsideAlloc DEF ScanPoints, GrowPoints, AllocPoints
  <2>3. /\ dp' \in Positions
        /\ cc' \in Locals
    BY <1>1, <1>2, <2>1 DEF Types
  <2>4. call.op = dl  BY <1>1, <1>2, Where
  <2>5. dl = "open" => res' = "EXIST"  BY <2>1, <2>4
  <2> QED BY <1>1, <1>2, <2>1, <2>2, <2>3, <2>5, ScanStep DEF ScanPoints
<1>7. CASE Entry # NoEntry /\ ~Named(Entry, call.key)
  <2>1. NextEntry("find_next")  BY <1>7 DEF DirFind
  <2>2. EntryAt(Seen, dp.ofs) => DirAt(Seen, dp.ofs).name # call.key
    BY <1>3, <1>7, SlotValues DEF EntryAt, Named, IsEntry
  <2>3. pc' # "idle"  BY <1>1, <2>1 DEF NextEntry, Goto
  <2> QED BY <1>1, <1>7, <2>1, <2>2, <2>3, NextEntryStep
<1> QED BY <1>5, <1>6, <1>7

(* The first entry of the directory's next cluster *)
LEMMA NextClusterStep ==
  ASSUME Inv, pc \in {"find_next", "alloc_next"}, win.sect = Want,
         Links(Seen)[dp.clust] \in Cluster,
         pc' = (IF pc = "find_next" THEN "find" ELSE "alloc"), res' = res,
         dp' = [ofs |-> dp.ofs + 1, clust |-> Links(Seen)[dp.clust]],
         UNCHANGED << disk, win, vol, fp, cc, call, faults >>, UNCHANGED logVars
  PROVE  Inv'
<1>1. Types /\ CardOK /\ WindowOK /\ Control /\ ScanOK /\ pc \in ScanPoints
  BY DEF Inv, ScanPoints
<1>2. /\ dl \in {"stat", "open"} /\ Sound(Seen) /\ dp.ofs \in CardSlot /\ dp.ofs \in Nat
      /\ dp.clust \in Cluster /\ dp.clust = Root(Seen)[dp.ofs \div CB]
  BY <1>1, ScanFacts
<1>3. Seen' = Seen /\ call' = call  BY SameSeen
<1>4. Full(Seen, dp.ofs) /\ Passed(Seen, dp.ofs)  BY <1>1 DEF ScanOK
<1>5. pc = "alloc_next" => NoKey(Seen, call.key) /\ dl = "open"  BY <1>1, Where DEF ScanOK
<1>6. pc = "find_next" => NotYet(Seen, call.key, dp.ofs + 1)  BY <1>1 DEF ScanOK
<1>7. dp.ofs + 1 \in CardSlot /\ Root(Seen)[(dp.ofs + 1) \div CB] = Links(Seen)[dp.clust]
  BY <1>2, <1>4, RootNext DEF Passed
<1>8. Full(Seen, dp.ofs + 1)
  BY <1>2, <1>4, InRange DEF Full, Passed
<1>9. dp'.ofs = dp.ofs + 1 /\ dp'.clust = Links(Seen)[dp.clust] /\ dp' \in Positions
  BY <1>2 DEF Positions
<1>10. ScanOK'
  BY <1>3, <1>5, <1>6, <1>7, <1>8, <1>9 DEF ScanOK, ScanPoints
<1>11. GrowOK' /\ AllocOK'
  BY OutsideGrow, OutsideAlloc DEF GrowPoints, AllocPoints
<1>12. /\ cc' \in Locals
       /\ res' \in {"OK", "NO_FILE", "EXIST", "DISK_ERR", "DENIED"}
  BY <1>1 DEF Types
<1> QED BY <1>1, <1>5, <1>9, <1>10, <1>11, <1>12, ScanStep DEF ScanPoints

(* dir_next() in a search, at the end of a cluster: the same. *)
LEMMA DirFindNextStep ==
  ASSUME Inv, DirFindNext, UNCHANGED logVars
  PROVE  Inv' /\ (pc' = "idle" /\ res' = "NO_FILE" => NoKey(Seen, call.key))
<1>1. /\ pc = "find_next" /\ win.sect = Want
      /\ UNCHANGED << disk, win, vol, fp, cc, call, faults >>
  BY DEF DirFindNext, At
<1>2. Types /\ CardOK /\ WindowOK /\ Control /\ ScanOK /\ pc \in ScanPoints
  BY <1>1 DEF Inv, ScanPoints
<1>3. /\ Sound(Seen) /\ dp.ofs \in CardSlot /\ dp.ofs \in Nat
      /\ dp.clust \in Cluster /\ dp.clust = Root(Seen)[dp.ofs \div CB]
      /\ Fat(dp.clust) = Links(Seen)[dp.clust]
  BY <1>1, <1>2, ScanFacts
<1>4. Passed(Seen, dp.ofs) /\ NotYet(Seen, call.key, dp.ofs + 1)  BY <1>1, <1>2 DEF ScanOK
<1>5. /\ Links(Seen)[dp.clust] \in Cluster \cup {EOC}
      /\ Links(Seen)[dp.clust] = EOC => NothingAfter(Seen, dp.ofs)
  BY <1>3, <1>4, RootNext DEF Passed
<1>6. ~(Fat(dp.clust) <= 1)
  <2> DEFINE y == Fat(dp.clust)
  <2>1. y \in Cluster \cup {EOC}  BY <1>3, <1>5
  <2>2. y \in Nat /\ y > 1
    <3> HIDE DEF y
    <3> QED BY <2>1, Constants
  <2> QED BY <2>2
<1>7. CASE Fat(dp.clust) = EOC
  <2>1. Missing  BY <1>6, <1>7 DEF DirFindNext
  <2>2. NoKey(Seen, call.key)
    BY <1>3, <1>4, <1>5, <1>7, InRange DEF NoKey, NothingAfter, NotYet
  <2> QED BY <1>1, <2>1, <2>2, MissingStep
<1>8. CASE Fat(dp.clust) # EOC
  <2>1. /\ pc' = "find" /\ res' = res
        /\ dp' = [ofs |-> dp.ofs + 1, clust |-> Links(Seen)[dp.clust]]
    BY <1>3, <1>6, <1>8 DEF DirFindNext, Goto
  <2>2. Links(Seen)[dp.clust] \in Cluster  BY <1>3, <1>5, <1>8
  <2> QED BY <1>1, <2>1, <2>2, NextClusterStep
<1> QED BY <1>7, <1>8

(* dir_alloc() passes an entry that is in use. *)
LEMMA DirAllocStep ==
  ASSUME Inv, DirAlloc, UNCHANGED logVars  PROVE Inv'
<1>1. /\ pc = "alloc" /\ win.sect = Want /\ Entry # NoEntry /\ NextEntry("alloc_next")
      /\ UNCHANGED << disk, win, vol, fp, cc, call, faults >>
  BY DEF DirAlloc, At
<1> QED BY <1>1, NextEntryStep

(* dir_alloc() goes on to the next cluster, or has one added. *)
LEMMA DirAllocNextStep ==
  ASSUME Inv, DirAllocNext, UNCHANGED logVars  PROVE Inv'
<1>1. /\ pc = "alloc_next" /\ win.sect = Want
      /\ UNCHANGED << disk, win, vol, fp, call, faults >>
  BY DEF DirAllocNext, At
<1>2. /\ Types /\ CardOK /\ WindowOK /\ Control /\ ScanOK /\ pc \in ScanPoints
  BY <1>1 DEF Inv, ScanPoints
<1>3. /\ Sound(Seen) /\ dp.ofs \in CardSlot /\ dp.ofs \in Nat
      /\ dp.clust \in Cluster /\ dp.clust = Root(Seen)[dp.ofs \div CB]
      /\ Fat(dp.clust) = Links(Seen)[dp.clust]
  BY <1>1, <1>2, ScanFacts
<1>4. Passed(Seen, dp.ofs) /\ Full(Seen, dp.ofs) /\ NoKey(Seen, call.key) /\ dl = "open"
  BY <1>1, <1>2, Where DEF ScanOK
<1>5. /\ Links(Seen)[dp.clust] \in Cluster \cup {EOC}
      /\ Links(Seen)[dp.clust] = EOC => NothingAfter(Seen, dp.ofs)
  BY <1>3, <1>4, RootNext DEF Passed
<1>6. ~(Fat(dp.clust) <= 1)
  <2> DEFINE y == Fat(dp.clust)
  <2>1. y \in Cluster \cup {EOC}  BY <1>3, <1>5
  <2>2. y \in Nat /\ y > 1
    <3> HIDE DEF y
    <3> QED BY <2>1, Constants
  <2> QED BY <2>2
<1>7. CASE Fat(dp.clust) = EOC
  <2>1. pc' = "chain" /\ res' = res /\ cc' = [cc EXCEPT !.clst = dp.clust] /\ dp' = dp
    BY <1>6, <1>7 DEF DirAllocNext, Goto
  <2>2. Seen' = Seen /\ call' = call  BY <1>1, SameSeen
  <2>3. /\ cc'.clst = dp.clust
        /\ cc' \in Locals
        /\ dp' \in Positions
        /\ res' \in {"OK", "NO_FILE", "EXIST", "DISK_ERR", "DENIED"}
    BY <1>2, <1>3, <2>1 DEF Types, Locals, Positions
  <2>4. ScanOK'  BY <2>1, OutsideScan DEF ScanPoints
  <2>5. GrowOK'
    BY <1>3, <1>4, <1>5, <1>7, <2>1, <2>2, <2>3 DEF GrowOK
  <2>6. AllocOK'
    BY <1>3, <1>7, <2>1, <2>2, <2>3 DEF AllocOK
  <2> QED BY <1>1, <1>2, <1>4, <2>1, <2>3, <2>4, <2>5, <2>6, ScanStep
<1>8. CASE Fat(dp.clust) # EOC
  <2>1. /\ pc' = "alloc" /\ res' = res /\ cc' = cc
        /\ dp' = [ofs |-> dp.ofs + 1, clust |-> Links(Seen)[dp.clust]]
    BY <1>3, <1>6, <1>8 DEF DirAllocNext, Goto
  <2>2. Links(Seen)[dp.clust] \in Cluster  BY <1>3, <1>5, <1>8
  <2> QED BY <1>1, <2>1, <2>2, NextClusterStep
<1> QED BY <1>7, <1>8

(***************************************************************************)
(* move_window().                                                          *)
(***************************************************************************)
Lookups == {"find", "alloc", "find_next", "alloc_next", "status", "link", "contig", "search",
            "entry"}

(* The window moves in the middle of a call. *)
LEMMA Lookup ==
  ASSUME Types, Control, win.sect # Want
  PROVE  /\ pc \in Lookups /\ ~Stale
         /\ dl \in {"stat", "open", "header", "row", "hsync", "rsync", "hclose"}
<1>1. pc \in Lookups  BY DEF Want, Lookups
<1>2. dl \in {"stat", "open", "header", "row", "hsync", "rsync", "hclose"}
  BY <1>1, Where DEF Lookups, AllocPoints, SyncPoints
<1>3. ~Stale  BY <1>1, <1>2 DEF Stale, Lookups
<1> QED BY <1>1, <1>2, <1>3

(* The window moves on, the operation does not. *)
LEMMA Stay ==
  ASSUME Inv, pc \in Lookups, dl \in Waits \ {"closed", "mount"},
         Seen' = Seen, CardOK', Behind(disk, disk'), WindowOK',
         win' \in Windows,
         UNCHANGED << vol, fp, dp, cc, call, pc, res >>, UNCHANGED logVars
  PROVE  Inv'
<1>1. dl' = dl /\ fname' = fname /\ rows' = rows  BY DEF logVars
<1>2. Types'  BY <1>1 DEF Inv, Types
<1>3. VolumeOK'  BY VolumeFrame DEF Inv
<1>4. Control'  BY <1>1 DEF Inv, Control, Lookups
<1>5. ScanOK'  BY DEF Inv, ScanOK
<1>6. GrowOK'  BY <1>1 DEF Inv, GrowOK, Lookups
<1>7. AllocOK'  BY <1>1 DEF Inv, AllocOK
<1>8. IsOpen' <=> IsOpen  BY <1>1 DEF IsOpen
<1>9. FileOK'
  <2>1. CASE IsOpen  BY <1>1, <2>1, FileFrame DEF Inv, FileKept
  <2>2. CASE ~IsOpen  BY <1>8, <2>2 DEF FileOK
  <2> QED BY <2>1, <2>2
<1>10. EndOK'  BY <1>1, <1>8 DEF Inv, EndOK, File, Last
<1>11. WriteOK'
  <2>1. Taking' <=> Taking  BY <1>1 DEF Taking, NoRoom, AtCluster
  <2> QED BY <1>1, <2>1 DEF Inv, WriteOK, NoRoom, AtCluster
<1>12. PlaceOK'  BY DEF PlaceOK, Lookups
<1>13. SyncOK'  BY <1>1 DEF Inv, SyncOK, Lookups
<1>14. RowsOK'  BY RowsFrame DEF Inv, RowsOK
<1>15. LossOK'  BY LossFrame DEF Inv
<1> QED BY <1>2, <1>3, <1>4, <1>5, <1>6, <1>7, <1>9, <1>10, <1>11, <1>12, <1>13, <1>14, <1>15
        DEF Inv

(* An access fails. *)
LEMMA AbortStep ==
  ASSUME Inv, pc \in Lookups, dl \in Waits \ {"closed", "mount"},
         Seen' = Seen, CardOK', Behind(disk, disk'), WindowOK', Abort("DISK_ERR"),
         win' \in Windows,
         UNCHANGED << vol, dp, cc, call >>, UNCHANGED logVars
  PROVE  Inv'
<1>1. dl' = dl /\ fname' = fname /\ rows' = rows  BY DEF logVars
<1>2. pc' = "idle" /\ res' = "DISK_ERR"  BY DEF Abort, Return
<1>3. fp' = IF call.op = "write" THEN [fp EXCEPT !.err = "DISK_ERR"] ELSE fp  BY DEF Abort
<1>4. Types /\ Control /\ RowsOK /\ LossOK /\ CardOK  BY DEF Inv
<1>5. Types'  BY <1>1, <1>2, <1>3, <1>4 DEF Types, Points, FileObjects
<1>6. VolumeOK'
  <2>1. Cardinality(FreeSet(Links(Seen))) \in Nat
    BY <1>4, FreeCount DEF CardOK, Sound, LinksOK
  <2>2. vol.free_clst \in Nat  BY <1>4, Constants, Sizes DEF Types
  <2>3. Cardinality(FreeSet(Links(Seen))) <= vol.free_clst
    BY <2>1, <2>2 DEF Inv, VolumeOK
  <2> QED BY <1>2, <2>1, <2>3 DEF VolumeOK
<1>7. Control'  BY <1>1, <1>2, <1>4 DEF Control
<1>8. ScanOK' /\ GrowOK' /\ AllocOK'
  BY <1>2, OutsideScan, OutsideGrow, OutsideAlloc DEF ScanPoints, GrowPoints, AllocPoints
<1>9. FileKept  BY <1>3, <1>4 DEF Types, FileKept
<1>10. FileOK' /\ EndOK' /\ WriteOK' /\ PlaceOK' /\ SyncOK'
  <2>1. CASE dl \in {"stat", "open"}
    BY <1>1, <1>2, <2>1, NoFile
  <2>2. CASE dl \in {"header", "row"}
    <3>1. call.op = "write" /\ IsOpen  BY <1>4, <2>2 DEF Control, IsOpen
    <3>2. fp'.err = "DISK_ERR"  BY <1>3, <1>4, <3>1 DEF Types
    <3>3. FileOK'  BY <1>1, <1>9, <3>1, FileFrame DEF Inv
    <3>4. EndOK'  BY <1>1, <1>9, <3>1, <3>2 DEF Inv, EndOK, FileKept, Lookups
    <3>5. WriteOK'
      <4>1. call.item = Piece(fname, IF dl = "header" THEN 0 ELSE rows + 1)
        BY <2>2 DEF Inv, WriteOK
      <4>2. call'.item = call.item /\ fp'.err # "OK"  BY <3>2
      <4> QED BY <1>1, <1>2, <4>1, <4>2 DEF WriteOK, AllocPoints
    <3>6. PlaceOK'  BY <1>2 DEF PlaceOK
    <3>7. SyncOK'  BY <1>1, <1>2, <2>2 DEF SyncOK
    <3> QED BY <3>3, <3>4, <3>5, <3>6, <3>7
  <2>3. CASE dl \in {"hsync", "rsync", "hclose"}
    <3>1. call.op # "write" /\ IsOpen  BY <1>4, <2>3 DEF Control, IsOpen
    <3>2. fp' = fp  BY <1>3, <3>1
    <3>3. FileOK'  BY <1>1, <1>9, <3>1, FileFrame DEF Inv
    <3>4. EndOK'
      <4>1. pc \notin {"found", "got", "place", "fill"}  BY DEF Lookups
      <4> QED BY <1>1, <3>1, <3>2, <4>1 DEF Inv, EndOK, File, Last
    <3>5. WriteOK'  BY <1>1, <2>3 DEF WriteOK
    <3>6. PlaceOK'  BY <1>2 DEF PlaceOK
    <3>7. SyncOK'  BY <1>1, <1>2 DEF SyncOK
    <3> QED BY <3>3, <3>4, <3>5, <3>6, <3>7
  <2>4. CASE dl = "ready"
    BY <1>4, <2>4 DEF Control, Lookups
  <2> QED BY <2>1, <2>2, <2>3, <2>4 DEF Waits
<1>11. RowsOK'
  <2>1. dl \in {"ready", "hsync", "rsync"} => call.op # "write"
    BY <1>4 DEF Control, Lookups
  <2>2. dl \in {"ready", "hsync", "rsync"} => fp' = fp  BY <1>3, <2>1
  <2>3. fp'.objsize = fp.objsize  BY <1>9 DEF FileKept
  <2> QED BY <1>4, <2>2, <2>3, RowsFrame DEF RowsOK
<1>12. LossOK'  BY <1>4, LossFrame
<1> QED BY <1>5, <1>6, <1>7, <1>8, <1>10, <1>11, <1>12 DEF Inv

(* move_window() is asked for a sector of the FAT or of the root           *)
(* directory.                                                              *)
LEMMA WantTracked ==
  ASSUME Inv, win.sect # Want
  PROVE  Tracked(Seen, Want) /\ Seen[Want] \in [Slot -> FatVal \cup SlotVal]
<1>1. Types /\ Control /\ CardOK /\ Image(Seen) /\ Sound(Seen)  BY DEF Inv, CardOK, Sound
<1>2. pc \in Lookups  BY <1>1, Lookup
<1>3. ASSUME NEW c \in Cluster  PROVE /\ Tracked(Seen, FatSector(c))
                                      /\ Seen[FatSector(c)] \in [Slot -> FatVal \cup SlotVal]
  <2>1. c \in 0 .. n_fatent - 1  BY SectorNames
  <2>2. Seen[FatSector(c)] \in [Slot -> FatVal]  BY <1>1, <2>1 DEF Image
  <2>3. Tracked(Seen, FatSector(c))  BY DEF Tracked
  <2> QED BY <2>2, <2>3
<1>4. ASSUME NEW i \in CardSlot, NEW c \in Cluster, Root(Seen)[i \div CB] = c
      PROVE  LET s == DataSector(c, (i \div SS) % CSIZE)
             IN  Tracked(Seen, s) /\ Seen[s] \in [Slot -> FatVal \cup SlotVal]
  <2> DEFINE k == (i \div SS) % CSIZE
  <2>1. k \in 0 .. CSIZE - 1 /\ i \div CB \in 0 .. NCLST  BY InRange
  <2>2. InRoot(Seen, c)  BY <1>4, <2>1 DEF InRoot
  <2>3. Tracked(Seen, DataSector(c, k))
    <3> HIDE DEF k
    <3> QED BY <2>1, <2>2 DEF Tracked
  <2>4. Seen[DataSector(c, k)] \in [Slot -> SlotVal]
    <3> HIDE DEF k
    <3> QED BY <1>1, <2>1 DEF Image
  <2> QED BY <2>3, <2>4
<1>5. CASE pc \in {"find", "alloc"}
  <2>1. dp.ofs \in CardSlot /\ dp.clust \in Cluster /\ Root(Seen)[dp.ofs \div CB] = dp.clust
    BY <1>1, <1>5 DEF Inv, ScanOK, ScanPoints, Types, Positions
  <2>2. Want = DataSector(dp.clust, (dp.ofs \div SS) % CSIZE)
    BY <1>5 DEF Want, DirSector
  <2> QED BY <1>4, <2>1, <2>2
<1>6. CASE pc \in {"find_next", "alloc_next"}
  <2>1. dp.clust \in Cluster  BY <1>1 DEF Types, Positions
  <2>2. Want = FatSector(dp.clust)  BY <1>6 DEF Want
  <2> QED BY <1>3, <2>1, <2>2
<1>7. CASE pc \in {"status", "link"}
  <2>1. cc.clst \in Cluster  BY <1>1, <1>7 DEF Types, Locals, Inv, AllocOK
  <2>2. Want = FatSector(cc.clst)  BY <1>7 DEF Want
  <2> QED BY <1>3, <2>1, <2>2
<1>8. CASE pc \in {"contig", "search"}
  <2>1. cc.ncl \in Cluster
    <3>1. CASE pc = "search"  BY <3>1 DEF Inv, AllocOK
    <3>2. CASE pc = "contig"
      <4>1. cc.ncl = SuccCluster(cc.clst) /\ cc.clst \in Cluster
        BY <1>1, <3>2 DEF Types, Locals, Inv, AllocOK
      <4> QED BY <4>1, Sizes DEF SuccCluster, Cluster, n_fatent
    <3> QED BY <1>8, <3>1, <3>2
  <2>2. Want = FatSector(cc.ncl)  BY <1>8 DEF Want
  <2> QED BY <1>3, <2>1, <2>2
<1>9. CASE pc = "entry"
  <2>1. dl \in {"hsync", "rsync", "hclose"}  BY <1>1, <1>9, Where DEF SyncPoints
  <2>2. EntryOK  BY <2>1 DEF Inv, FileOK, IsOpen
  <2>3. PICK i \in CardSlot :
          /\ TheEntry(Seen, i)
          /\ fp.dir_sect = DataSector(Root(Seen)[i \div CB], (i \div SS) % CSIZE)
    BY <2>2 DEF EntryOK
  <2>4. Root(Seen)[i \div CB] \in Cluster  BY <1>1, <2>3, EntryType DEF TheEntry
  <2>5. Want = fp.dir_sect  BY <1>9 DEF Want
  <2> QED BY <1>4, <2>3, <2>4, <2>5
<1> QED BY <1>2, <1>5, <1>6, <1>7, <1>8, <1>9 DEF Lookups

(* sync_window() in move_window() *)
LEMMA FlushStep ==
  ASSUME Inv, NEW ok \in BOOLEAN, Flush(ok), UNCHANGED logVars  PROVE Inv'
<1>1. Types /\ Control /\ CardOK /\ WindowOK  BY DEF Inv
<1>2. win.sect # Want /\ win.wflag /\ DiskWrite(win.sect, win.data, ok)
      /\ UNCHANGED << vol, dp, cc, call >>
  BY DEF Flush
<1>3. pc \in Lookups /\ ~Stale /\ dl \in Waits \ {"closed", "mount"}
  BY <1>1, <1>2, Lookup DEF Waits
<1>4. win'.sect = win.sect /\ win'.data = win.data /\ win'.wflag = ~ok
      /\ win' \in Windows
  BY <1>1, <1>2 DEF Flush, Types, Windows
<1>5. Seen' = Seen /\ CardOK' /\ Behind(disk, disk')
  BY <1>1, <1>2, <1>4, Flushed
<1>6. WindowOK'  BY <1>1, <1>2, <1>3, <1>4, <1>5, WindowFrame
<1>7. CASE ok
  <2>1. UNCHANGED << fp, pc, res >>  BY <1>7 DEF Flush
  <2> QED BY <1>2, <1>3, <1>4, <1>5, <1>6, <2>1, Stay
<1>8. CASE ~ok
  <2>1. Abort("DISK_ERR")  BY <1>8 DEF Flush
  <2> QED BY <1>2, <1>3, <1>4, <1>5, <1>6, <2>1, AbortStep
<1> QED BY <1>7, <1>8

(* The sector that move_window() reads *)
LEMMA LoadStep ==
  ASSUME Inv, NEW ok \in BOOLEAN, Load(ok), UNCHANGED logVars  PROVE Inv'
<1>1. Types /\ Control /\ CardOK /\ WindowOK  BY DEF Inv
<1>2. win.sect # Want /\ ~win.wflag /\ disk' = disk /\ UNCHANGED << vol, dp, cc, call >>
  BY DEF Load
<1>3. pc \in Lookups /\ ~Stale /\ dl \in Waits \ {"closed", "mount"}
  BY <1>1, <1>2, Lookup DEF Waits
<1>4. Tracked(Seen, Want) /\ Seen[Want] \in [Slot -> FatVal \cup SlotVal] /\ Want \in Sector
  BY <1>2, WantTracked, TrackedSectors
<1>5. Seen = disk  BY <1>2 DEF Seen
<1>6. CASE ok
  <2>1. win' = [win EXCEPT !.sect = Want, !.data = disk[Want]] /\ UNCHANGED << fp, pc, res >>
    BY <1>6 DEF Load
  <2>2. /\ win'.sect = Want /\ win'.data = Seen[Want] /\ ~win'.wflag
        /\ win' \in Windows
    BY <1>1, <1>2, <1>4, <1>5, <2>1 DEF Types, Windows
  <2>3. Seen' = Seen  BY <1>2, <2>2, SameSeen
  <2>4. WindowOK'  BY <1>4, <2>2, <2>3 DEF WindowOK
  <2>5. CardOK' /\ Behind(disk, disk')  BY <1>1, <1>2, <2>3, CardFrame
  <2> QED BY <1>2, <1>3, <2>1, <2>2, <2>3, <2>4, <2>5, Stay
<1>7. CASE ~ok
  <2>1. win' = [win EXCEPT !.sect = Nowhere] /\ Abort("DISK_ERR")
    BY <1>7 DEF Load
  <2>2. /\ win'.sect = Nowhere /\ ~win'.wflag
        /\ win' \in Windows
    BY <1>1, <1>2, <2>1 DEF Types, Windows
  <2>3. Seen' = Seen  BY <1>2, <2>2, SameSeen
  <2>4. WindowOK'  BY <2>2, <2>3, TrackedSectors DEF WindowOK
  <2>5. CardOK' /\ Behind(disk, disk')  BY <1>1, <1>2, <2>3, CardFrame
  <2> QED BY <1>2, <1>3, <2>1, <2>2, <2>3, <2>4, <2>5, AbortStep
<1> QED BY <1>6, <1>7

(***************************************************************************)
(* The new entry, and the directory that grows.                            *)
(***************************************************************************)
LEMMA DirRegisterStep ==
  ASSUME Inv, DirRegister, UNCHANGED logVars  PROVE Inv'
<1>1. /\ pc = "alloc" /\ win.sect = Want /\ Entry = NoEntry /\ pc' = "idle" /\ res' = "OK"
      /\ win' = [win EXCEPT !.wflag = TRUE, !.data[dp.ofs % SS] =
                   [name |-> call.key, sclust |-> 0, size |-> 0]]
      /\ fp' = [Closed EXCEPT !.modified = TRUE, !.dir_sect = win.sect, !.dir = dp.ofs % SS]
      /\ UNCHANGED << disk, vol, dp, cc, call, faults >>
  BY DEF DirRegister, At, Return
<1>2. Types /\ CardOK /\ WindowOK /\ Control /\ ScanOK /\ pc \in ScanPoints /\ RowsOK /\ LossOK
  BY <1>1 DEF Inv, ScanPoints
<1> DEFINE i == dp.ofs
           c == dp.clust
           k == (dp.ofs \div SS) % CSIZE
<1>3. /\ ~Stale /\ Sound(Seen) /\ i \in CardSlot /\ c \in Cluster /\ Root(Seen)[i \div CB] = c
      /\ Entry = DirAt(Seen, i) /\ win.sect = DataSector(c, k)
  BY <1>1, <1>2, ScanFacts
<1>4. /\ dl = "open" /\ fname \in 1 .. MaxName /\ call.key = fname /\ rows = 0
      /\ dl' = dl /\ fname' = fname /\ rows' = rows /\ call' = call
  BY <1>1, <1>2, Where, NoRows DEF Control, logVars
<1>5. /\ win.data = Seen[DataSector(c, k)] /\ win.data \in [Slot -> SlotVal]
      /\ InSector(Root(Seen), i, c, k) /\ k \in 0 .. CSIZE - 1 /\ i % SS \in Slot
      /\ Tracked(Seen, win.sect)
  BY <1>2, <1>3, ReadDir
<1>6. DirAt(Seen, i) = NoEntry /\ Full(Seen, i) /\ NoKey(Seen, fname)
  BY <1>1, <1>2, <1>3, <1>4 DEF ScanOK
<1>7. /\ win'.sect = win.sect /\ win'.wflag = TRUE
      /\ \A s \in Slot : win'.data[s] = IF s = i % SS THEN Register(fname)
                                        ELSE Seen[DataSector(c, k)][s]
      /\ win'.data \in [Slot -> SlotVal]
  <2>1. win'.sect = win.sect /\ win'.wflag = TRUE
        /\ win'.data = [win.data EXCEPT ![i % SS] = Register(fname)]
    BY <1>1, <1>2, <1>4 DEF Types, Register
  <2>2. Register(fname) \in SlotVal
    BY <1>4, Sizes DEF Register, SlotVal, DirVal
  <2> QED BY <1>5, <2>1, <2>2
<1>8. Seen' = Put(Seen, DataSector(c, k), win'.data)
  BY <1>1, <1>3, <1>7, Dirtied
<1>9. /\ Sound(Seen') /\ Behind(Seen, Seen') /\ Links(Seen') = Links(Seen)
      /\ Root(Seen') = Root(Seen)
      /\ \A j \in CardSlot : DirAt(Seen', j) = IF j = i THEN Register(fname) ELSE DirAt(Seen, j)
  <2> HIDE DEF i, c, k
  <2> QED BY <1>3, <1>4, <1>5, <1>6, <1>7, <1>8, Registering
<1>10. CardOK' /\ Behind(disk, disk')
  <2>1. Behind(disk, Seen')  BY <1>2, <1>9, BehindMore DEF CardOK
  <2> QED BY <1>1, <1>2, <1>9, <2>1, BehindItself DEF CardOK
<1>11. WindowOK'
  <2>1. Tracked(Seen', win.sect)  BY <1>5, <1>9 DEF Tracked, InRoot
  <2>2. DOMAIN Seen = Sector  BY <1>3 DEF Sound, Image
  <2> QED BY <1>3, <1>7, <1>8, <2>1, <2>2, WindowPut
<1>12. /\ fp'.sclust = 0 /\ fp'.objsize = 0 /\ fp'.fptr = 0 /\ fp'.clust = 0
       /\ fp'.sect = Nowhere /\ fp'.buf = [j \in Slot |-> Junk] /\ fp'.dirty = FALSE
       /\ fp'.modified = TRUE /\ fp'.err = "OK" /\ fp'.dir_sect = win.sect /\ fp'.dir = i % SS
       /\ fp' \in FileObjects
  <2>1. win.sect \in Sector \cup {Nowhere}  BY <1>2 DEF Types, Windows
  <2>2. fp' \in FileObjects  BY <1>1, <1>5, <2>1, ClosedFile
  <2> QED BY <1>1, <2>2 DEF Closed
<1>13. Types'
  <2>1. win' \in Windows
    <3>1. win'.data \in [Slot -> FatVal \cup SlotVal]  BY <1>7
    <3>2. win' = [win EXCEPT !.wflag = TRUE, !.data = [win.data EXCEPT ![i % SS] = Register(fname)]]
      BY <1>1, <1>4 DEF Register
    <3>3. [win.data EXCEPT ![i % SS] = Register(fname)] = win'.data
      BY <1>1, <1>2, <1>4 DEF Types, Windows, Register
    <3> QED BY <1>2, <3>1, <3>2, <3>3, WindowRecord DEF Types
  <2> QED BY <1>1, <1>2, <1>4, <1>12, <2>1 DEF Types, Points
<1>14. VolumeOK'
  BY <1>1, <1>4, <1>9, VolumeFrame DEF Inv
<1>15. Control'  BY <1>1, <1>2, <1>4 DEF Control
<1>16. ScanOK' /\ GrowOK' /\ AllocOK'
  BY <1>1, OutsideScan, OutsideGrow, OutsideAlloc DEF ScanPoints, GrowPoints, AllocPoints
<1>17. FileOK'
  <2>1. EntryOK'
    <3>1. EntryAt(Seen', i) /\ DirAt(Seen', i).name = fname /\ DirAt(Seen', i).sclust = 0
          /\ DirAt(Seen', i).size = 0
      BY <1>3, <1>4, <1>9, SlotValues DEF EntryAt, Register, IsEntry
    <3>2. fp'.dir_sect = DataSector(Root(Seen')[i \div CB], (i \div SS) % CSIZE)
      BY <1>3, <1>9, <1>12
    <3> QED BY <1>3, <1>4, <1>12, <3>1, <3>2 DEF EntryOK, TheEntry
  <2>2. ChainOK'
    BY <1>12, Sizes DEF ChainOK
  <2>3. TextOK'  BY <1>12, InRange DEF TextOK
  <2> QED BY <2>1, <2>2, <2>3 DEF FileOK
<1>18. EndOK'  BY <1>12 DEF EndOK
<1>19. WriteOK' /\ PlaceOK' /\ SyncOK'
  BY <1>1, <1>4 DEF WriteOK, PlaceOK, SyncOK
<1>20. RowsOK'  BY <1>2, <1>4, RowsFrame
<1>21. LossOK'  BY <1>2, <1>10, LossFrame
<1> QED BY <1>10, <1>11, <1>13, <1>14, <1>15, <1>16, <1>17, <1>18, <1>19, <1>20, <1>21 DEF Inv

(* Steps of f_open() that do not end it well *)
LEMMA OpenStep ==
  ASSUME Inv, dl = "open", UNCHANGED logVars, Types', CardOK', Behind(disk, disk'), WindowOK',
         VolumeOK', ScanOK', GrowOK', AllocOK', call'.op = call.op, call'.key = call.key,
         pc' \in ScanPoints \cup GrowPoints \cup {"idle"}, pc' = "idle" => res' # "OK"
  PROVE  Inv'
<1>1. Control /\ RowsOK /\ LossOK /\ CardOK /\ rows = 0  BY NoRows DEF Inv
<1>2. dl' = dl /\ fname' = fname  BY DEF logVars
<1>3. Control'  BY <1>1, <1>2 DEF Control, ScanPoints, GrowPoints, AllocPoints
<1>4. FileOK' /\ EndOK' /\ WriteOK' /\ PlaceOK' /\ SyncOK'
  BY <1>2, NoFile DEF ScanPoints, GrowPoints, AllocPoints
<1>5. RowsOK'  BY <1>1, RowsFrame
<1>6. LossOK'  BY <1>1, LossFrame
<1> QED BY <1>3, <1>4, <1>5, <1>6 DEF Inv

(* The directory goes on in the cluster that was linked to its end. *)
LEMMA NewCluster ==
  ASSUME Inv, dl = "open", pc \in {"clear", "zero"}
  PROVE  /\ dp.ofs \in CardSlot /\ dp.ofs \in Nat /\ cc.ncl \in Cluster /\ Sound(Seen)
         /\ Full(Seen, dp.ofs) /\ NothingAfter(Seen, dp.ofs) /\ NoKey(Seen, call.key)
         /\ Passed(Seen, dp.ofs)
         /\ dp.ofs + 1 \in CardSlot /\ Root(Seen)[(dp.ofs + 1) \div CB] = cc.ncl
         /\ (dp.ofs + 1) \div CB = (dp.ofs \div CB) + 1
         /\ \A k \in 0 .. CSIZE - 1 :
              /\ \E q \in CardSlot : InSector(Root(Seen), q, cc.ncl, k)
              /\ \A p \in CardSlot : InSector(Root(Seen), p, cc.ncl, k) => p > dp.ofs
              /\ Tracked(Seen, DataSector(cc.ncl, k))
<1> DEFINE i == dp.ofs
           n == Links(Seen)
           c == cc.clst
<1>1. /\ NoKey(Seen, call.key) /\ i \in CardSlot /\ Full(Seen, i) /\ Passed(Seen, i)
      /\ NothingAfter(Seen, i) /\ c \in Cluster /\ c = Root(Seen)[i \div CB]
  BY DEF Inv, GrowOK, GrowPoints
<1>2. i \in Nat /\ i \div CB \in 0 .. NCLST - 1 /\ i \div CB \in Nat
  <2>1. i \in Nat /\ i \div CB \in 0 .. NCLST - 1  BY <1>1, InRange
  <2>2. i \div CB \in Nat  BY <2>1, Position
  <2> QED BY <2>1, <2>2
<1>3. cc.ncl \in Cluster /\ n[c] = cc.ncl  BY <1>1, Constants DEF Inv, AllocOK
<1>4. Sound(Seen) /\ LinksOK(n) /\ n \in Maps /\ OneWay(n) /\ Top(n, dirbase)
  BY DEF Inv, CardOK, Sound, LinksOK
<1>5. i + 1 \in CardSlot /\ Root(Seen)[(i + 1) \div CB] = cc.ncl
  BY <1>1, <1>3, <1>4, RootNext DEF Passed
<1>6. (i + 1) \div CB = (i \div CB) + 1
  <2>1. Chain(n, dirbase)[i \div CB] \in Cluster  BY <1>1 DEF Root
  <2> QED BY <1>1, <1>4, <2>1, NextSlot DEF Passed
<1>7. (i + 1) \div CB \in 0 .. NCLST - 1 /\ (i + 1) \div CB \in 0 .. NCLST  BY <1>5, InRange
<1>8. ASSUME NEW k \in 0 .. CSIZE - 1
      PROVE  /\ \E q \in CardSlot : InSector(Root(Seen), q, cc.ncl, k)
             /\ \A p \in CardSlot : InSector(Root(Seen), p, cc.ncl, k) => p > i
             /\ Tracked(Seen, DataSector(cc.ncl, k))
  <2>1. PICK q \in CardSlot : q \div CB = (i + 1) \div CB /\ (q \div SS) % CSIZE = k
    BY <1>7, PositionExists
  <2>2. InSector(Root(Seen), q, cc.ncl, k)  BY <1>5, <2>1 DEF InSector
  <2>3. ASSUME NEW p \in CardSlot, InSector(Root(Seen), p, cc.ncl, k)  PROVE p > i
    <3>1. p \in Nat /\ p \div CB \in 0 .. NCLST  BY InRange
    <3>2. Chain(n, dirbase)[p \div CB] = cc.ncl  BY <2>3 DEF InSector, Root
    <3>3. Chain(n, dirbase)[(i + 1) \div CB] = cc.ncl  BY <1>5 DEF Root
    <3>4. p \div CB = (i + 1) \div CB
      BY <1>3, <1>4, <1>7, <3>1, <3>2, <3>3, ChainsMeetNowhere
    <3>5. ~(p <= i)
      <4> SUFFICES ASSUME p <= i  PROVE FALSE  OBVIOUS
      <4>1. p \div CB <= i \div CB  BY <1>2, <3>1, Division2
      <4> QED BY <1>2, <1>6, <3>1, <3>4, <4>1
    <3> QED BY <1>2, <3>1, <3>5
  <2>4. Tracked(Seen, DataSector(cc.ncl, k))
    BY <1>3, <1>5, <1>7 DEF Tracked, InRoot
  <2> QED BY <2>2, <2>3, <2>4
<1> QED BY <1>1, <1>2, <1>3, <1>4, <1>5, <1>6, <1>8

(* dir_clear() takes the window. *)
LEMMA DirClearStep ==
  ASSUME Inv, DirClear, UNCHANGED logVars  PROVE Inv'
<1>1. pc = "clear" /\ call' = [call EXCEPT !.todo = CSIZE] /\ UNCHANGED << vol, fp, dp, cc >>
  BY DEF DirClear
<1>2. /\ Types /\ CardOK /\ WindowOK /\ VolumeOK /\ Control /\ GrowOK /\ AllocOK
      /\ dl = "open" /\ dl' = dl /\ fname' = fname
  BY <1>1, Where DEF Inv, logVars
<1>3. call'.op = call.op /\ call'.key = call.key /\ call'.todo = CSIZE /\ CSIZE \in 1 .. CSIZE
      /\ call' \in [op : {"none", "mount", "stat", "open", "write", "sync", "close"},
                    key : 0 .. MaxName, item : PieceVal, todo : Nat]
  BY <1>1, <1>2, Sizes DEF Types
<1>4. ~Stale  BY <1>1, <1>2 DEF Stale
<1>5. CASE win.wflag
  <2>1. PICK ok \in BOOLEAN :
          /\ DiskWrite(win.sect, win.data, ok) /\ win' = [win EXCEPT !.wflag = ~ok]
          /\ IF ok THEN UNCHANGED << pc, res >> ELSE Return("DISK_ERR")
    BY <1>5 DEF DirClear
  <2>2. win' \in Windows /\ win'.sect = win.sect /\ win'.data = win.data /\ win'.wflag = ~ok
    BY <1>2, <2>1 DEF Types, Windows
  <2>3. Seen' = Seen /\ CardOK' /\ Behind(disk, disk')
    BY <1>2, <1>5, <2>1, <2>2, Flushed
  <2>4. WindowOK'  BY <1>2, <1>4, <1>5, <2>2, <2>3, WindowFrame
  <2>5. pc' \in {"clear", "idle"} /\ (pc' = "idle" => res' = "DISK_ERR")
        /\ res' \in {"OK", "NO_FILE", "EXIST", "DISK_ERR", "DENIED"}
    BY <1>1, <1>2, <2>1 DEF Return, Types
  <2>6. Types'  BY <1>1, <1>2, <1>3, <2>2, <2>5 DEF Types, Points
  <2>7. VolumeOK'  BY <1>1, <1>2, <2>3, <2>5, VolumeFrame
  <2>8. ScanOK'  BY <2>5, OutsideScan DEF ScanPoints
  <2>9. GrowOK'
    <3>1. CASE pc' = "clear"
      BY <1>1, <1>2, <1>3, <2>3, <3>1 DEF GrowOK
    <3>2. CASE pc' = "idle"
      BY <3>2, OutsideGrow DEF GrowPoints, AllocPoints
    <3> QED BY <2>5, <3>1, <3>2
  <2>10. AllocOK'
    BY <1>1, <1>2, <2>3, <2>5 DEF AllocOK
  <2> QED BY <1>2, <1>3, <2>3, <2>4, <2>5, <2>6, <2>7, <2>8, <2>9, <2>10, OpenStep
          DEF GrowPoints
<1>6. CASE ~win.wflag
  <2>1. /\ win' = [win EXCEPT !.sect = DataSector(cc.ncl, 0), !.data = Zeros]
        /\ pc' = "zero" /\ res' = res /\ disk' = disk
    BY <1>6 DEF DirClear, Goto
  <2>2. /\ cc.ncl \in Cluster /\ 0 \in 0 .. CSIZE - 1 /\ Tracked(Seen, DataSector(cc.ncl, 0))
        /\ DataSector(cc.ncl, 0) \in Sector
    <3>1. 0 \in 0 .. CSIZE - 1  BY Sizes
    <3>2. cc.ncl \in Cluster /\ Tracked(Seen, DataSector(cc.ncl, 0))
      BY <1>1, <1>2, <3>1, NewCluster
    <3> QED BY <3>1, <3>2, TrackedSectors
  <2>3. Zeros \in [Slot -> FatVal \cup SlotVal]  BY SlotValues DEF Zeros, SlotVal
  <2>4. /\ win'.sect = DataSector(cc.ncl, 0) /\ win'.data = Zeros /\ ~win'.wflag
        /\ win' \in Windows
    BY <1>2, <1>6, <2>1, <2>2, <2>3 DEF Types, Windows
  <2>5. Seen' = Seen  BY <1>6, <2>1, <2>4, SameSeen
  <2>6. CardOK' /\ Behind(disk, disk')  BY <1>2, <2>1, <2>5, CardFrame
  <2>7. Stale'  BY <1>3, <2>1 DEF Stale
  <2>8. WindowOK'  BY <2>2, <2>4, <2>5, <2>7 DEF WindowOK
  <2>9. Types'  BY <1>1, <1>2, <1>3, <2>1, <2>4 DEF Types, Points
  <2>10. VolumeOK'  BY <1>1, <1>2, <2>1, <2>5, VolumeFrame
  <2>11. ScanOK'  BY <2>1, OutsideScan DEF ScanPoints
  <2>12. GrowOK'
    BY <1>1, <1>2, <1>3, <2>1, <2>4, <2>5 DEF GrowOK, GrowPoints
  <2>13. AllocOK'
    BY <1>1, <1>2, <2>1, <2>5 DEF AllocOK
  <2> QED BY <1>2, <1>3, <2>1, <2>6, <2>8, <2>9, <2>10, <2>11, <2>12, <2>13, OpenStep
          DEF GrowPoints
<1> QED BY <1>5, <1>6

(* dir_clear() writes a sector. *)
LEMMA DirClearSectorStep ==
  ASSUME Inv, DirClearSector, UNCHANGED logVars  PROVE Inv' /\ Behind(disk, disk')
<1> DEFINE c == cc.ncl
           k == CSIZE - call.todo
           i == dp.ofs
<1>1. PICK ok \in BOOLEAN :
        /\ DiskWrite(DataSector(c, k), Zeros, ok)
        /\ IF ~ok THEN Return("DISK_ERR") ELSE Goto(IF call.todo = 1 THEN "alloc" ELSE "zero")
        /\ dp' = IF ok /\ call.todo = 1
                 THEN [ofs |-> dp.ofs + 1, clust |-> cc.ncl] ELSE dp
  BY DEF DirClearSector
<1>2. /\ pc = "zero" /\ call' = [call EXCEPT !.todo = @ - 1] /\ UNCHANGED << win, vol, fp, cc >>
  BY DEF DirClearSector
<1>3. /\ Types /\ CardOK /\ WindowOK /\ VolumeOK /\ Control /\ GrowOK /\ AllocOK
      /\ dl = "open" /\ dl' = dl /\ fname' = fname
  BY <1>2, Where DEF Inv, logVars
<1>4. /\ ~win.wflag /\ call.todo \in 1 .. CSIZE /\ win.sect = DataSector(c, 0)
      /\ win.data = Zeros
  BY <1>2, <1>3 DEF GrowOK, GrowPoints
<1>5. k \in 0 .. CSIZE - 1  BY <1>4, Sizes
<1>6. /\ call'.op = call.op /\ call'.key = call.key /\ call'.todo = call.todo - 1
      /\ call' \in [op : {"none", "mount", "stat", "open", "write", "sync", "close"},
                    key : 0 .. MaxName, item : PieceVal, todo : Nat]
  <2>1. call.todo - 1 \in Nat  BY <1>4, Sizes
  <2>2. call' = [call EXCEPT !.todo = call.todo - 1]  BY <1>2
  <2> QED BY <1>3, <2>1, <2>2 DEF Types
<1>7. /\ i \in CardSlot /\ i \in Nat /\ c \in Cluster /\ Sound(Seen)
      /\ Full(Seen, i) /\ NothingAfter(Seen, i) /\ NoKey(Seen, call.key) /\ Passed(Seen, i)
      /\ i + 1 \in CardSlot /\ Root(Seen)[(i + 1) \div CB] = c
      /\ \E q \in CardSlot : InSector(Root(Seen), q, c, k)
      /\ \A p \in CardSlot : InSector(Root(Seen), p, c, k) => p > i
      /\ Tracked(Seen, DataSector(c, 0)) /\ Links(Seen) \in Maps /\ Image(Seen)
  <2>1. 0 \in 0 .. CSIZE - 1  BY Sizes
  <2> HIDE DEF k
  <2> QED BY <1>2, <1>3, <1>5, <2>1, NewCluster DEF Sound, LinksOK
<1>8. Seen = disk /\ Seen' = disk'  BY <1>2, <1>4 DEF Seen
<1> DEFINE z == Put(Seen, DataSector(c, k), Zeros)
<1>9. disk' \in {Seen, z} /\ (ok => disk' = z)
  BY <1>1, <1>8 DEF DiskWrite, Put
<1>10. /\ Sound(z) /\ Links(z) = Links(Seen) /\ Root(z) = Root(Seen)
       /\ \A j \in CardSlot : j <= i => DirAt(z, j) = DirAt(Seen, j)
       /\ \A j \in CardSlot : EntryAt(z, j) <=> EntryAt(Seen, j)
       /\ \A j \in CardSlot : EntryAt(Seen, j) => DirAt(z, j) = DirAt(Seen, j)
  <2>1. PICK q \in CardSlot : InSector(Root(Seen), q, c, k)  BY <1>7
  <2> HIDE DEF c, k, i
  <2> QED BY <1>5, <1>7, <2>1, Clearing DEF z
<1>11. Behind(Seen, z)
  <2>1. \A j \in CardSlot : EntryAt(Seen, j) => DirAt(Seen, j).size <= DirAt(Seen, j).size
    <3>1. Behind(Seen, Seen)  BY <1>7, BehindItself
    <3> QED BY <3>1 DEF Behind
  <2> HIDE DEF z
  <2> QED BY <1>10, <2>1 DEF Behind
<1>12. Behind(Seen, Seen) /\ Behind(z, z)  BY <1>7, <1>10, BehindItself
<1>13. /\ Sound(Seen') /\ Links(Seen') = Links(Seen) /\ Root(Seen') = Root(Seen)
       /\ \A j \in CardSlot : j <= i => DirAt(Seen', j) = DirAt(Seen, j)
       /\ \A j \in CardSlot : EntryAt(Seen', j) <=> EntryAt(Seen, j)
       /\ \A j \in CardSlot : EntryAt(Seen, j) => DirAt(Seen', j) = DirAt(Seen, j)
  <2> HIDE DEF z
  <2> QED BY <1>7, <1>8, <1>9, <1>10
<1>14. CardOK' /\ Behind(disk, disk')
  <2> HIDE DEF z
  <2> QED BY <1>7, <1>8, <1>9, <1>10, <1>11, <1>12 DEF CardOK
<1>15. /\ pc' = (IF ~ok THEN "idle" ELSE IF call.todo = 1 THEN "alloc" ELSE "zero")
       /\ ~ok => res' = "DISK_ERR"
       /\ res' \in {"OK", "NO_FILE", "EXIST", "DISK_ERR", "DENIED"}
  BY <1>1, <1>3 DEF Return, Goto, Types
<1>16. WindowOK'
  <2>1. Tracked(Seen', win'.sect)
    <3>1. Tracked(Seen, win.sect)  BY <1>4, <1>7
    <3>2. win'.sect = win.sect  BY <1>2
    <3> QED BY <1>13, <3>1, <3>2 DEF Tracked, InRoot
  <2>2. ASSUME ok  PROVE Seen'[win.sect] = Zeros
    <3>1. Seen' = z /\ win.sect \in Sector /\ DOMAIN Seen = Sector
      BY <1>4, <1>7, <1>8, <1>9, <2>2, TrackedSectors DEF Image
    <3>2. CASE win.sect = DataSector(c, k)
      BY <3>1, <3>2 DEF Put
    <3>3. CASE win.sect # DataSector(c, k)
      <4>1. Seen'[win.sect] = Seen[win.sect]  BY <3>1, <3>3 DEF Put
      <4>2. ~Stale
        <5>1. k # 0  BY <1>4, <3>3
        <5>2. call.todo # CSIZE  BY <1>4, <5>1, Sizes
        <5> QED BY <1>2, <1>3, <5>2 DEF Stale
      <4>3. Seen[win.sect] = Zeros  BY <1>3, <1>4, <1>7, <4>2 DEF WindowOK
      <4> QED BY <4>1, <4>3
    <3> QED BY <3>2, <3>3
  <2>3. ~ok => Stale'  BY <1>3, <1>15 DEF Stale
  <2>4. win'.data = Zeros /\ win'.sect = win.sect  BY <1>2, <1>4
  <2> QED BY <2>1, <2>2, <2>3, <2>4 DEF WindowOK
<1>17. dp' \in Positions
  <2>1. dp \in Positions  BY <1>3 DEF Types
  <2> QED BY <1>1, <1>7, <2>1 DEF Positions
<1>18. Types'  BY <1>2, <1>3, <1>6, <1>15, <1>17 DEF Types, Points
<1>19. VolumeOK'  BY <1>2, <1>3, <1>13, <1>15, VolumeFrame
<1>20. NoKey(Seen', call'.key)  BY <1>6, <1>7, <1>13 DEF NoKey
<1>21. ScanOK'
  <2>1. CASE pc' = "alloc"
    <3>1. ok /\ call.todo = 1 /\ dp'.ofs = i + 1 /\ dp'.clust = c  BY <1>1, <1>15, <2>1
    <3>2. Full(Seen', i + 1)
      <4> SUFFICES ASSUME NEW j \in CardSlot, j < i + 1  PROVE DirAt(Seen', j) # NoEntry
        BY DEF Full
      <4>1. j \in Nat /\ j <= i  BY <1>7, InRange
      <4>2. DirAt(Seen, j) # NoEntry  BY <1>7, <4>1 DEF Full, Passed
      <4> QED BY <1>13, <4>1, <4>2
    <3> HIDE DEF i, c
    <3> QED BY <1>7, <1>13, <1>20, <2>1, <3>1, <3>2 DEF ScanOK
  <2>2. CASE pc' # "alloc"
    BY <1>15, <2>2, OutsideScan DEF ScanPoints
  <2> QED BY <2>1, <2>2
<1>22. GrowOK'
  <2>1. CASE pc' = "zero"
    <3>1. /\ ok /\ call.todo # 1 /\ dp' = dp  BY <1>1, <1>15, <2>1
    <3>2. call'.todo \in 1 .. CSIZE  BY <1>4, <1>6, <3>1, Sizes
    <3>3. /\ Full(Seen', i) /\ NothingAfter(Seen', i) /\ Passed(Seen', i)
      BY <1>7, <1>13, InRange DEF Full, NothingAfter, Passed
    <3>4. cc.clst \in Cluster /\ cc.clst = Root(Seen')[i \div CB]
      BY <1>2, <1>3, <1>13 DEF GrowOK, GrowPoints
    <3> QED BY <1>2, <1>3, <1>4, <1>7, <1>20, <2>1, <3>1, <3>2, <3>3, <3>4 DEF GrowOK
  <2>2. CASE pc' # "zero"
    BY <1>15, <2>2, OutsideGrow DEF GrowPoints, AllocPoints
  <2> QED BY <2>1, <2>2
<1>23. AllocOK'
  BY <1>2, <1>3, <1>13, <1>15 DEF AllocOK
<1> QED BY <1>3, <1>6, <1>14, <1>15, <1>16, <1>18, <1>19, <1>21, <1>22, <1>23, OpenStep
        DEF GrowPoints, ScanPoints

(***************************************************************************)
(* create_chain().                                                         *)
(***************************************************************************)

(* Steps of f_write() *)
LEMMA WriteStep ==
  ASSUME Inv, dl \in {"header", "row"}, UNCHANGED logVars, Types', CardOK', Behind(disk, disk'),
         WindowOK', VolumeOK', AllocOK', FileOK', EndOK', WriteOK', PlaceOK',
         call'.op = call.op, pc' \in WritePoints \cup {"idle"}, fp'.objsize >= fp.objsize
  PROVE  Inv'
<1>1. Types /\ Control /\ RowsOK /\ LossOK /\ CardOK  BY DEF Inv
<1>2. dl' = dl /\ fname' = fname /\ rows' = rows  BY DEF logVars
<1>3. Control'  BY <1>1, <1>2 DEF Control, WritePoints, AllocPoints
<1>4. ScanOK' /\ GrowOK'
  BY <1>2, OutsideScan, OutsideGrow DEF ScanPoints, WritePoints, AllocPoints
<1>5. SyncOK'  BY <1>2 DEF SyncOK, WritePoints, AllocPoints
<1>6. RowsOK'
  <2>1. rows > 0 => RowEnd(rows) <= fp'.objsize
    <3> HAVE rows > 0
    <3>1. RowEnd(rows) \in Nat /\ RowEnd(rows) <= fp.objsize  BY <1>1, RowSizes DEF RowsOK
    <3>2. fp.objsize \in Nat /\ fp'.objsize \in Nat  BY <1>1 DEF Types, FileObjects
    <3> QED BY <3>1, <3>2
  <2> QED BY <1>1, <2>1, RowsFrame
<1>7. LossOK'  BY <1>1, LossFrame
<1> QED BY <1>3, <1>4, <1>5, <1>6, <1>7 DEF Inv

(* Where the window or the FAT changes, and the file object does not *)
Grown ==
  \/ Seen' = Seen
  \/ /\ KeepsFiles(Seen, Seen')
     /\ IsOpen /\ fp.sclust # 0 => IsHead(Links(Seen'), fp.sclust)

(* A step of create_chain() that does not change the open file *)
LEMMA AllocMove ==
  ASSUME Inv, pc \in AllocPoints, pc' \in AllocPoints, UNCHANGED logVars,
         disk' = disk, Grown, CardOK', WindowOK', VolumeOK', AllocOK',
         win' \in Windows, fp' = fp, dp' = dp, call' = call, res' = res,
         vol' \in [last_clst : 0 .. Unknown, free_clst : 0 .. NCLST \cup {Unknown},
                   fsi : {"off", "clean", "changed"}],
         cc' \in Locals, cc'.clst = cc.clst,
         \/ Seen' = Seen /\ pc' \in {"chain", "status", "contig", "search"}
         \/ FreeSet(Links(Seen)) # {} \/ pc \in {"link", "found"},
         \/ pc' \in {"found", "got"}
         \/ /\ pc \notin {"found", "got"}
            /\ \A c \in Cluster : Links(Seen)[c] = EOC => Links(Seen')[c] = EOC
  PROVE  Inv'
<1>1. Types /\ Control /\ CardOK /\ Sound(Seen) /\ Sound(Seen')  BY DEF Inv, CardOK
<1>2. dl' = dl /\ fname' = fname /\ rows' = rows  BY DEF logVars
<1>3. dl \in {"open", "header", "row"}  BY <1>1, Where
<1>4. Behind(disk, disk')  BY <1>1, BehindItself DEF CardOK
<1>5. Types'  BY <1>1, <1>2 DEF Types, AllocPoints, Points
<1>6. CASE dl = "open"
  <2>1. GrowOK
        /\ NoKey(Seen, call.key) /\ dp.ofs \in CardSlot
        /\ Full(Seen, dp.ofs) /\ Passed(Seen, dp.ofs) /\ NothingAfter(Seen, dp.ofs)
        /\ cc.clst \in Cluster /\ cc.clst = Root(Seen)[dp.ofs \div CB]
    BY <1>6 DEF Inv, GrowOK, GrowPoints
  <2>2. /\ NoKey(Seen', call.key) /\ Full(Seen', dp.ofs) /\ Passed(Seen', dp.ofs)
        /\ NothingAfter(Seen', dp.ofs) /\ cc.clst = Root(Seen')[dp.ofs \div CB]
    <3>1. CASE Seen' = Seen  BY <2>1, <3>1
    <3>2. CASE KeepsFiles(Seen, Seen')
      BY <1>1, <2>1, <3>2, KeptScan DEF Passed
    <3> QED BY <3>1, <3>2 DEF Grown
  <2>3. GrowOK'  BY <2>1, <2>2 DEF GrowOK, AllocPoints
  <2>4. ScanOK'  BY OutsideScan DEF ScanPoints, AllocPoints
  <2> QED BY <1>4, <1>5, <1>6, <2>3, <2>4, OpenStep DEF AllocPoints, GrowPoints
<1>7. CASE dl \in {"header", "row"}
  <2>1. IsOpen /\ IsOpen' /\ FileOK /\ EndOK /\ WriteOK /\ FileKept
    BY <1>2, <1>7 DEF IsOpen, Inv, FileKept
  <2>2. /\ FileOK'
        /\ \A p \in CardSlot : p < fp.fptr =>
              Chain(Links(Seen'), fp.sclust)[p \div CB] = File[p \div CB]
    <3>1. CASE Seen' = Seen  BY <1>2, <2>1, <3>1, FileFrame DEF File
    <3>2. CASE Seen' # Seen  BY <1>1, <1>2, <2>1, <3>2, FileGrows DEF Grown
    <3> QED BY <3>1, <3>2
  <2>3. fp.fptr = fp.objsize /\ fp.fptr \in Nat /\ fp.fptr <= NCLST * CB
    BY <1>1, <2>1 DEF FileOK, ChainOK, Types, FileObjects
  <2>4. fp.fptr > 0 => File'[Last' \div CB] = File[Last \div CB]
    <3> HAVE fp.fptr > 0
    <3>1. Last \in CardSlot /\ Last < fp.fptr  BY <2>3, Sizes DEF Last
    <3>2. File' = Chain(Links(Seen'), fp.sclust) /\ Last' = Last  BY DEF File, Last
    <3> QED BY <2>2, <3>1, <3>2
  <2>5. EndOK'
    <3>1. pc \notin {"place", "fill"}  BY DEF AllocPoints
    <3>2. /\ fp.fptr = 0 => fp.sclust = 0
          /\ dl # "open"
          /\ fp.err = "OK" => fp.clust = IF fp.fptr = 0 THEN 0 ELSE File[Last \div CB]
          /\ fp.err = "OK" /\ fp.clust # 0 /\ pc \notin {"found", "got"} =>
               Links(Seen)[fp.clust] = EOC
      BY <1>7, <2>1, <3>1 DEF EndOK
    <3>3. fp.clust # 0 => fp.clust \in Cluster  BY <1>1 DEF Types, FileObjects
    <3>4. fp.err = "OK" /\ fp.clust # 0 /\ pc' \notin {"found", "got"} =>
            Links(Seen')[fp.clust] = EOC
      BY <3>2, <3>3
    <3>5. fp.err = "OK" => fp.clust = IF fp.fptr = 0 THEN 0 ELSE File'[Last' \div CB]
      BY <2>3, <2>4, <3>2
    <3> QED BY <1>2, <3>2, <3>4, <3>5 DEF EndOK
  <2>6. WriteOK'
    <3>1. /\ call.item = Piece(fname, IF dl = "header" THEN 0 ELSE rows + 1)
          /\ fp.err = "OK" /\ Taking
          /\ AtCluster /\ call.todo > 0 /\ cc.clst = fp.clust
      BY <1>7, <2>1 DEF WriteOK, AllocPoints
    <3>2. Taking'
      <4>1. CASE dl = "header" /\ fp.fptr + call.todo = HdrLen
        BY <1>2, <4>1 DEF Taking
      <4>2. CASE dl = "row" /\ fp.fptr + call.todo = RowEnd(rows + 1) /\ fp.fptr >= RowEnd(rows)
        BY <1>2, <4>2 DEF Taking
      <4>3. CASE NoRoom /\ pc \in {"write", "chain", "status", "contig", "search", "idle"}
        <5>1. Seen' = Seen /\ pc' \in {"chain", "status", "contig", "search"}
          BY <4>3 DEF NoRoom
        <5> QED BY <3>1, <4>3, <5>1 DEF Taking, NoRoom, AtCluster
      <4> QED BY <3>1, <4>1, <4>2, <4>3 DEF Taking
    <3>3. AtCluster' BY <3>1 DEF AtCluster
    <3> QED BY <1>2, <3>1, <3>2, <3>3 DEF WriteOK, AllocPoints
  <2>7. PlaceOK'  BY DEF PlaceOK, AllocPoints
  <2>8. pc' \in WritePoints \cup {"idle"} /\ fp'.objsize >= fp.objsize
    BY <2>3 DEF WritePoints
  <2> QED BY <1>4, <1>5, <1>7, <2>2, <2>5, <2>6, <2>7, <2>8, WriteStep
<1> QED BY <1>3, <1>6, <1>7

(* What create_chain() has to go on *)
LEMMA AllocFacts ==
  ASSUME Inv, pc \in AllocPoints
  PROVE  /\ Types /\ CardOK /\ WindowOK /\ VolumeOK /\ Control /\ AllocOK /\ ~Stale
         /\ Sound(Seen) /\ Links(Seen) \in Maps
         /\ \/ dl = "open" /\ call.op = "open" /\ cc.clst \in Cluster
            \/ dl \in {"header", "row"} /\ call.op = "write"
         /\ vol.last_clst \in 0 .. Unknown /\ vol.free_clst \in 0 .. NCLST \cup {Unknown}
         /\ cc \in Locals /\ cc.clst \in Cluster \cup {0} /\ cc.ncl \in Cluster \cup {0}
         /\ Cardinality(FreeSet(Links(Seen))) + (IF pc \in {"link", "found"} THEN 1 ELSE 0)
              <= vol.free_clst
<1>1. Types /\ CardOK /\ WindowOK /\ VolumeOK /\ Control /\ AllocOK  BY DEF Inv
<1>2. \/ dl = "open" /\ call.op = "open"
      \/ dl \in {"header", "row"} /\ call.op = "write"
  BY <1>1, Where
<1>3. dl = "open" => cc.clst \in Cluster  BY DEF Inv, GrowOK, GrowPoints
<1>4. ~Stale  BY <1>2 DEF Stale, AllocPoints
<1>5. Sound(Seen) /\ Links(Seen) \in Maps  BY <1>1 DEF CardOK, Sound, LinksOK
<1>6. dl \notin {"closed", "mount"}  BY <1>2
<1>7. Cardinality(FreeSet(Links(Seen))) + (IF pc \in {"link", "found"} THEN 1 ELSE 0)
              <= vol.free_clst
  BY <1>1, <1>6 DEF VolumeOK
<1>8. /\ vol.last_clst \in 0 .. Unknown /\ vol.free_clst \in 0 .. NCLST \cup {Unknown}
      /\ cc \in Locals
  BY <1>1 DEF Types
<1>9. cc.clst \in Cluster \cup {0} /\ cc.ncl \in Cluster \cup {0}  BY <1>8 DEF Locals
<1> QED BY <1>1, <1>2, <1>3, <1>4, <1>5, <1>7, <1>8, <1>9

(* There is no free cluster. *)
LEMMA NoClusterStep ==
  ASSUME Inv, pc \in {"chain", "status", "search"}, FreeSet(Links(Seen)) = {}, NoCluster,
         UNCHANGED << disk, win, vol, dp, call >>, UNCHANGED logVars, cc' \in Locals
  PROVE  Inv'
<1>1. pc \in AllocPoints  BY DEF AllocPoints
<1>2. /\ Types /\ CardOK /\ WindowOK /\ VolumeOK /\ Control /\ ~Stale
      /\ \/ dl = "open" /\ call.op = "open"
         \/ dl \in {"header", "row"} /\ call.op = "write"
  BY <1>1, AllocFacts
<1>3. dl' = dl /\ fname' = fname /\ rows' = rows  BY DEF logVars
<1>4. Seen' = Seen  BY SameSeen
<1>5. CardOK' /\ Behind(disk, disk')  BY <1>2, <1>4, CardFrame
<1>6. WindowOK'  BY <1>2, <1>4, WindowFrame
<1>7. /\ pc' = "idle"
      /\ fp' = IF call.op = "write" THEN [fp EXCEPT !.modified = TRUE] ELSE fp
      /\ res' = IF call.op = "write" THEN "OK" ELSE "DENIED"
  BY DEF NoCluster, Return
<1>8. FileKept /\ fp'.clust = fp.clust /\ fp'.err = fp.err /\ fp' \in FileObjects
      /\ (call.op = "write" => fp'.modified = TRUE)
  <2>1. fp \in FileObjects  BY <1>2 DEF Types
  <2> QED BY <1>7, <2>1 DEF FileKept, FileObjects
<1>9. Types'  BY <1>2, <1>3, <1>7, <1>8 DEF Types, Points
<1>10. VolumeOK'
  BY <1>2, <1>4, <1>7, VolumeFrame
<1>11. AllocOK'  BY <1>7, OutsideAlloc DEF GrowPoints, AllocPoints
<1>12. CASE dl = "open"
  <2>1. ScanOK' /\ GrowOK'
    BY <1>7, OutsideScan, OutsideGrow DEF ScanPoints, GrowPoints, AllocPoints
  <2>2. res' # "OK"  BY <1>2, <1>7, <1>12
  <2> QED BY <1>5, <1>6, <1>7, <1>9, <1>10, <1>11, <1>12, <2>1, <2>2, OpenStep
<1>13. CASE dl \in {"header", "row"}
  <2>1. IsOpen /\ FileOK /\ EndOK /\ WriteOK /\ call.op = "write"
    BY <1>2, <1>13 DEF IsOpen, Inv
  <2>2. FileOK'  BY <1>3, <1>4, <1>8, <2>1, FileFrame
  <2>3. EndOK'
    <3>1. File' = File /\ Last' = Last  BY <1>4, <1>8 DEF File, Last, FileKept
    <3>2. pc \notin {"place", "fill", "found", "got"}  OBVIOUS
    <3> QED BY <1>3, <1>4, <1>8, <1>13, <2>1, <3>1, <3>2 DEF EndOK, FileKept
  <2>4. WriteOK'
    <3>1. /\ call.item = Piece(fname, IF dl = "header" THEN 0 ELSE rows + 1)
          /\ fp.err = "OK" /\ Taking
          /\ AtCluster /\ call.todo > 0
      BY <1>1, <1>13, <2>1 DEF WriteOK
    <3>2. NoRoom' BY <1>4, <1>8, <3>1 DEF NoRoom, AtCluster, FileKept
    <3>3. Taking'  BY <1>7, <3>1, <3>2 DEF Taking
    <3> QED BY <1>3, <1>7, <1>8, <2>1, <3>1, <3>2, <3>3 DEF WriteOK, AllocPoints
  <2>5. PlaceOK'  BY <1>7 DEF PlaceOK
  <2>6. fp'.objsize >= fp.objsize  BY <1>2, <1>8 DEF Types, FileObjects, FileKept
  <2> QED BY <1>5, <1>6, <1>7, <1>9, <1>10, <1>11, <1>13, <2>2, <2>3, <2>4, <2>5, <2>6, WriteStep
<1> QED BY <1>2, <1>12, <1>13

(* The clusters that were looked at *)
LEMMA NextCluster ==
  /\ \A c \in 1 .. n_fatent - 1 : SuccCluster(c) \in Cluster /\ Visited(c, SuccCluster(c)) = {}
  /\ \A c \in Cluster : c \in 1 .. n_fatent - 1
  /\ Cluster \subseteq 0 .. Unknown /\ 1 .. n_fatent - 1 \subseteq 0 .. Unknown
  /\ 1 \in 1 .. n_fatent - 1
BY Sizes DEF SuccCluster, Cluster, n_fatent, Visited, Unknown

(* The search for a free cluster goes round all of them. *)
LEMMA VisitedNext ==
  ASSUME NEW scl \in 1 .. n_fatent - 1, NEW ncl \in Cluster
  PROVE  IF ncl = scl \/ (SuccCluster(ncl) = 2 /\ scl = 1)
         THEN Cluster \subseteq Visited(scl, ncl) \cup {ncl}
         ELSE Visited(scl, SuccCluster(ncl)) \subseteq Visited(scl, ncl) \cup {ncl}
<1>1. n_fatent \in Nat /\ n_fatent >= 3  BY Sizes DEF n_fatent
<1>2. scl \in Nat /\ ncl \in Nat /\ ncl >= 2 /\ ncl <= n_fatent - 1 /\ scl >= 1 /\ scl <= n_fatent - 1
  BY <1>1 DEF Cluster
<1>3. CASE ncl = scl
  BY <1>1, <1>2, <1>3 DEF Visited, Cluster
<1>4. CASE ncl # scl /\ SuccCluster(ncl) = 2 /\ scl = 1
  <2>1. ncl = n_fatent - 1  BY <1>1, <1>2, <1>4 DEF SuccCluster
  <2> QED BY <1>1, <1>2, <1>4, <2>1 DEF Visited, Cluster
<1>5. CASE ncl # scl /\ ~(SuccCluster(ncl) = 2 /\ scl = 1)
  <2>1. CASE ncl + 1 < n_fatent
    BY <1>1, <1>2, <1>5, <2>1 DEF Visited, SuccCluster
  <2>2. CASE ~(ncl + 1 < n_fatent)
    <3>1. SuccCluster(ncl) = 2 /\ scl >= 2 /\ ncl = n_fatent - 1 /\ ncl > scl
      BY <1>1, <1>2, <1>5, <2>2 DEF SuccCluster
    <3> QED BY <1>1, <1>2, <3>1 DEF Visited
  <2> QED BY <2>1, <2>2
<1> QED BY <1>3, <1>4, <1>5

(* create_chain() goes on with its locals only. *)
LEMMA LocalMove ==
  ASSUME Inv, pc \in {"chain", "status", "contig", "search"},
         pc' \in {"status", "contig", "search"}, UNCHANGED logVars,
         UNCHANGED << disk, win, vol, fp, dp, call, res >>,
         AllocOK', cc' \in Locals, cc'.clst = cc.clst
  PROVE  Inv'
<1>1. pc \in AllocPoints /\ pc' \in AllocPoints  BY DEF AllocPoints
<1>2. Types /\ CardOK /\ WindowOK /\ VolumeOK /\ ~Stale /\ dl \notin {"closed", "mount"}
  BY <1>1, AllocFacts
<1>3. Seen' = Seen  BY SameSeen
<1>4. CardOK'  BY <1>2, <1>3, CardFrame
<1>5. WindowOK'  BY <1>2, <1>3, WindowFrame
<1>6. VolumeOK'  BY <1>2, <1>3, VolumeFrame
<1>7. win' \in Windows
      /\ vol' \in [last_clst : 0 .. Unknown, free_clst : 0 .. NCLST \cup {Unknown},
                   fsi : {"off", "clean", "changed"}]
  BY <1>2 DEF Types
<1>8. \A c \in Cluster : Links(Seen)[c] = EOC => Links(Seen')[c] = EOC  BY <1>3
<1> QED BY <1>1, <1>3, <1>4, <1>5, <1>6, <1>7, <1>8, AllocMove DEF Grown

(* create_chain() begins. *)
LEMMA CreateChainStep ==
  ASSUME Inv, CreateChain, UNCHANGED logVars  PROVE Inv'
<1>1. pc = "chain" /\ pc \in AllocPoints /\ UNCHANGED << disk, win, vol, dp, call, faults >>
  BY DEF CreateChain, AllocPoints
<1>2. /\ Types /\ AllocOK /\ Links(Seen) \in Maps
      /\ vol.last_clst \in 0 .. Unknown /\ vol.free_clst \in 0 .. NCLST \cup {Unknown}
      /\ cc \in Locals
      /\ Cardinality(FreeSet(Links(Seen))) <= vol.free_clst
  <2>1. Cardinality(FreeSet(Links(Seen))) + 0 <= vol.free_clst /\ Links(Seen) \in Maps
    BY <1>1, AllocFacts
  <2>2. Cardinality(FreeSet(Links(Seen))) \in Nat  BY <2>1, FreeCount
  <2> QED BY <1>1, <2>1, <2>2, AllocFacts
<1>3. Seen' = Seen  BY <1>1, SameSeen
<1>4. CASE cc.clst # 0
  <2>1. pc' = "status" /\ res' = res /\ fp' = fp /\ cc' = cc  BY <1>4 DEF CreateChain, Goto
  <2>2. AllocOK'  BY <1>1, <1>2, <1>3, <1>4, <2>1 DEF AllocOK
  <2> QED BY <1>1, <1>2, <2>1, <2>2, LocalMove
<1>5. CASE cc.clst = 0
  <2> DEFINE scl == IF vol.last_clst \in 1 .. n_fatent - 1 THEN vol.last_clst ELSE 1
  <2>1. /\ cc' = [cc EXCEPT !.scl = scl, !.ncl = SuccCluster(scl)]
        /\ IF vol.free_clst = 0 THEN NoCluster ELSE Goto("search") /\ UNCHANGED fp
    BY <1>5 DEF CreateChain
  <2>2. scl \in 1 .. n_fatent - 1  BY NextCluster
  <2> HIDE DEF scl
  <2>3. SuccCluster(scl) \in Cluster /\ Visited(scl, SuccCluster(scl)) = {} /\ scl \in 0 .. Unknown
    BY <2>2, NextCluster
  <2>4. cc' \in Locals /\ cc'.clst = cc.clst /\ cc'.scl = scl /\ cc'.ncl = SuccCluster(scl)
    BY <1>2, <2>1, <2>3 DEF Locals
  <2>5. CASE vol.free_clst = 0
    <3>1. Cardinality(FreeSet(Links(Seen))) \in Nat  BY <1>2, FreeCount
    <3>2. Cardinality(FreeSet(Links(Seen))) = 0  BY <1>2, <2>5, <3>1
    <3>3. FreeSet(Links(Seen)) = {}  BY <1>2, <3>2, FreeCount
    <3> QED BY <1>1, <2>1, <2>4, <2>5, <3>3, NoClusterStep
  <2>6. CASE vol.free_clst # 0
    <3>1. pc' = "search" /\ res' = res /\ fp' = fp  BY <2>1, <2>6 DEF Goto
    <3>2. AllocOK'  BY <1>5, <2>2, <2>3, <2>4, <3>1 DEF AllocOK
    <3> QED BY <1>1, <2>4, <3>1, <3>2, LocalMove
  <2> QED BY <2>5, <2>6
<1> QED BY <1>4, <1>5

(* create_chain() looks at the end of the chain. *)
LEMMA StretchStep ==
  ASSUME Inv, Stretch, UNCHANGED logVars  PROVE Inv'
<1>1. /\ pc = "status" /\ pc \in AllocPoints /\ win.sect = FatSector(cc.clst)
      /\ UNCHANGED << disk, win, vol, dp, call, faults >>
  BY DEF Stretch, AllocPoints, At, Want
<1>2. /\ Types /\ CardOK /\ WindowOK /\ ~Stale /\ AllocOK /\ Links(Seen) \in Maps
      /\ cc \in Locals /\ cc.clst \in Cluster
      /\ Cardinality(FreeSet(Links(Seen))) <= vol.free_clst
  <2>1. Cardinality(FreeSet(Links(Seen))) + 0 <= vol.free_clst /\ Links(Seen) \in Maps
    BY <1>1, AllocFacts
  <2>2. Cardinality(FreeSet(Links(Seen))) \in Nat  BY <2>1, FreeCount
  <2>3. cc.clst \in Cluster  BY <1>1, AllocFacts DEF AllocOK
  <2>4. vol.free_clst \in 0 .. NCLST \cup {Unknown}  BY <1>1, AllocFacts
  <2>5. Cardinality(FreeSet(Links(Seen))) <= vol.free_clst
    BY <2>1, <2>2, <2>4, Sizes, Constants
  <2> QED BY <1>1, <2>1, <2>3, <2>5, AllocFacts
<1>3. Seen' = Seen  BY <1>1, SameSeen
<1>4. Links(Seen)[cc.clst] = EOC  BY <1>1, <1>2, Constants DEF AllocOK
<1>5. Fat(cc.clst) = EOC  BY <1>1, <1>2, <1>4, ReadFat
<1>6. ~(Fat(cc.clst) <= 1)  BY <1>5, Constants
<1>7. /\ cc' = [cc EXCEPT !.scl = cc.clst, !.ncl = SuccCluster(cc.clst)]
      /\ IF vol.free_clst = 0 THEN NoCluster ELSE Goto("contig") /\ UNCHANGED fp
  BY <1>5, <1>6 DEF Stretch
<1>8. /\ SuccCluster(cc.clst) \in Cluster /\ cc.clst \in 0 .. Unknown
  BY <1>2, NextCluster
<1>9. cc' \in Locals /\ cc'.clst = cc.clst /\ cc'.scl = cc.clst /\ cc'.ncl = SuccCluster(cc.clst)
  BY <1>2, <1>7, <1>8 DEF Locals
<1>10. CASE vol.free_clst = 0
  <2>1. Cardinality(FreeSet(Links(Seen))) \in Nat  BY <1>2, FreeCount
  <2>2. Cardinality(FreeSet(Links(Seen))) = 0  BY <1>2, <1>10, <2>1
  <2>3. FreeSet(Links(Seen)) = {}  BY <1>2, <2>2, FreeCount
  <2> QED BY <1>1, <1>7, <1>9, <1>10, <2>3, NoClusterStep
<1>11. CASE vol.free_clst # 0
  <2>1. pc' = "contig" /\ res' = res /\ fp' = fp  BY <1>7, <1>11 DEF Goto
  <2>2. AllocOK'  BY <1>2, <1>3, <1>4, <1>9, <2>1, Constants DEF AllocOK
  <2> QED BY <1>1, <1>9, <2>1, <2>2, LocalMove
<1> QED BY <1>10, <1>11

(* A sector of the FAT is changed in the window. *)
LEMMA FatPut ==
  ASSUME Inv, pc \in AllocPoints, NEW c \in Cluster, win.sect = FatSector(c),
         NEW y \in LinkVal, disk' = disk,
         win' = [win EXCEPT !.wflag = TRUE, !.data[c % SS] = FatEntry(y)]
  PROVE  /\ win'.data \in [Slot -> FatVal] /\ win' \in Windows /\ win'.sect = win.sect
         /\ win'.wflag = TRUE
         /\ \A s \in Slot : win'.data[s] = IF s = c % SS THEN FatEntry(y)
                                           ELSE Seen[FatSector(c)][s]
         /\ Seen' = Put(Seen, FatSector(c), win'.data)
         /\ WindowOK'
<1>1. Types /\ CardOK /\ WindowOK /\ ~Stale /\ Sound(Seen)  BY AllocFacts
<1>2. win.data = Seen[FatSector(c)] /\ win.data \in [Slot -> FatVal]  BY <1>1, ReadFat
<1>3. c % SS \in Slot  BY FatPlace
<1>4. FatEntry(y) \in FatVal  BY DEF FatEntry, FatVal
<1> DEFINE x == [win.data EXCEPT ![c % SS] = FatEntry(y)]
<1>5. win' = [win EXCEPT !.wflag = TRUE, !.data = x]  OBVIOUS
<1>6. x \in [Slot -> FatVal] /\ x \in [Slot -> FatVal \cup SlotVal]  BY <1>2, <1>3, <1>4
<1>7. \A s \in Slot : x[s] = IF s = c % SS THEN FatEntry(y) ELSE Seen[FatSector(c)][s]
  BY <1>2, <1>3
<1> HIDE DEF x
<1>8. win' \in Windows
  <2>1. win \in Windows  BY <1>1 DEF Types
  <2> QED BY <1>5, <1>6, <2>1, WindowRecord
<1>9. win'.data = x /\ win'.sect = win.sect /\ win'.wflag = TRUE
  <2>1. win \in Windows  BY <1>1 DEF Types
  <2> QED BY <1>5, <2>1 DEF Windows
<1>10. Seen' = Put(Seen, win.sect, win'.data)  BY <1>9, Dirtied
<1>11. WindowOK'
  <2>1. Tracked(Seen', win.sect)  BY DEF Tracked
  <2>2. DOMAIN Seen = Sector  BY <1>1 DEF Sound, Image
  <2> QED BY <1>9, <1>10, <2>1, <2>2, WindowPut
<1> QED BY <1>6, <1>7, <1>8, <1>9, <1>10, <1>11

(* A free cluster is made the end of a chain. *)
LEMMA MarkStep ==
  ASSUME Inv, pc \in {"contig", "search"}, win.sect = FatSector(cc.ncl), cc.ncl \in Cluster,
         Fat(cc.ncl) = 0, Mark, UNCHANGED << disk, vol, dp, call, faults >>, UNCHANGED logVars
  PROVE  Inv'
<1> DEFINE x == cc.ncl
<1>1. pc \in AllocPoints  BY DEF AllocPoints
<1>2. /\ Types /\ CardOK /\ WindowOK /\ VolumeOK /\ Control /\ AllocOK /\ ~Stale
      /\ Sound(Seen) /\ Links(Seen) \in Maps
      /\ dl \in {"open", "header", "row"} /\ cc.clst \in Cluster \cup {0}
      /\ vol.free_clst \in 0 .. NCLST \cup {Unknown}
      /\ Cardinality(FreeSet(Links(Seen))) + 0 <= vol.free_clst
  BY <1>1, AllocFacts
<1>3. /\ win' = [win EXCEPT !.wflag = TRUE, !.data[x % SS] = FatEntry(EOC)]
      /\ pc' = (IF cc.clst = 0 THEN "found" ELSE "link") /\ res' = res
      /\ UNCHANGED << fp, cc >>
  BY DEF Mark, Goto
<1>4. Links(Seen)[x] = 0  BY <1>2, ReadFat
<1>5. EOC \in LinkVal  BY DEF LinkVal
<1>6. /\ win'.data \in [Slot -> FatVal] /\ win' \in Windows
      /\ \A s \in Slot : win'.data[s] = IF s = x % SS THEN FatEntry(EOC)
                                           ELSE Seen[FatSector(x)][s]
      /\ Seen' = Put(Seen, FatSector(x), win'.data)
      /\ WindowOK'
  BY <1>1, <1>3, <1>5, FatPut
<1>7. /\ Sound(Seen') /\ Behind(Seen, Seen') /\ KeepsFiles(Seen, Seen')
      /\ Links(Seen') = [Links(Seen) EXCEPT ![x] = EOC] /\ IsHead(Links(Seen'), x)
      /\ \A j \in CardSlot : EntryAt(Seen, j) => DirAt(Seen, j).sclust # x
  BY <1>2, <1>4, <1>6, Marking
<1>8. CardOK'
  <2>1. Behind(disk, Seen')  BY <1>2, <1>7, BehindMore DEF CardOK
  <2> QED BY <1>2, <1>7, <2>1 DEF CardOK
<1>9. Cardinality(FreeSet(Links(Seen'))) = Cardinality(FreeSet(Links(Seen))) - 1
  <2>1. EOC # 0 /\ x \in Cluster  BY Constants
  <2>2. \A a \in Cluster, b \in LinkVal : b # 0 /\ Links(Seen)[a] = 0 =>
          Cardinality(FreeSet([Links(Seen) EXCEPT ![a] = b]))
            = Cardinality(FreeSet(Links(Seen))) - 1
    BY <1>2, FreeCount
  <2>3. Cardinality(FreeSet([Links(Seen) EXCEPT ![x] = EOC]))
            = Cardinality(FreeSet(Links(Seen))) - 1
    BY <1>4, <1>5, <2>1, <2>2
  <2> QED BY <1>7, <2>3
<1>10. VolumeOK'
  <2>1. Cardinality(FreeSet(Links(Seen))) \in Nat  BY <1>2, FreeCount
  <2>2. vol'.free_clst = vol.free_clst /\ vol.free_clst \in Nat  BY <1>2, Sizes, Constants
  <2>3. Cardinality(FreeSet(Links(Seen'))) + 1 <= vol'.free_clst  BY <1>2, <1>9, <2>1, <2>2
  <2>4. pc' \in {"link", "found"}  BY <1>3
  <2> QED BY <2>3, <2>4 DEF VolumeOK
<1>11. Grown
  <2>1. ASSUME IsOpen, fp.sclust # 0  PROVE IsHead(Links(Seen'), fp.sclust)
    <3>1. IsHead(Links(Seen), fp.sclust)  BY <2>1 DEF Inv, FileOK, ChainOK
    <3>2. fp.sclust \in Cluster /\ \A c \in Cluster : Links(Seen)[c] # fp.sclust
      BY <3>1 DEF IsHead, Top
    <3>3. \A c \in Cluster : Links(Seen')[c] # fp.sclust
      BY <1>2, <1>7, <3>2, Constants DEF Maps
    <3>4. Links(Seen')[fp.sclust] # 0  BY <1>2, <1>7, <3>1, Constants DEF Maps, IsHead
    <3> QED BY <3>1, <3>2, <3>3, <3>4 DEF IsHead, Top
  <2> QED BY <1>7, <2>1 DEF Grown
<1>12. x # 0 /\ Links(Seen')[x] = EOC  BY <1>2, <1>7, Constants DEF Maps
<1>13. Fresh(Seen', x)
  BY <1>7, <1>12 DEF Fresh, KeepsFiles
<1>14. dl # "open" => fp.sclust # x
  <2> SUFFICES ASSUME dl # "open", fp.sclust = x  PROVE FALSE
    OBVIOUS
  <2>1. IsOpen  BY <1>2 DEF IsOpen
  <2>2. IsHead(Links(Seen), x)  BY <1>12, <2>1 DEF Inv, FileOK, ChainOK
  <2> QED BY <1>4, <2>2 DEF IsHead
<1>15. AllocOK'
  <2>1. dl' = dl /\ cc' = cc /\ fp' = fp  BY <1>3 DEF logVars
  <2>2. cc.clst # 0 => Links(Seen')[cc.clst] = EOC /\ cc.clst # x
    <3> HAVE cc.clst # 0
    <3>1. Links(Seen)[cc.clst] = EOC /\ cc.clst \in Cluster  BY <1>2 DEF AllocOK
    <3>2. cc.clst # x  BY <1>4, <3>1, Constants
    <3> QED BY <1>2, <1>7, <3>1, <3>2 DEF Maps
  <2>3. CASE cc.clst = 0
    <3>1. pc' = "found"  BY <1>3, <2>3
    <3> QED BY <1>13, <1>14, <2>1, <2>3, <3>1 DEF AllocOK
  <2>4. CASE cc.clst # 0
    <3>1. pc' = "link"  BY <1>3, <2>4
    <3> QED BY <1>13, <1>14, <2>1, <2>2, <2>4, <3>1 DEF AllocOK
  <2> QED BY <2>3, <2>4
<1>16. FreeSet(Links(Seen)) # {}  BY <1>4 DEF FreeSet
<1>17. \A c \in Cluster : Links(Seen)[c] = EOC => Links(Seen')[c] = EOC
  BY <1>2, <1>7 DEF Maps
<1>18. pc \notin {"found", "got"} /\ pc' \in AllocPoints  BY <1>3 DEF AllocPoints
<1>19. /\ vol' \in [last_clst : 0 .. Unknown, free_clst : 0 .. NCLST \cup {Unknown},
                   fsi : {"off", "clean", "changed"}]
       /\ cc' \in Locals /\ cc'.clst = cc.clst
  BY <1>2, <1>3 DEF Types
<1> HIDE DEF x
<1> QED BY <1>1, <1>3, <1>6, <1>8, <1>10, <1>11, <1>15, <1>16, <1>17, <1>18, <1>19, AllocMove

(* create_chain() tries the next cluster, *)
LEMMA ContiguousStep ==
  ASSUME Inv, Contiguous, UNCHANGED logVars  PROVE Inv'
<1>1. /\ pc = "contig" /\ pc \in AllocPoints /\ win.sect = FatSector(cc.ncl)
      /\ UNCHANGED << disk, vol, dp, call, faults >>
  BY DEF Contiguous, AllocPoints, At, Want
<1>2. /\ Types /\ AllocOK /\ cc \in Locals /\ cc.clst \in Cluster /\ cc.scl = cc.clst
      /\ cc.ncl = SuccCluster(cc.clst)
  <2>1. AllocOK /\ cc \in Locals /\ cc.clst \in Cluster \cup {0} /\ Types  BY <1>1, AllocFacts
  <2> QED BY <1>1, <2>1 DEF AllocOK
<1>3. cc.ncl \in Cluster  BY <1>2, NextCluster
<1>4. CASE Fat(cc.ncl) = 0
  <2>1. Mark  BY <1>4 DEF Contiguous
  <2> QED BY <1>1, <1>3, <1>4, <2>1, MarkStep
<1>5. CASE Fat(cc.ncl) # 0
  <2> DEFINE scl == IF vol.last_clst \in Cluster THEN vol.last_clst ELSE cc.scl
  <2>1. /\ cc' = [cc EXCEPT !.scl = scl, !.ncl = SuccCluster(scl)]
        /\ pc' = "search" /\ res' = res /\ UNCHANGED << win, fp >>
    BY <1>5 DEF Contiguous, Goto
  <2>2. scl \in Cluster  BY <1>2
  <2> HIDE DEF scl
  <2>3. scl \in 1 .. n_fatent - 1 /\ scl \in 0 .. Unknown  BY <2>2, NextCluster
  <2>4. SuccCluster(scl) \in Cluster /\ Visited(scl, SuccCluster(scl)) = {}
    BY <2>3, NextCluster
  <2>5. cc' \in Locals /\ cc'.clst = cc.clst /\ cc'.scl = scl /\ cc'.ncl = SuccCluster(scl)
    BY <1>2, <2>1, <2>3, <2>4 DEF Locals
  <2>6. Seen' = Seen  BY <1>1, <2>1, SameSeen
  <2>7. AllocOK'  BY <1>1, <1>2, <2>1, <2>3, <2>4, <2>5, <2>6 DEF AllocOK
  <2> QED BY <1>1, <2>1, <2>5, <2>7, LocalMove
<1> QED BY <1>4, <1>5

(* then all of them. *)
LEMMA SearchStep ==
  ASSUME Inv, Search, UNCHANGED logVars  PROVE Inv'
<1>1. /\ pc = "search" /\ pc \in AllocPoints /\ win.sect = FatSector(cc.ncl)
      /\ UNCHANGED << disk, vol, dp, call, faults >>
  BY DEF Search, AllocPoints, At, Want
<1>2. Types /\ CardOK /\ WindowOK /\ ~Stale /\ AllocOK /\ cc \in Locals
  BY <1>1, AllocFacts
<1>3. /\ cc.scl \in 1 .. n_fatent - 1 /\ cc.ncl \in Cluster
      /\ \A c \in Cluster : c \in Visited(cc.scl, cc.ncl) => Links(Seen)[c] # 0
  BY <1>1, <1>2 DEF AllocOK
<1>4. CASE Fat(cc.ncl) = 0
  <2>1. Mark  BY <1>4 DEF Search
  <2> QED BY <1>1, <1>3, <1>4, <2>1, MarkStep
<1>5. ASSUME Fat(cc.ncl) # 0
      PROVE  \A c \in Cluster : c \in Visited(cc.scl, cc.ncl) \cup {cc.ncl} => Links(Seen)[c] # 0
  <2>1. Links(Seen)[cc.ncl] # 0  BY <1>1, <1>2, <1>3, <1>5, ReadFat
  <2> QED BY <1>3, <2>1
<1>6. CASE Fat(cc.ncl) # 0 /\ (cc.ncl = cc.scl \/ (SuccCluster(cc.ncl) = 2 /\ cc.scl = 1))
  <2>1. NoCluster /\ UNCHANGED << win, cc >>  BY <1>6 DEF Search
  <2>2. Cluster \subseteq Visited(cc.scl, cc.ncl) \cup {cc.ncl}  BY <1>3, <1>6, VisitedNext
  <2>3. FreeSet(Links(Seen)) = {}  BY <1>5, <1>6, <2>2 DEF FreeSet
  <2> QED BY <1>1, <1>2, <2>1, <2>3, NoClusterStep
<1>7. CASE Fat(cc.ncl) # 0 /\ ~(cc.ncl = cc.scl \/ (SuccCluster(cc.ncl) = 2 /\ cc.scl = 1))
  <2>1. /\ cc' = [cc EXCEPT !.ncl = SuccCluster(cc.ncl)]
        /\ UNCHANGED << win, fp, pc, res >>
    BY <1>7 DEF Search
  <2>2. Visited(cc.scl, SuccCluster(cc.ncl)) \subseteq Visited(cc.scl, cc.ncl) \cup {cc.ncl}
    BY <1>3, <1>7, VisitedNext
  <2>3. SuccCluster(cc.ncl) \in Cluster  BY <1>3, NextCluster
  <2>4. cc' \in Locals /\ cc'.clst = cc.clst /\ cc'.scl = cc.scl /\ cc'.ncl = SuccCluster(cc.ncl)
    BY <1>2, <2>1, <2>3 DEF Locals
  <2>5. Seen' = Seen  BY <1>1, <2>1, SameSeen
  <2>6. \A c \in Cluster : c \in Visited(cc'.scl, cc'.ncl) => Links(Seen)[c] # 0
    BY <1>5, <1>7, <2>2, <2>4
  <2>7. AllocOK'  BY <1>1, <1>2, <1>3, <2>1, <2>3, <2>4, <2>5, <2>6 DEF AllocOK
  <2> QED BY <1>1, <2>1, <2>4, <2>7, LocalMove
<1> QED BY <1>4, <1>6, <1>7

(* The chain gets its new end. *)
LEMMA LinkStep ==
  ASSUME Inv, Link, UNCHANGED logVars  PROVE Inv'
<1> DEFINE x == cc.clst
           y == cc.ncl
<1>1. /\ pc = "link" /\ pc \in AllocPoints /\ win.sect = FatSector(x)
      /\ win' = [win EXCEPT !.wflag = TRUE, !.data[x % SS] = FatEntry(y)]
      /\ pc' = "found" /\ res' = res /\ UNCHANGED << disk, vol, fp, dp, cc, call, faults >>
  BY DEF Link, AllocPoints, At, Want, Goto
<1>2. /\ Types /\ CardOK /\ WindowOK /\ VolumeOK /\ Control /\ AllocOK /\ ~Stale
      /\ Sound(Seen) /\ Links(Seen) \in Maps
      /\ dl \in {"open", "header", "row"} /\ cc.clst \in Cluster \cup {0}
  BY <1>1, AllocFacts
<1>3. /\ x \in Cluster /\ Links(Seen)[x] = EOC /\ Fresh(Seen, y) /\ x # y
      /\ dl # "open" => fp.sclust # y
  BY <1>1, <1>2 DEF AllocOK
<1>4. y \in Cluster /\ IsHead(Links(Seen), y) /\ Links(Seen)[y] = EOC
      /\ \A i \in CardSlot : EntryAt(Seen, i) => DirAt(Seen, i).sclust # y
  BY <1>3 DEF Fresh, IsHead, Top
<1>5. y \in LinkVal  BY <1>4 DEF LinkVal
<1>6. /\ win'.data \in [Slot -> FatVal] /\ win' \in Windows
      /\ \A s \in Slot : win'.data[s] = IF s = x % SS THEN FatEntry(y)
                                           ELSE Seen[FatSector(x)][s]
      /\ Seen' = Put(Seen, FatSector(x), win'.data)
      /\ WindowOK'
  BY <1>1, <1>3, <1>5, FatPut
<1>7. /\ Sound(Seen') /\ Behind(Seen, Seen') /\ KeepsFiles(Seen, Seen')
      /\ Links(Seen') = [Links(Seen) EXCEPT ![x] = y]
      /\ \A h : IsHead(Links(Seen), h) /\ h # y => IsHead(Links(Seen'), h)
  <2> HIDE DEF x, y
  <2> QED BY <1>2, <1>3, <1>4, <1>6, Linking
<1>8. CardOK'
  <2>1. Behind(disk, Seen')  BY <1>2, <1>7, BehindMore DEF CardOK
  <2> QED BY <1>1, <1>2, <1>7, <2>1 DEF CardOK
<1>9. FreeSet(Links(Seen')) = FreeSet(Links(Seen))
  <2>1. y # 0 /\ Links(Seen)[x] # 0  BY <1>3, <1>4, Constants
  <2>2. \A a \in Cluster, b \in LinkVal : b # 0 /\ Links(Seen)[a] # 0 =>
          FreeSet([Links(Seen) EXCEPT ![a] = b]) = FreeSet(Links(Seen))
    BY <1>2, FreeCount
  <2>3. FreeSet([Links(Seen) EXCEPT ![x] = y]) = FreeSet(Links(Seen))
    BY <1>3, <1>5, <2>1, <2>2
  <2> QED BY <1>7, <2>3
<1>10. VolumeOK'
  <2>1. Cardinality(FreeSet(Links(Seen))) + 1 <= vol.free_clst
    BY <1>1, AllocFacts
  <2>2. Cardinality(FreeSet(Links(Seen'))) + 1 <= vol'.free_clst  BY <1>1, <1>9, <2>1
  <2> QED BY <1>1, <2>2 DEF VolumeOK
<1>11. Grown
  <2>1. ASSUME IsOpen, fp.sclust # 0  PROVE IsHead(Links(Seen'), fp.sclust)
    <3>1. IsHead(Links(Seen), fp.sclust)  BY <2>1 DEF Inv, FileOK, ChainOK
    <3>2. dl # "open"  BY <1>1, <2>1 DEF IsOpen
    <3> QED BY <1>3, <1>7, <3>1, <3>2
  <2> QED BY <1>7, <2>1 DEF Grown
<1>12. AllocOK'
  <2>1. cc' = cc /\ x # 0  BY <1>1, <1>3, Constants
  <2>2. Links(Seen')[x] = y /\ Links(Seen')[y] = EOC  BY <1>2, <1>3, <1>4, <1>7 DEF Maps
  <2> QED BY <1>1, <1>4, <2>1, <2>2 DEF AllocOK
<1>13. /\ vol' \in [last_clst : 0 .. Unknown, free_clst : 0 .. NCLST \cup {Unknown},
                   fsi : {"off", "clean", "changed"}]
       /\ cc' \in Locals /\ cc'.clst = cc.clst
  BY <1>1, <1>2 DEF Types
<1>14. pc' \in AllocPoints  BY <1>1 DEF AllocPoints
<1> HIDE DEF x, y
<1> QED BY <1>1, <1>6, <1>8, <1>10, <1>11, <1>12, <1>13, <1>14, AllocMove

(* The hint and the count of free clusters follow. *)
LEMMA FoundStep ==
  ASSUME Inv, Found, UNCHANGED logVars  PROVE Inv'
<1> DEFINE counted == vol.free_clst \in 1 .. n_fatent - 2
<1>1. /\ pc = "found" /\ pc \in AllocPoints /\ pc' = "got" /\ res' = res
      /\ UNCHANGED << disk, win, fp, dp, cc, call, faults >>
      /\ vol' = [last_clst |-> cc.ncl,
                 free_clst |-> vol.free_clst - (IF counted THEN 1 ELSE 0),
                 fsi |-> IF counted /\ vol.fsi = "clean" THEN "changed" ELSE vol.fsi]
  BY DEF Found, AllocPoints, Goto
<1>2. /\ Types /\ CardOK /\ WindowOK /\ AllocOK /\ ~Stale /\ Links(Seen) \in Maps
      /\ cc.clst \in Cluster \cup {0} /\ cc.ncl \in Cluster \cup {0} /\ cc \in Locals
      /\ vol.free_clst \in 0 .. NCLST \cup {Unknown}
      /\ Cardinality(FreeSet(Links(Seen))) + 1 <= vol.free_clst
  BY <1>1, AllocFacts
<1>3. Seen' = Seen  BY <1>1, SameSeen
<1>4. CardOK'  BY <1>1, <1>2, <1>3, CardFrame
<1>5. WindowOK'  BY <1>1, <1>2, <1>3, WindowFrame
<1>6. AllocOK'  BY <1>1, <1>2, <1>3 DEF AllocOK, logVars
<1>7. /\ vol'.free_clst \in 0 .. NCLST \cup {Unknown}
      /\ Cardinality(FreeSet(Links(Seen))) <= vol'.free_clst
  <2>1. Cardinality(FreeSet(Links(Seen))) \in Nat /\ Cardinality(FreeSet(Links(Seen))) <= NCLST
    BY <1>2, FreeCount
  <2> DEFINE N == Cardinality(FreeSet(Links(Seen)))
             f == vol.free_clst
  <2>2. vol'.free_clst = f - (IF counted THEN 1 ELSE 0)  BY <1>1
  <2>3. N \in Nat /\ N <= NCLST /\ f \in 0 .. NCLST \cup {Unknown} /\ N + 1 <= f
    BY <1>2, <2>1
  <2> HIDE DEF N
  <2>4. vol'.free_clst \in 0 .. NCLST \cup {Unknown} /\ N <= vol'.free_clst
    BY <2>2, <2>3, Sizes DEF Unknown, n_fatent
  <2> QED BY <2>4 DEF N
<1>8. vol' \in [last_clst : 0 .. Unknown, free_clst : 0 .. NCLST \cup {Unknown},
                fsi : {"off", "clean", "changed"}]
  <2>1. vol.fsi \in {"off", "clean", "changed"}  BY <1>2 DEF Types
  <2>2. cc.ncl \in 0 .. Unknown
    <3>1. 0 \in 0 .. Unknown  BY Constants
    <3> QED BY <1>2, <3>1, NextCluster
  <2>3. vol'.fsi \in {"off", "clean", "changed"} /\ vol'.last_clst = cc.ncl  BY <1>1, <2>1
  <2> QED BY <1>1, <1>7, <2>2, <2>3
<1>9. VolumeOK'
  <2>1. Cardinality(FreeSet(Links(Seen))) \in Nat  BY <1>2, FreeCount
  <2>2. Cardinality(FreeSet(Links(Seen'))) + 0 <= vol'.free_clst  BY <1>3, <1>7, <2>1
  <2> QED BY <1>1, <2>2 DEF VolumeOK
<1>10. win' \in Windows /\ cc' \in Locals /\ cc'.clst = cc.clst  BY <1>1, <1>2 DEF Types
<1>11. pc' \in AllocPoints  BY <1>1 DEF AllocPoints
<1> QED BY <1>1, <1>3, <1>4, <1>5, <1>6, <1>8, <1>9, <1>10, <1>11, AllocMove DEF Grown

(***************************************************************************)
(* f_write().                                                              *)
(***************************************************************************)
Results == {"OK", "NO_FILE", "EXIST", "DISK_ERR", "DENIED"}
Calls == [op : {"none", "mount", "stat", "open", "write", "sync", "close"},
          key : 0 .. MaxName, item : PieceVal, todo : Nat]

(* Steps that leave the card and the window *)
LEMMA WriteMove ==
  ASSUME Inv, dl \in {"header", "row"}, UNCHANGED << disk, win, vol, dp >>, UNCHANGED logVars,
         pc \notin {"link", "found"}, pc' \notin {"link", "found"},
         pc' \in WritePoints \cup {"idle"}, fp' \in FileObjects, cc' \in Locals,
         call' \in Calls, call'.op = call.op, res' \in Results,
         AllocOK', FileOK', EndOK', WriteOK', PlaceOK', fp'.objsize >= fp.objsize
  PROVE  Inv'
<1>1. Types /\ CardOK /\ WindowOK /\ VolumeOK /\ Control  BY DEF Inv
<1>2. dl' = dl /\ fname' = fname  BY DEF logVars
<1>3. Seen' = Seen  BY SameSeen
<1>4. CardOK' /\ Behind(disk, disk')  BY <1>1, <1>3, CardFrame
<1>5. ~Stale
  BY <1>1 DEF Stale, Control, WritePoints, AllocPoints
<1>6. WindowOK'  BY <1>1, <1>3, <1>5, WindowFrame
<1>7. VolumeOK'  BY <1>1, <1>3, VolumeFrame
<1>8. Types'  BY <1>1, <1>2 DEF Types, Calls, Results, WritePoints, AllocPoints, Points
<1> QED BY <1>4, <1>6, <1>7, <1>8, WriteStep

(* What f_write() has to go on between its clusters *)
LEMMA WriteFacts ==
  ASSUME Inv, pc \in {"write", "place", "fill", "got"}, dl # "open"
  PROVE  /\ Types /\ CardOK /\ Sound(Seen) /\ AllocOK /\ Control
         /\ dl \in {"header", "row"} /\ IsOpen /\ FileOK /\ EndOK /\ WriteOK /\ PlaceOK
         /\ EntryOK /\ ChainOK /\ TextOK
         /\ fp \in FileObjects /\ cc \in Locals /\ call \in Calls /\ res \in Results
         /\ fp.fptr \in Nat /\ fp.objsize = fp.fptr /\ fp.fptr <= NCLST * CB
         /\ call.todo \in Nat /\ call.op = "write"
         /\ LinksOK(Links(Seen)) /\ Links(Seen) \in Maps
         /\ fp.sclust \in Cluster \cup {0} /\ fp.clust \in Cluster \cup {0}
         /\ call.item = Piece(fname, IF dl = "header" THEN 0 ELSE rows + 1)
<1>1. /\ Types /\ CardOK /\ AllocOK /\ Control /\ FileOK /\ EndOK /\ WriteOK /\ PlaceOK
  BY DEF Inv
<1>2. dl \in {"header", "row"} /\ call.op = "write"  BY <1>1, Where DEF AllocPoints
<1>3. IsOpen  BY <1>2 DEF IsOpen
<1>4. EntryOK /\ ChainOK /\ TextOK  BY <1>1, <1>3 DEF FileOK
<1>5. fp \in FileObjects /\ cc \in Locals /\ call \in Calls /\ res \in Results
  BY <1>1 DEF Types, Calls, Results
<1>6. /\ fp.fptr \in Nat /\ fp.objsize = fp.fptr /\ fp.fptr <= NCLST * CB
      /\ fp.sclust \in Cluster \cup {0} /\ fp.clust \in Cluster \cup {0}
  BY <1>4, <1>5 DEF FileObjects, ChainOK
<1>7. call.todo \in Nat  BY <1>5 DEF Calls
<1>8. Sound(Seen) /\ LinksOK(Links(Seen)) /\ Links(Seen) \in Maps
  BY <1>1 DEF CardOK, Sound, LinksOK
<1>9. call.item = Piece(fname, IF dl = "header" THEN 0 ELSE rows + 1)
  BY <1>1, <1>2 DEF WriteOK
<1> QED BY <1>1, <1>2, <1>3, <1>4, <1>5, <1>6, <1>7, <1>8, <1>9

(* The end of the file within its chain *)
LEMMA FileEnd ==
  ASSUME LinksOK(Links(Seen)), ChainOK, fp.fptr \in Nat, fp.fptr > 0
  PROVE  /\ Last \in CardSlot /\ Last \in Nat /\ Last + 1 = fp.fptr /\ fp.sclust # 0
         /\ Top(Links(Seen), fp.sclust) /\ fp.sclust # dirbase
         /\ File[Last \div CB] \in Cluster
         /\ ~AtCluster => fp.fptr \in CardSlot /\ fp.fptr \div CB = Last \div CB
         /\ AtCluster /\ Links(Seen)[File[Last \div CB]] \in Cluster =>
              /\ fp.fptr \in CardSlot
              /\ File[fp.fptr \div CB] = Links(Seen)[File[Last \div CB]]
<1>1. /\ fp.fptr <= NCLST * CB /\ fp.sclust # 0 /\ File[Last \div CB] \in Cluster
      /\ Top(Links(Seen), fp.sclust) /\ fp.sclust # dirbase
  BY DEF ChainOK, IsHead
<1>2. Last \in CardSlot /\ Last \in Nat /\ Last + 1 = fp.fptr  BY <1>1, Sizes DEF Last
<1>3. LastOfCluster(Last) <=> AtCluster  BY <1>2 DEF LastOfCluster, AtCluster
<1>4. /\ ~LastOfCluster(Last) => Last + 1 \in CardSlot /\ (Last + 1) \div CB = Last \div CB
      /\ LastOfCluster(Last) /\ Links(Seen)[File[Last \div CB]] \in Cluster =>
           /\ Last + 1 \in CardSlot
           /\ File[(Last + 1) \div CB] = Links(Seen)[File[Last \div CB]]
  BY <1>1, <1>2, NextSlot DEF File
<1> QED BY <1>1, <1>2, <1>3, <1>4

(* f_write() or dir_alloc() goes on with the cluster. *)
LEMMA GotStep ==
  ASSUME Inv, Got, UNCHANGED logVars  PROVE Inv'
<1>1. /\ pc = "got" /\ pc \in AllocPoints
      /\ UNCHANGED << disk, win, vol, dp, cc, call, faults >>
  BY DEF Got, AllocPoints
<1>2. /\ Types /\ CardOK /\ WindowOK /\ VolumeOK /\ ~Stale /\ AllocOK
      /\ \/ dl = "open" /\ call.op = "open" /\ cc.clst \in Cluster
         \/ dl \in {"header", "row"} /\ call.op = "write"
  BY <1>1, AllocFacts
<1>3. Seen' = Seen  BY <1>1, SameSeen
<1>4. dl' = dl /\ fname' = fname /\ rows' = rows  BY DEF logVars
<1>5. CASE dl = "open"
  <2>1. pc' = "clear" /\ res' = res /\ fp' = fp  BY <1>2, <1>5 DEF Got, Goto
  <2>2. CardOK' /\ Behind(disk, disk')  BY <1>1, <1>2, <1>3, CardFrame
  <2>3. WindowOK'  BY <1>1, <1>2, <1>3, WindowFrame
  <2>4. VolumeOK'  BY <1>1, <1>2, <1>3, <1>5, <2>1, VolumeFrame
  <2>5. Types'  BY <1>1, <1>2, <1>4, <2>1 DEF Types, Points
  <2>6. ScanOK'  BY <2>1, OutsideScan DEF ScanPoints
  <2>7. GrowOK'
    <3>1. GrowOK  BY DEF Inv
    <3> QED BY <1>1, <1>3, <1>4, <1>5, <2>1, <3>1 DEF GrowOK, GrowPoints
  <2>8. AllocOK'  BY <1>1, <1>2, <1>3, <2>1, Constants DEF AllocOK
  <2> QED BY <1>1, <1>5, <2>1, <2>2, <2>3, <2>4, <2>5, <2>6, <2>7, <2>8, OpenStep DEF GrowPoints
<1>6. CASE dl \in {"header", "row"}
  <2>1. /\ EntryOK /\ ChainOK /\ TextOK /\ EndOK /\ WriteOK /\ fp \in FileObjects /\ cc \in Locals
        /\ call \in Calls /\ res \in Results /\ Sound(Seen) /\ LinksOK(Links(Seen))
        /\ Links(Seen) \in Maps /\ IsOpen /\ FileOK
        /\ fp.fptr \in Nat /\ fp.objsize = fp.fptr /\ fp.sclust \in Cluster \cup {0}
    BY <1>1, <1>6, WriteFacts
  <2>2. /\ pc' = "place" /\ res' = res
        /\ fp' = [fp EXCEPT !.clust = cc.ncl, !.sclust = IF @ = 0 THEN cc.ncl ELSE @]
    BY <1>2, <1>6 DEF Got, Goto
  <2>3. /\ fp.err = "OK" /\ Taking /\ AtCluster /\ call.todo > 0 /\ cc.clst = fp.clust
    BY <1>1, <1>6, <2>1 DEF WriteOK
  <2>4. /\ fp.fptr = 0 => fp.sclust = 0
        /\ fp.clust = IF fp.fptr = 0 THEN 0 ELSE File[Last \div CB]
    BY <1>1, <2>1, <2>3 DEF EndOK
  <2>5. AtSector
    <3>1. SS \in Nat /\ SS # 0 /\ CSIZE \in Nat /\ CSIZE # 0 /\ CB = SS * CSIZE  BY Sizes DEF CB
    <3>2. fp.fptr % CB = 0  BY <2>3 DEF AtCluster, CB
    <3>3. /\ (fp.fptr \div SS) % CSIZE \in Nat /\ fp.fptr % SS \in Nat
          /\ fp.fptr % CB = SS * ((fp.fptr \div SS) % CSIZE) + (fp.fptr % SS)
      <4>1. (fp.fptr \div SS) % CSIZE \in 0 .. CSIZE - 1 /\ fp.fptr % SS \in Slot
        BY <2>1, Position
      <4>2. (fp.fptr \div SS) % CSIZE \in Nat /\ fp.fptr % SS \in Nat
        BY <4>1, <3>1 DEF Slot
      <4> QED BY <2>1, <4>2, Position
    <3>4. ASSUME NEW a \in Nat, NEW b \in Nat, SS * a + b = 0  PROVE b = 0
      <4>1. SS * a \in Nat  BY <3>1, <3>4
      <4> QED BY <3>4, <4>1
    <3>5. fp.fptr % SS = 0  BY <3>2, <3>3, <3>4
    <3> QED BY <3>5 DEF AtSector
  <2>6. CASE fp.fptr = 0
    <3>1. fp.sclust = 0 /\ cc.clst = 0  BY <2>3, <2>4, <2>6
    <3>2. Fresh(Seen, cc.ncl)  BY <1>1, <1>2, <3>1 DEF AllocOK
    <3>3. /\ cc.ncl \in Cluster /\ IsHead(Links(Seen), cc.ncl) /\ Links(Seen)[cc.ncl] = EOC
          /\ \A i \in CardSlot : EntryAt(Seen, i) => DirAt(Seen, i).sclust # cc.ncl
          /\ cc.ncl # 0
      BY <3>2, Constants DEF Fresh, IsHead, Top
    <3>4. /\ fp' \in FileObjects /\ fp'.sclust = cc.ncl /\ fp'.clust = cc.ncl /\ fp'.fptr = 0
          /\ fp'.objsize = 0 /\ fp'.dirty = fp.dirty /\ fp'.err = "OK"
          /\ fp'.dir = fp.dir /\ fp'.dir_sect = fp.dir_sect /\ fp'.sect = fp.sect
          /\ fp'.buf = fp.buf /\ fp'.modified = fp.modified
      BY <2>1, <2>2, <2>3, <2>6, <3>1, <3>3 DEF FileObjects
    <3>5. EntryOK'
      BY <1>3, <1>4, <2>1, <2>6, <3>1, <3>3, <3>4 DEF EntryOK, TheEntry
    <3>6. fp.dirty = FALSE
      <4>1. ~fp.dirty  BY <2>1, <2>6 DEF ChainOK
      <4> QED BY <2>1, <4>1 DEF FileObjects
    <3>7. ChainOK'
      <4>1. 0 % SS = 0 /\ 0 <= NCLST * CB  BY Sizes
      <4>2. ~fp'.dirty  BY <3>4, <3>6
      <4> QED BY <1>3, <3>3, <3>4, <4>1, <4>2 DEF ChainOK
    <3>8. TextOK'  BY <3>4, InRange DEF TextOK
    <3>9. FileOK'  BY <3>5, <3>7, <3>8 DEF FileOK
    <3>10. PlaceOK'
      <4>1. 0 \in CardSlot /\ 0 \div CB = 0  BY Sizes
      <4>2. File'[0] = cc.ncl  BY <1>3, <2>1, <3>4, ChainDef DEF File
      <4>3. AtSector'  BY <2>5, <2>6, <3>4 DEF AtSector
      <4> QED BY <1>1, <1>3, <2>2, <2>3, <3>3, <3>4, <4>1, <4>2, <4>3 DEF PlaceOK
    <3>11. EndOK'  BY <2>2 DEF EndOK
    <3>12. WriteOK'
      <4>1. Taking'
        BY <1>1, <1>4, <2>3, <2>6, <3>4 DEF Taking
      <4> QED BY <1>1, <1>4, <1>6, <2>1, <2>2, <3>4, <4>1 DEF WriteOK, AllocPoints
    <3>13. AllocOK'  BY <2>2, OutsideAlloc DEF GrowPoints, AllocPoints
    <3>14. fp'.objsize >= fp.objsize  BY <2>1, <2>6, <3>4
    <3>15. pc' \in WritePoints  BY <2>2 DEF WritePoints
    <3> QED BY <1>1, <1>6, <2>1, <2>2, <3>4, <3>9, <3>10, <3>11, <3>12, <3>13, <3>14, <3>15,
               WriteMove
  <2>7. CASE fp.fptr # 0
    <3>1. fp.fptr > 0 /\ fp.clust = File[Last \div CB]  BY <2>1, <2>4, <2>7
    <3>2. /\ Last \in CardSlot /\ Last \in Nat /\ Last + 1 = fp.fptr /\ fp.sclust # 0
          /\ Top(Links(Seen), fp.sclust) /\ File[Last \div CB] \in Cluster
          /\ Links(Seen)[File[Last \div CB]] \in Cluster =>
              /\ fp.fptr \in CardSlot
              /\ File[fp.fptr \div CB] = Links(Seen)[File[Last \div CB]]
      BY <2>1, <2>3, <3>1, FileEnd
    <3>3. cc.clst \in Cluster /\ cc.clst # 0 /\ cc.clst = File[Last \div CB]
      BY <2>3, <3>1, <3>2, Constants
    <3>4. cc.ncl \in Cluster /\ Links(Seen)[cc.clst] = cc.ncl /\ Links(Seen)[cc.ncl] = EOC
      BY <1>1, <1>2, <3>3 DEF AllocOK
    <3>5. fp.fptr \in CardSlot /\ File[fp.fptr \div CB] = cc.ncl  BY <3>2, <3>3, <3>4
    <3>6. /\ fp' \in FileObjects /\ FileKept /\ fp'.clust = cc.ncl /\ fp'.err = "OK"
          /\ fp'.modified = fp.modified
      <4>1. fp' = [fp EXCEPT !.clust = cc.ncl, !.sclust = fp.sclust]  BY <2>2, <3>2
      <4> QED BY <2>1, <2>3, <3>4, <4>1 DEF FileObjects, FileKept
    <3>7. FileOK'  BY <1>3, <1>4, <2>1, <3>6, FileFrame
    <3>8. PlaceOK'
      <4>1. File' = File  BY <1>3, <3>6 DEF File, FileKept
      <4>2. AtSector'  BY <2>5, <3>6 DEF AtSector, FileKept
      <4> QED BY <1>1, <1>3, <2>2, <2>3, <3>2, <3>4, <3>5, <3>6, <4>1, <4>2 DEF PlaceOK, FileKept
    <3>9. EndOK'  BY <2>2 DEF EndOK
    <3>10. WriteOK'
      <4>1. Taking'
        BY <1>1, <1>4, <2>3, <3>6 DEF Taking, FileKept
      <4> QED BY <1>1, <1>4, <1>6, <2>1, <2>2, <3>6, <4>1 DEF WriteOK, AllocPoints
    <3>11. AllocOK'  BY <2>2, OutsideAlloc DEF GrowPoints, AllocPoints
    <3>12. fp'.objsize >= fp.objsize  BY <2>1, <3>6 DEF FileKept
    <3>13. pc' \in WritePoints  BY <2>2 DEF WritePoints
    <3> QED BY <1>1, <1>6, <2>1, <2>2, <3>6, <3>7, <3>8, <3>9, <3>10, <3>11, <3>12, <3>13,
               WriteMove
  <2> QED BY <2>6, <2>7
<1> QED BY <1>2, <1>5, <1>6

(* f_write() of a file with an error *)
LEMMA WriteRefusedStep ==
  ASSUME Inv, WriteRefused, UNCHANGED logVars  PROVE Inv'
<1>1. /\ pc = "write" /\ fp.err # "OK" /\ pc' = "idle" /\ res' = fp.err
      /\ UNCHANGED << disk, win, vol, fp, dp, cc, call, faults >>
  BY DEF WriteRefused, Return, OnlyPc
<1>2. /\ dl \in {"header", "row"} /\ IsOpen /\ FileOK /\ EndOK /\ WriteOK
      /\ fp \in FileObjects /\ cc \in Locals /\ call \in Calls /\ fp.objsize \in Nat
  <2>1. dl # "open"  BY <1>1, Where DEF Inv
  <2> QED BY <1>1, <2>1, WriteFacts
<1>3. Seen' = Seen /\ dl' = dl /\ fname' = fname /\ rows' = rows  BY <1>1, SameSeen DEF logVars
<1>4. FileOK'  BY <1>1, <1>2, <1>3, FileFrame DEF FileKept
<1>5. EndOK'  BY <1>1, <1>2, <1>3 DEF EndOK
<1>6. WriteOK'  BY <1>1, <1>2, <1>3 DEF WriteOK, AllocPoints
<1>7. PlaceOK' /\ AllocOK'
  BY <1>1, OutsideAlloc DEF PlaceOK, GrowPoints, AllocPoints
<1>8. res' \in Results  BY <1>1, <1>2 DEF Results, FileObjects
<1> QED BY <1>1, <1>2, <1>4, <1>5, <1>6, <1>7, <1>8, WriteMove

(* f_write() ends. *)
LEMMA WriteDoneStep ==
  ASSUME Inv, WriteDone, UNCHANGED logVars  PROVE Inv'
<1>1. /\ pc = "write" /\ fp.err = "OK" /\ call.todo = 0 /\ pc' = "idle" /\ res' = "OK"
      /\ fp' = [fp EXCEPT !.modified = TRUE]
      /\ UNCHANGED << disk, win, vol, dp, cc, call, faults >>
  BY DEF WriteDone, Return
<1>2. /\ dl \in {"header", "row"} /\ IsOpen /\ FileOK /\ EndOK /\ WriteOK
      /\ fp \in FileObjects /\ cc \in Locals /\ call \in Calls
      /\ fp.objsize = fp.fptr /\ fp.fptr \in Nat
  <2>1. dl # "open"  BY <1>1, Where DEF Inv
  <2> QED BY <1>1, <2>1, WriteFacts
<1>3. Seen' = Seen /\ dl' = dl /\ fname' = fname /\ rows' = rows  BY <1>1, SameSeen DEF logVars
<1>4. FileKept /\ fp' \in FileObjects /\ fp'.clust = fp.clust /\ fp'.err = fp.err
      /\ fp'.modified = TRUE
  BY <1>1, <1>2 DEF FileKept, FileObjects
<1>5. FileOK'  BY <1>2, <1>3, <1>4, FileFrame
<1>6. EndOK'
  <2>1. File' = File /\ Last' = Last  BY <1>3, <1>4 DEF File, Last, FileKept
  <2> QED BY <1>1, <1>2, <1>3, <1>4, <2>1 DEF EndOK, FileKept
<1>7. WriteOK'
  <2>1. call.item = Piece(fname, IF dl = "header" THEN 0 ELSE rows + 1) /\ Taking
    BY <1>1, <1>2 DEF WriteOK
  <2>2. Taking'  BY <1>1, <1>3, <1>4, <2>1 DEF Taking, FileKept
  <2> QED BY <1>1, <1>3, <1>4, <2>1, <2>2 DEF WriteOK, AllocPoints
<1>8. PlaceOK' /\ AllocOK'
  BY <1>1, OutsideAlloc DEF PlaceOK, GrowPoints, AllocPoints
<1>9. res' \in Results /\ fp'.objsize >= fp.objsize
  BY <1>1, <1>2, <1>4 DEF Results, FileKept
<1> QED BY <1>1, <1>2, <1>4, <1>5, <1>6, <1>7, <1>8, <1>9, WriteMove

(* f_write() needs a cluster. *)
LEMMA WriteClusterStep ==
  ASSUME Inv, WriteCluster, UNCHANGED logVars  PROVE Inv'
<1>1. /\ pc = "write" /\ fp.err = "OK" /\ call.todo > 0 /\ AtCluster
      /\ cc' = [cc EXCEPT !.clst = IF fp.fptr = 0 THEN 0 ELSE fp.clust, !.ncl = fp.sclust]
      /\ pc' = (IF fp.fptr = 0 /\ fp.sclust # 0 THEN "got" ELSE "chain") /\ res' = res
      /\ UNCHANGED << disk, win, vol, fp, dp, call, faults >>
  BY DEF WriteCluster, Goto
<1>2. /\ dl \in {"header", "row"} /\ IsOpen /\ FileOK /\ EndOK /\ WriteOK
      /\ fp \in FileObjects /\ cc \in Locals /\ call \in Calls /\ res \in Results
      /\ fp.objsize = fp.fptr /\ fp.fptr \in Nat
      /\ fp.sclust \in Cluster \cup {0} /\ fp.clust \in Cluster \cup {0}
  <2>1. dl # "open"  BY <1>1, Where DEF Inv
  <2> QED BY <1>1, <2>1, WriteFacts
<1>3. Seen' = Seen /\ dl' = dl /\ fname' = fname /\ rows' = rows  BY <1>1, SameSeen DEF logVars
<1>4. /\ fp.fptr = 0 => fp.sclust = 0
      /\ fp.clust = IF fp.fptr = 0 THEN 0 ELSE File[Last \div CB]
      /\ fp.clust # 0 => Links(Seen)[fp.clust] = EOC
  BY <1>1, <1>2 DEF EndOK
<1>5. pc' = "chain"  BY <1>1, <1>4
<1>6. cc' \in Locals /\ cc'.clst = fp.clust
  <2>1. cc' = [cc EXCEPT !.clst = fp.clust, !.ncl = fp.sclust]  BY <1>1, <1>4
  <2> QED BY <1>2, <2>1 DEF Locals
<1>7. FileOK'  BY <1>1, <1>2, <1>3, FileFrame DEF FileKept
<1>8. EndOK'
  <2>1. File' = File /\ Last' = Last  BY <1>1, <1>3 DEF File, Last
  <2> QED BY <1>1, <1>2, <1>3, <1>4, <1>5, <2>1 DEF EndOK
<1>9. WriteOK'
  <2>1. call.item = Piece(fname, IF dl = "header" THEN 0 ELSE rows + 1) /\ Taking
    BY <1>1, <1>2 DEF WriteOK
  <2>2. Taking'  BY <1>1, <1>3, <1>5, <2>1 DEF Taking, NoRoom, AtCluster
  <2>3. AtCluster'  BY <1>1 DEF AtCluster
  <2> QED BY <1>1, <1>3, <1>5, <1>6, <2>1, <2>2, <2>3 DEF WriteOK, AllocPoints
<1>10. PlaceOK'  BY <1>5 DEF PlaceOK
<1>11. AllocOK'  BY <1>3, <1>4, <1>5, <1>6 DEF AllocOK
<1>12. pc' \in WritePoints /\ fp'.objsize >= fp.objsize
  BY <1>1, <1>2, <1>5 DEF WritePoints, AllocPoints
<1> QED BY <1>1, <1>2, <1>5, <1>6, <1>7, <1>8, <1>9, <1>10, <1>11, <1>12, WriteMove

(* f_write() goes on in its cluster. *)
LEMMA WriteSectorStep ==
  ASSUME Inv, WriteSector, UNCHANGED logVars  PROVE Inv'
<1>1. /\ pc = "write" /\ fp.err = "OK" /\ call.todo > 0 /\ ~AtCluster
      /\ pc' = (IF AtSector THEN "place" ELSE "fill") /\ res' = res
      /\ UNCHANGED << disk, win, vol, fp, dp, cc, call, faults >>
  BY DEF WriteSector, Goto, OnlyPc
<1>2. /\ dl \in {"header", "row"} /\ IsOpen /\ FileOK /\ EndOK /\ WriteOK /\ ChainOK
      /\ fp \in FileObjects /\ cc \in Locals /\ call \in Calls /\ res \in Results
      /\ fp.objsize = fp.fptr /\ fp.fptr \in Nat /\ LinksOK(Links(Seen))
      /\ fp.sclust \in Cluster \cup {0} /\ fp.clust \in Cluster \cup {0}
  <2>1. dl # "open"  BY <1>1, Where DEF Inv
  <2> QED BY <1>1, <2>1, WriteFacts
<1>3. Seen' = Seen /\ dl' = dl /\ fname' = fname /\ rows' = rows  BY <1>1, SameSeen DEF logVars
<1>4. fp.fptr > 0
  <2>1. 0 % (SS * CSIZE) = 0  BY Sizes DEF CB
  <2> QED BY <1>1, <1>2, <2>1 DEF AtCluster
<1>5. /\ Last \in CardSlot /\ Last \in Nat /\ Last + 1 = fp.fptr /\ fp.sclust # 0
      /\ File[Last \div CB] \in Cluster
      /\ fp.fptr \in CardSlot /\ fp.fptr \div CB = Last \div CB
  BY <1>1, <1>2, <1>4, FileEnd
<1>6. fp.clust = File[Last \div CB] /\ Links(Seen)[fp.clust] = EOC
  BY <1>1, <1>2, <1>4, <1>5, Constants DEF EndOK
<1>7. FileOK'  BY <1>1, <1>2, <1>3, FileFrame DEF FileKept
<1>8. EndOK'  BY <1>1 DEF EndOK
<1>9. WriteOK'
  <2>1. call.item = Piece(fname, IF dl = "header" THEN 0 ELSE rows + 1) /\ Taking
    BY <1>1, <1>2 DEF WriteOK
  <2>2. Taking'  BY <1>1, <1>3, <2>1 DEF Taking, NoRoom
  <2> QED BY <1>1, <1>3, <2>1, <2>2 DEF WriteOK, AllocPoints
<1>10. PlaceOK'
  <2>1. ASSUME ~AtSector  PROVE SectorIs(fp.fptr, fp.sect)
    <3>1. (Last + 1) % SS # 0  BY <1>5, <2>1 DEF AtSector
    <3>2. fp.fptr \div SS = Last \div SS
      BY <1>5, <3>1, NextPosition, Sizes
    <3>3. SectorIs(Last, fp.sect)  BY <1>2, <2>1 DEF ChainOK, AtSector
    <3> QED BY <1>5, <3>2, <3>3 DEF SectorIs
  <2>2. File' = File  BY <1>1, <1>3 DEF File
  <2>3. SectorIs(fp.fptr, fp.sect)' <=> SectorIs(fp.fptr, fp.sect)  BY <1>1, <2>2 DEF SectorIs
  <2>4. AtSector' <=> AtSector  BY <1>1 DEF AtSector
  <2> QED BY <1>1, <1>3, <1>5, <1>6, <2>1, <2>2, <2>3, <2>4 DEF PlaceOK
<1>11. AllocOK'  BY <1>1, OutsideAlloc DEF GrowPoints, AllocPoints
<1>12. pc' \in WritePoints /\ pc' \notin {"link", "found"} /\ fp'.objsize >= fp.objsize
  BY <1>1, <1>2 DEF WritePoints
<1> QED BY <1>1, <1>2, <1>7, <1>8, <1>9, <1>10, <1>11, <1>12, WriteMove

(* f_write() turns to the next sector. *)
LEMMA PlaceStep ==
  ASSUME Inv, Place, UNCHANGED logVars  PROVE Inv'
<1> DEFINE s == DataSector(fp.clust, (fp.fptr \div SS) % CSIZE)
<1>1. /\ pc = "place" /\ ~fp.dirty /\ pc' = "fill" /\ res' = res
      /\ fp' = [fp EXCEPT !.sect = s]
      /\ UNCHANGED << disk, win, vol, dp, cc, call, faults >>
  BY DEF Place, Goto
<1>2. /\ dl \in {"header", "row"} /\ IsOpen /\ FileOK /\ WriteOK /\ PlaceOK
      /\ EntryOK /\ ChainOK /\ TextOK
      /\ fp \in FileObjects /\ cc \in Locals /\ call \in Calls /\ res \in Results
      /\ fp.objsize = fp.fptr /\ fp.fptr \in Nat
  <2>1. dl # "open"  BY <1>1, Where DEF Inv
  <2> QED BY <1>1, <2>1, WriteFacts
<1>3. Seen' = Seen /\ dl' = dl /\ fname' = fname /\ rows' = rows  BY <1>1, SameSeen DEF logVars
<1>4. /\ call.todo > 0 /\ fp.sclust # 0 /\ fp.fptr \in CardSlot
      /\ fp.clust \in Cluster /\ fp.clust = File[fp.fptr \div CB]
      /\ Links(Seen)[fp.clust] = EOC /\ AtSector
  BY <1>1, <1>2 DEF PlaceOK
<1>5. s \in Sector
  <2>1. (fp.fptr \div SS) % CSIZE \in 0 .. CSIZE - 1  BY <1>4, InRange
  <2> QED BY <1>4, <2>1, SectorNames
<1> HIDE DEF s
<1>6. /\ fp' \in FileObjects /\ fp'.sect = s /\ fp'.sclust = fp.sclust /\ fp'.objsize = fp.objsize
      /\ fp'.fptr = fp.fptr /\ fp'.clust = fp.clust /\ fp'.buf = fp.buf /\ fp'.dirty = fp.dirty
      /\ fp'.dir_sect = fp.dir_sect /\ fp'.dir = fp.dir /\ fp'.err = fp.err
  BY <1>1, <1>2, <1>5 DEF FileObjects
<1>7. File' = File /\ Last' = Last  BY <1>3, <1>6 DEF File, Last
<1>8. EntryOK'  BY <1>2, <1>3, <1>6 DEF EntryOK, TheEntry
<1>9. ChainOK'
  BY <1>1, <1>2, <1>3, <1>4, <1>6, <1>7 DEF ChainOK, AtSector
<1>10. TextOK'  BY <1>2, <1>3, <1>6, <1>7 DEF TextOK
<1>11. FileOK'  BY <1>8, <1>9, <1>10 DEF FileOK
<1>12. EndOK'  BY <1>1 DEF EndOK
<1>13. WriteOK'
  <2>1. call.item = Piece(fname, IF dl = "header" THEN 0 ELSE rows + 1)
        /\ fp.err = "OK" /\ Taking
    BY <1>1, <1>2 DEF WriteOK
  <2>2. Taking'  BY <1>1, <1>3, <1>6, <2>1 DEF Taking
  <2> QED BY <1>1, <1>3, <1>6, <2>1, <2>2 DEF WriteOK, AllocPoints
<1>14. PlaceOK'
  <2>1. SectorIs(fp.fptr, fp.sect)'  BY <1>4, <1>6, <1>7 DEF SectorIs, s
  <2> QED BY <1>1, <1>3, <1>4, <1>6, <1>7, <2>1 DEF PlaceOK
<1>15. AllocOK'  BY <1>1, OutsideAlloc DEF GrowPoints, AllocPoints
<1>16. pc' \in WritePoints /\ fp'.objsize >= fp.objsize  BY <1>1, <1>2, <1>6 DEF WritePoints
<1> QED BY <1>1, <1>2, <1>6, <1>11, <1>12, <1>13, <1>14, <1>15, <1>16, WriteMove

(* What the next slots of the file are to hold *)
LEMMA NextSlots ==
  ASSUME Inv, pc = "fill", NEW p \in Nat, p >= fp.fptr, p < fp.fptr + call.todo
  PROVE  Expected(fname, p) = call.item
<1>1. dl \in {"header", "row"} /\ WriteOK /\ fp.fptr \in Nat /\ call.todo \in Nat
  <2>1. dl # "open"  BY Where DEF Inv
  <2> QED BY <2>1, WriteFacts
<1>2. /\ call.item = Piece(fname, IF dl = "header" THEN 0 ELSE rows + 1)
      /\ fp.err = "OK" /\ Taking
  BY <1>1 DEF WriteOK
<1>3. rows \in Nat  BY DEF Inv, RowsOK
<1>4. RowEnd(rows) \in Nat /\ RowEnd(rows + 1) \in Nat /\ HdrLen \in Nat
  <2>1. rows + 1 \in Nat  BY <1>3
  <2> QED BY <1>3, <2>1, RowSizes
<1>5. CASE dl = "header" /\ fp.fptr + call.todo = HdrLen
  BY <1>1, <1>2, <1>4, <1>5, ExpectedIs
<1>6. CASE dl = "row" /\ fp.fptr + call.todo = RowEnd(rows + 1) /\ fp.fptr >= RowEnd(rows)
  <2>1. RowEnd(rows) <= p /\ p < RowEnd(rows + 1)  BY <1>1, <1>4, <1>6
  <2> QED BY <1>2, <1>3, <1>6, <2>1, ExpectedIs
<1> QED BY <1>2, <1>5, <1>6 DEF Taking

(* f_write() copies into the file's buffer. *)
LEMMA FillStep ==
  ASSUME Inv, Fill, UNCHANGED logVars  PROVE Inv'
<1> DEFINE f == fp.fptr
           ofs == f % SS
           n == IF call.todo < SS - ofs THEN call.todo ELSE SS - ofs
           x == [i \in Slot |-> IF i \in ofs .. ofs + n - 1 THEN call.item ELSE fp.buf[i]]
<1>1. /\ pc = "fill" /\ pc' = "write" /\ res' = res
      /\ fp' = [fp EXCEPT !.buf = x, !.dirty = TRUE, !.fptr = @ + n, !.objsize = @ + n]
      /\ call' = [call EXCEPT !.todo = @ - n]
      /\ UNCHANGED << disk, win, vol, dp, cc, faults >>
  BY DEF Fill, Goto
<1>2. /\ dl \in {"header", "row"} /\ IsOpen /\ FileOK /\ WriteOK /\ PlaceOK
      /\ EntryOK /\ ChainOK /\ TextOK /\ LinksOK(Links(Seen)) /\ Sound(Seen)
      /\ fp \in FileObjects /\ cc \in Locals /\ call \in Calls /\ res \in Results
      /\ fp.objsize = f /\ f \in Nat /\ f <= NCLST * CB /\ call.todo \in Nat
      /\ fp.sclust \in Cluster \cup {0}
  <2>1. dl # "open"  BY <1>1, Where DEF Inv
  <2> QED BY <1>1, <2>1, WriteFacts
<1>3. Seen' = Seen /\ dl' = dl /\ fname' = fname /\ rows' = rows  BY <1>1, SameSeen DEF logVars
<1>4. /\ call.todo > 0 /\ fp.sclust # 0 /\ f \in CardSlot
      /\ fp.clust \in Cluster /\ fp.clust = File[f \div CB]
      /\ Links(Seen)[fp.clust] = EOC
      /\ SectorIs(f, fp.sect) /\ (AtSector => ~fp.dirty)
  BY <1>1, <1>2 DEF PlaceOK
<1>5. /\ SS \in Nat /\ SS # 0 /\ ofs \in 0 .. SS - 1 /\ f \div SS \in Nat
      /\ f = (SS * (f \div SS)) + ofs
  BY <1>2, Sizes, Division
<1>6. n \in Nat /\ n >= 1 /\ n <= call.todo /\ ofs + n <= SS
  <2> HIDE DEF ofs
  <2> QED BY <1>2, <1>4, <1>5
<1> DEFINE last == f + (n - 1)
<1>7. /\ last \in Nat /\ last \div SS = f \div SS /\ last \in CardSlot
      /\ last \div CB = f \div CB /\ (last \div SS) % CSIZE = (f \div SS) % CSIZE
      /\ f + n <= NCLST * CB /\ last + 1 = f + n
  <2>1. n - 1 \in Nat /\ ofs + (n - 1) < SS
    <3> HIDE DEF n, ofs
    <3> QED BY <1>5, <1>6
  <2>2. last \in Nat /\ last \div SS = f \div SS
    <3>1. (f + (n - 1)) \div SS = f \div SS
      <4> HIDE DEF n
      <4> QED BY <1>2, <1>5, <2>1, Within
    <3> HIDE DEF n
    <3> QED BY <1>2, <2>1, <3>1
  <2> HIDE DEF last
  <2>3. /\ last \in CardSlot /\ last \div CB = f \div CB
        /\ (last \div SS) % CSIZE = (f \div SS) % CSIZE
    BY <1>4, <2>2, SameSector
  <2>4. last \in 0 .. NCLST * CB - 1 /\ NCLST * CB \in Nat  BY <2>3, Sizes
  <2>5. last + 1 = f + n
    <3> HIDE DEF n
    <3> QED BY <1>2, <1>6 DEF last
  <2> QED BY <2>2, <2>3, <2>4, <2>5
<1> HIDE DEF n, last
<1>8. x \in [Slot -> PieceVal] /\ fp.buf \in [Slot -> PieceVal] /\ call.item \in PieceVal
  BY <1>2 DEF FileObjects, Calls
<1>9. \A i \in Slot : x[i] = IF i \in ofs .. ofs + n - 1 THEN call.item ELSE fp.buf[i]
  OBVIOUS
<1> HIDE DEF x
<1>10. /\ fp' \in FileObjects /\ fp'.sect = fp.sect /\ fp'.sclust = fp.sclust
       /\ fp'.objsize = f + n /\ fp'.fptr = f + n /\ fp'.clust = fp.clust /\ fp'.buf = x
       /\ fp'.dirty = TRUE
       /\ fp'.dir_sect = fp.dir_sect /\ fp'.dir = fp.dir /\ fp'.err = fp.err
  <2>1. fp' = [fp EXCEPT !.buf = x, !.dirty = TRUE, !.fptr = f + n, !.objsize = f + n]
    BY <1>1, <1>2
  <2>2. f + n \in Nat  BY <1>2, <1>6
  <2>3. fp' \in FileObjects
    <3> DEFINE A == Sector \cup {Nowhere}
               B == [Slot -> PieceVal]
               C == Cluster \cup {0}
               Z == f + n
    <3>1. /\ fp \in [sclust : C, objsize : Nat, fptr : Nat, clust : C, sect : A, buf : B,
                     dirty : BOOLEAN, modified : BOOLEAN, err : {"OK", "DISK_ERR"},
                     dir_sect : A, dir : Slot]
          /\ x \in B /\ Z \in Nat
          /\ fp' = [fp EXCEPT !.buf = x, !.dirty = TRUE, !.fptr = Z, !.objsize = Z]
      BY <1>2, <1>8, <2>1, <2>2 DEF FileObjects
    <3> HIDE DEF A, B, C, Z
    <3>2. fp' \in [sclust : C, objsize : Nat, fptr : Nat, clust : C, sect : A, buf : B,
                   dirty : BOOLEAN, modified : BOOLEAN, err : {"OK", "DISK_ERR"},
                   dir_sect : A, dir : Slot]
      BY <3>1
    <3> QED BY <3>2 DEF A, B, C, FileObjects
  <2> QED BY <1>2, <2>1, <2>3 DEF FileObjects
<1>11. /\ call' \in Calls /\ call'.op = call.op /\ call'.item = call.item
       /\ call'.todo = call.todo - n
  <2>1. call.todo - n \in Nat  BY <1>2, <1>6
  <2>2. call' = [call EXCEPT !.todo = call.todo - n]  BY <1>1, <1>2
  <2> QED BY <1>2, <2>1, <2>2 DEF Calls
<1>12. File' = File /\ Last' = last
  <2>1. Last' = fp'.fptr - 1  BY DEF Last
  <2>2. Last' = last  BY <1>2, <1>6, <1>7, <1>10, <2>1
  <2> QED BY <1>3, <1>10, <2>2 DEF File
<1>13. EntryOK'
  <2>1. PICK i \in CardSlot :
          /\ TheEntry(Seen, i) /\ fp.dir = i % SS
          /\ fp.dir_sect = DataSector(Root(Seen)[i \div CB], (i \div SS) % CSIZE)
          /\ DirAt(Seen, i).sclust \in {0, fp.sclust} /\ DirAt(Seen, i).size <= fp.objsize
          /\ \A j \in CardSlot : EntryAt(Seen, j) /\ j # i /\ fp.sclust # 0 =>
               DirAt(Seen, j).sclust # fp.sclust
    BY <1>2 DEF EntryOK
  <2>2. DirAt(Seen, i).size \in Nat
    <3>1. DirAt(Seen, i).size \in 0 .. NCLST * CB  BY <1>2, <2>1, EntryType DEF TheEntry, Sound
    <3> QED BY <3>1, Sizes
  <2>3. DirAt(Seen, i).size <= fp'.objsize  BY <1>2, <1>6, <1>10, <2>1, <2>2
  <2> QED BY <1>3, <1>10, <2>1, <2>3 DEF EntryOK, TheEntry
<1>14. SectorIs(last, fp.sect)  BY <1>4, <1>7 DEF SectorIs
<1>15. ChainOK'
  <2>1. SectorIs(Last, fp.sect)'  BY <1>10, <1>12, <1>14 DEF SectorIs
  <2>2. File[last \div CB] \in Cluster  BY <1>4, <1>7
  <2>3. fp'.fptr > 0  BY <1>2, <1>6, <1>10
  <2> QED BY <1>2, <1>3, <1>4, <1>7, <1>10, <1>12, <2>1, <2>2, <2>3 DEF ChainOK
<1>16. TextOK'
  <2> SUFFICES ASSUME NEW p \in CardSlot, p < f + n
               PROVE  /\ p \div SS = last \div SS => x[p % SS] = Expected(fname, p)
                      /\ ~(p \div SS = last \div SS) => SlotOf(Seen, File, p) = Expected(fname, p)
    BY <1>3, <1>10, <1>12 DEF TextOK
  <2>1. /\ p \in Nat /\ p % SS \in 0 .. SS - 1 /\ p \div SS \in Nat
        /\ p = (SS * (p \div SS)) + (p % SS) /\ p % SS \in Slot
    BY <1>5, InRange, Division DEF Slot
  <2>2. ASSUME p \div SS = last \div SS  PROVE x[p % SS] = Expected(fname, p)
    <3>1. p \div SS = f \div SS  BY <1>7, <2>2
    <3> DEFINE b == SS * (f \div SS)
               r == p % SS
    <3>2. b \in Nat  BY <1>5
    <3>3. p = b + r /\ f = b + ofs /\ r \in 0 .. SS - 1  BY <1>5, <2>1, <3>1
    <3> HIDE DEF b, r, ofs
    <3>4. r < ofs + n  BY <1>2, <1>5, <1>6, <3>2, <3>3
    <3>5. CASE r >= ofs
      <4>1. r \in ofs .. ofs + n - 1  BY <1>5, <1>6, <3>3, <3>4, <3>5
      <4>2. x[r] = call.item  BY <1>9, <2>1, <4>1 DEF r
      <4>3. p >= f /\ p < f + call.todo  BY <1>2, <1>5, <1>6, <3>2, <3>3, <3>4, <3>5
      <4>4. Expected(fname, p) = call.item  BY <1>1, <2>1, <4>3, NextSlots
      <4> QED BY <4>2, <4>4 DEF r
    <3>6. CASE r < ofs
      <4>1. r \notin ofs .. ofs + n - 1  BY <1>5, <3>3, <3>6
      <4>2. x[r] = fp.buf[r]  BY <1>9, <2>1, <4>1 DEF r
      <4>3. p < f  BY <1>5, <3>2, <3>3, <3>6
      <4>4. ofs > 0 /\ f > 0  BY <1>5, <3>2, <3>3, <3>6
      <4>5. Last \in Nat /\ Last + 1 = f  BY <1>2, <4>4 DEF Last
      <4>6. Last \div SS = f \div SS
        <5>1. (Last + 1) % SS # 0  BY <1>5, <4>4, <4>5 DEF ofs
        <5> QED BY <1>5, <4>5, <5>1, NextPosition
      <4>7. fp.buf[p % SS] = Expected(fname, p)  BY <1>2, <3>1, <4>3, <4>6 DEF TextOK
      <4> QED BY <4>2, <4>7 DEF r
    <3>7. r >= ofs \/ r < ofs  BY <1>5, <3>3
    <3> QED BY <3>5, <3>6, <3>7
  <2>3. ASSUME p \div SS # last \div SS  PROVE SlotOf(Seen, File, p) = Expected(fname, p)
    <3>1. p \div SS # f \div SS  BY <1>7, <2>3
    <3>2. p < f
      <4> SUFFICES ASSUME ~(p < f)  PROVE FALSE  OBVIOUS
      <4>1. p - f \in Nat /\ p - f <= n - 1 /\ p = f + (p - f)  BY <1>2, <1>6, <2>1
      <4>2. ofs + (p - f) < SS
        <5> HIDE DEF ofs
        <5> QED BY <1>2, <1>5, <1>6, <2>1, <4>1
      <4>3. (f + (p - f)) \div SS = f \div SS
        <5> DEFINE j == p - f
        <5>1. j \in Nat /\ (f % SS) + j < SS  BY <4>1, <4>2
        <5> HIDE DEF j
        <5>2. (f + j) \div SS = f \div SS  BY <1>2, <1>5, <5>1, Within
        <5> QED BY <5>2 DEF j
      <4> QED BY <3>1, <4>1, <4>3
    <3>3. ~(p \div SS = Last \div SS /\ fp.dirty)
      <4> SUFFICES ASSUME p \div SS = Last \div SS, fp.dirty  PROVE FALSE
        OBVIOUS
      <4>1. Last \in Nat /\ Last + 1 = f  BY <1>2, <2>1, <3>2 DEF Last
      <4>2. ~AtSector  BY <1>4
      <4>3. (Last + 1) % SS # 0  BY <4>1, <4>2 DEF AtSector
      <4>4. Last \div SS = f \div SS  BY <1>5, <4>1, <4>3, NextPosition
      <4> QED BY <3>1, <4>4
    <3> QED BY <1>2, <3>2, <3>3 DEF TextOK
  <2> QED BY <2>2, <2>3
<1>17. FileOK'  BY <1>13, <1>15, <1>16 DEF FileOK
<1>18. EndOK'
  <2>1. fp'.fptr # 0  BY <1>2, <1>6, <1>10
  <2>2. fp'.clust = File'[Last' \div CB]  BY <1>4, <1>7, <1>10, <1>12
  <2> QED BY <1>2, <1>3, <1>4, <1>10, <2>1, <2>2 DEF EndOK
<1>19. WriteOK'
  <2>1. call.item = Piece(fname, IF dl = "header" THEN 0 ELSE rows + 1)
        /\ fp.err = "OK" /\ Taking
    BY <1>1, <1>2 DEF WriteOK
  <2>2. fp'.fptr + call'.todo = fp.fptr + call.todo
    <3> HIDE DEF f
    <3>1. (f + n) + (call.todo - n) = f + call.todo  BY <1>2, <1>6
    <3> QED BY <1>10, <1>11, <3>1 DEF f
  <2>3. Taking'
    <3>1. CASE dl = "header" /\ fp.fptr + call.todo = HdrLen
      BY <1>3, <2>2, <3>1 DEF Taking
    <3>2. CASE dl = "row" /\ fp.fptr + call.todo = RowEnd(rows + 1) /\ fp.fptr >= RowEnd(rows)
      <4>1. RowEnd(rows) \in Nat  BY RowSizes DEF Inv, RowsOK
      <4>2. fp'.fptr >= RowEnd(rows)  BY <1>2, <1>6, <1>10, <3>2, <4>1
      <4> QED BY <1>3, <2>2, <3>2, <4>2 DEF Taking
    <3> QED BY <1>1, <2>1, <3>1, <3>2 DEF Taking
  <2> QED BY <1>1, <1>3, <1>10, <1>11, <2>1, <2>3 DEF WriteOK, AllocPoints
<1>20. PlaceOK' /\ AllocOK'
  BY <1>1, OutsideAlloc DEF PlaceOK, GrowPoints, AllocPoints
<1>21. pc' \in WritePoints /\ fp'.objsize >= fp.objsize
  BY <1>1, <1>2, <1>6, <1>10 DEF WritePoints
<1> QED BY <1>1, <1>2, <1>10, <1>11, <1>17, <1>18, <1>19, <1>20, <1>21, WriteMove

(* The entries with a chain are those of one file, no longer than it is; a *)
(* sector holds the text of a file.                                        *)
OwnedBy(s, h, of, z) ==
  \A i \in CardSlot : EntryAt(s, i) /\ DirAt(s, i).sclust = h =>
    DirAt(s, i).name = of /\ DirAt(s, i).size <= z
HoldsText(data, q, of, z) ==
  \A p \in CardSlot : p \div SS = q \div SS /\ p < z => data[p % SS] = Expected(of, p)

(* The text of the open file goes to a sector of its own chain: the card   *)
(* stays sound.                                                            *)
LEMMA TextWrite ==
  ASSUME NEW d, Sound(d), NEW s, Sound(s), Behind(d, s),
         NEW h, IsHead(Links(s), h), NEW q \in CardSlot,
         NEW c \in Cluster, NEW k \in 0 .. CSIZE - 1, InSector(Chain(Links(s), h), q, c, k),
         NEW data \in [Slot -> PieceVal], NEW of, NEW z \in Nat,
         OwnedBy(s, h, of, z), HoldsText(data, q, of, z),
         NEW e, e = Put(d, DataSector(c, k), data)
  PROVE  /\ Sound(e) /\ SameFiles(d, e)
         /\ \A ch : \A i \in Nat :
              SlotOf(e, ch, i) = IF InSector(ch, i, c, k)
                                 THEN data[i % SS] ELSE SlotOf(d, ch, i)
<1>1. \A i \in CardSlot : EntryAt(s, i) /\ DirAt(s, i).sclust = h =>
        DirAt(s, i).name = of /\ DirAt(s, i).size <= z
  BY DEF OwnedBy
<1>2. \A p \in CardSlot : p \div SS = q \div SS /\ p < z => data[p % SS] = Expected(of, p)
  BY DEF HoldsText
<1> QED BY <1>1, <1>2, FileWrite

(***************************************************************************)
(* The sector in the file's buffer goes to the card, past the window.      *)
(***************************************************************************)
DataKept ==
  /\ fp'.sclust = fp.sclust /\ fp'.objsize = fp.objsize /\ fp'.fptr = fp.fptr
  /\ fp'.sect = fp.sect /\ fp'.buf = fp.buf
  /\ fp'.dir_sect = fp.dir_sect /\ fp'.dir = fp.dir /\ fp'.clust = fp.clust

(* The file's buffer goes to the card. *)
LEMMA DataStep ==
  ASSUME Types, CardOK, WindowOK, ~Stale, FileOK, IsOpen, fp.dirty,
         NEW ok \in BOOLEAN, DiskWrite(fp.sect, fp.buf, ok), win' = win,
         DataKept, fp'.dirty \/ ok, fname' = fname
  PROVE  /\ CardOK' /\ Behind(disk, disk') /\ WindowOK' /\ FileOK'
         /\ Links(Seen') = Links(Seen) /\ File' = File
<1> DEFINE h == fp.sclust
           q == Last
           c == File[Last \div CB]
           k == (Last \div SS) % CSIZE
           n == Links(Seen)
           z == fp.objsize
<1>1. /\ EntryOK /\ ChainOK /\ TextOK /\ Sound(Seen) /\ Sound(disk) /\ Behind(disk, Seen)
      /\ LinksOK(n) /\ n \in Maps /\ fp \in FileObjects /\ Image(Seen)
  BY DEF FileOK, CardOK, Sound, LinksOK, Types
<1>2. /\ fp.fptr > 0 /\ fp.fptr \in Nat /\ z = fp.fptr /\ z \in Nat /\ h # 0 /\ IsHead(n, h)
      /\ SectorIs(Last, fp.sect)
  BY <1>1 DEF ChainOK, FileObjects
<1>3. q \in CardSlot /\ q \in Nat /\ q + 1 = fp.fptr /\ Top(n, h) /\ h # dirbase
  BY <1>1, <1>2, FileEnd
<1>4. k \in 0 .. CSIZE - 1 /\ q \div CB \in 0 .. NCLST  BY <1>3, InRange
<1>5. c \in Cluster /\ fp.sect = DataSector(c, k) /\ InSector(Chain(n, h), q, c, k)
  BY <1>2 DEF SectorIs, InSector, File
<1>6. fp.buf \in [Slot -> PieceVal]  BY <1>1 DEF FileObjects
<1>7. \A i \in CardSlot : EntryAt(Seen, i) /\ DirAt(Seen, i).sclust = h =>
           DirAt(Seen, i).name = fname /\ DirAt(Seen, i).size <= z
  BY <1>1, <1>2 DEF EntryOK, TheEntry
<1>8. \A p \in CardSlot : p \div SS = q \div SS /\ p < z => fp.buf[p % SS] = Expected(fname, p)
  BY <1>1, <1>2 DEF TextOK
<1>9. ~Tracked(Seen, fp.sect)
  <2>1. ~InRoot(Seen, c)
    <3> SUFFICES ASSUME InRoot(Seen, c)  PROVE FALSE
      OBVIOUS
    <3>1. PICK j \in 0 .. NCLST : Chain(n, dirbase)[j] = c  BY DEF InRoot, Root
    <3>2. OneWay(n) /\ Top(n, dirbase)  BY <1>1 DEF LinksOK
    <3>3. Chain(n, h)[q \div CB] = c  BY <1>5 DEF InSector
    <3>4. h = dirbase
      <4> HIDE DEF n, h, c, q
      <4> QED BY <1>1, <1>3, <1>4, <1>5, <3>1, <3>2, <3>3, ChainsMeetNowhere
    <3> QED BY <1>3, <3>4
  <2>2. \A e \in Cluster : fp.sect # FatSector(e)  BY <1>5, SectorNames
  <2>3. \A e \in Cluster, l \in 0 .. CSIZE - 1 : fp.sect = DataSector(e, l) => e = c
    BY <1>5, SectorNames
  <2> QED BY <2>1, <2>2, <2>3 DEF Tracked
<1>10. win.wflag => win.sect # fp.sect  BY <1>9 DEF WindowOK
<1>11. disk' \in {disk, Put(disk, fp.sect, fp.buf)} /\ (ok => disk' = Put(disk, fp.sect, fp.buf))
  BY DEF DiskWrite, Put
<1>12. CASE disk' = Put(disk, fp.sect, fp.buf)
  <2>1. Seen' = Put(Seen, fp.sect, fp.buf)  BY <1>10, <1>12, Past
  <2>2. Behind(Seen, Seen) /\ Behind(disk, disk)  BY <1>1, BehindItself
  <2>3. Sound(disk') /\ SameFiles(disk, disk')
    <3>1. disk' = Put(disk, DataSector(c, k), fp.buf)  BY <1>5, <1>12
    <3>2. /\ Sound(disk) /\ Sound(Seen) /\ Behind(disk, Seen) /\ IsHead(Links(Seen), h)
          /\ q \in CardSlot /\ c \in Cluster /\ k \in 0 .. CSIZE - 1
          /\ InSector(Chain(Links(Seen), h), q, c, k)
          /\ fp.buf \in [Slot -> PieceVal] /\ z \in Nat
      BY <1>1, <1>2, <1>3, <1>4, <1>5, <1>6
    <3>3. OwnedBy(Seen, h, fname, z) /\ HoldsText(fp.buf, q, fname, z)
      BY <1>7, <1>8 DEF OwnedBy, HoldsText
    <3> HIDE DEF h, q, c, k, z
    <3> QED BY <3>1, <3>2, <3>3, TextWrite
  <2>4. /\ Sound(Seen') /\ SameFiles(Seen, Seen')
        /\ \A ch : \A i \in Nat :
              SlotOf(Seen', ch, i) = IF InSector(ch, i, c, k)
                                 THEN fp.buf[i % SS] ELSE SlotOf(Seen, ch, i)
    <3>1. Seen' = Put(Seen, DataSector(c, k), fp.buf)  BY <1>5, <2>1
    <3>2. /\ Sound(Seen) /\ Behind(Seen, Seen) /\ IsHead(Links(Seen), h)
          /\ q \in CardSlot /\ c \in Cluster /\ k \in 0 .. CSIZE - 1
          /\ InSector(Chain(Links(Seen), h), q, c, k)
          /\ fp.buf \in [Slot -> PieceVal] /\ z \in Nat
      BY <1>1, <1>2, <1>3, <1>4, <1>5, <1>6, <2>2
    <3>3. OwnedBy(Seen, h, fname, z) /\ HoldsText(fp.buf, q, fname, z)
      BY <1>7, <1>8 DEF OwnedBy, HoldsText
    <3> HIDE DEF h, q, c, k, z
    <3> QED BY <3>1, <3>2, <3>3, TextWrite
  <2>5. Behind(disk', Seen')  BY <1>1, <2>3, <2>4, BehindSame
  <2>6. Behind(disk, disk')
    <3>1. SameFiles(disk, disk)  BY DEF SameFiles
    <3> QED BY <2>2, <2>3, <3>1, BehindSame
  <2>7. CardOK'  BY <2>3, <2>4, <2>5 DEF CardOK
  <2>8. Links(Seen') = Links(Seen) /\ Root(Seen') = Root(Seen)
    BY <2>4 DEF SameFiles, Root
  <2>9. WindowOK'
    <3>1. DOMAIN Seen = Sector  BY <1>1 DEF Image
    <3> QED BY <1>9, <2>1, <2>8, <3>1, WindowPast
  <2>10. File' = File /\ Last' = Last  BY <2>8 DEF File, Last, DataKept
  <2>11. EntryOK'
    <3>1. \A j \in CardSlot : DirAt(Seen', j) = DirAt(Seen, j)
                              /\ (EntryAt(Seen', j) <=> EntryAt(Seen, j))
      BY <2>4 DEF SameFiles, EntryAt
    <3> QED BY <1>1, <2>8, <3>1 DEF EntryOK, TheEntry, DataKept
  <2>12. ChainOK'  BY <1>1, <1>2, <2>8, <2>10 DEF ChainOK, DataKept, SectorIs
  <2>13. TextOK'
    <3> SUFFICES ASSUME NEW p \in CardSlot, p < fp.fptr
                 PROVE  /\ p \div SS = Last \div SS => fp.buf[p % SS] = Expected(fname, p)
                        /\ ~(p \div SS = Last \div SS /\ fp'.dirty) =>
                             SlotOf(Seen', File, p) = Expected(fname, p)
      BY <2>10 DEF TextOK, DataKept
    <3>1. p \in Nat  BY InRange
    <3>2. InSector(File, p, c, k) <=> p \div SS = q \div SS
      <4>1. Top(n, dirbase)  BY <1>1 DEF LinksOK
      <4>2. InSector(Chain(n, h), p, c, k) <=> h = h /\ p \div SS = q \div SS
        <5> HIDE DEF n, h, c, k, q
        <5> QED BY <1>1, <1>3, <1>5, DataSectorOwner
      <4> QED BY <4>2 DEF File
    <3>3. SlotOf(Seen', File, p) = IF InSector(File, p, c, k)
                                   THEN fp.buf[p % SS] ELSE SlotOf(Seen, File, p)
      BY <2>4, <3>1
    <3>4. p \div SS = q \div SS => fp.buf[p % SS] = Expected(fname, p)  BY <1>2, <1>8
    <3>5. p \div SS # q \div SS => SlotOf(Seen, File, p) = Expected(fname, p)
      BY <1>1 DEF TextOK
    <3> QED BY <3>2, <3>3, <3>4, <3>5
  <2>14. FileOK'  BY <2>11, <2>12, <2>13 DEF FileOK
  <2> QED BY <2>6, <2>7, <2>8, <2>9, <2>10, <2>14
<1>13. CASE disk' = disk /\ ~ok
  <2>1. Seen' = Seen  BY <1>13, SameSeen
  <2>2. CardOK' /\ Behind(disk, disk')  BY <1>13, <2>1, CardFrame
  <2>3. WindowOK'  BY <2>1, WindowFrame
  <2>4. File' = File /\ Last' = Last  BY <2>1 DEF File, Last, DataKept
  <2>5. EntryOK'  BY <1>1, <2>1 DEF EntryOK, TheEntry, DataKept
  <2>6. ChainOK'  BY <1>1, <1>2, <2>1, <2>4 DEF ChainOK, DataKept, SectorIs
  <2>7. TextOK'
    <3>1. fp'.dirty  BY <1>13
    <3> QED BY <1>1, <2>1, <2>4, <3>1 DEF TextOK, DataKept
  <2> QED BY <2>1, <2>2, <2>3, <2>4, <2>5, <2>6, <2>7 DEF FileOK
<1> QED BY <1>11, <1>12, <1>13

(* f_write() writes a full sector back. *)
LEMMA WriteBackStep ==
  ASSUME Inv, WriteBack, UNCHANGED logVars  PROVE Inv' /\ Behind(disk, disk')
<1>1. /\ pc = "place" /\ fp.dirty /\ UNCHANGED << win, vol, dp, cc, call >>
  BY DEF WriteBack
<1>2. PICK ok \in BOOLEAN :
        /\ DiskWrite(fp.sect, fp.buf, ok)
        /\ IF ok THEN fp' = [fp EXCEPT !.dirty = FALSE] /\ UNCHANGED << pc, res >>
           ELSE Abort("DISK_ERR")
  BY DEF WriteBack
<1>3. /\ dl \in {"header", "row"} /\ IsOpen /\ FileOK /\ EndOK /\ WriteOK /\ PlaceOK /\ CardOK
      /\ fp \in FileObjects /\ cc \in Locals /\ call \in Calls /\ res \in Results
      /\ fp.objsize = fp.fptr /\ fp.fptr \in Nat /\ call.op = "write" /\ Types
      /\ WindowOK /\ VolumeOK
  <2>1. dl # "open"  BY <1>1, Where DEF Inv
  <2>2. WindowOK /\ VolumeOK  BY DEF Inv
  <2> QED BY <1>1, <2>1, <2>2, WriteFacts
<1>4. dl' = dl /\ fname' = fname /\ rows' = rows  BY DEF logVars
<1>5. ~Stale  BY <1>1, <1>3 DEF Stale
<1>6. /\ fp' = IF ok THEN [fp EXCEPT !.dirty = FALSE] ELSE [fp EXCEPT !.err = "DISK_ERR"]
      /\ pc' = IF ok THEN "place" ELSE "idle"
      /\ res' \in Results /\ (~ok => res' = "DISK_ERR")
  <2>1. CASE ok  BY <1>1, <1>2, <1>3, <2>1
  <2>2. CASE ~ok  BY <1>2, <1>3, <2>2 DEF Abort, Return, Results
  <2> QED BY <2>1, <2>2
<1>7. /\ DataKept /\ fp' \in FileObjects
      /\ fp'.err = IF ok THEN fp.err ELSE "DISK_ERR"
      /\ fp'.dirty = ~ok
  BY <1>1, <1>3, <1>6 DEF DataKept, FileObjects
<1>8. /\ CardOK' /\ Behind(disk, disk') /\ WindowOK' /\ FileOK'
      /\ Links(Seen') = Links(Seen) /\ File' = File
  BY <1>1, <1>2, <1>3, <1>4, <1>5, <1>7, DataStep
<1>9. VolumeOK'  BY <1>1, <1>3, <1>6, <1>8, VolumeFrame
<1>10. Types'
  <2>1. UNCHANGED << win, vol, dp, cc, call >> /\ pc' \in Points  BY <1>1, <1>6 DEF Points
  <2> QED BY <1>3, <1>4, <1>6, <1>7, <2>1 DEF Types, Results
<1>11. AllocOK'  BY <1>6, OutsideAlloc DEF GrowPoints, AllocPoints
<1>12. /\ call.todo > 0 /\ fp.sclust # 0 /\ fp.fptr \in CardSlot
       /\ fp.clust \in Cluster /\ fp.clust = File[fp.fptr \div CB]
       /\ Links(Seen)[fp.clust] = EOC /\ AtSector
  BY <1>1, <1>3 DEF PlaceOK
<1>13. PlaceOK'
  <2>1. CASE ok
    <3>1. AtSector'  BY <1>7, <1>12 DEF AtSector, DataKept
    <3> QED BY <1>1, <1>6, <1>7, <1>8, <1>12, <2>1, <3>1 DEF PlaceOK, DataKept
  <2>2. CASE ~ok  BY <1>6, <2>2 DEF PlaceOK
  <2> QED BY <2>1, <2>2
<1>14. EndOK'
  <2>1. CASE ok  BY <1>6, <2>1 DEF EndOK
  <2>2. CASE ~ok
    <3>1. fp.fptr > 0  BY <1>1, <1>3 DEF FileOK, ChainOK
    <3>2. fp'.err # "OK" /\ fp'.fptr # 0  BY <1>3, <1>7, <2>2, <3>1 DEF DataKept
    <3> QED BY <1>3, <1>4, <3>2 DEF EndOK
  <2> QED BY <2>1, <2>2
<1>15. WriteOK'
  <2>1. call.item = Piece(fname, IF dl = "header" THEN 0 ELSE rows + 1)
        /\ fp.err = "OK" /\ Taking
    BY <1>1, <1>3 DEF WriteOK
  <2>2. CASE ok
    <3>1. Taking'  BY <1>1, <1>4, <1>6, <1>7, <2>1, <2>2 DEF Taking, DataKept
    <3> QED BY <1>1, <1>4, <1>6, <1>7, <2>1, <2>2, <3>1 DEF WriteOK, AllocPoints
  <2>3. CASE ~ok
    <3>1. fp'.err # "OK" /\ pc' = "idle" /\ res' = "DISK_ERR"  BY <1>6, <1>7, <2>3
    <3> QED BY <1>1, <1>4, <2>1, <3>1 DEF WriteOK, AllocPoints
  <2> QED BY <2>2, <2>3
<1>16. pc' \in WritePoints \cup {"idle"} /\ fp'.objsize >= fp.objsize
  BY <1>3, <1>6, <1>7 DEF WritePoints, DataKept
<1> QED BY <1>1, <1>3, <1>8, <1>9, <1>10, <1>11, <1>13, <1>14, <1>15, <1>16, WriteStep

(***************************************************************************)
(* f_sync() and f_close().                                                 *)
(***************************************************************************)
LEMMA SyncStep ==
  ASSUME Inv, pc \in SyncPoints, UNCHANGED logVars, Types', CardOK', Behind(disk, disk'),
         WindowOK', VolumeOK', FileOK', SyncOK', Links(Seen') = Links(Seen),
         call' = call, pc' \in SyncPoints \cup {"idle"},
         fp'.sclust = fp.sclust, fp'.objsize = fp.objsize, fp'.fptr = fp.fptr,
         fp'.clust = fp.clust, fp'.err = fp.err
  PROVE  Inv'
<1>1. Types /\ Control /\ RowsOK /\ LossOK /\ CardOK /\ EndOK  BY DEF Inv
<1>2. dl' = dl /\ fname' = fname /\ rows' = rows  BY DEF logVars
<1>3. dl \in {"hsync", "rsync", "hclose"} /\ call.op \in {"sync", "close"}  BY <1>1, Where
<1>4. Control'  BY <1>1, <1>2, <1>3 DEF Control, SyncPoints
<1>5. ScanOK' /\ GrowOK' /\ AllocOK'
  BY <1>2, <1>3, OutsideScan, OutsideGrow, OutsideAlloc
  DEF ScanPoints, SyncPoints, GrowPoints, AllocPoints
<1>6. EndOK'
  <2>1. IsOpen /\ pc \notin {"place", "fill", "found", "got"}  BY <1>3 DEF IsOpen, SyncPoints
  <2>2. /\ fp.fptr = 0 => fp.sclust = 0
        /\ fp.err = "OK" =>
             /\ fp.clust = IF fp.fptr = 0 THEN 0 ELSE File[Last \div CB]
             /\ fp.clust # 0 => Links(Seen)[fp.clust] = EOC
    BY <1>1, <2>1 DEF EndOK
  <2>3. File' = File /\ Last' = Last  BY DEF File, Last
  <2>4. dl' # "open"  BY <1>2, <1>3
  <2> QED BY <2>2, <2>3, <2>4 DEF EndOK
<1>7. WriteOK' /\ PlaceOK'  BY <1>2, <1>3 DEF WriteOK, PlaceOK, SyncPoints
<1>8. RowsOK'  BY <1>1, RowsFrame DEF RowsOK
<1>9. LossOK'  BY <1>1, LossFrame
<1> QED BY <1>4, <1>5, <1>6, <1>7, <1>8, <1>9 DEF Inv

(* What holds in f_sync() *)
LEMMA SyncFacts ==
  ASSUME Inv, pc \in SyncPoints
  PROVE  /\ dl \in {"hsync", "rsync", "hclose"} /\ IsOpen /\ ~Stale
         /\ Types /\ CardOK /\ WindowOK /\ VolumeOK /\ FileOK /\ SyncOK
         /\ EntryOK /\ ChainOK /\ TextOK
         /\ win \in Windows /\ fp \in FileObjects /\ call \in Calls /\ res \in Results
<1>1. Types /\ CardOK /\ WindowOK /\ VolumeOK /\ FileOK /\ SyncOK /\ Control  BY DEF Inv
<1>2. dl \in {"hsync", "rsync", "hclose"}  BY <1>1, Where
<1>3. IsOpen  BY <1>2 DEF IsOpen
<1>4. ~Stale  BY <1>2 DEF Stale, SyncPoints
<1> QED BY <1>1, <1>2, <1>3, <1>4 DEF FileOK, Types, Calls, Results

(* f_sync() of an unmodified file *)
LEMMA SyncNothingStep ==
  ASSUME Inv, SyncNothing, UNCHANGED logVars  PROVE Inv'
<1>1. /\ pc = "sync" /\ ~fp.modified /\ pc' = "idle" /\ res' = "OK"
      /\ UNCHANGED << disk, win, vol, fp, dp, cc, call, faults >> /\ pc \in SyncPoints
  BY DEF SyncNothing, Return, OnlyPc, SyncPoints
<1>2. /\ dl \in {"hsync", "rsync", "hclose"} /\ IsOpen /\ ~Stale
      /\ Types /\ CardOK /\ WindowOK /\ VolumeOK /\ FileOK /\ SyncOK
  BY <1>1, SyncFacts
<1>3. dl' = dl /\ fname' = fname  BY DEF logVars
<1>4. Seen' = Seen  BY <1>1, SameSeen
<1>5. CardOK' /\ Behind(disk, disk')  BY <1>1, <1>2, <1>4, CardFrame
<1>6. WindowOK'  BY <1>1, <1>2, <1>4, WindowFrame
<1>7. VolumeOK'  BY <1>1, <1>2, <1>4, VolumeFrame
<1>8. FileOK'  BY <1>1, <1>2, <1>3, <1>4, FileFrame DEF FileKept
<1>9. SyncOK'  BY <1>1, <1>2, <1>3 DEF SyncOK
<1>10. Types'  BY <1>1, <1>2, <1>3 DEF Types, Points
<1> QED BY <1>1, <1>4, <1>5, <1>6, <1>7, <1>8, <1>9, <1>10, SyncStep

(* f_sync() writes the data, *)
LEMMA SyncDataStep ==
  ASSUME Inv, SyncData, UNCHANGED logVars  PROVE Inv' /\ Behind(disk, disk')
<1>1. /\ pc = "sync" /\ UNCHANGED << win, vol, dp, cc, call >> /\ pc \in SyncPoints
  BY DEF SyncData, SyncPoints
<1>2. /\ dl \in {"hsync", "rsync", "hclose"} /\ IsOpen /\ ~Stale
      /\ Types /\ CardOK /\ WindowOK /\ VolumeOK /\ FileOK /\ SyncOK
      /\ fp \in FileObjects
  BY <1>1, SyncFacts
<1>3. dl' = dl /\ fname' = fname  BY DEF logVars
<1>4. CASE ~fp.dirty
  <2>1. pc' = "entry" /\ res' = res /\ UNCHANGED << disk, fp, faults >>
    BY <1>4 DEF SyncData, Goto
  <2>2. Seen' = Seen  BY <1>1, <2>1, SameSeen
  <2>3. CardOK' /\ Behind(disk, disk')  BY <1>2, <2>1, <2>2, CardFrame
  <2>4. WindowOK'  BY <1>1, <1>2, <2>2, WindowFrame
  <2>5. VolumeOK'  BY <1>1, <1>2, <2>1, <2>2, VolumeFrame
  <2>6. FileOK'  BY <1>2, <1>3, <2>1, <2>2, FileFrame DEF FileKept
  <2>7. SyncOK'  BY <1>4, <2>1 DEF SyncOK
  <2>8. Types'  BY <1>1, <1>2, <1>3, <2>1 DEF Types, Points
  <2> QED BY <1>1, <2>1, <2>2, <2>3, <2>4, <2>5, <2>6, <2>7, <2>8, SyncStep DEF SyncPoints
<1>5. CASE fp.dirty
  <2>1. PICK ok \in BOOLEAN :
          /\ DiskWrite(fp.sect, fp.buf, ok)
          /\ fp' = [fp EXCEPT !.dirty = ~ok]
          /\ IF ok THEN Goto("entry") ELSE Return("DISK_ERR")
    BY <1>5 DEF SyncData
  <2>2. /\ pc' = IF ok THEN "entry" ELSE "idle"
        /\ res' = IF ok THEN res ELSE "DISK_ERR"
    BY <2>1 DEF Goto, Return
  <2>3. /\ DataKept /\ fp' \in FileObjects /\ fp'.err = fp.err /\ fp'.dirty = ~ok
    BY <1>2, <2>1 DEF DataKept, FileObjects
  <2>4. /\ CardOK' /\ Behind(disk, disk') /\ WindowOK' /\ FileOK'
        /\ Links(Seen') = Links(Seen)
    BY <1>1, <1>2, <1>3, <1>5, <2>1, <2>3, DataStep
  <2>5. VolumeOK'  BY <1>1, <1>2, <2>2, <2>4, VolumeFrame
  <2>6. SyncOK'  BY <2>2, <2>3 DEF SyncOK
  <2>7. Types'
    <3>1. pc' \in Points  BY <2>2 DEF Points
    <3>2. res' \in {"OK", "NO_FILE", "EXIST", "DISK_ERR", "DENIED"}  BY <1>2, <2>2 DEF Types
    <3> QED BY <1>1, <1>2, <1>3, <2>3, <3>1, <3>2 DEF Types
  <2> QED BY <1>1, <2>2, <2>3, <2>4, <2>5, <2>6, <2>7, SyncStep DEF SyncPoints, DataKept
<1> QED BY <1>4, <1>5

(* then the directory entry, in the window, *)
LEMMA SyncEntryStep ==
  ASSUME Inv, SyncEntry, UNCHANGED logVars  PROVE Inv'
<1>1. /\ pc = "entry" /\ win.sect = Want /\ pc' = "sync_fs" /\ res' = res
      /\ win' = [win EXCEPT !.wflag = TRUE, !.data[fp.dir].sclust = fp.sclust,
                            !.data[fp.dir].size = fp.objsize]
      /\ UNCHANGED << disk, vol, fp, dp, cc, call, faults >> /\ pc \in SyncPoints
  BY DEF SyncEntry, At, Goto, SyncPoints
<1>2. /\ dl \in {"hsync", "rsync", "hclose"} /\ IsOpen /\ ~Stale
      /\ Types /\ CardOK /\ WindowOK /\ VolumeOK /\ FileOK /\ SyncOK
      /\ EntryOK /\ ChainOK /\ TextOK /\ win \in Windows /\ fp \in FileObjects
      /\ Sound(Seen) /\ ~fp.dirty
  <2>1. SyncOK  BY <1>1, SyncFacts
  <2> QED BY <1>1, <2>1, SyncFacts DEF CardOK, SyncOK
<1>3. dl' = dl /\ fname' = fname  BY DEF logVars
<1> DEFINE x == fp.sclust
           z == fp.objsize
           v == [name |-> fname, sclust |-> x, size |-> z]
<1>4. PICK i \in CardSlot :
        /\ TheEntry(Seen, i) /\ fp.dir = i % SS
        /\ fp.dir_sect = DataSector(Root(Seen)[i \div CB], (i \div SS) % CSIZE)
        /\ DirAt(Seen, i).sclust \in {0, x} /\ DirAt(Seen, i).size <= z
        /\ \A j \in CardSlot : EntryAt(Seen, j) /\ j # i /\ x # 0 => DirAt(Seen, j).sclust # x
  BY <1>2 DEF EntryOK
<1> DEFINE c == Root(Seen)[i \div CB]
           k == (i \div SS) % CSIZE
<1>5. /\ EntryAt(Seen, i) /\ DirAt(Seen, i).name = fname /\ DirAt(Seen, i) \in DirVal
      /\ c \in Cluster
  BY <1>2, <1>4, EntryType DEF TheEntry, Sound
<1>6. win.sect = DataSector(c, k)  BY <1>1, <1>4 DEF Want
<1>7. /\ win.data[i % SS] = DirAt(Seen, i) /\ win.data = Seen[DataSector(c, k)]
      /\ win.data \in [Slot -> SlotVal] /\ Tracked(Seen, win.sect)
      /\ InSector(Root(Seen), i, c, k) /\ k \in 0 .. CSIZE - 1 /\ i % SS \in Slot
  BY <1>2, <1>5, <1>6, ReadDir
<1>8. /\ x \in Cluster \cup {0} /\ z \in 0 .. NCLST * CB /\ z = fp.fptr
      /\ x # 0 => IsHead(Links(Seen), x)
  BY <1>2, Sizes DEF FileObjects, ChainOK
<1>9. v \in SlotVal
  <2>1. fname \in 0 .. MaxName  BY <1>2 DEF Types
  <2> QED BY <1>8, <2>1 DEF SlotVal, DirVal
<1>10. Holds(Seen, x, fname, z)
  <2>1. SUFFICES ASSUME NEW p \in 0 .. z - 1
                 PROVE  SlotOf(Seen, Chain(Links(Seen), x), p) = Expected(fname, p)
    BY DEF Holds
  <2>2. p \in CardSlot /\ p < fp.fptr  BY <1>8, Sizes
  <2> QED BY <1>2, <2>2 DEF TextOK, File
<1>11. /\ win'.sect = win.sect /\ win'.wflag = TRUE
       /\ win'.data = [win.data EXCEPT ![i % SS] = v]
  <2>1. DirAt(Seen, i) = [name |-> fname, sclust |-> DirAt(Seen, i).sclust,
                          size |-> DirAt(Seen, i).size]
    BY <1>5 DEF DirVal
  <2>2. win.data = [s \in Slot |-> win.data[s]]  BY <1>7
  <2>3. win'.sect = win.sect /\ win'.wflag = TRUE
        /\ win'.data = [[win.data EXCEPT ![i % SS].sclust = x] EXCEPT ![i % SS].size = z]
    BY <1>1, <1>2, <1>4 DEF Windows
  <2>4. [[win.data EXCEPT ![i % SS].sclust = x] EXCEPT ![i % SS].size = z]
          = [win.data EXCEPT ![i % SS] = v]
    <3>1. [[win.data[i % SS] EXCEPT !.sclust = x] EXCEPT !.size = z] = v
      <4> DEFINE y == DirAt(Seen, i).sclust
                 w == DirAt(Seen, i).size
      <4>1. win.data[i % SS] = [name |-> fname, sclust |-> y, size |-> w]  BY <1>7, <2>1
      <4> HIDE DEF x, y, z, w
      <4>2. [win.data[i % SS] EXCEPT !.sclust = x] = [name |-> fname, sclust |-> x, size |-> w]
        BY <4>1
      <4>3. [[name |-> fname, sclust |-> x, size |-> w] EXCEPT !.size = z] = v
        OBVIOUS
      <4> HIDE DEF v
      <4> QED BY <4>2, <4>3
    <3> HIDE DEF v, x, z
    <3> QED BY <1>7, <2>2, <3>1
  <2> QED BY <2>3, <2>4
<1>12. /\ win'.data \in [Slot -> SlotVal]
       /\ \A s \in Slot : win'.data[s] = IF s = i % SS THEN v ELSE Seen[DataSector(c, k)][s]
  <2> HIDE DEF v
  <2> QED BY <1>7, <1>9, <1>11
<1>13. Seen' = Put(Seen, DataSector(c, k), win'.data)
  BY <1>1, <1>6, <1>11, Dirtied
<1>14. /\ Sound(Seen') /\ Behind(Seen, Seen') /\ Links(Seen') = Links(Seen)
       /\ Root(Seen') = Root(Seen)
       /\ \A j \in CardSlot : DirAt(Seen', j) = IF j = i THEN v ELSE DirAt(Seen, j)
  <2>1. v = [name |-> DirAt(Seen, i).name, sclust |-> x, size |-> z]  BY <1>5
  <2>2. Holds(Seen, x, DirAt(Seen, i).name, z)  BY <1>5, <1>10
  <2> HIDE DEF c, k, v, x, z
  <2> QED BY <1>2, <1>4, <1>5, <1>7, <1>8, <1>12, <1>13, <2>1, <2>2, Updating
<1>15. CardOK' /\ Behind(disk, disk')
  <2>1. Behind(disk, Seen')  BY <1>2, <1>14, BehindMore DEF CardOK
  <2> QED BY <1>1, <1>2, <1>14, <2>1, BehindItself DEF CardOK
<1>16. WindowOK'
  <2>1. Tracked(Seen', win.sect)  BY <1>7, <1>14 DEF Tracked, InRoot
  <2>2. DOMAIN Seen = Sector  BY <1>2 DEF Sound, Image
  <2> QED BY <1>6, <1>11, <1>13, <2>1, <2>2, WindowPut
<1>17. Types'
  <2>1. win' \in Windows
    <3>1. win'.data \in [Slot -> FatVal \cup SlotVal]  BY <1>12
    <3>2. win' = [win EXCEPT !.wflag = TRUE, !.data = win'.data]
      BY <1>1, <1>2, <1>11 DEF Windows
    <3> QED BY <1>2, <3>1, <3>2, WindowRecord
  <2> QED BY <1>1, <1>2, <1>3, <2>1 DEF Types, Points
<1>18. VolumeOK'  BY <1>1, <1>2, <1>14, VolumeFrame
<1>19. TheEntry(Seen', i) /\ DirAt(Seen', i) = v
  <2>1. DirAt(Seen', i) = v  BY <1>14
  <2>2. IsEntry(v)
    <3>1. IsEntry(DirAt(Seen, i))  BY <1>5 DEF EntryAt
    <3> QED BY <1>5, <3>1 DEF IsEntry
  <2> QED BY <2>1, <2>2 DEF TheEntry, EntryAt
<1>20. EntryOK'
  <2>1. \A j \in CardSlot : EntryAt(Seen', j) /\ j # i /\ x # 0 => DirAt(Seen', j).sclust # x
    BY <1>4, <1>14 DEF EntryAt
  <2>2. DirAt(Seen', i).sclust = x /\ DirAt(Seen', i).size = z  BY <1>19
  <2>3. DirAt(Seen', i).size <= z  BY <1>8, <2>2
  <2>4. fp.dir_sect = DataSector(Root(Seen')[i \div CB], (i \div SS) % CSIZE)  BY <1>4, <1>14
  <2>5. TheEntry(Seen, i)'  BY <1>3, <1>19 DEF TheEntry
  <2> QED BY <1>1, <1>4, <2>1, <2>2, <2>3, <2>4, <2>5 DEF EntryOK
<1>21. ChainOK'
  BY <1>1, <1>2, <1>14 DEF ChainOK, File, Last, SectorIs
<1>22. TextOK'
  <2>1. Holds(Seen', x, fname, z)
    <3>1. EntryAt(Seen', i) /\ DirAt(Seen', i).name = fname /\ DirAt(Seen', i).sclust = x
          /\ DirAt(Seen', i).size = z
      BY <1>19 DEF TheEntry
    <3> QED BY <1>14, <3>1 DEF Sound, FilesOK
  <2>2. SUFFICES ASSUME NEW p \in CardSlot, p < fp.fptr
                 PROVE  /\ p \div SS = Last \div SS => fp.buf[p % SS] = Expected(fname, p)
                        /\ SlotOf(Seen', Chain(Links(Seen'), x), p) = Expected(fname, p)
    BY <1>1, <1>3 DEF TextOK, File, Last
  <2>3. p \in 0 .. z - 1
    <3>1. p \in Nat /\ z \in Nat /\ p < z  BY <1>8, <2>2, InRange, Sizes
    <3> QED BY <3>1
  <2> QED BY <1>2, <2>1, <2>2, <2>3 DEF TextOK, Holds
<1>23. FileOK'  BY <1>20, <1>21, <1>22 DEF FileOK
<1>24. SyncOK'
  <2>1. TheEntry(Seen, i)' /\ DirAt(Seen', i).size = fp'.objsize
    BY <1>1, <1>3, <1>19 DEF TheEntry
  <2> QED BY <1>1, <1>2, <1>11, <2>1 DEF SyncOK
<1> QED BY <1>1, <1>14, <1>15, <1>16, <1>17, <1>18, <1>23, <1>24, SyncStep DEF SyncPoints

(* then the window, *)
LEMMA SyncFsStep ==
  ASSUME Inv, SyncFs, UNCHANGED logVars  PROVE Inv'
<1>1. /\ pc = "sync_fs" /\ UNCHANGED << vol, dp, cc, call >> /\ pc \in SyncPoints
      /\ fp' = [fp EXCEPT !.modified = FALSE]
  BY DEF SyncFs, SyncPoints
<1>2. PICK ok \in BOOLEAN :
        /\ DiskWrite(win.sect, win.data, ok)
        /\ win' = [win EXCEPT !.wflag = ~ok]
        /\ IF ~ok THEN Return("DISK_ERR")
           ELSE IF vol.fsi = "changed" THEN Goto("sync_info") ELSE Return("OK")
  BY DEF SyncFs
<1>3. /\ dl \in {"hsync", "rsync", "hclose"} /\ IsOpen /\ ~Stale
      /\ Types /\ CardOK /\ WindowOK /\ VolumeOK /\ FileOK /\ SyncOK
      /\ win \in Windows /\ fp \in FileObjects /\ res \in Results
  BY <1>1, SyncFacts
<1>4. dl' = dl /\ fname' = fname  BY DEF logVars
<1>5. /\ pc' \in {"sync_info", "idle"} /\ res' \in Results
      /\ ~ok => pc' = "idle" /\ res' = "DISK_ERR"
  BY <1>2, <1>3 DEF Goto, Return, Results
<1>6. /\ win'.sect = win.sect /\ win'.data = win.data /\ win'.wflag = ~ok /\ win' \in Windows
  BY <1>2, <1>3 DEF Windows
<1>7. /\ ~fp.dirty /\ win.wflag
      /\ \E i \in CardSlot : TheEntry(Seen, i) /\ DirAt(Seen, i).size = fp.objsize
  BY <1>1, <1>3 DEF SyncOK
<1>8. /\ Seen' = Seen /\ disk' \in {disk, Seen} /\ (ok => disk' = Seen)
      /\ CardOK' /\ Behind(disk, disk')
  BY <1>2, <1>3, <1>6, <1>7, Flushed
<1>9. WindowOK'  BY <1>3, <1>6, <1>7, <1>8, WindowFrame
<1>10. /\ FileKept /\ fp' \in FileObjects /\ fp'.clust = fp.clust /\ fp'.err = fp.err
       /\ fp'.dirty = fp.dirty
  BY <1>1, <1>3 DEF FileKept, FileObjects
<1>11. VolumeOK'  BY <1>1, <1>3, <1>5, <1>8, VolumeFrame
<1>12. FileOK'  BY <1>3, <1>4, <1>8, <1>10, FileFrame
<1>13. SyncOK'
  <2>1. pc' = "sync_info" => ~win'.wflag  BY <1>5, <1>6
  <2>2. ok => \E i \in CardSlot : TheEntry(disk, i)' /\ DirAt(disk', i).size = fp'.objsize
    BY <1>4, <1>7, <1>8, <1>10 DEF TheEntry, FileKept
  <2>3. pc' = "sync_info" \/ (pc' = "idle" /\ res' = "OK") => ok  BY <1>5
  <2>4. pc' \notin {"sync", "entry", "sync_fs"}  BY <1>5
  <2> QED BY <1>7, <1>10, <2>1, <2>2, <2>3, <2>4 DEF SyncOK
<1>14. Types'
  <2>1. pc' \in Points  BY <1>5 DEF Points
  <2> QED BY <1>1, <1>3, <1>4, <1>5, <1>6, <1>10, <2>1 DEF Types, Results
<1> QED BY <1>1, <1>5, <1>8, <1>9, <1>10, <1>11, <1>12, <1>13, <1>14, SyncStep
        DEF SyncPoints, FileKept

(* and FSInfo, past the window. *)
LEMMA SyncInfoStep ==
  ASSUME Inv, SyncInfo, UNCHANGED logVars  PROVE Inv' /\ Behind(disk, disk')
<1> DEFINE info == [free |-> vol.free_clst, next |-> vol.last_clst]
<1>1. /\ pc = "sync_info" /\ pc' = "idle" /\ res' = "OK" /\ UNCHANGED << fp, dp, cc, call >>
      /\ vol' = [vol EXCEPT !.fsi = "clean"] /\ win' = [win EXCEPT !.sect = InfoSector]
      /\ pc \in SyncPoints
  BY DEF SyncInfo, Return, SyncPoints
<1>2. disk' \in {disk, Put(disk, InfoSector, info)}  BY DEF SyncInfo, DiskWrite, Put
<1>3. /\ dl \in {"hsync", "rsync", "hclose"} /\ IsOpen
      /\ Types /\ CardOK /\ VolumeOK /\ FileOK /\ SyncOK
      /\ EntryOK /\ ChainOK /\ TextOK /\ win \in Windows /\ Sound(disk)
  BY <1>1, SyncFacts DEF CardOK
<1>4. dl' = dl /\ fname' = fname  BY DEF logVars
<1>5. ~win.wflag /\ ~fp.dirty  BY <1>1, <1>3 DEF SyncOK
<1>6. win'.sect = InfoSector /\ ~win'.wflag /\ win' \in Windows
  <2>1. InfoSector \in Sector  BY SectorNames
  <2> QED BY <1>1, <1>3, <1>5, <2>1 DEF Windows
<1>7. Seen = disk /\ Seen' = disk'  BY <1>5, <1>6 DEF Seen
<1>8. info \in InfoVal  BY <1>3 DEF Types, InfoVal
<1>9. Cardinality(FreeSet(Links(disk))) <= vol.free_clst
  <2>1. Cardinality(FreeSet(Links(disk))) \in Nat
    BY <1>3, FreeCount DEF Sound, LinksOK
  <2>2. Cardinality(FreeSet(Links(disk))) + 0 <= vol.free_clst
    BY <1>1, <1>3, <1>7 DEF VolumeOK
  <2> QED BY <2>1, <2>2
<1>10. /\ Sound(disk') /\ Links(disk') = Links(disk) /\ Root(disk') = Root(disk)
       /\ \A j \in CardSlot : DirAt(disk', j) = DirAt(disk, j)
       /\ \A ch : \A p \in Nat : SlotOf(disk', ch, p) = SlotOf(disk, ch, p)
  <2>1. CASE disk' = disk  BY <1>3, <2>1
  <2>2. CASE disk' = Put(disk, InfoSector, info)
    <3>1. Cardinality(FreeSet(Links(disk))) <= info.free  BY <1>9
    <3> HIDE DEF info
    <3> QED BY <1>3, <1>8, <2>2, <3>1, InfoEdit
  <2> QED BY <1>2, <2>1, <2>2
<1>11. CardOK' /\ Behind(disk, disk')
  <2>1. SameFiles(disk, disk') /\ SameFiles(disk, disk)  BY <1>10 DEF SameFiles
  <2>2. Behind(disk, disk)  BY <1>3, BehindItself
  <2>3. Behind(disk, disk')  BY <2>1, <2>2, BehindSame
  <2> QED BY <1>7, <1>10, <2>3, BehindItself DEF CardOK
<1>12. WindowOK'
  <2>1. ~Tracked(Seen', InfoSector)  BY TrackedSectors
  <2> QED BY <1>6, <2>1 DEF WindowOK
<1>13. \A j \in CardSlot : (EntryAt(disk', j) <=> EntryAt(disk, j))
                           /\ (TheEntry(disk, j)' <=> TheEntry(disk, j))
  BY <1>4, <1>10 DEF EntryAt, TheEntry
<1>14. File' = File /\ Last' = Last  BY <1>1, <1>7, <1>10 DEF File, Last
<1>15. FileOK'
  <2>1. EntryOK'
    <3>1. PICK i \in CardSlot :
            /\ TheEntry(disk, i) /\ fp.dir = i % SS
            /\ fp.dir_sect = DataSector(Root(disk)[i \div CB], (i \div SS) % CSIZE)
            /\ DirAt(disk, i).sclust \in {0, fp.sclust} /\ DirAt(disk, i).size <= fp.objsize
            /\ \A j \in CardSlot : EntryAt(disk, j) /\ j # i /\ fp.sclust # 0 =>
                 DirAt(disk, j).sclust # fp.sclust
      BY <1>3, <1>7 DEF EntryOK
    <3>2. TheEntry(disk, i)' /\ DirAt(disk', i) = DirAt(disk, i)  BY <1>10, <1>13, <3>1
    <3>3. TheEntry(Seen, i)'  BY <1>7, <3>2 DEF TheEntry
    <3>4. \A j \in CardSlot : EntryAt(disk', j) /\ j # i /\ fp.sclust # 0 =>
            DirAt(disk', j).sclust # fp.sclust
      BY <1>10, <1>13, <3>1
    <3> QED BY <1>1, <1>7, <1>10, <3>1, <3>2, <3>3, <3>4 DEF EntryOK
  <2>2. ChainOK'  BY <1>1, <1>3, <1>7, <1>10, <1>14 DEF ChainOK, SectorIs
  <2>3. TextOK'
    <3> SUFFICES ASSUME NEW p \in CardSlot, p < fp.fptr
                 PROVE  /\ p \div SS = Last \div SS => fp.buf[p % SS] = Expected(fname, p)
                        /\ ~(p \div SS = Last \div SS /\ fp.dirty) =>
                             SlotOf(Seen', File, p) = Expected(fname, p)
      BY <1>1, <1>4, <1>14 DEF TextOK
    <3>1. SlotOf(disk', File, p) = SlotOf(disk, File, p)  BY <1>10, InRange
    <3> QED BY <1>3, <1>7, <3>1 DEF TextOK
  <2> QED BY <2>1, <2>2, <2>3 DEF FileOK
<1>16. SyncOK'
  <2>1. dl = "rsync" =>
          \E i \in CardSlot : TheEntry(disk, i) /\ DirAt(disk, i).size = fp.objsize
    BY <1>1, <1>3 DEF SyncOK
  <2>2. dl = "rsync" =>
          \E i \in CardSlot : TheEntry(disk, i)' /\ DirAt(disk', i).size = fp'.objsize
    BY <1>1, <1>10, <1>13, <2>1
  <2> QED BY <1>1, <1>4, <2>2 DEF SyncOK
<1>17. VolumeOK'
  <2>1. vol'.free_clst = vol.free_clst  BY <1>1, <1>3 DEF Types
  <2>2. Cardinality(FreeSet(Links(disk))) \in Nat
    BY <1>3, FreeCount DEF Sound, LinksOK
  <2> QED BY <1>1, <1>7, <1>9, <1>10, <2>1, <2>2 DEF VolumeOK
<1>18. Types'
  <2>1. pc' \in Points /\ res' = "OK"  BY <1>1 DEF Points
  <2> QED BY <1>1, <1>3, <1>4, <1>6, <2>1 DEF Types
<1> QED BY <1>1, <1>7, <1>10, <1>11, <1>12, <1>15, <1>16, <1>17, <1>18, SyncStep

(***************************************************************************)
(* f_mount().                                                              *)
(***************************************************************************)
LEMMA MountStep ==
  ASSUME Inv, pc \in {"mount", "fsinfo"}, UNCHANGED logVars, disk' = disk, ~win'.wflag,
         win' \in Windows, WindowOK',
         vol' \in [last_clst : 0 .. Unknown, free_clst : 0 .. NCLST \cup {Unknown},
                   fsi : {"off", "clean", "changed"}],
         UNCHANGED << fp, dp, cc, call >>, pc' \in {"fsinfo", "idle"}, res' \in Results,
         pc' = "idle" /\ res' = "OK" => Cardinality(FreeSet(Links(disk))) <= vol'.free_clst
  PROVE  Inv'
<1>1. Types /\ Control /\ CardOK /\ RowsOK /\ LossOK  BY DEF Inv
<1>2. dl = "mount" /\ rows = 0  BY <1>1, Where, NoRows
<1>3. dl' = dl /\ fname' = fname /\ rows' = rows  BY DEF logVars
<1>4. Seen' = disk  BY DEF Seen
<1>5. CardOK' /\ Behind(disk, disk')  BY <1>1, <1>4, BehindItself DEF CardOK
<1>7. Types'  BY <1>1, <1>3 DEF Types, Points, Results
<1>8. VolumeOK'
  <2>1. Cardinality(FreeSet(Links(disk))) \in Nat
    BY <1>1, FreeCount DEF CardOK, Sound, LinksOK
  <2>2. Links(Seen') = Links(disk)  BY <1>4
  <2> QED BY <1>2, <1>3, <2>1, <2>2 DEF VolumeOK
<1>9. Control'  BY <1>1, <1>2, <1>3 DEF Control
<1>10. ScanOK' /\ GrowOK' /\ AllocOK'
  BY <1>2, <1>3, OutsideScan, OutsideGrow, OutsideAlloc DEF ScanPoints, GrowPoints, AllocPoints
<1>11. FileOK' /\ EndOK' /\ WriteOK' /\ PlaceOK' /\ SyncOK'
  BY <1>2, <1>3, NoFile
<1>12. RowsOK'  BY <1>1, <1>2, RowsFrame
<1>13. LossOK'  BY <1>1, <1>5, LossFrame
<1> QED BY <1>5, <1>7, <1>8, <1>9, <1>10, <1>11, <1>12, <1>13 DEF Inv

(* f_mount() drops the window. *)
LEMMA MountVolumeStep ==
  ASSUME Inv, MountVolume, UNCHANGED logVars  PROVE Inv'
<1>1. Types  BY DEF Inv
<1>2. /\ pc = "mount" /\ UNCHANGED << disk, vol, fp, dp, cc, call >>
      /\ win' = [win EXCEPT !.sect = Nowhere, !.wflag = FALSE]
  BY DEF MountVolume
<1>3. /\ pc' \in {"fsinfo", "idle"} /\ res' \in Results
      /\ pc' = "idle" => res' = "DISK_ERR"
  <2>1. res \in Results  BY <1>1 DEF Types, Results
  <2>2. PICK ok \in BOOLEAN : IF ok THEN Goto("fsinfo") ELSE Return("DISK_ERR")
    BY DEF MountVolume
  <2> QED BY <2>1, <2>2 DEF Goto, Return, Results
<1>4. win'.sect = Nowhere /\ ~win'.wflag /\ win'.data = win.data /\ win' \in Windows
  BY <1>1, <1>2 DEF Types, Windows
<1>5. WindowOK'  BY <1>4, TrackedSectors DEF WindowOK
<1> QED BY <1>1, <1>2, <1>3, <1>4, <1>5, MountStep DEF Types

(* f_mount() takes the hints of FSInfo. *)
LEMMA MountInfoStep ==
  ASSUME Inv, MountInfo, UNCHANGED logVars  PROVE Inv'
<1>1. Types /\ Control /\ CardOK /\ Sound(disk) /\ WindowOK  BY DEF Inv, CardOK
<1>2. /\ pc = "fsinfo" /\ UNCHANGED << disk, fp, dp, cc, call >> /\ pc' = "idle" /\ res' = "OK"
  BY DEF MountInfo, Return
<1>3. PICK ok \in BOOLEAN :
        /\ win' = IF ok THEN [win EXCEPT !.sect = InfoSector] ELSE win
        /\ vol' = IF ok THEN [last_clst |-> disk[InfoSector].next,
                              free_clst |-> disk[InfoSector].free,
                              fsi |-> "clean"]
                  ELSE NoVolume
  BY DEF MountInfo
<1>4. ~win.wflag  BY <1>1, <1>2 DEF Control
<1>5. /\ ~win'.wflag /\ win'.data = win.data /\ win' \in Windows
      /\ win'.sect = IF ok THEN InfoSector ELSE win.sect
  <2>1. InfoSector \in Sector  BY SectorNames
  <2> QED BY <1>1, <1>3, <1>4, <2>1 DEF Types, Windows
<1>6. /\ vol' \in [last_clst : 0 .. Unknown, free_clst : 0 .. NCLST \cup {Unknown},
                   fsi : {"off", "clean", "changed"}]
      /\ Cardinality(FreeSet(Links(disk))) <= vol'.free_clst
  <2>1. CASE ok
    <3>1. disk[InfoSector] \in InfoVal  BY <1>1 DEF Sound, Image
    <3>2. /\ disk[InfoSector].next \in 0 .. Unknown
          /\ disk[InfoSector].free \in 0 .. NCLST \cup {Unknown}
      BY <3>1 DEF InfoVal
    <3> QED BY <1>1, <1>3, <2>1, <3>2 DEF Sound, Counted
  <2>2. CASE ~ok
    <3>1. Cardinality(FreeSet(Links(disk))) \in Nat /\ Cardinality(FreeSet(Links(disk))) <= NCLST
      BY <1>1, FreeCount DEF Sound, LinksOK
    <3>2. Unknown = NCLST + 2  BY DEF Unknown, n_fatent
    <3>3. Unknown \in 0 .. Unknown  BY <3>2, Sizes
    <3>4. vol' = [last_clst |-> Unknown, free_clst |-> Unknown, fsi |-> "off"]
      BY <1>3, <2>2 DEF NoVolume
    <3> QED BY <3>1, <3>2, <3>3, <3>4, Sizes
  <2> QED BY <2>1, <2>2
<1>7. WindowOK'
  <2>1. CASE ok  BY <1>5, <2>1, TrackedSectors DEF WindowOK
  <2>2. CASE ~ok
    <3>1. dl = "mount"  BY <1>1, <1>2, Where
    <3>2. Seen' = Seen /\ ~Stale  BY <1>2, <1>4, <1>5, <3>1, SameSeen DEF Stale
    <3> QED BY <1>1, <1>3, <2>2, <3>2, WindowFrame
  <2> QED BY <2>1, <2>2
<1>8. res' \in Results  BY <1>2 DEF Results
<1> QED BY <1>2, <1>5, <1>6, <1>7, <1>8, MountStep

(***************************************************************************)
(* datalog.c between two calls.                                            *)
(***************************************************************************)
Kept == UNCHANGED << disk, win, vol, fp, cc, res, faults >>

(* datalog.c makes a call, or none. *)
LEMMA CallStep ==
  ASSUME Inv, pc = "idle", Kept, Types', Stale => Stale',
         pc' \in {"idle", "mount", "find", "write", "sync"},
         IsOpen' => IsOpen /\ fname' = fname, dl' # "open" \/ pc' # "idle",
         dl' \notin {"closed", "mount"} =>
           dl \notin {"closed", "mount"} \/ (dl = "mount" /\ res = "OK"),
         dl' = "mount" => pc' # "idle",
         Control', ScanOK', WriteOK', SyncOK', RowsOK', LossOK'
  PROVE  Inv'
<1>1. Types /\ CardOK /\ WindowOK /\ VolumeOK /\ FileOK /\ EndOK  BY DEF Inv
<1>2. disk' = disk /\ win' = win /\ vol' = vol /\ fp' = fp  BY DEF Kept
<1>3. Seen' = Seen  BY <1>2, SameSeen
<1>4. CardOK'  BY <1>1, <1>2, <1>3, CardFrame
<1>5. WindowOK'  BY <1>1, <1>2, <1>3, WindowFrame
<1>6. VolumeOK'
  <2>1. CASE dl' \in {"closed", "mount"}  BY <2>1 DEF VolumeOK
  <2>2. CASE dl' \notin {"closed", "mount"}
    <3>1. Cardinality(FreeSet(Links(Seen))) + 0 <= vol.free_clst
      BY <1>1, <2>2 DEF VolumeOK
    <3>2. pc' \notin {"link", "found"}  OBVIOUS
    <3> QED BY <1>2, <1>3, <3>1, <3>2 DEF VolumeOK
  <2> QED BY <2>1, <2>2
<1>7. GrowOK' /\ AllocOK' /\ PlaceOK'
  BY OutsideGrow, OutsideAlloc DEF GrowPoints, AllocPoints, PlaceOK
<1>8. FileOK' /\ EndOK'
  <2>1. CASE IsOpen'
    <3>1. FileOK'  BY <1>1, <1>2, <1>3, <2>1, FileFrame DEF FileKept
    <3>2. /\ fp.fptr = 0 => fp.sclust = 0
          /\ fp.err = "OK" =>
               /\ fp.clust = IF fp.fptr = 0 THEN 0 ELSE File[Last \div CB]
               /\ fp.clust # 0 => Links(Seen)[fp.clust] = EOC
      BY <1>1, <2>1 DEF EndOK
    <3>3. File' = File /\ Last' = Last  BY <1>2, <1>3 DEF File, Last
    <3>4. dl' # "open"  BY <2>1 DEF IsOpen
    <3>5. EndOK'  BY <1>2, <1>3, <3>2, <3>3, <3>4 DEF EndOK
    <3> QED BY <3>1, <3>5
  <2>2. CASE ~IsOpen'  BY <2>2 DEF FileOK, EndOK
  <2> QED BY <2>1, <2>2
<1> QED BY <1>4, <1>5, <1>6, <1>7, <1>8 DEF Inv

(* Nothing is written to the file yet. *)
LEMMA NoRowsStep ==
  ASSUME RowsOK, LossOK, SameRows, rows = 0, disk' = disk,
         dl \in {"closed", "mount", "stat", "open", "header", "hsync", "hclose"},
         dl' \in {"closed", "mount", "stat", "open", "header", "hclose"}
  PROVE  RowsOK' /\ LossOK'
<1>1. RowsOK'  BY DEF RowsOK, SameRows
<1>2. PICK b \in 0 .. rows :
        /\ b > 0 => DurableAt(disk, RowEnd(b))
        /\ Cardinality({r \in acked : r > b}) <=
             (DATALOG_SYNC_ROWS - 1) * failedSyncs + Pending
  BY DEF LossOK
<1>3. b = 0 /\ 0 \in 0 .. rows  BY <1>2
<1>4. rows' = rows /\ acked' = acked /\ failedSyncs' = failedSyncs /\ Pending' = Pending
  BY DEF SameRows, Pending
<1>5. ~(b > 0)  BY <1>3
<1>6. LossOK'  BY <1>2, <1>4, <1>5 DEF LossOK
<1> QED BY <1>1, <1>6

(* What a call begins with *)
LEMMA StartFacts ==
  ASSUME Types, NEW op \in {"mount", "stat", "open", "write", "sync", "close"},
         NEW point \in Points, NEW key \in 0 .. MaxName, NEW item \in PieceVal,
         NEW todo \in Nat, Start(op, point, key, item, todo)
  PROVE  /\ Kept /\ pc = "idle" /\ pc' = point
         /\ call'.op = op /\ call'.key = key /\ call'.item = item /\ call'.todo = todo
         /\ call' \in Calls /\ dp' \in Positions /\ dp'.ofs = 0 /\ dp'.clust = dirbase
         /\ dl' \in Waits /\ fname' \in 0 .. MaxName => Types'
<1>1. Kept /\ pc = "idle" /\ pc' = point /\ dp' = Rewind
      /\ call' = [op |-> op, key |-> key, item |-> item, todo |-> todo]
  BY DEF Start, Kept
<1>2. /\ call'.op = op /\ call'.key = key /\ call'.item = item /\ call'.todo = todo
      /\ call' \in Calls
  BY <1>1 DEF Calls
<1>3. dp' \in Positions /\ dp'.ofs = 0 /\ dp'.clust = dirbase
  BY <1>1, Constants DEF Rewind, Positions
<1>4. ASSUME dl' \in Waits, fname' \in 0 .. MaxName  PROVE Types'
  BY <1>1, <1>2, <1>3, <1>4 DEF Types, Kept, Calls
<1> QED BY <1>1, <1>2, <1>3, <1>4

(* Headers and rows are pieces of text. *)
LEMMA Pieces ==
  /\ Junk \in PieceVal /\ 0 \in 0 .. MaxName
  /\ \A n \in 0 .. MaxName, r \in Nat : Piece(n, r) \in PieceVal
<1>1. 0 \in 0 .. MaxName  BY SlotValues
<1> QED BY <1>1, SlotValues DEF PieceVal, Piece

(* datalog_open() mounts the volume. *)
LEMMA OpenAction ==
  ASSUME Inv, Open  PROVE Inv'
<1>1. /\ dl = "closed" /\ pc = "idle" /\ dl' = "mount" /\ fname' = fname /\ SameRows
      /\ Start("mount", "mount", 0, Junk, 0)
  BY DEF Open, Answered, f_mount
<1>2. Types /\ RowsOK /\ LossOK /\ rows = 0  BY <1>1, NoRows DEF Inv
<1>3. /\ Kept /\ pc' = "mount" /\ call'.op = "mount"
      /\ dl' \in Waits /\ fname' \in 0 .. MaxName => Types'
  BY <1>1, <1>2, StartFacts, Pieces DEF Points
<1>4. Types'  BY <1>1, <1>2, <1>3 DEF Types, Waits
<1>5. Stale'  BY <1>3 DEF Stale
<1>6. Control' /\ ScanOK' /\ WriteOK' /\ SyncOK' /\ ~IsOpen'
  BY <1>1, <1>3 DEF Control, ScanOK, ScanPoints, WriteOK, SyncOK, IsOpen
<1>7. RowsOK' /\ LossOK'  BY <1>1, <1>2, <1>3, NoRowsStep DEF Kept
<1> QED BY <1>1, <1>3, <1>4, <1>5, <1>6, <1>7, CallStep

(* datalog_open() gives up. *)
LEMMA FailedStep ==
  ASSUME Inv, pc = "idle", dl \in {"mount", "stat", "open", "hclose"}, SameRows,
         dl' = "closed", fname' \in 0 .. MaxName, UNCHANGED fatVars
  PROVE  Inv'
<1>1. Types /\ RowsOK /\ LossOK /\ rows = 0  BY NoRows DEF Inv
<1>2. Kept /\ pc' = pc /\ dp' = dp /\ call' = call  BY DEF fatVars, Kept
<1>3. Types'  BY <1>1, <1>2 DEF Types, Kept, Waits
<1>4. Stale'  BY DEF Stale
<1>5. Control' /\ ScanOK' /\ WriteOK' /\ SyncOK' /\ ~IsOpen'
  BY <1>2 DEF Control, ScanOK, ScanPoints, WriteOK, SyncOK, IsOpen
<1>6. RowsOK' /\ LossOK'  BY <1>1, <1>2, NoRowsStep DEF Kept
<1> QED BY <1>2, <1>3, <1>4, <1>5, <1>6, CallStep

(* Looking for a name begins. *)
LEMMA FindStep ==
  ASSUME Inv, pc = "idle", SameRows, fname' \in 1 .. MaxName,
         \/ dl \in {"mount", "stat"} /\ dl' = "stat"
         \/ dl = "stat" /\ dl' = "open",
         dl = "mount" => res = "OK",
         Start(dl', "find", fname', Junk, 0)
  PROVE  Inv'
<1>1. Types /\ RowsOK /\ LossOK /\ rows = 0 /\ CardOK /\ Sound(Seen)
  BY NoRows DEF Inv, CardOK
<1>2. fname' \in 0 .. MaxName  BY Pieces
<1>3. /\ Kept /\ pc' = "find" /\ call'.op = dl' /\ call'.key = fname'
      /\ dp'.ofs = 0 /\ dp'.clust = dirbase
      /\ dl' \in Waits /\ fname' \in 0 .. MaxName => Types'
  <2>1. dl' \in {"mount", "stat", "open", "write", "sync", "close"} /\ "find" \in Points
        /\ 0 \in Nat
    BY DEF Points
  <2> QED BY <1>1, <1>2, <2>1, StartFacts, Pieces
<1>4. Types'  BY <1>2, <1>3 DEF Waits
<1>5. ~Stale /\ ~IsOpen'  BY <1>3 DEF Stale, IsOpen
<1>6. Control' /\ WriteOK' /\ SyncOK'
  BY <1>3 DEF Control, ScanPoints, WriteOK, SyncOK
<1>7. ScanOK'
  <2>1. Seen' = Seen  BY <1>3, SameSeen DEF Kept
  <2>2. 0 \in CardSlot /\ Root(Seen)[0 \div CB] = dirbase /\ Full(Seen, 0)  BY <1>1, RootStart
  <2>3. NotYet(Seen, fname', 0)
    <3>1. \A j \in CardSlot : ~(j < 0)  BY InRange
    <3> QED BY <3>1 DEF NotYet
  <2> QED BY <1>3, <2>1, <2>2, <2>3 DEF ScanOK, ScanPoints
<1>8. RowsOK' /\ LossOK'  BY <1>1, <1>3, NoRowsStep DEF Kept
<1> QED BY <1>3, <1>4, <1>5, <1>6, <1>7, <1>8, CallStep

(* datalog_open() probes the first name. *)
LEMMA MountedAction ==
  ASSUME Inv, Mounted  PROVE Inv'
<1>1. /\ dl = "mount" /\ pc = "idle" /\ SameRows
      /\ IF res = "OK" THEN Probe(1) ELSE OpenFailed
  BY DEF Mounted, Answered
<1>2. fname \in 0 .. MaxName /\ 1 \in 1 .. MaxName
  BY SlotValues DEF Inv, Types
<1>3. CASE res = "OK"
  <2>1. fname' = 1 /\ dl' = "stat" /\ Start("stat", "find", 1, Junk, 0)
    BY <1>1, <1>3 DEF Probe, f_stat
  <2> QED BY <1>1, <1>2, <1>3, <2>1, FindStep
<1>4. CASE res # "OK"
  BY <1>1, <1>2, <1>4, FailedStep DEF OpenFailed
<1> QED BY <1>3, <1>4

(* datalog_open() probes the next name. *)
LEMMA NameTakenAction ==
  ASSUME Inv, NameTaken  PROVE Inv'
<1>1. /\ dl = "stat" /\ pc = "idle" /\ SameRows
      /\ IF fname < MaxName THEN Probe(fname + 1)
         ELSE dl' = "closed" /\ fname' = 0 /\ UNCHANGED fatVars
  BY DEF NameTaken, Answered
<1>2. fname \in 1 .. MaxName  BY <1>1 DEF Inv, Control
<1>3. CASE fname < MaxName
  <2>1. /\ fname' = fname + 1 /\ dl' = "stat"
        /\ Start("stat", "find", fname + 1, Junk, 0)
    BY <1>1, <1>3 DEF Probe, f_stat
  <2>2. fname' \in 1 .. MaxName  BY <1>2, <1>3, <2>1, SlotValues
  <2> QED BY <1>1, <2>1, <2>2, FindStep
<1>4. CASE ~(fname < MaxName)
  BY <1>1, <1>4, FailedStep, Pieces
<1> QED BY <1>3, <1>4

(* datalog_open() creates the file. *)
LEMMA NameFreeAction ==
  ASSUME Inv, NameFree  PROVE Inv'
<1>1. /\ dl = "stat" /\ pc = "idle" /\ SameRows /\ fname' = fname
      /\ IF res = "NO_FILE" THEN dl' = "open" /\ f_open(fname) /\ UNCHANGED fname
         ELSE OpenFailed
  BY DEF NameFree, Answered, OpenFailed
<1>2. fname \in 1 .. MaxName /\ fname \in 0 .. MaxName  BY <1>1 DEF Inv, Control, Types
<1>3. CASE res = "NO_FILE"
  <2>1. dl' = "open" /\ Start("open", "find", fname, Junk, 0)  BY <1>1, <1>3 DEF f_open
  <2> QED BY <1>1, <1>2, <2>1, FindStep
<1>4. CASE res # "NO_FILE"
  BY <1>1, <1>2, <1>4, FailedStep DEF OpenFailed
<1> QED BY <1>3, <1>4

(* datalog_open() gives up. *)
LEMMA HeaderClosedAction ==
  ASSUME Inv, HeaderClosed  PROVE Inv'
<1>1. /\ dl = "hclose" /\ pc = "idle" /\ SameRows /\ dl' = "closed" /\ fname' = fname
      /\ UNCHANGED fatVars
  BY DEF HeaderClosed, Answered, OpenFailed
<1>2. fname \in 0 .. MaxName  BY DEF Inv, Types
<1> QED BY <1>1, <1>2, FailedStep

(* A call for the open file *)
LEMMA FileCall ==
  ASSUME Inv, pc = "idle", Kept, Types', fname' = fname, IsOpen,
         dl \in {"open", "header", "hsync", "ready", "row", "rsync"},
         dl' \in {"header", "hsync", "hclose", "ready", "row", "rsync"},
         pc' = CASE dl' = "ready" -> "idle"
                 [] dl' \in {"header", "row"} -> "write"
                 [] OTHER -> "sync",
         call'.op = CASE dl' = "ready" -> call.op
                      [] dl' \in {"header", "row"} -> "write"
                      [] dl' = "hclose" -> "close"
                      [] OTHER -> "sync",
         WriteOK', dl' = "rsync" => fp.modified, RowsOK', LossOK'
  PROVE  Inv'
<1>1. Control  BY DEF Inv
<1>2. fname' \in 1 .. MaxName  BY <1>1 DEF Control
<1>3. pc' \in {"idle", "write", "sync"} /\ (dl' = "ready" <=> pc' = "idle")  OBVIOUS
<1>4. dl' = "ready" => pc' = "idle"  BY <1>3
<1>5. dl' \in {"header", "row"} => pc' = "write" /\ call'.op = "write"  OBVIOUS
<1>6. dl' \in {"hsync", "rsync"} => pc' = "sync" /\ call'.op = "sync"  OBVIOUS
<1>7. dl' = "hclose" => pc' = "sync" /\ call'.op = "close"  OBVIOUS
<1>8. Control'
  BY <1>2, <1>4, <1>5, <1>6, <1>7 DEF Control, WritePoints, SyncPoints
<1>9. ~Stale
  <2>1. ~(dl = "open" /\ pc = "idle" /\ res # "OK")  BY DEF IsOpen
  <2> QED BY <2>1 DEF Stale
<1>10. ScanOK'  BY <1>3, OutsideScan DEF ScanPoints
<1>11. SyncOK'
  <2>1. fp' = fp  BY DEF Kept
  <2>2. ~(dl' = "rsync" /\ pc' = "idle")  BY <1>3
  <2> QED BY <1>3, <2>1, <2>2 DEF SyncOK
<1> QED BY <1>3, <1>8, <1>9, <1>10, <1>11, CallStep

(* Nothing is acknowledged, and the card stays as it is. *)
LEMMA LossSame ==
  ASSUME LossOK, SameRows, dl # "rsync", dl' # "rsync", disk' = disk, fname' = fname
  PROVE  LossOK'
<1>1. PICK b \in 0 .. rows :
        /\ b > 0 => DurableAt(disk, RowEnd(b))
        /\ Cardinality({r \in acked : r > b}) <=
             (DATALOG_SYNC_ROWS - 1) * failedSyncs + Pending
  BY DEF LossOK
<1>2. b > 0 => DurableAt(disk, RowEnd(b))'  BY <1>1 DEF DurableAt, TheEntry
<1>3. rows' = rows /\ acked' = acked /\ failedSyncs' = failedSyncs /\ Pending' = Pending
  BY DEF SameRows, Pending
<1> QED BY <1>1, <1>2, <1>3 DEF LossOK

(* What is true of the open file between two calls *)
LEMMA IdleFacts ==
  ASSUME Inv, pc = "idle", IsOpen
  PROVE  /\ Types /\ CardOK /\ FileOK /\ EndOK /\ WriteOK /\ SyncOK /\ RowsOK /\ LossOK /\ ChainOK
         /\ fp \in FileObjects /\ fp.objsize = fp.fptr /\ fp.fptr \in Nat
         /\ fname \in 1 .. MaxName /\ fname \in 0 .. MaxName /\ call \in Calls
         /\ rows \in Nat /\ RowEnd(rows) \in Nat /\ RowEnd(rows + 1) = RowEnd(rows) + RowLen
         /\ HdrLen \in Nat /\ RowLen \in Nat /\ RowLen # 0 /\ HdrLen # 0 /\ RowEnd(0) = HdrLen
<1>1. /\ Types /\ CardOK /\ FileOK /\ EndOK /\ WriteOK /\ SyncOK /\ RowsOK /\ LossOK /\ Control
  BY DEF Inv
<1>2. ChainOK  BY <1>1 DEF FileOK
<1>3. fp \in FileObjects /\ call \in Calls /\ fname \in 0 .. MaxName  BY <1>1 DEF Types, Calls
<1>4. fp.objsize = fp.fptr /\ fp.fptr \in Nat  BY <1>2, <1>3 DEF ChainOK, FileObjects
<1>5. fname \in 1 .. MaxName  BY <1>1 DEF Control, IsOpen
<1>6. rows \in Nat  BY <1>1 DEF RowsOK
<1> QED BY <1>1, <1>2, <1>3, <1>4, <1>5, <1>6, RowSizes

(* There is as much room as before. *)
LEMMA SameRoom ==
  ASSUME Kept  PROVE (NoRoom' <=> NoRoom) /\ fp' = fp /\ disk' = disk /\ res' = res
<1>1. Seen' = Seen /\ fp' = fp  BY SameSeen DEF Kept
<1> QED BY <1>1 DEF NoRoom, AtCluster, Kept

(* datalog_open() writes the header. *)
LEMMA OpenedAction ==
  ASSUME Inv, Opened  PROVE Inv'
<1>1. /\ dl = "open" /\ pc = "idle" /\ SameRows
      /\ IF res = "OK"
         THEN dl' = "header" /\ f_write(Piece(fname, 0), HdrLen) /\ UNCHANGED fname
         ELSE OpenFailed
  BY DEF Opened, Answered
<1>2. CASE res = "OK"
  <2>1. IsOpen  BY <1>1, <1>2 DEF IsOpen
  <2>2. /\ dl' = "header" /\ fname' = fname
        /\ Start("write", "write", 0, Piece(fname, 0), HdrLen)
    BY <1>1, <1>2 DEF f_write
  <2>3. /\ Types /\ EndOK /\ RowsOK /\ LossOK /\ fname \in 0 .. MaxName
        /\ HdrLen \in Nat /\ Piece(fname, 0) \in PieceVal
    BY <1>1, <2>1, IdleFacts, Pieces
  <2>4. /\ Kept /\ pc' = "write" /\ call'.op = "write"
        /\ call'.item = Piece(fname, 0) /\ call'.todo = HdrLen
        /\ dl' \in Waits /\ fname' \in 0 .. MaxName => Types'
    <3>1. "write" \in Points  BY DEF Points
    <3> QED BY <2>2, <2>3, <3>1, StartFacts, Pieces
  <2>5. Types'  BY <2>2, <2>3, <2>4 DEF Waits
  <2>6. fp.fptr = 0 /\ fp' = fp /\ disk' = disk  BY <1>1, <2>1, <2>3, <2>4 DEF EndOK, Kept
  <2>7. WriteOK'
    <3>1. Taking'  BY <2>2, <2>3, <2>4, <2>6 DEF Taking
    <3> QED BY <2>2, <2>4, <3>1 DEF WriteOK, AllocPoints
  <2>8. RowsOK' /\ LossOK'
    <3>1. rows = 0  BY <1>1, <2>3, NoRows
    <3> QED BY <1>1, <2>2, <2>3, <2>6, <3>1, NoRowsStep
  <2> QED BY <1>1, <2>1, <2>2, <2>4, <2>5, <2>7, <2>8, FileCall
<1>3. CASE res # "OK"
  <2>1. fname \in 0 .. MaxName  BY DEF Inv, Types
  <2> QED BY <1>1, <1>3, <2>1, FailedStep DEF OpenFailed
<1> QED BY <1>2, <1>3

(* f_sync() or f_close() is called. *)
LEMMA SyncCall ==
  ASSUME Inv, pc = "idle", IsOpen, fname' = fname,
         dl \in {"open", "header", "hsync", "ready", "row", "rsync"},
         \/ dl' \in {"hsync", "rsync"} /\ f_sync
         \/ dl' = "hclose" /\ f_close,
         dl' = "rsync" => fp.modified,
         Kept => RowsOK' /\ LossOK'
  PROVE  Inv'
<1>1. Types /\ fname \in 0 .. MaxName  BY IdleFacts
<1>2. /\ Kept /\ pc' = "sync"
      /\ dl' \in {"hsync", "rsync"} => call'.op = "sync"
      /\ dl' = "hclose" => call'.op = "close"
      /\ dl' \in Waits /\ fname' \in 0 .. MaxName => Types'
  <2>1. "sync" \in Points /\ 0 \in Nat  BY DEF Points
  <2>2. CASE dl' \in {"hsync", "rsync"} /\ f_sync
    <3>1. Start("sync", "sync", 0, Junk, 0)  BY <2>2 DEF f_sync
    <3> QED BY <1>1, <2>1, <2>2, <3>1, StartFacts, Pieces
  <2>3. CASE dl' = "hclose" /\ f_close
    <3>1. Start("close", "sync", 0, Junk, 0)  BY <2>3 DEF f_close
    <3> QED BY <1>1, <2>1, <2>3, <3>1, StartFacts, Pieces
  <2> QED BY <2>2, <2>3
<1>3. dl' \in {"hsync", "hclose", "rsync"}  OBVIOUS
<1>4. Types'  BY <1>1, <1>2, <1>3 DEF Waits
<1>5. WriteOK'  BY <1>3 DEF WriteOK
<1> QED BY <1>1, <1>2, <1>3, <1>4, <1>5, FileCall

(* datalog_open() synchronises the header, or closes the file. *)
LEMMA HeaderWrittenAction ==
  ASSUME Inv, HeaderWritten  PROVE Inv'
<1>1. /\ dl = "header" /\ pc = "idle" /\ SameRows /\ fname' = fname
      /\ IF res = "OK" THEN dl' = "hsync" /\ f_sync ELSE dl' = "hclose" /\ f_close
  BY DEF HeaderWritten, Answered
<1>2. IsOpen  BY <1>1 DEF IsOpen
<1>3. /\ WriteOK /\ RowsOK /\ LossOK /\ call \in Calls /\ fp.fptr \in Nat
      /\ HdrLen \in Nat /\ RowEnd(0) = HdrLen
  BY <1>1, <1>2, IdleFacts
<1>4. rows = 0  BY <1>1, <1>3, NoRows
<1>5. CASE res = "OK"
  <2>1. fp.err = "OK" /\ Taking /\ (call.todo > 0 => NoRoom)
    BY <1>1, <1>3, <1>5 DEF WriteOK
  <2>2. fp.fptr = RowEnd(rows) \/ NoRoom
    <3>1. call.todo \in Nat  BY <1>3 DEF Calls
    <3>2. CASE call.todo > 0  BY <2>1, <3>2
    <3>3. CASE call.todo = 0  BY <1>1, <1>3, <1>4, <2>1, <3>3 DEF Taking
    <3> QED BY <3>1, <3>2, <3>3
  <2>3. ASSUME Kept  PROVE RowsOK' /\ LossOK'
    <3>1. AtRow'
      <4>1. (NoRoom' <=> NoRoom) /\ fp' = fp  BY <2>3, SameRoom
      <4>2. rows' = rows  BY <1>1 DEF SameRows
      <4> QED BY <2>2, <4>1, <4>2 DEF AtRow
    <3>2. fp'.err = "OK" /\ disk' = disk  BY <2>1, <2>3 DEF Kept
    <3>3. RowsOK'  BY <1>1, <1>3, <1>4, <1>5, <3>1, <3>2 DEF RowsOK, SameRows
    <3>4. LossOK'  BY <1>1, <1>3, <1>5, <3>2, LossSame
    <3> QED BY <3>3, <3>4
  <2> QED BY <1>1, <1>2, <1>5, <2>3, SyncCall
<1>6. CASE res # "OK"
  <2>1. ASSUME Kept  PROVE RowsOK' /\ LossOK'
    BY <1>1, <1>3, <1>4, <1>6, <2>1, NoRowsStep DEF Kept
  <2> QED BY <1>1, <1>2, <1>6, <2>1, SyncCall
<1> QED BY <1>5, <1>6

(* datalog_open() has opened the file, or closes it. *)
LEMMA HeaderSyncedAction ==
  ASSUME Inv, HeaderSynced  PROVE Inv'
<1>1. /\ dl = "hsync" /\ pc = "idle" /\ SameRows /\ fname' = fname
      /\ IF res = "OK" THEN dl' = "ready" /\ UNCHANGED fatVars
         ELSE dl' = "hclose" /\ f_close
  BY DEF HeaderSynced, Answered
<1>2. IsOpen  BY <1>1 DEF IsOpen
<1>3. Types /\ RowsOK /\ LossOK  BY <1>1, <1>2, IdleFacts
<1>4. rows = 0  BY <1>1, <1>3, NoRows
<1>5. CASE res = "OK"
  <2>1. Kept /\ pc' = pc /\ dp' = dp /\ call' = call /\ dl' = "ready"
    BY <1>1, <1>5 DEF Kept, fatVars
  <2>2. Types'  BY <1>1, <1>3, <2>1 DEF Types, Kept, Waits
  <2>3. AtRow'
    <3>1. AtRow  BY <1>1, <1>3 DEF RowsOK
    <3>2. (NoRoom' <=> NoRoom) /\ fp' = fp  BY <2>1, SameRoom
    <3>3. rows' = rows  BY <1>1 DEF SameRows
    <3> QED BY <3>1, <3>2, <3>3 DEF AtRow
  <2>4. RowsOK'  BY <1>1, <1>3, <1>4, <2>1, <2>3 DEF RowsOK, SameRows
  <2>5. LossOK'  BY <1>1, <1>3, <2>1, LossSame DEF Kept
  <2>6. WriteOK'  BY <2>1 DEF WriteOK
  <2> QED BY <1>1, <1>2, <2>1, <2>2, <2>4, <2>5, <2>6, FileCall
<1>6. CASE res # "OK"
  <2>1. ASSUME Kept  PROVE RowsOK' /\ LossOK'
    BY <1>1, <1>3, <1>4, <1>6, <2>1, NoRowsStep DEF Kept
  <2> QED BY <1>1, <1>2, <1>6, <2>1, SyncCall
<1> QED BY <1>5, <1>6

(* datalog_write_row() writes a row. *)
LEMMA WriteRowAction ==
  ASSUME Inv, WriteRow  PROVE Inv'
<1>1. /\ dl = "ready" /\ pc = "idle" /\ SameRows /\ fname' = fname /\ dl' = "row"
      /\ Start("write", "write", 0, Piece(fname, rows + 1), RowLen)
  BY DEF WriteRow, Answered, f_write
<1>2. IsOpen  BY <1>1 DEF IsOpen
<1>3. /\ Types /\ RowsOK /\ LossOK /\ fname \in 0 .. MaxName /\ rows \in Nat /\ RowLen \in Nat
      /\ RowLen # 0 /\ RowEnd(rows) \in Nat /\ RowEnd(rows + 1) = RowEnd(rows) + RowLen
      /\ fp.fptr \in Nat
  BY <1>1, <1>2, IdleFacts
<1>4. /\ Kept /\ pc' = "write" /\ call'.op = "write"
      /\ call'.item = Piece(fname, rows + 1) /\ call'.todo = RowLen
      /\ dl' \in Waits /\ fname' \in 0 .. MaxName => Types'
  <2>1. "write" \in Points /\ Piece(fname, rows + 1) \in PieceVal
    BY <1>3, Pieces DEF Points
  <2> QED BY <1>1, <1>3, <2>1, StartFacts, Pieces
<1>5. Types'  BY <1>1, <1>3, <1>4 DEF Waits
<1>6. (NoRoom' <=> NoRoom) /\ fp' = fp /\ disk' = disk  BY <1>4, SameRoom
<1>7. rows' = rows  BY <1>1 DEF SameRows
<1>8. WriteOK'
  <2>1. AtRow  BY <1>1, <1>3 DEF RowsOK
  <2>2. fp.err = "OK" => Taking'
    <3>1. CASE fp.fptr = RowEnd(rows)  BY <1>1, <1>3, <1>4, <1>6, <1>7, <3>1 DEF Taking
    <3>2. CASE NoRoom  BY <1>3, <1>4, <1>6, <3>2 DEF Taking
    <3> QED BY <2>1, <3>1, <3>2 DEF AtRow
  <2> QED BY <1>1, <1>4, <1>6, <1>7, <2>2 DEF WriteOK, AllocPoints
<1>9. RowsOK'  BY <1>1, <1>3, <1>6 DEF RowsOK, SameRows
<1>10. LossOK'  BY <1>1, <1>3, <1>6, LossSame
<1> QED BY <1>1, <1>2, <1>4, <1>5, <1>8, <1>9, <1>10, FileCall

(* The row did not go in. *)
LEMMA RowRefusedAction ==
  ASSUME Inv, RowRefused  PROVE Inv'
<1>1. /\ dl = "row" /\ pc = "idle" /\ SameRows /\ fname' = fname /\ dl' = "ready"
      /\ res # "OK" \/ call.todo > 0
      /\ Kept /\ pc' = pc /\ dp' = dp /\ call' = call
  BY DEF RowRefused, Answered, fatVars, Kept
<1>2. IsOpen  BY <1>1 DEF IsOpen
<1>3. Types /\ RowsOK /\ LossOK /\ WriteOK  BY <1>1, <1>2, IdleFacts
<1>4. Types'  BY <1>1, <1>3 DEF Types, Kept, Waits
<1>5. (NoRoom' <=> NoRoom) /\ fp' = fp /\ disk' = disk  BY <1>1, SameRoom
<1>6. AtRow'
  <2>1. fp.err # "OK" \/ NoRoom  BY <1>1, <1>3 DEF WriteOK
  <2> QED BY <1>5, <2>1 DEF AtRow
<1>7. RowsOK'  BY <1>1, <1>3, <1>5, <1>6 DEF RowsOK, SameRows
<1>8. LossOK'  BY <1>1, <1>3, <1>5, LossSame
<1>9. WriteOK'  BY <1>1 DEF WriteOK
<1> QED BY <1>1, <1>2, <1>4, <1>7, <1>8, <1>9, FileCall

(* The row went in; every DATALOG_SYNC_ROWS of them the file is            *)
(* synchronised.                                                           *)
LEMMA RowWrittenAction ==
  ASSUME Inv, RowWritten  PROVE Inv'
<1> DEFINE D == DATALOG_SYNC_ROWS
<1>1. /\ dl = "row" /\ pc = "idle" /\ res = "OK" /\ call.todo = 0 /\ rows' = rows + 1
      /\ UNCHANGED << fname, failedSyncs, resets >>
      /\ IF rows_since_sync + 1 >= D
         THEN rows_since_sync' = 0 /\ dl' = "rsync" /\ f_sync /\ UNCHANGED acked
         ELSE /\ rows_since_sync' = rows_since_sync + 1
              /\ dl' = "ready" /\ acked' = acked \cup {rows'}
              /\ UNCHANGED fatVars
  BY DEF RowWritten, Answered
<1>2. IsOpen  BY <1>1 DEF IsOpen
<1>3. /\ Types /\ RowsOK /\ LossOK /\ WriteOK /\ rows \in Nat /\ fp.fptr \in Nat
      /\ fp.objsize = fp.fptr /\ call \in Calls
  BY <1>1, <1>2, IdleFacts
<1>4. fp.err = "OK" /\ fp.modified /\ fp.fptr = RowEnd(rows + 1)
  <2>1. fp.err = "OK" /\ fp.modified /\ Taking  BY <1>1, <1>3 DEF WriteOK
  <2>2. fp.fptr + 0 = RowEnd(rows + 1)  BY <1>1, <2>1 DEF Taking
  <2> QED BY <1>3, <2>1, <2>2
<1>5. /\ rows_since_sync \in 0 .. D - 1 /\ acked \subseteq 1 .. rows /\ failedSyncs \in Nat
      /\ D \in Nat /\ D # 0
  BY <1>3, DatalogAssumption DEF RowsOK
<1>6. PICK b \in 0 .. rows :
        /\ b > 0 => DurableAt(disk, RowEnd(b))
        /\ Cardinality({r \in acked : r > b}) <= (D - 1) * failedSyncs + Pending
  BY <1>3 DEF LossOK
<1>7. Pending = rows_since_sync  BY <1>1 DEF Pending
<1>8. (D - 1) * failedSyncs \in Nat
  <2>1. D - 1 \in Nat  BY <1>5
  <2> HIDE DEF D
  <2> QED BY <1>5, <2>1
<1>9. b \in 0 .. rows' /\ (disk' = disk => (b > 0 => DurableAt(disk, RowEnd(b))'))
  <2>1. b \in 0 .. rows'  BY <1>1, <1>3, <1>6
  <2> QED BY <1>1, <1>6, <2>1 DEF DurableAt, TheEntry
<1>10. CASE rows_since_sync + 1 >= D
  <2>1. rows_since_sync' = 0 /\ dl' = "rsync" /\ f_sync /\ acked' = acked
    BY <1>1, <1>10
  <2>2. ASSUME Kept  PROVE RowsOK' /\ LossOK'
    <3>1. fp' = fp /\ disk' = disk  BY <2>2 DEF Kept
    <3>2. acked' \subseteq 1 .. rows'  BY <1>1, <1>3, <1>5, <2>1
    <3>3. rows_since_sync' \in 0 .. D - 1 /\ rows' \in Nat  BY <1>1, <1>3, <1>5, <2>1
    <3>4. RowEnd(rows') <= fp'.objsize /\ fp'.fptr = RowEnd(rows') /\ rows' > 0
      BY <1>1, <1>3, <1>4, <3>1
    <3>5. RowsOK'
      <4>1. RowEnd(rows)' = RowEnd(rows')  BY DEF RowEnd
      <4> QED BY <1>1, <1>4, <1>5, <2>1, <3>1, <3>2, <3>3, <3>4, <4>1 DEF RowsOK
    <3>6. Pending' = D - 1 /\ rows_since_sync = D - 1  BY <1>5, <1>10, <2>1 DEF Pending
    <3>7. Cardinality({r \in acked' : r > b}) <= (D - 1) * failedSyncs' + Pending'
      BY <1>1, <1>6, <1>7, <2>1, <3>6
    <3> QED BY <1>9, <3>1, <3>5, <3>7 DEF LossOK
  <2> QED BY <1>1, <1>2, <1>4, <2>1, <2>2, SyncCall
<1>11. CASE ~(rows_since_sync + 1 >= D)
  <2>1. /\ rows_since_sync' = rows_since_sync + 1 /\ dl' = "ready"
        /\ acked' = acked \cup {rows + 1} /\ UNCHANGED fatVars
    BY <1>1, <1>11
  <2>2. Kept /\ pc' = pc /\ dp' = dp /\ call' = call  BY <2>1 DEF fatVars, Kept
  <2>3. Types'  BY <1>1, <1>3, <2>1, <2>2 DEF Types, Kept, Waits
  <2>4. (NoRoom' <=> NoRoom) /\ fp' = fp /\ disk' = disk  BY <2>2, SameRoom
  <2>5. RowEnd(rows)' = RowEnd(rows + 1)  BY <1>1 DEF RowEnd
  <2>6. AtRow'  BY <1>4, <2>4, <2>5 DEF AtRow
  <2>7. RowsOK'
    <3>1. acked' \subseteq 1 .. rows' /\ rows' \in Nat
      BY <1>1, <1>3, <1>5, <2>1
    <3>2. rows_since_sync' \in 0 .. D - 1  BY <1>5, <1>11, <2>1
    <3>3. RowEnd(rows)' <= fp'.objsize  BY <1>3, <1>4, <2>4, <2>5
    <3> QED BY <1>1, <1>5, <2>1, <2>6, <3>1, <3>2, <3>3 DEF RowsOK
  <2>8. LossOK'
    <3> DEFINE U == {r \in acked : r > b}
    <3>1. IsFiniteSet(U)
      <4>1. IsFiniteSet(1 .. rows)  BY <1>3, FS_Interval
      <4>2. U \subseteq 1 .. rows  BY <1>5
      <4> HIDE DEF U
      <4> QED BY <4>1, <4>2, FS_Subset
    <3>2. {r \in acked' : r > b} = U \cup {rows + 1}
      <4>1. rows + 1 > b  BY <1>3, <1>6
      <4> QED BY <2>1, <4>1
    <3>3. Cardinality(U \cup {rows + 1}) <= Cardinality(U) + 1 /\ Cardinality(U) \in Nat
      <4> HIDE DEF U
      <4>1. Cardinality(U) \in Nat  BY <3>1, FS_CardinalityType
      <4>2. Cardinality(U \cup {rows + 1}) \in {Cardinality(U), Cardinality(U) + 1}
        BY <3>1, FS_AddElement
      <4> QED BY <4>1, <4>2
    <3>4. Pending' = Pending + 1 /\ Pending \in Nat  BY <1>5, <1>7, <2>1 DEF Pending
    <3>5. Cardinality(U \cup {rows + 1}) \in Nat
      <4> HIDE DEF U
      <4> QED BY <3>1, FS_AddElement, FS_CardinalityType
    <3>6. Cardinality(U \cup {rows + 1}) <= (D - 1) * failedSyncs + (Pending + 1)
      <4>1. Cardinality(U) <= (D - 1) * failedSyncs + Pending  BY <1>6
      <4> DEFINE m == (D - 1) * failedSyncs
                 u == Cardinality(U)
                 v == Cardinality(U \cup {rows + 1})
      <4>2. m \in Nat /\ u \in Nat /\ v \in Nat /\ u <= m + Pending /\ v <= u + 1
        BY <1>8, <3>3, <3>5, <4>1
      <4> HIDE DEF m, u, v
      <4>3. v <= m + (Pending + 1)  BY <3>4, <4>2
      <4> QED BY <4>3 DEF m, v
    <3>7. Cardinality({r \in acked' : r > b}) <= (D - 1) * failedSyncs' + Pending'
      BY <1>1, <3>2, <3>4, <3>6
    <3> QED BY <1>9, <2>4, <3>7 DEF LossOK
  <2>9. WriteOK'  BY <2>1 DEF WriteOK
  <2> QED BY <1>1, <1>2, <2>1, <2>2, <2>3, <2>7, <2>8, <2>9, FileCall
<1> QED BY <1>10, <1>11

(* All rows are durable, or the next f_sync() has more to do. *)
LEMMA RowSyncedAction ==
  ASSUME Inv, RowSynced  PROVE Inv'
<1> DEFINE D == DATALOG_SYNC_ROWS
<1>1. /\ dl = "rsync" /\ pc = "idle" /\ dl' = "ready"
      /\ IF res = "OK" THEN acked' = acked \cup {rows} /\ failedSyncs' = 0
                       ELSE UNCHANGED acked /\ failedSyncs' = failedSyncs + 1
      /\ UNCHANGED << fname, rows_since_sync, rows, resets >>
      /\ Kept /\ pc' = pc /\ dp' = dp /\ call' = call
  BY DEF RowSynced, Answered, fatVars, Kept
<1>2. IsOpen  BY <1>1 DEF IsOpen
<1>3. /\ Types /\ RowsOK /\ LossOK /\ SyncOK /\ rows \in Nat /\ fp.fptr \in Nat
      /\ fp.objsize = fp.fptr
  BY <1>1, <1>2, IdleFacts
<1>4. Types'  BY <1>1, <1>3 DEF Types, Kept, Waits
<1>5. (NoRoom' <=> NoRoom) /\ fp' = fp /\ disk' = disk  BY <1>1, SameRoom
<1>6. /\ rows_since_sync \in 0 .. D - 1 /\ acked \subseteq 1 .. rows /\ failedSyncs \in Nat
      /\ D \in Nat /\ D # 0 /\ fp.err = "OK" /\ fp.fptr = RowEnd(rows) /\ rows > 0
      /\ RowEnd(rows) <= fp.objsize
  BY <1>1, <1>3, DatalogAssumption DEF RowsOK
<1>7. AtRow'
  <2>1. RowEnd(rows)' = RowEnd(rows)  BY <1>1 DEF RowEnd
  <2> QED BY <1>5, <1>6, <2>1 DEF AtRow
<1>8. RowsOK'
  <2>1. acked' \subseteq 1 .. rows /\ failedSyncs' \in Nat
    <3>1. rows \in 1 .. rows  BY <1>3, <1>6
    <3>2. acked' \subseteq acked \cup {rows} /\ failedSyncs' \in {0, failedSyncs + 1}
      <4>1. CASE res = "OK"  BY <1>1, <4>1
      <4>2. CASE res # "OK"  BY <1>1, <4>2
      <4> QED BY <4>1, <4>2
    <3>3. acked \cup {rows} \subseteq 1 .. rows
      <4> DEFINE S == 1 .. rows
      <4>1. acked \subseteq S /\ rows \in S  BY <1>6, <3>1
      <4> HIDE DEF S
      <4> QED BY <4>1 DEF S
    <3>4. failedSyncs + 1 \in Nat /\ 0 \in Nat  BY <1>6
    <3>5. failedSyncs' \in Nat  BY <3>2, <3>4
    <3> QED BY <3>2, <3>3, <3>5
  <2>2. RowEnd(rows)' <= fp'.objsize  BY <1>1, <1>5, <1>6 DEF RowEnd
  <2> QED BY <1>1, <1>3, <1>6, <1>7, <2>1, <2>2 DEF RowsOK
<1>9. LossOK'
  <2>1. Pending' \in Nat  BY <1>1, <1>6 DEF Pending
  <2>2. CASE res = "OK"
    <3>1. DurableAt(disk, RowEnd(rows))'
      <4>1. PICK i \in CardSlot : TheEntry(disk, i) /\ DirAt(disk, i).size = fp.objsize
        BY <1>1, <1>3, <2>2 DEF SyncOK
      <4>2. TheEntry(disk, i)' /\ DirAt(disk', i).size = fp.objsize
        BY <1>1, <1>5, <4>1 DEF TheEntry
      <4>3. DirAt(disk', i).size >= RowEnd(rows)
        <5>1. DirAt(disk', i).size = fp.fptr /\ fp.fptr >= fp.fptr  BY <1>3, <4>2
        <5> QED BY <1>6, <5>1
      <4>4. DirAt(disk', i).size >= RowEnd(rows')  BY <1>1, <4>3
      <4> QED BY <1>1, <4>2, <4>4 DEF DurableAt, TheEntry
    <3>2. {r \in acked' : r > rows} = {}
      <4>1. acked' \subseteq 1 .. rows
        <5>1. rows' = rows /\ acked' \subseteq 1 .. rows'  BY <1>1, <1>8 DEF RowsOK
        <5> QED BY <5>1
      <4>2. \A r \in 1 .. rows : ~(r > rows)  BY <1>3
      <4> HIDE DEF D
      <4> QED BY <4>1, <4>2
    <3>3. Cardinality({r \in acked' : r > rows}) = 0  BY <3>2, FS_EmptySet
    <3>4. (D - 1) * failedSyncs' + Pending' >= 0
      <4>1. failedSyncs' = 0  BY <1>1, <2>2
      <4>2. (D - 1) * 0 = 0  BY <1>6
      <4> QED BY <2>1, <4>1, <4>2
    <3>5. rows \in 0 .. rows' /\ rows' = rows  BY <1>1, <1>3
    <3> QED BY <3>1, <3>3, <3>4, <3>5 DEF LossOK
  <2>3. CASE res # "OK"
    <3>1. PICK b \in 0 .. rows :
            /\ b > 0 => DurableAt(disk, RowEnd(b))
            /\ Cardinality({r \in acked : r > b}) <= (D - 1) * failedSyncs + Pending
      BY <1>3 DEF LossOK
    <3>2. acked' = acked /\ failedSyncs' = failedSyncs + 1  BY <1>1, <2>3
    <3>3. Pending = D - 1  BY <1>1 DEF Pending
    <3>4. (D - 1) * (failedSyncs + 1) = (D - 1) * failedSyncs + (D - 1)  BY <1>6
    <3>5. Cardinality({r \in acked : r > b}) \in Nat
      <4>1. IsFiniteSet(1 .. rows)  BY <1>3, FS_Interval
      <4>2. {r \in acked : r > b} \subseteq 1 .. rows  BY <1>6
      <4>3. IsFiniteSet({r \in acked : r > b})  BY <4>1, <4>2, FS_Subset
      <4> QED BY <4>3, FS_CardinalityType
    <3>6. Cardinality({r \in acked' : r > b}) <= (D - 1) * failedSyncs' + Pending'
      <4> DEFINE m == (D - 1) * failedSyncs'
                 u == Cardinality({r \in acked : r > b})
      <4>1. u <= m /\ m \in Nat /\ u \in Nat
        <5>1. u <= (D - 1) * failedSyncs + (D - 1)  BY <3>1, <3>3
        <5>2. (D - 1) * failedSyncs \in Nat /\ D - 1 \in Nat
          <6>1. D - 1 \in Nat  BY <1>6
          <6> HIDE DEF D
          <6> QED BY <1>6, <6>1
        <5>3. m = (D - 1) * failedSyncs + (D - 1)  BY <3>2, <3>4
        <5> QED BY <3>5, <5>1, <5>2, <5>3
      <4> HIDE DEF m, u
      <4>2. \A x, y, z \in Nat : x <= y => x <= y + z  OBVIOUS
      <4>3. u <= m + Pending'  BY <2>1, <4>1, <4>2
      <4> QED BY <3>2, <4>3 DEF m, u
    <3>7. b > 0 => DurableAt(disk, RowEnd(b))'
      BY <1>1, <1>5, <3>1 DEF DurableAt, TheEntry
    <3> QED BY <1>1, <3>1, <3>6, <3>7 DEF LossOK
  <2> QED BY <2>2, <2>3
<1>10. WriteOK'  BY <1>1 DEF WriteOK
<1> QED BY <1>1, <1>2, <1>4, <1>8, <1>9, <1>10, FileCall

(***************************************************************************)
(* Power, and the beginning.                                               *)
(***************************************************************************)

(* FatFs and datalog.c with nothing in memory *)
Blank ==
  /\ win = NoWindow /\ vol = NoVolume /\ fp = Closed /\ dp = Rewind
  /\ cc = NoChain /\ call = NoCall /\ pc = "idle" /\ res = "OK"
  /\ dl = "closed" /\ fname = 0 /\ rows_since_sync = 0
  /\ rows = 0 /\ acked = {} /\ failedSyncs = 0

(* The invariant holds after a reset when the card is sound. *)
LEMMA BlankInv ==
  Blank /\ Sound(disk) => Inv
<1> SUFFICES ASSUME Blank, Sound(disk)  PROVE Inv
  OBVIOUS
<1>1. /\ win = NoWindow /\ vol = NoVolume /\ fp = Closed /\ dp = Rewind
      /\ cc = NoChain /\ call = NoCall /\ pc = "idle" /\ res = "OK"
      /\ dl = "closed" /\ fname = 0 /\ rows_since_sync = 0
      /\ rows = 0 /\ acked = {} /\ failedSyncs = 0
  BY DEF Blank
<1>2. Types
  <2>1. win \in Windows
    <3>1. \A i \in Slot : Zeros[i] \in SlotVal  BY SlotValues DEF Zeros, SlotVal
    <3>2. Zeros \in [Slot -> FatVal \cup SlotVal]  BY <3>1 DEF Zeros
    <3> QED BY <1>1, <3>2 DEF NoWindow, Windows
  <2>2. fp \in FileObjects
    <3>1. 0 \in Slot  BY Sizes DEF Slot
    <3> QED BY <1>1, <3>1, ClosedFile
  <2>3. vol \in [last_clst : 0 .. Unknown, free_clst : 0 .. NCLST \cup {Unknown},
                 fsi : {"off", "clean", "changed"}]
    <3>1. Unknown \in 0 .. Unknown  BY Constants
    <3> QED BY <1>1, <3>1 DEF NoVolume
  <2>4. dp \in Positions /\ cc \in Locals
    <3>1. 0 \in 0 .. Unknown  BY Constants
    <3> QED BY <1>1, <3>1, Constants DEF Rewind, Positions, NoChain, Locals
  <2>5. call \in Calls  BY <1>1, Pieces DEF NoCall, Calls
  <2> QED BY <1>1, <2>1, <2>2, <2>3, <2>4, <2>5, Pieces DEF Types, Calls, Points, Waits
<1>3. Seen = disk /\ ~win.wflag /\ win.sect = Nowhere  BY <1>1 DEF Seen, NoWindow
<1>4. CardOK  BY <1>3, BehindItself DEF CardOK
<1>5. WindowOK  BY <1>3, TrackedSectors DEF WindowOK
<1>6. VolumeOK /\ Control /\ ScanOK /\ GrowOK /\ AllocOK
  BY <1>1 DEF VolumeOK, Control, ScanOK, GrowOK, AllocOK, ScanPoints, GrowPoints, AllocPoints
<1>7. FileOK /\ EndOK /\ WriteOK /\ PlaceOK /\ SyncOK
  BY <1>1 DEF FileOK, EndOK, WriteOK, PlaceOK, SyncOK, IsOpen
<1>8. RowsOK  BY <1>1, DatalogAssumption DEF RowsOK
<1>9. LossOK
  <2>1. {r \in acked : r > 0} = {}  BY <1>1
  <2>2. Cardinality({r \in acked : r > 0}) = 0  BY <2>1, FS_EmptySet
  <2>3. Pending = 0 /\ (DATALOG_SYNC_ROWS - 1) * failedSyncs = 0
    BY <1>1, DatalogAssumption DEF Pending
  <2>4. 0 \in 0 .. rows /\ ~(0 > 0)  BY <1>1
  <2>5. Cardinality({r \in acked : r > 0}) <= (DATALOG_SYNC_ROWS - 1) * failedSyncs + Pending
    BY <2>2, <2>3
  <2> QED BY <2>4, <2>5 DEF LossOK
<1> QED BY <1>2, <1>4, <1>5, <1>6, <1>7, <1>8, <1>9 DEF Inv

(* Losing power keeps the invariant, for the card is sound at any moment. *)
LEMMA ResetStep ==
  ASSUME Inv, Reset  PROVE Inv'
<1>1. disk' = disk /\ Blank'  BY DEF Reset, LosePower, Blank
<1>2. Sound(disk)'  BY <1>1 DEF Inv, CardOK
<1> QED BY <1>1, <1>2, BlankInv, PTL

(* The card at the start *)
LEMMA FormattedCard ==
  ASSUME FatFsInit
  PROVE  \E old \in 0 .. MaxName :
           /\ disk = [s \in Sector |-> disk[s]] /\ DOMAIN disk = Sector
           /\ disk[InfoSector] \in InfoVal /\ disk[InfoSector].free >= NCLST - 1
           /\ \A c \in 0 .. n_fatent - 1 :
                /\ disk[FatSector(c)] = [i \in Slot |-> disk[FatSector(c)][i]]
                /\ \A i \in Slot : disk[FatSector(c)][i] =
                     FatEntry(IF ((c \div SS) * SS) + i <= dirbase THEN EOC ELSE 0)
           /\ \A c \in Cluster, k \in 0 .. CSIZE - 1 :
                /\ disk[DataSector(c, k)] = [i \in Slot |-> disk[DataSector(c, k)][i]]
                /\ \A i \in Slot : disk[DataSector(c, k)][i] =
                     IF c # dirbase THEN Junk
                     ELSE IF (k * SS) + i < old THEN Register((k * SS) + i + 1) ELSE NoEntry
<1>1. PICK old \in OldFiles,
           hint \in {[free |-> NCLST - 1, next |-> 2],
                     [free |-> NCLST - 1, next |-> n_fatent - 2],
                     [free |-> Unknown, next |-> Unknown]} :
        disk = [s \in Sector |->
                 IF s = InfoSector THEN hint
                 ELSE IF s[1] = "fat"
                 THEN [i \in Slot |-> FatEntry(
                         IF s[2] * SS + i <= dirbase THEN EOC ELSE 0)]
                 ELSE IF s[2] = dirbase
                 THEN [i \in Slot |-> IF s[3] * SS + i < old
                                     THEN [NoEntry EXCEPT !.name = s[3] * SS + i + 1]
                                     ELSE NoEntry]
                 ELSE [i \in Slot |-> Junk]]
  BY DEF FatFsInit
<1>2. old \in 0 .. MaxName
  BY <1>1, FatFsAssumption, DatalogAssumption, Sizes
<1>3. disk = [s \in Sector |-> disk[s]] /\ DOMAIN disk = Sector  BY <1>1
<1>4. disk[InfoSector] = hint  BY <1>1, SectorNames
<1>5. hint \in InfoVal /\ hint.free >= NCLST - 1
  BY <1>1, Sizes DEF InfoVal, Unknown, n_fatent
<1>6. ASSUME NEW c \in 0 .. n_fatent - 1
      PROVE  disk[FatSector(c)] =
               [i \in Slot |-> FatEntry(IF (c \div SS) * SS + i <= dirbase THEN EOC ELSE 0)]
  <2>1. FatSector(c) \in Sector /\ FatSector(c) # InfoSector
    BY SectorNames DEF Sector
  <2>2. FatSector(c)[1] = "fat" /\ FatSector(c)[2] = c \div SS  BY DEF FatSector
  <2> QED BY <1>1, <2>1, <2>2
<1>7. ASSUME NEW c \in Cluster, NEW k \in 0 .. CSIZE - 1
      PROVE  disk[DataSector(c, k)] =
               IF c = dirbase
               THEN [i \in Slot |-> IF k * SS + i < old
                                    THEN [NoEntry EXCEPT !.name = k * SS + i + 1]
                                    ELSE NoEntry]
               ELSE [i \in Slot |-> Junk]
  <2>1. DataSector(c, k) \in Sector /\ DataSector(c, k) # InfoSector
    BY SectorNames
  <2>2. DataSector(c, k)[1] = "data" /\ DataSector(c, k)[2] = c /\ DataSector(c, k)[3] = k
    BY DEF DataSector
  <2> QED BY <1>1, <2>1, <2>2
<1>8. \A n : [NoEntry EXCEPT !.name = n] = Register(n)  BY DEF NoEntry, Register
<1>9. \A c \in 0 .. n_fatent - 1 :
        /\ disk[FatSector(c)] = [i \in Slot |-> disk[FatSector(c)][i]]
        /\ \A i \in Slot : disk[FatSector(c)][i] =
             FatEntry(IF ((c \div SS) * SS) + i <= dirbase THEN EOC ELSE 0)
  BY <1>6
<1>10. \A c \in Cluster, k \in 0 .. CSIZE - 1 :
         /\ disk[DataSector(c, k)] = [i \in Slot |-> disk[DataSector(c, k)][i]]
         /\ \A i \in Slot : disk[DataSector(c, k)][i] =
              IF c # dirbase THEN Junk
              ELSE IF (k * SS) + i < old THEN Register((k * SS) + i + 1) ELSE NoEntry
  <2> SUFFICES ASSUME NEW c \in Cluster, NEW k \in 0 .. CSIZE - 1
               PROVE  /\ disk[DataSector(c, k)] = [i \in Slot |-> disk[DataSector(c, k)][i]]
                      /\ \A i \in Slot : disk[DataSector(c, k)][i] =
                           IF c # dirbase THEN Junk
                           ELSE IF (k * SS) + i < old
                                THEN Register((k * SS) + i + 1) ELSE NoEntry
    OBVIOUS
  <2>1. CASE c = dirbase
    <3>1. disk[DataSector(c, k)] =
            [i \in Slot |-> IF k * SS + i < old
                            THEN [NoEntry EXCEPT !.name = k * SS + i + 1]
                            ELSE NoEntry]
      BY <1>7, <2>1
    <3>2. ASSUME NEW i \in Slot
          PROVE  disk[DataSector(c, k)][i] =
                   IF (k * SS) + i < old THEN Register((k * SS) + i + 1) ELSE NoEntry
      <4>1. disk[DataSector(c, k)][i] =
              IF k * SS + i < old THEN [NoEntry EXCEPT !.name = k * SS + i + 1] ELSE NoEntry
        BY <3>1
      <4>2. [NoEntry EXCEPT !.name = k * SS + i + 1] = Register((k * SS) + i + 1)
        BY <1>8
      <4> QED BY <4>1, <4>2
    <3> QED BY <2>1, <3>1, <3>2
  <2>2. CASE c # dirbase
    <3>1. disk[DataSector(c, k)] = [i \in Slot |-> Junk]  BY <1>7, <2>2
    <3> QED BY <2>2, <3>1
  <2> QED BY <2>1, <2>2
<1> QED BY <1>2, <1>3, <1>4, <1>5, <1>9, <1>10

(* The card is sound at the start. *)
LEMMA FormattedSound ==
  ASSUME FatFsInit  PROVE Sound(disk)
<1>1. PICK old \in 0 .. MaxName :
        /\ disk = [s \in Sector |-> disk[s]] /\ DOMAIN disk = Sector
        /\ disk[InfoSector] \in InfoVal /\ disk[InfoSector].free >= NCLST - 1
        /\ \A c \in 0 .. n_fatent - 1 :
             /\ disk[FatSector(c)] = [i \in Slot |-> disk[FatSector(c)][i]]
             /\ \A i \in Slot : disk[FatSector(c)][i] =
                  FatEntry(IF ((c \div SS) * SS) + i <= dirbase THEN EOC ELSE 0)
        /\ \A c \in Cluster, k \in 0 .. CSIZE - 1 :
             /\ disk[DataSector(c, k)] = [i \in Slot |-> disk[DataSector(c, k)][i]]
             /\ \A i \in Slot : disk[DataSector(c, k)][i] =
                  IF c # dirbase THEN Junk
                  ELSE IF (k * SS) + i < old THEN Register((k * SS) + i + 1) ELSE NoEntry
  BY FormattedCard
<1> DEFINE n == Links(disk)
<1>2. old \in Nat /\ old <= MaxName /\ MaxName \in Nat  BY SlotValues
<1>3. ASSUME NEW k \in 0 .. CSIZE - 1, NEW i \in Slot, (k * SS) + i < old
      PROVE  Register((k * SS) + i + 1) \in DirVal
  <2>1. k * SS \in Nat /\ i \in Nat  BY Sizes DEF Slot
  <2> DEFINE m == k * SS
  <2>2. m \in Nat /\ m + i < old  BY <1>3, <2>1
  <2> HIDE DEF m
  <2>3. m + i + 1 \in 0 .. MaxName  BY <1>2, <2>1, <2>2
  <2>4. Register(m + i + 1) \in DirVal  BY <2>3, Sizes DEF Register, DirVal
  <2> QED BY <2>4 DEF m
<1>4. Image(disk)
  <2>1. ASSUME NEW c \in 0 .. n_fatent - 1  PROVE disk[FatSector(c)] \in [Slot -> FatVal]
    <3>1. ASSUME NEW i \in Slot  PROVE disk[FatSector(c)][i] \in FatVal
      <4> DEFINE v == IF ((c \div SS) * SS) + i <= dirbase THEN EOC ELSE 0
      <4>1. disk[FatSector(c)][i] = FatEntry(v)  BY <1>1
      <4>2. v \in {0, EOC}  OBVIOUS
      <4> HIDE DEF v
      <4> QED BY <4>1, <4>2 DEF FatEntry, FatVal, LinkVal
    <3> QED BY <1>1, <3>1
  <2>2. ASSUME NEW c \in Cluster, NEW k \in 0 .. CSIZE - 1
        PROVE  disk[DataSector(c, k)] \in [Slot -> SlotVal]
    <3>1. \A i \in Slot : disk[DataSector(c, k)][i] \in SlotVal
      <4> SUFFICES ASSUME NEW i \in Slot  PROVE disk[DataSector(c, k)][i] \in SlotVal
        OBVIOUS
      <4>1. disk[DataSector(c, k)][i] =
              IF c # dirbase THEN Junk
              ELSE IF (k * SS) + i < old THEN Register((k * SS) + i + 1) ELSE NoEntry
        BY <1>1
      <4>2. (k * SS) + i < old => Register((k * SS) + i + 1) \in SlotVal
        BY <1>3 DEF SlotVal
      <4>3. Junk \in SlotVal /\ NoEntry \in SlotVal  BY SlotValues DEF SlotVal
      <4> QED BY <4>1, <4>2, <4>3
    <3> QED BY <1>1, <3>1
  <2> QED BY <1>1, <2>1, <2>2 DEF Image
<1>5. n \in Maps /\ \A c \in Cluster : n[c] = IF c = dirbase THEN EOC ELSE 0
  <2>1. n \in Maps /\ \A c \in Cluster : n[c] = disk[FatSector(c)][c % SS].next
    BY <1>4, LinksType
  <2>2. ASSUME NEW c \in Cluster  PROVE n[c] = IF c = dirbase THEN EOC ELSE 0
    <3>1. c \in 0 .. n_fatent - 1 /\ c % SS \in Slot /\ c \in Nat  BY SectorNames, FatPlace
    <3>2. n[c] = IF ((c \div SS) * SS) + (c % SS) <= dirbase THEN EOC ELSE 0
      <4> DEFINE v == IF ((c \div SS) * SS) + (c % SS) <= dirbase THEN EOC ELSE 0
      <4>1. disk[FatSector(c)][c % SS] = FatEntry(v)  BY <1>1, <3>1
      <4>2. n[c] = disk[FatSector(c)][c % SS].next  BY <2>1
      <4> HIDE DEF v, n
      <4>3. FatEntry(v).next = v  BY DEF FatEntry
      <4> QED BY <4>1, <4>2, <4>3 DEF v
    <3>3. ((c \div SS) * SS) + (c % SS) = c
      <4>1. c \div SS \in Nat /\ c = (SS * (c \div SS)) + (c % SS)  BY <3>1, Sizes, Division
      <4> DEFINE q == c \div SS
      <4>2. q * SS = SS * q  BY <4>1, Sizes
      <4> QED BY <4>1, <4>2
    <3>4. c >= 2  BY DEF Cluster
    <3> QED BY <3>1, <3>2, <3>3, <3>4 DEF dirbase
  <2> QED BY <2>1, <2>2
<1>6. LinksOK(n)
  <2> HIDE DEF n
  <2> QED BY <1>5, Constants DEF LinksOK, OneWay, Top
<1>7. \A k \in 0 .. NCLST : Root(disk)[k] \in Cluster => k = 0 /\ Root(disk)[k] = dirbase
  <2> SUFFICES ASSUME NEW k \in 0 .. NCLST, Root(disk)[k] \in Cluster
               PROVE  k = 0 /\ Root(disk)[k] = dirbase
    OBVIOUS
  <2>1. k = 0
    <3> SUFFICES ASSUME k # 0  PROVE FALSE
      OBVIOUS
    <3>1. k - 1 \in 0 .. NCLST - 1 /\ (k - 1) + 1 = k  BY Sizes
    <3>2. Chain(n, dirbase)[k] \in Cluster  BY DEF Root
    <3>3. Chain(n, dirbase)[k - 1] \in Cluster
          /\ Chain(n, dirbase)[k] = n[Chain(n, dirbase)[k - 1]]
      <4> HIDE DEF n
      <4> QED BY <1>5, <3>1, <3>2, ChainStep
    <3> HIDE DEF n
    <3> QED BY <1>5, <3>2, <3>3, Constants
  <2>2. Root(disk)[0] = dirbase  BY <1>5, ChainDef DEF Root
  <2> QED BY <2>1, <2>2
<1>8. ASSUME NEW i \in CardSlot, DirAt(disk, i) # Junk
      PROVE  DirAt(disk, i) = IF i < old THEN Register(i + 1) ELSE NoEntry
  <2> DEFINE k == (i \div SS) % CSIZE
  <2>1. /\ i \in Nat /\ i \div CB \in 0 .. NCLST /\ i % SS \in Slot /\ k \in 0 .. CSIZE - 1
    BY InRange
  <2>2. Root(disk)[i \div CB] \in Cluster  BY <1>4, <1>8, <2>1, SlotOfChain DEF DirAt
  <2>3. i \div CB = 0 /\ Root(disk)[i \div CB] = dirbase  BY <1>7, <2>1, <2>2
  <2>4. DirAt(disk, i) = disk[DataSector(dirbase, k)][i % SS]
    BY <1>4, <2>1, <2>3, SlotOfChain, Constants DEF DirAt
  <2>5. (k * SS) + (i % SS) = i
    <3>1. i % CB = (SS * k) + (i % SS)  BY <2>1, Position
    <3>2. i = (CB * (i \div CB)) + (i % CB)  BY <2>1, Sizes, Division
    <3>3. i = i % CB
      <4>1. CB * 0 = 0 /\ i % CB \in Nat  BY <2>1, Sizes, Division
      <4> QED BY <2>3, <3>2, <4>1
    <3>4. SS * k = k * SS  BY <2>1, Sizes
    <3> QED BY <3>1, <3>3, <3>4
  <2>6. disk[DataSector(dirbase, k)][i % SS] =
          IF (k * SS) + (i % SS) < old THEN Register((k * SS) + (i % SS) + 1) ELSE NoEntry
    <3> HIDE DEF k
    <3> QED BY <1>1, <2>1, Constants
  <2> QED BY <2>4, <2>5, <2>6
<1>9. \A i \in CardSlot : EntryAt(disk, i) => i < old /\ DirAt(disk, i) = Register(i + 1)
  BY <1>8, SlotValues DEF EntryAt
<1>10. \A i \in CardSlot : DirAt(disk, i) = NoEntry => ~(i < old)
  <2>1. \A i \in CardSlot : Register(i + 1) # NoEntry
    BY InRange DEF Register, NoEntry
  <2> QED BY <1>8, <2>1, SlotValues
<1>11. NoNameTwice(disk) /\ NoHeadTwice(disk) /\ NothingAfterTheEnd(disk)
  <2>1. \A i \in CardSlot : Register(i + 1).name = i + 1 /\ Register(i + 1).sclust = 0 /\ i \in Nat
    BY InRange DEF Register
  <2>2. NoNameTwice(disk)
    <3> SUFFICES ASSUME NEW i \in CardSlot, NEW j \in CardSlot,
                        EntryAt(disk, i), EntryAt(disk, j),
                        DirAt(disk, i).name = DirAt(disk, j).name
                 PROVE  i = j
      BY DEF NoNameTwice
    <3>1. DirAt(disk, i).name = i + 1 /\ DirAt(disk, j).name = j + 1 /\ i \in Nat /\ j \in Nat
      BY <1>9, <2>1
    <3>2. i + 1 = j + 1  BY <3>1
    <3> QED BY <3>1, <3>2
  <2>3. NoHeadTwice(disk)  BY <1>9, <2>1 DEF NoHeadTwice
  <2>4. NothingAfterTheEnd(disk)  BY <1>2, <1>9, <1>10, <2>1 DEF NothingAfterTheEnd
  <2> QED BY <2>2, <2>3, <2>4
<1>12. NoEntryElsewhere(disk)
  <2>1. InRoot(disk, dirbase)
    <3>1. Root(disk)[0] = dirbase /\ 0 \in 0 .. NCLST  BY <1>5, ChainDef, Sizes DEF Root
    <3> QED BY <3>1 DEF InRoot
  <2> QED BY <1>1, <2>1, SlotValues DEF NoEntryElsewhere
<1>13. FilesOK(disk)
  <2> SUFFICES ASSUME NEW i \in CardSlot, EntryAt(disk, i)
               PROVE  /\ DirAt(disk, i).sclust = 0
                      /\ Holds(disk, DirAt(disk, i).sclust, DirAt(disk, i).name,
                               DirAt(disk, i).size)
    BY DEF FilesOK
  <2>1. DirAt(disk, i).sclust = 0 /\ DirAt(disk, i).size = 0
    BY <1>9 DEF Register
  <2> QED BY <2>1 DEF Holds
<1>14. Counted(disk)
  <2> DEFINE none == [c \in Cluster |-> 0]
  <2>1. none \in Maps /\ none[dirbase] = 0 /\ EOC \in LinkVal
    BY Constants DEF Maps, LinkVal
  <2>2. n = [none EXCEPT ![dirbase] = EOC]
    <3>1. n = [c \in Cluster |-> n[c]]  BY <1>5 DEF Maps
    <3> HIDE DEF n
    <3> QED BY <1>5, <3>1
  <2>3. Cardinality(FreeSet(n)) = Cardinality(FreeSet(none)) - 1
    <3> HIDE DEF n, none
    <3>1. \A x \in Cluster, y \in LinkVal : y # 0 /\ none[x] = 0 =>
            Cardinality(FreeSet([none EXCEPT ![x] = y])) = Cardinality(FreeSet(none)) - 1
      BY <2>1, FreeCount
    <3> QED BY <2>1, <2>2, <3>1, Constants
  <2>4. Cardinality(FreeSet(none)) \in Nat /\ Cardinality(FreeSet(none)) <= NCLST
    <3> HIDE DEF none
    <3> QED BY <2>1, FreeCount
  <2>5. disk[InfoSector].free \in Nat  BY <1>1, Constants, Sizes DEF InfoVal
  <2> HIDE DEF none
  <2> QED BY <1>1, <2>3, <2>4, <2>5, Sizes DEF Counted
<1> QED BY <1>4, <1>6, <1>11, <1>12, <1>13, <1>14 DEF Sound

(***************************************************************************)
(* The steps together.                                                     *)
(***************************************************************************)
LEMMA WorkingStep ==
  ASSUME Inv, Working  PROVE Inv'
<1>1. FatFsStep /\ UNCHANGED logVars  BY DEF Working
<1>2. CASE MoveWindow
  <2>1. PICK ok \in BOOLEAN : Flush(ok) \/ Load(ok)  BY <1>2 DEF MoveWindow
  <2> QED BY <1>1, <2>1, FlushStep, LoadStep
<1>3. CASE MountVolume  BY <1>1, <1>3, MountVolumeStep
<1>4. CASE MountInfo  BY <1>1, <1>4, MountInfoStep
<1>5. CASE DirFind  BY <1>1, <1>5, DirFindStep
<1>6. CASE DirFindNext  BY <1>1, <1>6, DirFindNextStep
<1>7. CASE DirAlloc  BY <1>1, <1>7, DirAllocStep
<1>8. CASE DirAllocNext  BY <1>1, <1>8, DirAllocNextStep
<1>9. CASE DirRegister  BY <1>1, <1>9, DirRegisterStep
<1>10. CASE DirClear  BY <1>1, <1>10, DirClearStep
<1>11. CASE DirClearSector  BY <1>1, <1>11, DirClearSectorStep
<1>12. CASE CreateChain  BY <1>1, <1>12, CreateChainStep
<1>13. CASE Stretch  BY <1>1, <1>13, StretchStep
<1>14. CASE Contiguous  BY <1>1, <1>14, ContiguousStep
<1>15. CASE Search  BY <1>1, <1>15, SearchStep
<1>16. CASE Link  BY <1>1, <1>16, LinkStep
<1>17. CASE Found  BY <1>1, <1>17, FoundStep
<1>18. CASE Got  BY <1>1, <1>18, GotStep
<1>19. CASE WriteRefused  BY <1>1, <1>19, WriteRefusedStep
<1>20. CASE WriteDone  BY <1>1, <1>20, WriteDoneStep
<1>21. CASE WriteCluster  BY <1>1, <1>21, WriteClusterStep
<1>22. CASE WriteSector  BY <1>1, <1>22, WriteSectorStep
<1>23. CASE WriteBack  BY <1>1, <1>23, WriteBackStep
<1>24. CASE Place  BY <1>1, <1>24, PlaceStep
<1>25. CASE Fill  BY <1>1, <1>25, FillStep
<1>26. CASE SyncNothing  BY <1>1, <1>26, SyncNothingStep
<1>27. CASE SyncData  BY <1>1, <1>27, SyncDataStep
<1>28. CASE SyncEntry  BY <1>1, <1>28, SyncEntryStep
<1>29. CASE SyncFs  BY <1>1, <1>29, SyncFsStep
<1>30. CASE SyncInfo  BY <1>1, <1>30, SyncInfoStep
<1> QED
  BY <1>1, <1>2, <1>3, <1>4, <1>5, <1>6, <1>7, <1>8, <1>9, <1>10, <1>11, <1>12, <1>13, <1>14,
     <1>15, <1>16, <1>17, <1>18, <1>19, <1>20, <1>21, <1>22, <1>23, <1>24, <1>25, <1>26, <1>27,
     <1>28, <1>29, <1>30
  DEF FatFsStep

(* Nothing changes. *)
LEMMA SameState ==
  ASSUME Inv, UNCHANGED vars  PROVE Inv'
<1>1. /\ disk' = disk /\ win' = win /\ vol' = vol /\ fp' = fp /\ dp' = dp /\ cc' = cc
      /\ call' = call /\ pc' = pc /\ res' = res /\ dl' = dl /\ fname' = fname
      /\ rows_since_sync' = rows_since_sync /\ rows' = rows /\ acked' = acked
      /\ failedSyncs' = failedSyncs /\ resets' = resets
  BY DEF vars
<1>2. Inv  OBVIOUS
<1>3. Seen' = Seen  BY <1>1, SameSeen
<1>4. UNCHANGED logVars  BY <1>1 DEF logVars
<1>5. Types' /\ CardOK'
  BY <1>1, <1>2, <1>3 DEF Inv, Types, CardOK
<1>6. Stale' = Stale /\ IsOpen' = IsOpen /\ File' = File /\ Last' = Last
  BY <1>1, <1>3 DEF Stale, IsOpen, File, Last
<1>7. WindowOK' /\ VolumeOK' /\ Control' /\ ScanOK' /\ GrowOK' /\ AllocOK'
  BY <1>1, <1>2, <1>3, <1>6
  DEF Inv, WindowOK, VolumeOK, Control, ScanOK, GrowOK, AllocOK
<1>8. FileOK'
  <2>1. CASE IsOpen  BY <1>1, <1>2, <1>3, <2>1, FileFrame DEF Inv, FileKept
  <2>2. CASE ~IsOpen  BY <1>6, <2>2 DEF FileOK
  <2> QED BY <2>1, <2>2
<1>9. (NoRoom' <=> NoRoom) /\ (AtSector' <=> AtSector) /\ (AtCluster' <=> AtCluster)
  BY <1>1, <1>3 DEF NoRoom, AtSector, AtCluster
<1>10. (Taking' <=> Taking) /\ \A p, s : SectorIs(p, s)' <=> SectorIs(p, s)
  BY <1>1, <1>6, <1>9 DEF Taking, SectorIs, RowEnd
<1>11. EndOK' /\ WriteOK' /\ PlaceOK' /\ SyncOK'
  BY <1>1, <1>2, <1>3, <1>6, <1>9, <1>10 DEF Inv, EndOK, WriteOK, PlaceOK, SyncOK, TheEntry
<1>12. RowsOK' /\ LossOK'
  <2>1. RowsOK /\ LossOK /\ CardOK  BY <1>2 DEF Inv
  <2>2. RowsOK'  BY <1>1, <1>3, <1>4, <2>1, RowsFrame DEF RowsOK
  <2>3. Behind(disk, disk')  BY <1>1, <2>1, BehindItself DEF CardOK
  <2>4. LossOK'  BY <1>4, <1>5, <2>1, <2>3, LossFrame
  <2> QED BY <2>2, <2>4
<1> QED BY <1>5, <1>7, <1>8, <1>11, <1>12 DEF Inv

(* Every step keeps the invariant. *)
LEMMA InvStep ==
  ASSUME Inv, [Next]_vars  PROVE Inv'
<1>1. CASE Open  BY <1>1, OpenAction
<1>2. CASE Mounted  BY <1>2, MountedAction
<1>3. CASE NameTaken  BY <1>3, NameTakenAction
<1>4. CASE NameFree  BY <1>4, NameFreeAction
<1>5. CASE Opened  BY <1>5, OpenedAction
<1>6. CASE HeaderWritten  BY <1>6, HeaderWrittenAction
<1>7. CASE HeaderSynced  BY <1>7, HeaderSyncedAction
<1>8. CASE HeaderClosed  BY <1>8, HeaderClosedAction
<1>9. CASE WriteRow  BY <1>9, WriteRowAction
<1>10. CASE RowRefused  BY <1>10, RowRefusedAction
<1>11. CASE RowWritten  BY <1>11, RowWrittenAction
<1>12. CASE RowSynced  BY <1>12, RowSyncedAction
<1>13. CASE Working  BY <1>13, WorkingStep
<1>14. CASE Reset  BY <1>14, ResetStep
<1>15. CASE UNCHANGED vars  BY <1>15, SameState
<1> QED BY <1>1, <1>2, <1>3, <1>4, <1>5, <1>6, <1>7, <1>8, <1>9, <1>10, <1>11, <1>12, <1>13,
           <1>14, <1>15 DEF Next, Program

(* It holds at the start. *)
LEMMA InvInit ==
  Init => Inv
<1> SUFFICES ASSUME Init  PROVE Inv
  OBVIOUS
<1>1. Sound(disk)  BY FormattedSound DEF Init
<1>2. Blank  BY DEF Init, FatFsInit, Blank
<1> QED BY <1>1, <1>2, BlankInv

(* The invariant holds at any moment, however accesses to the card fail    *)
(* and whenever power is lost.                                             *)
THEOREM Invariance == Spec => []Inv
<1>1. Init => Inv  BY InvInit
<1>2. Inv /\ [Next]_vars => Inv'  BY InvStep
<1> QED BY <1>1, <1>2, PTL DEF Spec

(***************************************************************************)
(* The file object keeps its ranges while no file is open.                 *)
(***************************************************************************)
FileRanges ==
  /\ fp.objsize \in 0 .. NCLST * CB /\ fp.fptr = fp.objsize
  /\ fp.dirty => fp.sect \in Sector

(* The ranges of an open file *)
LEMMA OpenRanges ==
  Inv /\ IsOpen => FileRanges
<1> SUFFICES ASSUME Inv, IsOpen  PROVE FileRanges
  OBVIOUS
<1>1. ChainOK /\ fp \in FileObjects  BY DEF Inv, FileOK, Types
<1>2. fp.fptr = fp.objsize /\ fp.fptr <= NCLST * CB /\ fp.fptr \in Nat
  BY <1>1 DEF ChainOK, FileObjects
<1>3. ASSUME fp.dirty  PROVE fp.sect \in Sector
  <2>1. fp.fptr > 0 /\ SectorIs(Last, fp.sect)  BY <1>1, <1>3 DEF ChainOK
  <2>2. Last \in CardSlot  BY <1>2, <2>1, Sizes DEF Last
  <2>3. (Last \div SS) % CSIZE \in 0 .. CSIZE - 1  BY <2>2, InRange
  <2> QED BY <2>1, <2>3, SectorNames DEF SectorIs
<1> QED BY <1>2, <1>3, Sizes DEF FileRanges

(* The file object changes while a file is open or as one is opened. *)
LEMMA FileObjectStep ==
  ASSUME Inv, [Next]_vars  PROVE IsOpen' \/ fp' = fp \/ Reset
<1>1. Types /\ Control  BY DEF Inv
<1>2. CASE Working
  <2>1. FatFsStep /\ dl' = dl  BY <1>2 DEF Working, logVars
  <2>2. CASE dl \in {"header", "hsync", "hclose", "ready", "row", "rsync"}
    BY <2>1, <2>2 DEF IsOpen
  <2>3. CASE dl \in {"closed", "mount", "stat", "open"}
    <3>1. pc \notin {"write", "place", "fill"} \cup SyncPoints  BY <1>1, <2>3, Where
    <3>2. pc # "idle" => call.op # "write"  BY <1>1, <2>3 DEF Control
    <3>3. CASE DirRegister
      <4>1. pc' = "idle" /\ res' = "OK" /\ pc = "alloc"  BY <3>3 DEF DirRegister, At, Return
      <4>2. dl = "open"  BY <1>1, <4>1, Where
      <4> QED BY <2>1, <4>1, <4>2 DEF IsOpen
    <3>4. CASE MoveWindow
      <4>1. PICK ok \in BOOLEAN : Flush(ok) \/ Load(ok)  BY <3>4 DEF MoveWindow
      <4>2. pc # "idle"  BY <4>1 DEF Flush, Load, Want
      <4> QED BY <3>2, <4>1, <4>2 DEF Flush, Load, Abort
    <3>5. CASE MountVolume \/ MountInfo \/ DirFind \/ DirFindNext \/ DirAlloc \/ DirAllocNext
               \/ DirClear \/ DirClearSector
      BY <3>5 DEF MountVolume, MountInfo, DirFind, DirFindNext, DirAlloc, DirAllocNext,
                  DirClear, DirClearSector
    <3>6. CASE CreateChain \/ Stretch \/ Contiguous \/ Search
      BY <3>2, <3>6 DEF CreateChain, Stretch, Contiguous, Search, NoCluster, Mark, Abort, At
    <3>7. CASE Link \/ Found  BY <3>7 DEF Link, Found
    <3>8. CASE Got
      <4>1. pc = "got"  BY <3>8 DEF Got
      <4>2. call.op = "open"  BY <1>1, <2>3, <4>1, Where DEF AllocPoints
      <4> QED BY <3>8, <4>2 DEF Got
    <3>9. CASE WriteRefused \/ WriteDone \/ WriteCluster \/ WriteSector \/ WriteBack \/ Place
               \/ Fill
      BY <3>1, <3>9 DEF WriteRefused, WriteDone, WriteCluster, WriteSector, WriteBack, Place,
                        Fill
    <3>10. CASE SyncNothing \/ SyncData \/ SyncEntry \/ SyncFs \/ SyncInfo
      BY <3>1, <3>10 DEF SyncNothing, SyncData, SyncEntry, SyncFs, SyncInfo, SyncPoints, At
    <3> QED BY <2>1, <3>3, <3>4, <3>5, <3>6, <3>7, <3>8, <3>9, <3>10 DEF FatFsStep
  <2> QED BY <1>1, <2>2, <2>3 DEF Types, Waits
<1>3. CASE Open \/ Mounted \/ NameTaken \/ NameFree \/ HeaderClosed
  BY <1>3 DEF Open, Mounted, NameTaken, NameFree, HeaderClosed, OpenFailed, Probe, Start, fatVars,
              f_mount, f_stat, f_open
<1>4. CASE Opened \/ HeaderWritten \/ HeaderSynced \/ WriteRow \/ RowRefused \/ RowWritten
           \/ RowSynced
  BY <1>4 DEF Opened, HeaderWritten, HeaderSynced, WriteRow, RowRefused, RowWritten, RowSynced,
              OpenFailed, Start, fatVars, f_write, f_sync, f_close
<1>5. CASE UNCHANGED vars  BY <1>5 DEF vars
<1> QED BY <1>2, <1>3, <1>4, <1>5 DEF Next, Program

(* The ranges stay when no file is open. *)
LEMMA RangesStep ==
  ASSUME Inv, FileRanges, [Next]_vars, Inv', (Inv /\ IsOpen => FileRanges)'
  PROVE  FileRanges'
<1>1. CASE IsOpen'  BY <1>1
<1>2. CASE fp' = fp  BY <1>2 DEF FileRanges
<1>3. CASE Reset
  <2>1. fp' = Closed  BY <1>3 DEF Reset, LosePower
  <2>2. fp'.objsize = 0 /\ fp'.fptr = 0 /\ fp'.dirty = FALSE  BY <2>1 DEF Closed
  <2> QED BY <2>2, Sizes DEF FileRanges
<1> QED BY <1>1, <1>2, <1>3, FileObjectStep

(* The file object of FatFs keeps its size and its position equal and      *)
(* within the volume, while a file is open and after it was closed.        *)
THEOREM Ranges == Spec => []FileRanges
<1>1. Init => FileRanges
  <2> SUFFICES ASSUME Init  PROVE FileRanges
    OBVIOUS
  <2>1. fp = Closed  BY DEF Init, FatFsInit
  <2>2. fp.objsize = 0 /\ fp.fptr = 0 /\ fp.dirty = FALSE  BY <2>1 DEF Closed
  <2> QED BY <2>2, Sizes DEF FileRanges
<1>2. Inv /\ FileRanges /\ [Next]_vars /\ Inv' /\ (Inv /\ IsOpen => FileRanges)' => FileRanges'
  BY RangesStep
<1> QED BY <1>1, <1>2, Invariance, OpenRanges, PTL DEF Spec

(***************************************************************************)
(* What the program promises.                                              *)
(***************************************************************************)
THEOREM TypeCorrect == Spec => []TypeOK
<1>1. Inv /\ FileRanges => TypeOK
  <2> SUFFICES ASSUME Inv, FileRanges  PROVE TypeOK
    OBVIOUS
  <2>1. Types /\ RowsOK /\ DOMAIN disk = Sector  BY DEF Inv, CardOK, Sound, Image
  <2>2. /\ win.sect \in Sector \cup {Nowhere} /\ win.wflag \in BOOLEAN
        /\ fp.sclust \in Cluster \cup {0} /\ fp.clust \in Cluster \cup {0}
        /\ vol.free_clst \in 0 .. NCLST \cup {Unknown}
    BY <2>1 DEF Types, Windows, FileObjects
  <2>3. /\ rows_since_sync \in 0 .. DATALOG_SYNC_ROWS - 1 /\ acked \subseteq 1 .. rows
        /\ RowEnd(rows) <= fp.objsize \/ rows = 0
    BY <2>1 DEF RowsOK
  <2> QED BY <2>1, <2>2, <2>3, Sizes DEF TypeOK, FileRanges
<1> QED BY <1>1, Invariance, Ranges, PTL

(* Every file on the card reads back as what was written to it, at every   *)
(* moment: f_sync() orders data, FAT and directory entry such that power   *)
(* may be lost between any two writes of a sector.                         *)
THEOREM FilesIntact == Spec => []CardFilesIntact
<1>1. Inv /\ TypeOK => CardFilesIntact
  <2> SUFFICES ASSUME Inv, TypeOK, NEW e \in Entries(disk), NEW i \in 0 .. e.size - 1
               PROVE  SlotOnCard(disk, e, i) = Expected(e.name, i)
    BY DEF CardFilesIntact
  <2>1. Sound(disk)  BY DEF Inv, CardOK
  <2>2. PICK j \in CardSlot : EntryAt(disk, j) /\ e = DirAt(disk, j)  BY EntriesAre
  <2>3. SlotOf(disk, Chain(Links(disk), e.sclust), i) = Expected(e.name, i)
    BY <2>1, <2>2, FileSlot
  <2> QED BY <2>3 DEF SlotOnCard
<1> QED BY <1>1, Invariance, TypeCorrect, PTL

(* create_chain() never leaves a cluster in two chains of the card,        *)
(* neither by a failed write nor by a loss of power in the middle of an    *)
(* allocation.                                                             *)
THEOREM NoClusterTwice == Spec => []ChainsDisjoint
<1>1. Inv => ChainsDisjoint
  <2> SUFFICES ASSUME Inv  PROVE ChainsDisjoint
    OBVIOUS
  <2>1. Sound(disk) /\ LinksOK(Links(disk)) /\ FilesOK(disk) /\ NoHeadTwice(disk)
    BY DEF Inv, CardOK, Sound
  <2> DEFINE next == Links(disk)
             heads == {e \in Entries(disk) : e.sclust # 0}
  <2>2. \A c, d \in Cluster : next[c] \in Cluster /\ next[c] = next[d] => c = d
    BY <2>1 DEF LinksOK, OneWay
  <2>3. \A e \in heads : \E i \in CardSlot : EntryAt(disk, i) /\ e = DirAt(disk, i) /\ e.sclust # 0
    BY EntriesAre
  <2>4. \A e \in heads : \A c \in Cluster : next[c] # e.sclust
    <3> SUFFICES ASSUME NEW e \in heads  PROVE \A c \in Cluster : next[c] # e.sclust
      OBVIOUS
    <3>1. PICK i \in CardSlot : EntryAt(disk, i) /\ e = DirAt(disk, i) /\ e.sclust # 0
      BY <2>3
    <3>2. IsHead(next, e.sclust)  BY <2>1, <3>1 DEF FilesOK
    <3> QED BY <3>2 DEF IsHead, Top
  <2>5. \A e, f \in heads : e.sclust = f.sclust => e = f
    <3> SUFFICES ASSUME NEW e \in heads, NEW f \in heads, e.sclust = f.sclust  PROVE e = f
      OBVIOUS
    <3>1. PICK i \in CardSlot : EntryAt(disk, i) /\ e = DirAt(disk, i) /\ e.sclust # 0
      BY <2>3
    <3>2. PICK j \in CardSlot : EntryAt(disk, j) /\ f = DirAt(disk, j) /\ f.sclust # 0
      BY <2>3
    <3>3. i = j  BY <2>1, <3>1, <3>2 DEF NoHeadTwice
    <3> QED BY <3>1, <3>2, <3>3
  <2> QED BY <2>2, <2>4, <2>5 DEF ChainsDisjoint
<1> QED BY <1>1, Invariance, PTL

(* create_chain() and dir_next() never meet the free or reserved link that *)
(* they answer with FR_INT_ERR.                                            *)
THEOREM NoBrokenChain == Spec => []NoInternalError
<1>1. Inv => NoInternalError  BY DEF Inv, Types, FileObjects, NoInternalError
<1> QED BY <1>1, Invariance, PTL

(* When f_write() takes less than a row, as datalog_write_row() tests, the *)
(* volume has no free cluster left.                                        *)
THEOREM FullWhenShort == Spec => []ShortWriteMeansFull
<1>1. Inv => ShortWriteMeansFull
  <2> SUFFICES ASSUME Inv, Answered("row"), res = "OK", call.todo > 0, NEW c \in Cluster
               PROVE  (IF win.sect = FatSector(c) THEN Fat(c) ELSE Links(disk)[c]) # 0
    BY DEF ShortWriteMeansFull
  <2>1. dl = "row" /\ pc = "idle" /\ CardOK /\ WindowOK /\ WriteOK /\ Image(disk) /\ Image(Seen)
    BY DEF Answered, Inv, CardOK, Sound
  <2>2. FreeSet(Links(Seen)) = {}  BY <2>1 DEF WriteOK, NoRoom
  <2>3. Links(Seen)[c] # 0  BY <2>2 DEF FreeSet
  <2>4. CASE win.sect = FatSector(c)
    <3>1. ~Stale  BY <2>1 DEF Stale
    <3> QED BY <2>1, <2>3, <2>4, <3>1, ReadFat
  <2>5. CASE win.sect # FatSector(c)
    <3>1. FatSector(c) \in Sector  BY SectorNames
    <3>2. Seen[FatSector(c)] = disk[FatSector(c)]
      BY <2>1, <2>5, <3>1 DEF Seen, Put, Image
    <3>3. Links(Seen)[c] = Links(disk)[c]  BY <2>1, <3>2, LinksType
    <3> QED BY <2>3, <2>5, <3>3
  <2> QED BY <2>4, <2>5
<1> QED BY <1>1, Invariance, PTL

(* What the entry of the open file says is what a reader finds. *)
LEMMA DurableRows ==
  ASSUME NEW b \in Nat, DurableAt(disk, RowEnd(b)), NEW r \in Nat, r <= b, Sound(disk)
  PROVE  Durable(r)
<1>1. PICK i \in CardSlot : TheEntry(disk, i) /\ DirAt(disk, i).size >= RowEnd(b)
  BY DEF DurableAt
<1>2. DirAt(disk, i) \in Entries(disk) /\ DirAt(disk, i).name = fname
  BY <1>1, EntriesAre DEF TheEntry
<1>3. DirAt(disk, i).size \in Nat  BY <1>1, EntryType, Sizes DEF TheEntry, Sound
<1>4. RowEnd(r) \in Nat /\ RowEnd(b) \in Nat /\ RowEnd(r) <= RowEnd(b)
  <2>1. RowEnd(r) \in Nat /\ RowEnd(b) \in Nat  BY RowSizes
  <2>2. CASE r = b  BY <2>1, <2>2
  <2>3. CASE r < b
    <3>1. RowEnd(r) < RowEnd(b)  BY <2>3, RowSizes
    <3> QED BY <2>1, <3>1
  <2> QED BY <2>1, <2>2, <2>3
<1> QED BY <1>1, <1>2, <1>3, <1>4 DEF Durable

(* Of the rows that datalog_write_row() acknowledged, fewer than           *)
(* DATALOG_SYNC_ROWS are missing from the card, and as many again for each *)
(* f_sync() that failed since one succeeded.                               *)
THEOREM BoundedLoss == Spec => []LossIsBounded
<1>1. Inv => LossIsBounded
  <2> DEFINE D == DATALOG_SYNC_ROWS
  <2> SUFFICES ASSUME Inv  PROVE Cardinality(Unsafe) <= (D - 1) * (failedSyncs + 1)
    BY DEF LossIsBounded
  <2>1. /\ RowsOK /\ LossOK /\ Sound(disk) /\ rows \in Nat /\ acked \subseteq 1 .. rows
        /\ failedSyncs \in Nat /\ rows_since_sync \in 0 .. D - 1 /\ D \in Nat /\ D # 0
    BY DatalogAssumption DEF Inv, CardOK, RowsOK
  <2>2. PICK b \in 0 .. rows :
          /\ b > 0 => DurableAt(disk, RowEnd(b))
          /\ Cardinality({r \in acked : r > b}) <= (D - 1) * failedSyncs + Pending
    BY <2>1 DEF LossOK
  <2> DEFINE U == {r \in acked : r > b}
  <2>3. Unsafe \subseteq U
    <3> SUFFICES ASSUME NEW r \in acked, ~Durable(r)  PROVE r > b
      BY DEF Unsafe
    <3>1. r \in 1 .. rows  BY <2>1
    <3>2. r \in Nat /\ r >= 1 /\ b \in Nat  BY <2>1, <3>1
    <3>3. SUFFICES ASSUME r <= b  PROVE FALSE
      BY <3>2
    <3>4. b > 0  BY <3>2, <3>3
    <3>5. Durable(r)  BY <2>1, <2>2, <3>2, <3>3, <3>4, DurableRows
    <3> QED BY <3>5
  <2>4. IsFiniteSet(U)
    <3>1. IsFiniteSet(1 .. rows)  BY <2>1, FS_Interval
    <3>2. U \subseteq 1 .. rows  BY <2>1
    <3> HIDE DEF U
    <3> QED BY <3>1, <3>2, FS_Subset
  <2>5. Cardinality(Unsafe) <= Cardinality(U) /\ Cardinality(U) \in Nat
        /\ Cardinality(Unsafe) \in Nat
    <3> HIDE DEF U
    <3> QED BY <2>3, <2>4, FS_Subset, FS_CardinalityType
  <2>6. Pending \in 0 .. D - 1  BY <2>1 DEF Pending
  <2>7. (D - 1) * (failedSyncs + 1) = (D - 1) * failedSyncs + (D - 1)  BY <2>1
  <2> DEFINE m == (D - 1) * failedSyncs
  <2>8. m \in Nat
    <3>1. D - 1 \in Nat  BY <2>1
    <3> HIDE DEF D
    <3> QED BY <2>1, <3>1
  <2>9. Cardinality(U) <= m + Pending  BY <2>2
  <2>10. Cardinality(Unsafe) <= m + (D - 1)
    <3> HIDE DEF m, U
    <3> QED BY <2>1, <2>5, <2>6, <2>8, <2>9
  <2> QED BY <2>7, <2>10
<1> QED BY <1>1, Invariance, PTL

(* When f_sync() reports success to datalog_write_row(), all rows of the   *)
(* session are on the card.                                                *)
THEOREM DurableSync == Spec => SyncMakesDurable
<1>1. Inv /\ [Next]_vars =>
        [RowSynced /\ res = "OK" => \A r \in 1 .. rows : Durable(r)]_vars
  <2> SUFFICES ASSUME Inv, RowSynced, res = "OK", NEW r \in 1 .. rows  PROVE Durable(r)
    OBVIOUS
  <2>1. dl = "rsync" /\ pc = "idle"  BY DEF RowSynced, Answered
  <2>2. /\ SyncOK /\ RowsOK /\ Sound(disk) /\ rows \in Nat /\ fp.fptr = RowEnd(rows)
        /\ fp.objsize = fp.fptr /\ fp.fptr \in Nat
    <3>1. IsOpen  BY <2>1 DEF IsOpen
    <3> QED BY <2>1, <3>1, IdleFacts DEF RowsOK, CardOK, Sound
  <2>3. PICK i \in CardSlot : TheEntry(disk, i) /\ DirAt(disk, i).size = fp.objsize
    BY <2>1, <2>2 DEF SyncOK
  <2>4. DirAt(disk, i).size >= RowEnd(rows)  BY <2>2, <2>3
  <2>5. DurableAt(disk, RowEnd(rows))  BY <2>3, <2>4 DEF DurableAt
  <2>6. r \in Nat /\ r <= rows  BY <2>2
  <2> QED BY <2>2, <2>5, <2>6, DurableRows
<1> QED BY <1>1, Invariance, PTL DEF Spec, SyncMakesDurable

(***************************************************************************)
(* Logging implements DurableLog.                                          *)
(***************************************************************************)

(* The entries of a card are what its data sectors hold of them. *)
HasSlot(d, x) == \E c \in Cluster, k \in 0 .. CSIZE - 1, s \in Slot : x = d[DataSector(c, k)][s]

(* They are the slots of the root directory, and no other. *)
LEMMA EntriesAreSlots ==
  ASSUME NEW d, Sound(d), NEW x
  PROVE  x \in Entries(d) <=> HasSlot(d, x) /\ IsEntry(x)
<1>1. Image(d) /\ NoEntryElsewhere(d) /\ Links(d) \in Maps  BY DEF Sound, LinksOK
<1>2. ASSUME x \in Entries(d)  PROVE HasSlot(d, x) /\ IsEntry(x)
  <2>1. PICK i \in CardSlot : EntryAt(d, i) /\ x = DirAt(d, i)  BY <1>2, EntriesAre
  <2>2. i \in Nat /\ Root(d)[i \div CB] \in Cluster  BY <1>1, <2>1, EntryType
  <2>3. DirAt(d, i) = d[DataSector(Root(d)[i \div CB], (i \div SS) % CSIZE)][i % SS]
    BY <1>1, <2>2, SlotOfChain DEF DirAt
  <2>4. (i \div SS) % CSIZE \in 0 .. CSIZE - 1 /\ i % SS \in Slot  BY InRange
  <2> QED BY <2>1, <2>2, <2>3, <2>4 DEF HasSlot, EntryAt
<1>3. ASSUME HasSlot(d, x), IsEntry(x)  PROVE x \in Entries(d)
  <2>1. PICK c \in Cluster, k \in 0 .. CSIZE - 1, s \in Slot : x = d[DataSector(c, k)][s]
    BY <1>3 DEF HasSlot
  <2>2. InRoot(d, c)  BY <1>1, <1>3, <2>1 DEF NoEntryElsewhere
  <2>3. PICK t \in 0 .. NCLST : Root(d)[t] = c  BY <2>2 DEF InRoot
  <2>4. t \in 0 .. NCLST - 1  BY <1>1, <2>1, <2>3, ChainEnds, Sizes DEF Root, Sound, LinksOK
  <2>5. PICK i \in CardSlot : i \div CB = t /\ (i \div SS) % CSIZE = k /\ i % SS = s
    BY <2>4, SlotExists
  <2>6. i \in Nat  BY InRange
  <2>7. DirAt(d, i) = x  BY <1>1, <2>1, <2>3, <2>5, <2>6, SlotOfChain DEF DirAt
  <2> QED BY <1>3, <2>7, EntriesAre DEF EntryAt
<1> QED BY <1>2, <1>3

(* What is written to a sector is all that can be new on the card. *)
LEMMA PutEntries ==
  ASSUME NEW d, Sound(d), NEW e, Sound(e), NEW t, NEW data, e = Put(d, t, data),
         NEW x \in Entries(e)
  PROVE  \/ x \in Entries(d)
         \/ /\ \E c \in Cluster, k \in 0 .. CSIZE - 1 : t = DataSector(c, k)
            /\ \E s \in Slot : x = data[s] /\ IsEntry(x)
<1>1. HasSlot(e, x) /\ IsEntry(x)  BY EntriesAreSlots
<1>2. PICK c \in Cluster, k \in 0 .. CSIZE - 1, s \in Slot : x = e[DataSector(c, k)][s]
  BY <1>1 DEF HasSlot
<1>3. DataSector(c, k) \in Sector /\ DOMAIN d = Sector  BY SectorNames DEF Sound, Image
<1>4. CASE t = DataSector(c, k)
  <2>1. e[t] = data  BY <1>3, <1>4 DEF Put
  <2> QED BY <1>1, <1>2, <1>4, <2>1
<1>5. CASE t # DataSector(c, k)
  <2>1. e[DataSector(c, k)] = d[DataSector(c, k)]  BY <1>3, <1>5 DEF Put
  <2>2. HasSlot(d, x)  BY <1>2, <2>1 DEF HasSlot
  <2> QED BY <1>1, <2>2, EntriesAreSlots
<1> QED BY <1>4, <1>5

(* A sector that is written is on the card. *)
LEMMA WrittenEntries ==
  ASSUME NEW d, Sound(d), NEW e, Sound(e), NEW c \in Cluster, NEW k \in 0 .. CSIZE - 1,
         NEW data, e = Put(d, DataSector(c, k), data), NEW s \in Slot, IsEntry(data[s])
  PROVE  data[s] \in Entries(e)
<1>1. DataSector(c, k) \in Sector /\ DOMAIN d = Sector  BY SectorNames DEF Sound, Image
<1>2. e[DataSector(c, k)] = data  BY <1>1 DEF Put
<1>3. HasSlot(e, data[s])  BY <1>2 DEF HasSlot
<1> QED BY <1>3, EntriesAreSlots

(* Names are unique on a card. *)
LEMMA OneOfAName ==
  ASSUME NEW d, Sound(d), NEW e \in Entries(d), NEW f \in Entries(d), e.name = f.name
  PROVE  e = f
<1>1. PICK i \in CardSlot : EntryAt(d, i) /\ e = DirAt(d, i)  BY EntriesAre
<1>2. PICK j \in CardSlot : EntryAt(d, j) /\ f = DirAt(d, j)  BY EntriesAre
<1> QED BY <1>1, <1>2 DEF Sound, NoNameTwice

(* What comes after a card has its names, with files as long. *)
LEMMA EntriesStay ==
  ASSUME NEW d, NEW e, Behind(d, e), NEW f \in Entries(d)
  PROVE  \E g \in Entries(e) : g.name = f.name /\ f.size <= g.size
<1>1. PICK i \in CardSlot : EntryAt(d, i) /\ f = DirAt(d, i)  BY EntriesAre
<1>2. /\ EntryAt(e, i) /\ DirAt(d, i).name = DirAt(e, i).name
      /\ DirAt(d, i).size <= DirAt(e, i).size
  BY <1>1 DEF Behind
<1> QED BY <1>1, <1>2, EntriesAre

(* A sector without entries goes to the card, past the directory. *)
LEMMA NoEntryWritten ==
  ASSUME NEW d, Sound(d), NEW e, Sound(e), Behind(d, e), NEW t, NEW data,
         e \in {d, Put(d, t, data)},
         \A c \in Cluster, k \in 0 .. CSIZE - 1 :
           t = DataSector(c, k) => \A s \in Slot : ~IsEntry(data[s])
  PROVE  Entries(e) = Entries(d)
<1>1. CASE e = d  BY <1>1
<1>2. CASE e = Put(d, t, data)
  <2>1. Entries(e) \subseteq Entries(d)
    <3> SUFFICES ASSUME NEW x \in Entries(e)  PROVE x \in Entries(d)
      OBVIOUS
    <3> QED BY <1>2, PutEntries
  <2>2. ASSUME NEW f \in Entries(d)  PROVE f \in Entries(e)
    <3>1. PICK g \in Entries(e) : g.name = f.name  BY EntriesStay
    <3>2. g = f  BY <2>1, <3>1, OneOfAName
    <3> QED BY <3>1, <3>2
  <2> QED BY <2>1, <2>2
<1> QED BY <1>1, <1>2

(* The entries that the window holds and the card does not are those of    *)
(* the open file, and the card has no file of the name that is opened.     *)
SameSize(e, d) == \E f \in Entries(d) : f.name = e.name /\ f.size = e.size
InData(t) == \E c \in Cluster, k \in 0 .. CSIZE - 1 : t = DataSector(c, k)
Ours(e) == IsOpen /\ e.name = fname
WindowIsOurs ==
  dl # "closed" /\ pc # "mount" /\ win.wflag /\ InData(win.sect) =>
    \A s \in Slot : IsEntry(win.data[s]) =>
      SameSize(win.data[s], disk) \/ Ours(win.data[s])
NameIsNew ==
  dl = "open" \/ (dl = "stat" /\ pc = "idle" /\ res = "NO_FILE") =>
    \A e \in Entries(disk) : e.name # fname
LogInv == WindowIsOurs /\ NameIsNew

(* What a step of FatFs does to the directory of the card and the window *)
Quiet == Entries(disk') = Entries(disk) /\ (win' = win \/ ~win'.wflag)
Flushing ==
  /\ win.wflag /\ pc \notin {"idle", "mount"} /\ dl # "closed"
  /\ win'.sect = win.sect /\ win'.data = win.data
  /\ disk' \in {disk, Put(disk, win.sect, win.data)}
FatChanged == disk' = disk /\ ~InData(win'.sect)
EntryChanged ==
  /\ disk' = disk /\ IsOpen'
  /\ \A s \in Slot : IsEntry(win'.data[s]) =>
       SameSize(win'.data[s], disk) \/ win'.data[s].name = fname

(* move_window() writes the window, or reads into it when it is clean. *)
LEMMA FlushMove ==
  ASSUME Inv, NEW ok \in BOOLEAN, Flush(ok) \/ Load(ok)  PROVE Quiet \/ Flushing
<1>1. Types /\ Control /\ win \in Windows  BY DEF Inv, Types
<1>2. CASE Flush(ok)
  <2>1. win.sect # Want /\ win.wflag /\ DiskWrite(win.sect, win.data, ok)  BY <1>2 DEF Flush
  <2>2. disk' \in {disk, Put(disk, win.sect, win.data)}  BY <2>1 DEF DiskWrite, Put
  <2>3. win'.sect = win.sect /\ win'.data = win.data
    BY <1>1, <1>2 DEF Flush, Windows
  <2>4. pc \notin {"idle", "mount"}  BY <2>1 DEF Want
  <2>5. dl # "closed"  BY <1>1, <2>4 DEF Control
  <2> QED BY <2>1, <2>2, <2>3, <2>4, <2>5 DEF Flushing
<1>3. CASE Load(ok)
  <2>1. disk' = disk /\ ~win.wflag  BY <1>3 DEF Load
  <2>2. ~win'.wflag  BY <1>1, <1>3, <2>1 DEF Load, Windows
  <2> QED BY <2>1, <2>2 DEF Quiet
<1> QED BY <1>2, <1>3

(* dir_clear() writes the window and takes it. *)
LEMMA DirClearMove ==
  ASSUME Inv, DirClear  PROVE Quiet \/ Flushing
<1>1. pc = "clear" /\ dl = "open" /\ win \in Windows  BY Where DEF Inv, Types, DirClear
<1>2. CASE win.wflag
  <2>1. PICK ok \in BOOLEAN :
          DiskWrite(win.sect, win.data, ok) /\ win' = [win EXCEPT !.wflag = ~ok]
    BY <1>2 DEF DirClear
  <2>2. disk' \in {disk, Put(disk, win.sect, win.data)}  BY <2>1 DEF DiskWrite, Put
  <2>3. win'.sect = win.sect /\ win'.data = win.data  BY <1>1, <2>1 DEF Windows
  <2> QED BY <1>1, <1>2, <2>2, <2>3 DEF Flushing
<1>3. CASE ~win.wflag
  <2>1. /\ disk' = disk
        /\ win' = [win EXCEPT !.sect = DataSector(cc.ncl, 0), !.data = Zeros]
    BY <1>3 DEF DirClear
  <2>2. ~win'.wflag  BY <1>1, <1>3, <2>1 DEF Windows
  <2> QED BY <2>1, <2>2 DEF Quiet
<1> QED BY <1>2, <1>3

(* dir_clear() writes zeros, which are no entries. *)
LEMMA DirClearSectorMove ==
  ASSUME Inv, DirClearSector, UNCHANGED logVars  PROVE Quiet
<1>1. Sound(disk) /\ Sound(disk') /\ Behind(disk, disk')
  BY DirClearSectorStep DEF Inv, CardOK
<1> DEFINE t == DataSector(cc.ncl, CSIZE - call.todo)
<1>2. disk' \in {disk, Put(disk, t, Zeros)} /\ win' = win
  BY DEF DirClearSector, DiskWrite, Put
<1>3. \A s \in Slot : ~IsEntry(Zeros[s])  BY SlotValues DEF Zeros
<1> HIDE DEF t
<1>4. Entries(disk') = Entries(disk)  BY <1>1, <1>2, <1>3, NoEntryWritten
<1> QED BY <1>2, <1>4 DEF Quiet

(* The sector in the file's buffer *)
LEMMA BufferMove ==
  ASSUME Inv, Inv', Behind(disk, disk'), win' = win,
         disk' \in {disk, Put(disk, fp.sect, fp.buf)}
  PROVE  Quiet
<1>1. Sound(disk) /\ Sound(disk') /\ fp.buf \in [Slot -> PieceVal]
  BY DEF Inv, CardOK, Types, FileObjects
<1>2. \A s \in Slot : ~IsEntry(fp.buf[s])  BY <1>1, SlotValues
<1>3. Entries(disk') = Entries(disk)  BY <1>1, <1>2, NoEntryWritten
<1> QED BY <1>3 DEF Quiet

(* f_write() writes the file's buffer. *)
LEMMA WriteBackMove ==
  ASSUME Inv, WriteBack, UNCHANGED logVars  PROVE Quiet
<1>1. Inv' /\ Behind(disk, disk')  BY WriteBackStep
<1>2. win' = win /\ disk' \in {disk, Put(disk, fp.sect, fp.buf)}
  BY DEF WriteBack, DiskWrite, Put
<1> QED BY <1>1, <1>2, BufferMove

(* f_sync() writes the file's buffer. *)
LEMMA SyncDataMove ==
  ASSUME Inv, SyncData, UNCHANGED logVars  PROVE Quiet
<1>1. Inv' /\ Behind(disk, disk')  BY SyncDataStep
<1>2. win' = win /\ disk' \in {disk, Put(disk, fp.sect, fp.buf)}
  BY DEF SyncData, DiskWrite, Put
<1> QED BY <1>1, <1>2, BufferMove

(* f_sync() writes the window. *)
LEMMA SyncFsMove ==
  ASSUME Inv, SyncFs  PROVE Flushing
<1>1. pc = "sync_fs" /\ win \in Windows /\ win.wflag /\ dl # "closed"
  BY DEF Inv, Types, SyncFs, SyncOK, Control
<1>2. PICK ok \in BOOLEAN :
        DiskWrite(win.sect, win.data, ok) /\ win' = [win EXCEPT !.wflag = ~ok]
  BY DEF SyncFs
<1>3. disk' \in {disk, Put(disk, win.sect, win.data)}  BY <1>2 DEF DiskWrite, Put
<1>4. win'.sect = win.sect /\ win'.data = win.data  BY <1>1, <1>2 DEF Windows
<1> QED BY <1>1, <1>3, <1>4 DEF Flushing

(* f_sync() writes FSInfo. *)
LEMMA SyncInfoMove ==
  ASSUME Inv, SyncInfo, UNCHANGED logVars  PROVE Quiet
<1>1. Inv' /\ Behind(disk, disk')  BY SyncInfoStep
<1>2. Sound(disk) /\ Sound(disk') /\ win \in Windows /\ ~win.wflag
  BY <1>1 DEF Inv, CardOK, Types, SyncInfo, SyncOK
<1> DEFINE info == [free |-> vol.free_clst, next |-> vol.last_clst]
<1>3. disk' \in {disk, Put(disk, InfoSector, info)} /\ win' = [win EXCEPT !.sect = InfoSector]
  BY DEF SyncInfo, DiskWrite, Put
<1>4. ~win'.wflag  BY <1>2, <1>3 DEF Windows
<1>5. \A c \in Cluster, k \in 0 .. CSIZE - 1 : InfoSector # DataSector(c, k)
  BY SectorNames
<1> HIDE DEF info
<1>6. Entries(disk') = Entries(disk)  BY <1>1, <1>2, <1>3, <1>5, NoEntryWritten
<1> QED BY <1>4, <1>6 DEF Quiet

(* A mark or a link goes to a sector of the FAT in the window. *)
LEMMA MarkMove ==
  ASSUME Inv, NEW c, win.sect = FatSector(c), disk' = disk,
         NEW x, win' = win \/ win' = [win EXCEPT !.wflag = TRUE, !.data = x]
  PROVE  FatChanged
<1>1. win \in Windows  BY DEF Inv, Types
<1>2. win'.sect = win.sect  BY <1>1 DEF Windows
<1> QED BY <1>2, SectorNames DEF FatChanged, InData

(* create_chain() changes the FAT in the window. *)
LEMMA ChainMove ==
  ASSUME Inv, Contiguous \/ Search \/ Link  PROVE FatChanged
<1>1. CASE Contiguous \/ Search
  <2>1. win.sect = FatSector(cc.ncl) /\ disk' = disk
    BY <1>1 DEF Contiguous, Search, At, Want
  <2>2. win' = win \/ Mark  BY <1>1 DEF Contiguous, Search
  <2> DEFINE x == [win.data EXCEPT ![cc.ncl % SS] = FatEntry(EOC)]
  <2>3. win' = win \/ win' = [win EXCEPT !.wflag = TRUE, !.data = x]
    BY <2>2 DEF Mark
  <2> HIDE DEF x
  <2> QED BY <2>1, <2>3, MarkMove
<1>2. CASE Link
  <2>1. win.sect = FatSector(cc.clst) /\ disk' = disk  BY <1>2 DEF Link, At, Want
  <2> DEFINE x == [win.data EXCEPT ![cc.clst % SS] = FatEntry(cc.ncl)]
  <2>2. win' = [win EXCEPT !.wflag = TRUE, !.data = x]  BY <1>2 DEF Link
  <2> HIDE DEF x
  <2> QED BY <2>1, <2>2, MarkMove
<1> QED BY <1>1, <1>2

(* What the window holds of the directory *)
LEMMA WindowEntries ==
  ASSUME Inv, WindowIsOurs, dl # "closed", pc # "mount", ~Stale, InData(win.sect),
         Tracked(Seen, win.sect), NEW s \in Slot, IsEntry(win.data[s])
  PROVE  SameSize(win.data[s], disk) \/ Ours(win.data[s])
<1>1. CASE win.wflag  BY <1>1 DEF WindowIsOurs
<1>2. CASE ~win.wflag
  <2>1. Sound(disk) /\ Seen = disk /\ win.data = Seen[win.sect]
    BY <1>2 DEF Inv, CardOK, Seen, WindowOK
  <2>2. HasSlot(disk, win.data[s])  BY <2>1 DEF InData, HasSlot
  <2>3. win.data[s] \in Entries(disk)  BY <2>1, <2>2, EntriesAreSlots
  <2> QED BY <2>3 DEF SameSize
<1> QED BY <1>1, <1>2

(* f_open() adds the entry of the name that the card lacks. *)
LEMMA DirRegisterMove ==
  ASSUME Inv, WindowIsOurs, DirRegister, UNCHANGED logVars  PROVE EntryChanged
<1>1. /\ pc = "alloc" /\ win.sect = Want /\ pc' = "idle" /\ res' = "OK"
      /\ win' = [win EXCEPT !.wflag = TRUE, !.data[dp.ofs % SS] = Register(call.key)]
      /\ disk' = disk
  BY DEF DirRegister, At, Return, Register
<1>2. Types /\ CardOK /\ WindowOK /\ Control /\ ScanOK /\ pc \in ScanPoints /\ win \in Windows
  BY <1>1 DEF Inv, ScanPoints, Types
<1> DEFINE i == dp.ofs
           c == dp.clust
           k == (dp.ofs \div SS) % CSIZE
<1>3. /\ ~Stale /\ i \in CardSlot /\ c \in Cluster /\ Root(Seen)[i \div CB] = c
      /\ win.sect = DataSector(c, k)
  BY <1>1, <1>2, ScanFacts
<1>4. dl = "open" /\ call.key = fname /\ dl' = dl /\ fname' = fname
  BY <1>1, <1>2, Where DEF Control, logVars
<1>5. /\ win.data \in [Slot -> SlotVal] /\ k \in 0 .. CSIZE - 1 /\ i % SS \in Slot
      /\ Tracked(Seen, win.sect)
  BY <1>2, <1>3, ReadDir
<1>6. win'.data = [win.data EXCEPT ![i % SS] = Register(fname)]
  BY <1>1, <1>2, <1>4 DEF Windows
<1>7. InData(win.sect)  BY <1>3, <1>5 DEF InData
<1>8. ASSUME NEW s \in Slot, IsEntry(win'.data[s])
      PROVE  SameSize(win'.data[s], disk) \/ win'.data[s].name = fname
  <2>1. CASE s = i % SS
    <3>1. win'.data[s] = Register(fname)  BY <1>5, <1>6, <2>1
    <3> QED BY <3>1 DEF Register
  <2>2. CASE s # i % SS
    <3>1. win'.data[s] = win.data[s]  BY <1>5, <1>6, <2>2
    <3> QED BY <1>1, <1>3, <1>4, <1>5, <1>7, <1>8, <3>1, WindowEntries DEF Ours
  <2> QED BY <2>1, <2>2
<1>9. IsOpen'  BY <1>1, <1>4 DEF IsOpen
<1> QED BY <1>1, <1>8, <1>9 DEF EntryChanged

(* f_sync() changes the entry of the open file. *)
LEMMA SyncEntryMove ==
  ASSUME Inv, WindowIsOurs, SyncEntry, UNCHANGED logVars  PROVE EntryChanged
<1>1. /\ pc = "entry" /\ win.sect = Want /\ pc \in SyncPoints /\ disk' = disk
      /\ win' = [win EXCEPT !.wflag = TRUE, !.data[fp.dir].sclust = fp.sclust,
                            !.data[fp.dir].size = fp.objsize]
  BY DEF SyncEntry, At, Goto, SyncPoints
<1>2. /\ dl \in {"hsync", "rsync", "hclose"} /\ ~Stale /\ win \in Windows
      /\ CardOK /\ WindowOK /\ EntryOK /\ Sound(Seen)
  BY <1>1, SyncFacts DEF CardOK
<1>3. PICK i \in CardSlot :
        /\ TheEntry(Seen, i) /\ fp.dir = i % SS
        /\ fp.dir_sect = DataSector(Root(Seen)[i \div CB], (i \div SS) % CSIZE)
  BY <1>2 DEF EntryOK
<1> DEFINE c == Root(Seen)[i \div CB]
           k == (i \div SS) % CSIZE
<1>4. DirAt(Seen, i).name = fname /\ DirAt(Seen, i) \in DirVal /\ c \in Cluster
  BY <1>2, <1>3, EntryType DEF TheEntry, Sound
<1>5. win.sect = DataSector(c, k)  BY <1>1, <1>3 DEF Want
<1>6. /\ win.data[i % SS] = DirAt(Seen, i) /\ win.data \in [Slot -> SlotVal]
      /\ Tracked(Seen, win.sect) /\ k \in 0 .. CSIZE - 1 /\ i % SS \in Slot
  BY <1>2, <1>4, <1>5, ReadDir
<1>7. InData(win.sect)  BY <1>4, <1>5, <1>6 DEF InData
<1> DEFINE y == [DirAt(Seen, i) EXCEPT !.sclust = fp.sclust]
           v == [y EXCEPT !.size = fp.objsize]
<1>8. v.name = fname
  <2>1. DOMAIN DirAt(Seen, i) = {"name", "sclust", "size"}  BY <1>4 DEF DirVal
  <2> QED BY <1>4, <2>1
<1>9. win'.data = [win.data EXCEPT ![i % SS] = v]
  <2>1. win'.data = [[win.data EXCEPT ![i % SS].sclust = fp.sclust]
                               EXCEPT ![i % SS].size = fp.objsize]
    BY <1>1, <1>2, <1>3 DEF Windows
  <2> QED BY <1>6, <2>1
<1>10. IsOpen'  BY <1>2 DEF IsOpen, logVars
<1>11. ASSUME NEW s \in Slot, IsEntry(win'.data[s])
       PROVE  SameSize(win'.data[s], disk) \/ win'.data[s].name = fname
  <2>1. CASE s = i % SS
    <3> HIDE DEF v
    <3>1. win'.data[s] = v  BY <1>6, <1>9, <2>1
    <3> QED BY <1>8, <3>1
  <2>2. CASE s # i % SS
    <3> HIDE DEF v
    <3>1. win'.data[s] = win.data[s]  BY <1>6, <1>9, <2>2
    <3> QED BY <1>1, <1>2, <1>6, <1>7, <1>11, <3>1, WindowEntries DEF Ours
  <2> QED BY <2>1, <2>2
<1> QED BY <1>1, <1>10, <1>11 DEF EntryChanged

(* There are four kinds of steps of FatFs, as a directory goes. *)
LEMMA Moves ==
  ASSUME Inv, WindowIsOurs, Working
  PROVE  /\ Quiet \/ Flushing \/ FatChanged \/ EntryChanged
         /\ pc # "idle" /\ (pc = "mount" => ~win'.wflag)
<1>1. FatFsStep /\ UNCHANGED logVars /\ win \in Windows /\ (pc = "fsinfo" => ~win.wflag)
      /\ Types /\ Control
  BY DEF Working, Inv, Types, Control
<1>2. CASE MoveWindow
  <2>1. PICK ok \in BOOLEAN : Flush(ok) \/ Load(ok)  BY <1>2 DEF MoveWindow
  <2>2. win.sect # Want  BY <2>1 DEF Flush, Load
  <2>3. pc \in Lookups  BY <1>1, <2>2, Lookup
  <2> QED BY <2>1, <2>3, FlushMove DEF Lookups
<1>3. CASE MountVolume \/ MountInfo
  <2>1. disk' = disk /\ ~win'.wflag /\ pc # "idle"
    BY <1>1, <1>3 DEF MountVolume, MountInfo, Windows
  <2> QED BY <2>1 DEF Quiet
<1>4. CASE DirFind \/ DirFindNext \/ DirAlloc \/ DirAllocNext
  <2>1. disk' = disk /\ win' = win /\ pc \notin {"idle", "mount"}
    BY <1>4 DEF DirFind, DirFindNext, DirAlloc, DirAllocNext, At
  <2> QED BY <2>1 DEF Quiet
<1>5. CASE DirRegister
  <2>1. pc = "alloc"  BY <1>5 DEF DirRegister, At
  <2> QED BY <1>1, <1>5, <2>1, DirRegisterMove
<1>6. CASE DirClear
  <2>1. pc = "clear"  BY <1>6 DEF DirClear
  <2> QED BY <1>6, <2>1, DirClearMove
<1>7. CASE DirClearSector
  <2>1. pc = "zero"  BY <1>7 DEF DirClearSector
  <2> QED BY <1>1, <1>7, <2>1, DirClearSectorMove
<1>8. CASE CreateChain \/ Stretch \/ Found \/ Got
  <2>1. disk' = disk /\ win' = win /\ pc \notin {"idle", "mount"}
    BY <1>8 DEF CreateChain, Stretch, Found, Got, At
  <2> QED BY <2>1 DEF Quiet
<1>9. CASE Contiguous \/ Search \/ Link
  <2>1. pc \notin {"idle", "mount"}  BY <1>9 DEF Contiguous, Search, Link, At
  <2> QED BY <1>9, <2>1, ChainMove
<1>10. CASE WriteRefused \/ WriteDone \/ WriteCluster \/ WriteSector \/ Place \/ Fill
            \/ SyncNothing
  <2>1. disk' = disk /\ win' = win /\ pc \notin {"idle", "mount"}
    BY <1>10 DEF WriteRefused, WriteDone, WriteCluster, WriteSector, Place, Fill, SyncNothing,
                 OnlyPc
  <2> QED BY <2>1 DEF Quiet
<1>11. CASE WriteBack
  <2>1. pc = "place"  BY <1>11 DEF WriteBack
  <2> QED BY <1>1, <1>11, <2>1, WriteBackMove
<1>12. CASE SyncData
  <2>1. pc = "sync"  BY <1>12 DEF SyncData
  <2> QED BY <1>1, <1>12, <2>1, SyncDataMove
<1>13. CASE SyncEntry
  <2>1. pc = "entry"  BY <1>13 DEF SyncEntry, At
  <2> QED BY <1>1, <1>13, <2>1, SyncEntryMove
<1>14. CASE SyncFs
  <2>1. pc = "sync_fs"  BY <1>14 DEF SyncFs
  <2> QED BY <1>14, <2>1, SyncFsMove
<1>15. CASE SyncInfo
  <2>1. pc = "sync_info"  BY <1>15 DEF SyncInfo
  <2> QED BY <1>1, <1>15, <2>1, SyncInfoMove
<1> QED BY <1>1, <1>2, <1>3, <1>4, <1>5, <1>6, <1>7, <1>8, <1>9, <1>10, <1>11, <1>12, <1>13,
           <1>14, <1>15 DEF FatFsStep

(* f_stat() finds no file: the card has none of that name. *)
LEMMA Answer ==
  ASSUME Inv, Working, dl = "stat", pc' = "idle", res' = "NO_FILE"
  PROVE  disk' = disk /\ \A e \in Entries(disk) : e.name # fname
<1>1. FatFsStep /\ UNCHANGED logVars /\ Types /\ Control /\ CardOK /\ call.key = fname
  BY DEF Working, Inv, Control
<1>2. pc \in {"find", "find_next", "idle"}  BY <1>1 DEF Control
<1>3. MoveWindow \/ DirFind \/ DirFindNext
  <2>1. ~(MountVolume \/ MountInfo \/ DirAlloc \/ DirAllocNext \/ DirRegister \/ DirClear
          \/ DirClearSector)
    BY <1>2 DEF MountVolume, MountInfo, DirAlloc, DirAllocNext, DirRegister, DirClear,
                DirClearSector, At
  <2>2. ~(CreateChain \/ Stretch \/ Contiguous \/ Search \/ Link \/ Found \/ Got)
    BY <1>2 DEF CreateChain, Stretch, Contiguous, Search, Link, Found, Got, At
  <2>3. ~(WriteRefused \/ WriteDone \/ WriteCluster \/ WriteSector \/ WriteBack \/ Place \/ Fill)
    BY <1>2 DEF WriteRefused, WriteDone, WriteCluster, WriteSector, WriteBack, Place, Fill
  <2>4. ~(SyncNothing \/ SyncData \/ SyncEntry \/ SyncFs \/ SyncInfo)
    BY <1>2 DEF SyncNothing, SyncData, SyncEntry, SyncFs, SyncInfo, At
  <2> QED BY <1>1, <2>1, <2>2, <2>3, <2>4 DEF FatFsStep
<1>4. ~MoveWindow
  <2>1. SUFFICES ASSUME NEW ok \in BOOLEAN, Flush(ok) \/ Load(ok)  PROVE FALSE
    BY DEF MoveWindow
  <2>2. pc \in Lookups  BY <1>1, <2>1, Lookup DEF Flush, Load
  <2> QED BY <2>1, <2>2 DEF Flush, Load, Abort, Return, Lookups
<1>5. NoKey(Seen, fname)  BY <1>1, <1>3, <1>4, DirFindStep, DirFindNextStep
<1>6. disk' = disk  BY <1>3, <1>4 DEF DirFind, DirFindNext
<1>7. ASSUME NEW e \in Entries(disk)  PROVE e.name # fname
  <2>1. PICK g \in Entries(Seen) : g.name = e.name  BY <1>1, EntriesStay DEF CardOK
  <2>2. PICK i \in CardSlot : EntryAt(Seen, i) /\ g = DirAt(Seen, i)  BY EntriesAre
  <2> QED BY <1>5, <2>1, <2>2 DEF NoKey
<1> QED BY <1>6, <1>7

(* What is added to the card under way is of the open file. *)
LEMMA NewEntries ==
  ASSUME Inv, Inv', WindowIsOurs, Flushing, NEW e \in Entries(disk')
  PROVE  SameSize(e, disk) \/ Ours(e)
<1>1. Sound(disk) /\ Sound(disk')  BY DEF Inv, CardOK
<1>2. CASE disk' = disk  BY <1>2 DEF SameSize
<1>3. CASE disk' = Put(disk, win.sect, win.data)
  <2>1. \/ e \in Entries(disk)
        \/ InData(win.sect) /\ \E s \in Slot : e = win.data[s] /\ IsEntry(e)
    BY <1>1, <1>3, PutEntries DEF InData
  <2>2. CASE e \in Entries(disk)  BY <2>2 DEF SameSize
  <2>3. CASE InData(win.sect) /\ \E s \in Slot : e = win.data[s] /\ IsEntry(e)
    BY <2>3 DEF Flushing, WindowIsOurs
  <2> QED BY <2>1, <2>2, <2>3
<1> QED BY <1>2, <1>3 DEF Flushing

(* FatFs keeps the window's entries known and the name new. *)
LEMMA WorkingKeeps ==
  ASSUME Inv, Inv', LogInv, Working  PROVE LogInv'
<1>1. /\ dl' = dl /\ fname' = fname /\ pc # "idle" /\ (pc = "mount" => ~win'.wflag)
      /\ Quiet \/ Flushing \/ FatChanged \/ EntryChanged
      /\ WindowIsOurs /\ NameIsNew /\ Sound(disk) /\ Sound(disk')
  BY Moves DEF Working, logVars, LogInv, Inv, CardOK
<1>2. IsOpen => IsOpen'  BY <1>1 DEF IsOpen
<1>3. ASSUME NEW e, Ours(e)  PROVE IsOpen' /\ e.name = fname'
  BY <1>1, <1>2, <1>3 DEF Ours
<1>4. WindowIsOurs'
  <2> SUFFICES ASSUME dl' # "closed", pc' # "mount", win'.wflag, InData(win'.sect), NEW s \in Slot,
                      IsEntry(win'.data[s])
               PROVE  SameSize(win'.data[s], disk') \/ (IsOpen' /\ win'.data[s].name = fname')
    BY DEF WindowIsOurs, Ours
  <2> DEFINE e == win'.data[s]
  <2>1. CASE Quiet
    <3>1. win' = win /\ Entries(disk') = Entries(disk) /\ dl # "closed" /\ pc # "mount"
      BY <1>1, <2>1 DEF Quiet
    <3>2. win.data[s] = e  BY <3>1
    <3>3. win.wflag /\ InData(win.sect) /\ IsEntry(win.data[s])  BY <3>1
    <3>4. SameSize(win.data[s], disk) \/ Ours(win.data[s])  BY <1>1, <3>1, <3>3 DEF WindowIsOurs
    <3> HIDE DEF e
    <3>5. SameSize(e, disk) \/ Ours(e)  BY <3>2, <3>4
    <3>6. SameSize(e, disk) => SameSize(e, disk')  BY <3>1 DEF SameSize
    <3> QED BY <1>3, <3>5, <3>6 DEF e
  <2>2. CASE Flushing
    <3>1. /\ dl # "closed" /\ pc # "mount" /\ win.wflag /\ win'.sect = win.sect
          /\ win'.data = win.data /\ disk' \in {disk, Put(disk, win.sect, win.data)}
      BY <2>2 DEF Flushing
    <3>2. win.data[s] = e /\ InData(win.sect) /\ IsEntry(win.data[s])  BY <3>1
    <3>3. SameSize(win.data[s], disk) \/ Ours(win.data[s])  BY <1>1, <3>1, <3>2 DEF WindowIsOurs
    <3>4. CASE disk' = disk
      <4> HIDE DEF e
      <4>1. SameSize(e, disk') \/ Ours(e)  BY <3>2, <3>3, <3>4
      <4> QED BY <1>3, <4>1 DEF e
    <3>5. CASE disk' = Put(disk, win.sect, win.data)
      <4>1. PICK c \in Cluster, k \in 0 .. CSIZE - 1 : win.sect = DataSector(c, k)
        BY <3>2 DEF InData
      <4>2. win.data[s] \in Entries(disk')  BY <1>1, <3>2, <3>5, <4>1, WrittenEntries
      <4> HIDE DEF e
      <4>3. SameSize(e, disk')  BY <3>2, <4>2 DEF SameSize
      <4> QED BY <4>3 DEF e
    <3> QED BY <3>1, <3>4, <3>5
  <2>3. CASE FatChanged  BY <2>3 DEF FatChanged
  <2>4. CASE EntryChanged
    <3>1. disk' = disk /\ IsOpen' /\ (SameSize(e, disk) \/ e.name = fname)
      BY <2>4 DEF EntryChanged
    <3> HIDE DEF e
    <3>2. SameSize(e, disk') \/ (IsOpen' /\ e.name = fname')  BY <1>1, <3>1
    <3> QED BY <3>2 DEF e
  <2> QED BY <1>1, <2>1, <2>2, <2>3, <2>4
<1>5. NameIsNew'
  <2> SUFFICES ASSUME dl' = "open" \/ (dl' = "stat" /\ pc' = "idle" /\ res' = "NO_FILE"),
                      NEW e \in Entries(disk')
               PROVE  e.name # fname
    BY <1>1 DEF NameIsNew
  <2>1. CASE dl' = "stat" /\ pc' = "idle" /\ res' = "NO_FILE"
    <3>1. disk' = disk /\ \A f \in Entries(disk) : f.name # fname  BY <1>1, <2>1, Answer
    <3> QED BY <3>1
  <2>2. CASE dl' = "open"
    <3>1. \A f \in Entries(disk) : f.name # fname  BY <1>1, <2>2 DEF NameIsNew
    <3>2. CASE Flushing
      <4>1. SameSize(e, disk) \/ Ours(e)  BY <1>1, <3>2, NewEntries
      <4>2. ~IsOpen  BY <1>1, <2>2 DEF IsOpen
      <4>3. PICK f \in Entries(disk) : f.name = e.name  BY <4>1, <4>2 DEF SameSize, Ours
      <4> QED BY <3>1, <4>3
    <3>3. CASE Quiet \/ FatChanged \/ EntryChanged
      <4>1. Entries(disk') = Entries(disk)  BY <3>3 DEF Quiet, FatChanged, EntryChanged
      <4> QED BY <3>1, <4>1
    <3> QED BY <1>1, <3>2, <3>3
  <2> QED BY <2>1, <2>2
<1> QED BY <1>4, <1>5 DEF LogInv

(* The program's own steps leave the card and the window alone. *)
LEMMA ProgramKeeps ==
  ASSUME LogInv, disk' = disk, win' = win, pc = "idle",
         dl = "closed" => dl' \in {"closed", "mount"} /\ pc' \in {"idle", "mount"},
         dl' = "mount" => pc' = "mount",
         dl' = "closed" \/ pc' = "mount" \/ (IsOpen => IsOpen' /\ fname' = fname),
         dl' = "open" => dl = "stat" /\ res = "NO_FILE" /\ fname' = fname,
         ~(dl' = "stat" /\ pc' = "idle")
  PROVE  LogInv'
<1>1. WindowIsOurs'
  <2> SUFFICES ASSUME dl' # "closed", pc' # "mount", win.wflag, InData(win.sect), NEW s \in Slot,
                      IsEntry(win.data[s])
               PROVE  SameSize(win.data[s], disk) \/ (IsOpen' /\ win.data[s].name = fname')
    BY DEF WindowIsOurs, Ours
  <2>1. dl # "closed" /\ pc # "mount"  OBVIOUS
  <2>2. SameSize(win.data[s], disk) \/ Ours(win.data[s])  BY <2>1 DEF LogInv, WindowIsOurs
  <2> QED BY <2>2 DEF Ours
<1>2. NameIsNew'  BY DEF LogInv, NameIsNew
<1> QED BY <1>1, <1>2 DEF LogInv

(* So does every step. *)
LEMMA LogInvStep ==
  ASSUME Inv, Inv', LogInv, [Next]_vars  PROVE LogInv'
<1>1. CASE Working  BY <1>1, WorkingKeeps
<1>2. CASE Reset
  <2>1. dl' = "closed"  BY <1>2 DEF Reset
  <2> QED BY <2>1 DEF LogInv, WindowIsOurs, NameIsNew
<1>3. CASE Open
  <2>1. /\ disk' = disk /\ win' = win /\ dl = "closed" /\ pc = "idle" /\ dl' = "mount"
        /\ pc' = "mount"
    BY <1>3 DEF Open, Answered, f_mount, Start
  <2> QED BY <2>1, ProgramKeeps
<1>4. CASE Mounted \/ NameTaken
  <2>1. /\ disk' = disk /\ win' = win /\ dl \in {"mount", "stat"} /\ pc = "idle"
        /\ dl' = "closed" \/ (dl' = "stat" /\ pc' = "find")
    BY <1>4 DEF Mounted, NameTaken, Answered, Probe, f_stat, Start, OpenFailed, fatVars
  <2> QED BY <2>1, ProgramKeeps DEF IsOpen
<1>5. CASE NameFree
  <2>1. /\ disk' = disk /\ win' = win /\ dl = "stat" /\ pc = "idle"
        /\ dl' = "closed" \/ (dl' = "open" /\ pc' = "find" /\ res = "NO_FILE" /\ fname' = fname)
    BY <1>5 DEF NameFree, Answered, f_open, Start, OpenFailed, fatVars
  <2> QED BY <2>1, ProgramKeeps DEF IsOpen
<1>6. CASE Opened \/ HeaderWritten \/ HeaderSynced \/ HeaderClosed
  <2>1. /\ disk' = disk /\ win' = win /\ dl \in {"open", "header", "hsync", "hclose"}
        /\ pc = "idle" /\ fname' = fname /\ dl' \in {"closed", "header", "hsync", "hclose", "ready"}
    BY <1>6 DEF Opened, HeaderWritten, HeaderSynced, HeaderClosed, Answered, f_write, f_sync,
                f_close, Start, OpenFailed, fatVars
  <2> QED BY <2>1, ProgramKeeps DEF IsOpen
<1>7. CASE WriteRow \/ RowRefused \/ RowWritten \/ RowSynced
  <2>1. /\ disk' = disk /\ win' = win /\ dl \in {"ready", "row", "rsync"}
        /\ pc = "idle" /\ fname' = fname /\ dl' \in {"ready", "row", "rsync"}
    BY <1>7 DEF WriteRow, RowRefused, RowWritten, RowSynced, Answered, f_write, f_sync, Start,
                fatVars
  <2> QED BY <2>1, ProgramKeeps DEF IsOpen
<1>8. CASE UNCHANGED vars
  BY <1>8 DEF vars, LogInv, WindowIsOurs, NameIsNew, Ours, IsOpen, SameSize
<1> QED BY <1>1, <1>2, <1>3, <1>4, <1>5, <1>6, <1>7, <1>8 DEF Next, Program

(* No entry is in the window that is not on the card but that of the open  *)
(* file, and the name that f_open() is called with is new.                 *)
LEMMA LogInvariance == Spec => []LogInv
<1>1. Init => LogInv  BY DEF Init, LogInv, WindowIsOurs, NameIsNew
<1>2. Inv /\ Inv' /\ LogInv /\ [Next]_vars => LogInv'  BY LogInvStep
<1> QED BY <1>1, <1>2, Invariance, PTL DEF Spec

(***************************************************************************)
(* The mapping.                                                            *)
(***************************************************************************)

(* Text as a sequence *)
Text(n, len) == [i \in 1 .. len |-> Expected(n, i - 1)]

(* What is expected in a slot is an item of a log. *)
LEMMA ExpectedItem ==
  ASSUME NEW n \in 0 .. MaxName, NEW i \in Nat
  PROVE  Expected(n, i) \in [of : 0 .. MaxName, row : Nat]
<1>1. HdrLen \in Nat /\ RowLen \in Nat /\ RowLen > 0  BY RowSizes
<1>2. CASE i < HdrLen  BY <1>2 DEF Expected, Piece
<1>3. CASE ~(i < HdrLen)
  <2>1. i - HdrLen \in Nat  BY <1>1, <1>3
  <2>2. (i - HdrLen) \div RowLen \in Nat  BY <1>1, <2>1
  <2>3. 1 + ((i - HdrLen) \div RowLen) \in Nat  BY <2>2
  <2> QED BY <1>3, <2>3 DEF Expected, Piece
<1> QED BY <1>2, <1>3

(* A text is a sequence of items, and its beginnings are shorter texts. *)
LEMMA TextIsSeq ==
  ASSUME NEW n \in 0 .. MaxName, NEW len \in Nat
  PROVE  /\ Text(n, len) \in Seq([of : 0 .. MaxName, row : Nat]) /\ Len(Text(n, len)) = len
         /\ \A m \in 0 .. len : SubSeq(Text(n, len), 1, m) = Text(n, m)
<1> DEFINE I == [of : 0 .. MaxName, row : Nat]
<1>1. ASSUME NEW i \in 1 .. len  PROVE Expected(n, i - 1) \in I
  <2>1. i - 1 \in Nat  OBVIOUS
  <2> QED BY <2>1, ExpectedItem
<1> HIDE DEF I
<1>2. Text(n, len) \in Seq(I) /\ Len(Text(n, len)) = len  BY <1>1 DEF Text
<1>3. ASSUME NEW m \in 0 .. len  PROVE SubSeq(Text(n, len), 1, m) = Text(n, m)
  <2>1. SubSeq(Text(n, len), 1, m) = [i \in 1 .. m |-> Text(n, len)[i]]  BY <1>2
  <2>2. \A i \in 1 .. m : Text(n, len)[i] = Expected(n, i - 1)  BY DEF Text
  <2> QED BY <2>1, <2>2 DEF Text
<1> QED BY <1>2, <1>3 DEF I

(* What a reader finds on a card: the names, and a text as long as the     *)
(* entry of the name says *)
NamesOn(d) == {e.name : e \in Entries(d)}
SizeOf(d, n) == (CHOOSE e \in Entries(d) : e.name = n).size
FilesOf(d) == [n \in NamesOn(d) |-> Text(n, SizeOf(d, n))]

(* An entry says the size of its name's file. *)
LEMMA OnCard ==
  ASSUME NEW d, Sound(d), NEW e \in Entries(d)
  PROVE  /\ e.name \in NamesOn(d) /\ e.name \in 1 .. MaxName
         /\ SizeOf(d, e.name) = e.size /\ e.size \in Nat
<1>1. PICK i \in CardSlot : EntryAt(d, i) /\ e = DirAt(d, i)  BY EntriesAre
<1>2. e.name \in 1 .. MaxName /\ e.size \in Nat  BY <1>1, EntryType, Sizes DEF Sound
<1> DEFINE f == CHOOSE f \in Entries(d) : f.name = e.name
<1>3. f \in Entries(d) /\ f.name = e.name  OBVIOUS
<1>4. f = e  BY <1>3, OneOfAName
<1> QED BY <1>2, <1>4 DEF SizeOf, NamesOn

(* A file's size is in its entry. *)
LEMMA SizeOnCard ==
  ASSUME NEW d, Sound(d), NEW n \in NamesOn(d)
  PROVE  /\ n \in 1 .. MaxName /\ SizeOf(d, n) \in Nat
         /\ \E e \in Entries(d) : e.name = n /\ e.size = SizeOf(d, n)
<1>1. PICK e \in Entries(d) : n = e.name  BY DEF NamesOn
<1> QED BY <1>1, OnCard

CardText(d) ==
  [n \in {e.name : e \in Entries(d)} |->
     LET e == CHOOSE e \in Entries(d) : e.name = n
     IN  [i \in 1 .. e.size |-> SlotOnCard(d, e, i - 1)]]

(* What a reader finds on a sound card is text. *)
LEMMA ReadBack ==
  ASSUME NEW d, Sound(d)  PROVE CardText(d) = FilesOf(d)
<1>1. ASSUME NEW n \in NamesOn(d)
      PROVE  LET e == CHOOSE e \in Entries(d) : e.name = n
             IN  [i \in 1 .. e.size |-> SlotOnCard(d, e, i - 1)] = Text(n, SizeOf(d, n))
  <2> DEFINE e == CHOOSE e \in Entries(d) : e.name = n
  <2>1. e \in Entries(d) /\ e.name = n  BY DEF NamesOn
  <2>2. SizeOf(d, n) = e.size  BY DEF SizeOf
  <2> HIDE DEF e
  <2>3. PICK j \in CardSlot : EntryAt(d, j) /\ e = DirAt(d, j)  BY <2>1, EntriesAre
  <2>4. e.size \in Nat  BY <2>1, OnCard
  <2>5. ASSUME NEW i \in 1 .. e.size  PROVE SlotOnCard(d, e, i - 1) = Expected(n, i - 1)
    <3>1. i - 1 \in 0 .. DirAt(d, j).size - 1  BY <2>3, <2>4
    <3>2. SlotOf(d, Chain(Links(d), e.sclust), i - 1) = Expected(e.name, i - 1)
      BY <2>3, <3>1, FileSlot
    <3> QED BY <2>1, <3>2 DEF SlotOnCard
  <2>6. [i \in 1 .. e.size |-> SlotOnCard(d, e, i - 1)] = Text(n, e.size)
    BY <2>5 DEF Text
  <2> QED BY <2>2, <2>6 DEF e
<1> QED BY <1>1 DEF CardText, FilesOf, NamesOn

(* The files of a sound card are a state of DurableLog. *)
LEMMA FilesAreTexts ==
  ASSUME NEW d, Sound(d)
  PROVE  /\ DOMAIN FilesOf(d) = NamesOn(d) /\ NamesOn(d) \subseteq Names
         /\ FilesOf(d) \in [NamesOn(d) -> Seq([of : 0 .. MaxName, row : Nat])]
         /\ \A n \in NamesOn(d) : FilesOf(d)[n] = Text(n, SizeOf(d, n))
                                  /\ Len(FilesOf(d)[n]) = SizeOf(d, n)
<1>1. NamesOn(d) \subseteq Names  BY SizeOnCard, DatalogAssumption
<1>2. ASSUME NEW n \in NamesOn(d)
      PROVE  /\ Text(n, SizeOf(d, n)) \in Seq([of : 0 .. MaxName, row : Nat])
             /\ Len(Text(n, SizeOf(d, n))) = SizeOf(d, n)
  <2>1. n \in 0 .. MaxName /\ SizeOf(d, n) \in Nat  BY SizeOnCard
  <2> QED BY <2>1, TextIsSeq
<1> DEFINE I == Seq([of : 0 .. MaxName, row : Nat])
<1>3. /\ DOMAIN FilesOf(d) = NamesOn(d) /\ FilesOf(d) = [n \in NamesOn(d) |-> FilesOf(d)[n]]
      /\ \A n \in NamesOn(d) : FilesOf(d)[n] = Text(n, SizeOf(d, n))
  BY DEF FilesOf
<1>4. \A n \in NamesOn(d) : FilesOf(d)[n] \in I /\ Len(FilesOf(d)[n]) = SizeOf(d, n)
  BY <1>2, <1>3
<1> HIDE DEF I
<1>5. FilesOf(d) \in [NamesOn(d) -> I]  BY <1>3, <1>4
<1> QED BY <1>1, <1>3, <1>4, <1>5 DEF I

(* The card goes on by entries of one name at most. *)
LEMMA FilesStay ==
  ASSUME NEW d, Sound(d), NEW e, Sound(e), Behind(d, e),
         \A x \in Entries(e) : SameSize(x, d)
  PROVE  FilesOf(e) = FilesOf(d)
<1>1. NamesOn(e) = NamesOn(d)
  <2>1. ASSUME NEW n \in NamesOn(e)  PROVE n \in NamesOn(d)
    BY DEF NamesOn, SameSize
  <2>2. ASSUME NEW n \in NamesOn(d)  PROVE n \in NamesOn(e)
    <3>1. PICK x \in Entries(d) : n = x.name  BY DEF NamesOn
    <3>2. PICK y \in Entries(e) : y.name = x.name  BY <3>1, EntriesStay
    <3> QED BY <3>1, <3>2 DEF NamesOn
  <2> QED BY <2>1, <2>2
<1>2. ASSUME NEW n \in NamesOn(e)  PROVE SizeOf(e, n) = SizeOf(d, n)
  <2>1. PICK x \in Entries(e) : x.name = n /\ x.size = SizeOf(e, n)  BY SizeOnCard
  <2>2. PICK y \in Entries(d) : y.name = x.name /\ y.size = x.size  BY <2>1 DEF SameSize
  <2> QED BY <2>1, <2>2, OnCard
<1>3. \A n \in NamesOn(d) : Text(n, SizeOf(e, n)) = Text(n, SizeOf(d, n))
  BY <1>1, <1>2
<1> DEFINE F == [n \in NamesOn(d) |-> Text(n, SizeOf(d, n))]
           G == [n \in NamesOn(d) |-> Text(n, SizeOf(e, n))]
<1>4. FilesOf(e) = G  BY <1>1 DEF FilesOf
<1>5. FilesOf(d) = F  BY DEF FilesOf
<1>6. G = F  BY <1>3
<1> HIDE DEF F, G
<1> QED BY <1>4, <1>5, <1>6

(* One name is new on the card, or has a longer file: as a commit has it. *)
LEMMA GrownFile ==
  ASSUME NEW d, Sound(d), NEW e, Sound(e), Behind(d, e), NEW n \in NamesOn(e),
         \A x \in Entries(e) : SameSize(x, d) \/ x.name = n
  PROVE  /\ FilesOf(e) = [m \in DOMAIN FilesOf(d) \cup {n} |->
                            IF m = n THEN Text(n, SizeOf(e, n)) ELSE FilesOf(d)[m]]
         /\ n \in NamesOn(d) => SizeOf(d, n) <= SizeOf(e, n)
<1>1. NamesOn(e) = NamesOn(d) \cup {n}
  <2>1. ASSUME NEW m \in NamesOn(e)  PROVE m \in NamesOn(d) \cup {n}
    BY DEF NamesOn, SameSize
  <2>2. ASSUME NEW m \in NamesOn(d)  PROVE m \in NamesOn(e)
    <3>1. PICK x \in Entries(d) : m = x.name  BY DEF NamesOn
    <3>2. PICK y \in Entries(e) : y.name = x.name  BY <3>1, EntriesStay
    <3> QED BY <3>1, <3>2 DEF NamesOn
  <2> QED BY <2>1, <2>2
<1>2. ASSUME NEW m \in NamesOn(e), m # n  PROVE m \in NamesOn(d) /\ SizeOf(e, m) = SizeOf(d, m)
  <2>1. PICK x \in Entries(e) : x.name = m /\ x.size = SizeOf(e, m)  BY SizeOnCard
  <2>2. PICK y \in Entries(d) : y.name = x.name /\ y.size = x.size
    BY <1>2, <2>1 DEF SameSize
  <2> QED BY <2>1, <2>2, OnCard
<1>3. n \in NamesOn(d) => SizeOf(d, n) <= SizeOf(e, n)
  <2> HAVE n \in NamesOn(d)
  <2>1. PICK x \in Entries(d) : x.name = n /\ x.size = SizeOf(d, n)  BY SizeOnCard
  <2>2. PICK y \in Entries(e) : y.name = x.name /\ x.size <= y.size  BY EntriesStay
  <2> QED BY <2>1, <2>2, OnCard
<1>4. DOMAIN FilesOf(d) = NamesOn(d)
      /\ \A m \in NamesOn(d) : FilesOf(d)[m] = Text(m, SizeOf(d, m))
  BY DEF FilesOf
<1>5. \A m \in NamesOn(e) :
        Text(m, SizeOf(e, m)) = IF m = n THEN Text(n, SizeOf(e, n)) ELSE FilesOf(d)[m]
  BY <1>2, <1>4
<1> QED BY <1>1, <1>3, <1>4, <1>5 DEF FilesOf

(* The mapping, in these terms *)
LEMMA Mapped ==
  /\ CardFiles = CardText(disk) /\ CardFiles' = CardText(disk')
  /\ WrittenLog = IF Logging THEN [name |-> fname, text |-> Text(fname, fp.objsize)]
                             ELSE [name |-> 0, text |-> << >>]
  /\ WrittenLog' = IF Logging' THEN [name |-> fname', text |-> Text(fname', fp'.objsize)]
                               ELSE [name |-> 0, text |-> << >>]
BY DEF CardFiles, CardText, WrittenLog, Text

(* What is open has a name, and its length is that of its text. *)
LEMMA LogFacts ==
  ASSUME Inv, Logging
  PROVE  /\ IsOpen /\ fname \in 1 .. MaxName /\ fname # 0 /\ fp.objsize \in Nat
         /\ EntryOK /\ fp.objsize = fp.fptr
<1>1. IsOpen  BY DEF Logging, IsOpen
<1>2. fname \in 1 .. MaxName  BY DEF Inv, Control, Logging
<1>3. fname # 0  BY <1>2, DatalogAssumption
<1>4. EntryOK /\ ChainOK /\ fp \in FileObjects  BY <1>1 DEF Inv, FileOK, Types
<1> QED BY <1>1, <1>2, <1>3, <1>4 DEF ChainOK, FileObjects

(* FatFs adds to an open file in memory alone. *)
LEMMA ObjectMoves ==
  ASSUME Inv, Working, Logging
  PROVE  fp'.objsize = fp.objsize \/ (disk' = disk /\ fp'.objsize \in Nat /\ fp.objsize <= fp'.objsize)
<1>1. FatFsStep /\ fp \in FileObjects /\ Types /\ Control  BY DEF Working, Inv, Types
<1>2. dl # "open"  BY DEF Logging
<1>3. CASE MoveWindow
  BY <1>1, <1>3 DEF MoveWindow, Flush, Load, Abort, FileObjects
<1>4. CASE MountVolume \/ MountInfo \/ DirFind \/ DirFindNext \/ DirAlloc \/ DirAllocNext
           \/ DirClear \/ DirClearSector
  BY <1>4 DEF MountVolume, MountInfo, DirFind, DirFindNext, DirAlloc, DirAllocNext,
              DirClear, DirClearSector
<1>5. CASE DirRegister
  <2>1. pc = "alloc"  BY <1>5 DEF DirRegister, At
  <2> QED BY <1>1, <1>2, <2>1, Where
<1>6. CASE CreateChain \/ Stretch \/ Contiguous \/ Search \/ Link \/ Found \/ Got
  BY <1>1, <1>6 DEF CreateChain, Stretch, Contiguous, Search, Link, Found, Got, NoCluster, Mark,
                    Abort, FileObjects
<1>7. CASE WriteRefused \/ WriteDone \/ WriteCluster \/ WriteSector
  BY <1>1, <1>7 DEF WriteRefused, WriteDone, WriteCluster, WriteSector, OnlyPc, FileObjects
<1>8. CASE WriteBack \/ Place
  BY <1>1, <1>8 DEF WriteBack, Place, Abort, FileObjects
<1>9. CASE Fill
  <2> DEFINE ofs == fp.fptr % SS
             wcnt == IF call.todo < SS - ofs THEN call.todo ELSE SS - ofs
  <2>1. disk' = disk /\ fp'.objsize = fp.objsize + wcnt
    BY <1>1, <1>9 DEF Fill, FileObjects
  <2>2. fp.fptr \in Nat /\ fp.objsize \in Nat /\ call.todo \in Nat /\ SS \in Nat /\ SS # 0
    BY <1>1, FatFsAssumption DEF FileObjects, Types
  <2>3. ofs \in Nat /\ ofs < SS  BY <2>2
  <2>4. wcnt \in Nat  BY <2>2, <2>3
  <2> HIDE DEF wcnt
  <2> QED BY <2>1, <2>2, <2>4
<1>10. CASE SyncNothing \/ SyncData \/ SyncEntry \/ SyncFs \/ SyncInfo
  BY <1>1, <1>10 DEF SyncNothing, SyncData, SyncEntry, SyncFs, SyncInfo, OnlyPc, FileObjects
<1> QED BY <1>1, <1>3, <1>4, <1>5, <1>6, <1>7, <1>8, <1>9, <1>10 DEF FatFsStep

(* The entry of the open file on the card is not ahead of the file. *)
LEMMA NotAhead ==
  ASSUME Inv, Logging, fname \in NamesOn(disk)
  PROVE  SizeOf(disk, fname) <= fp.objsize
<1>1. Sound(disk) /\ Sound(Seen) /\ Behind(disk, Seen)  BY DEF Inv, CardOK
<1>2. EntryOK /\ fp.objsize \in Nat  BY LogFacts
<1>3. PICK i \in CardSlot : TheEntry(Seen, i) /\ DirAt(Seen, i).size <= fp.objsize
  BY <1>2 DEF EntryOK
<1>4. PICK e \in Entries(disk) : e.name = fname /\ e.size = SizeOf(disk, fname)
  BY <1>1, SizeOnCard
<1>5. PICK g \in Entries(Seen) : g.name = e.name /\ e.size <= g.size  BY <1>1, EntriesStay
<1>6. DirAt(Seen, i) \in Entries(Seen) /\ DirAt(Seen, i).name = fname
  BY <1>3, EntriesAre DEF TheEntry
<1>7. g = DirAt(Seen, i)  BY <1>1, <1>4, <1>5, <1>6, OneOfAName
<1>8. e.size \in Nat /\ g.size \in Nat  BY <1>1, OnCard
<1> QED BY <1>2, <1>3, <1>4, <1>5, <1>7, <1>8

(* Growing in memory is writing the log. *)
LEMMA Growing ==
  ASSUME Inv, Logging, CardFiles' = CardFiles, Logging', fname' = fname,
         fp'.objsize = fp.objsize \/ (fp'.objsize \in Nat /\ fp.objsize <= fp'.objsize)
  PROVE  [Log!Next]_(Log!logVars)
<1>1. fname \in 0 .. MaxName /\ fname # 0 /\ fp.objsize \in Nat /\ fp'.objsize \in Nat
  BY LogFacts, DatalogAssumption
<1> DEFINE n == fp.objsize
           m == fp'.objsize
<1>2. /\ WrittenLog = [name |-> fname, text |-> Text(fname, n)]
      /\ WrittenLog' = [name |-> fname, text |-> Text(fname, m)]
  BY Mapped
<1>3. CASE m = n
  BY <1>2, <1>3 DEF Log!logVars
<1>4. CASE n < m
  <2>1. /\ Text(fname, n) \in Seq([of : 0 .. MaxName, row : Nat]) /\ Len(Text(fname, n)) = n
        /\ Text(fname, m) \in Seq([of : 0 .. MaxName, row : Nat]) /\ Len(Text(fname, m)) = m
        /\ SubSeq(Text(fname, n), 1, n) = Text(fname, n)
        /\ SubSeq(Text(fname, m), 1, n) = Text(fname, n)
    <3> HIDE DEF n, m
    <3>1. n \in Nat /\ m \in Nat /\ n \in 0 .. n /\ n \in 0 .. m  BY <1>1, <1>4 DEF n, m
    <3>2. fname \in 0 .. MaxName  BY <1>1
    <3> QED BY <3>1, <3>2, TextIsSeq
  <2>2. Text(fname, n) # Text(fname, m)  BY <1>4, <2>1
  <2>3. Log!IsStrictPrefix(Text(fname, n), Text(fname, m))
    BY <1>1, <1>4, <2>1, <2>2 DEF Log!IsStrictPrefix, Log!IsPrefix
  <2>4. WrittenLog # Log!NoLog  BY <1>1, <1>2 DEF Log!NoLog
  <2>5. Log!Write  BY <1>2, <2>1, <2>3, <2>4 DEF Log!Write
  <2> QED BY <2>5 DEF Log!Next
<1> QED BY <1>1, <1>3, <1>4

(* Writing the window takes the card on. *)
LEMMA FlushedCard ==
  ASSUME Inv, Flushing  PROVE Behind(disk, disk')
<1>1. Sound(disk) /\ Behind(disk, Seen) /\ Behind(disk, disk)
  BY BehindItself DEF Inv, CardOK
<1>2. disk' \in {disk, Seen}  BY DEF Flushing, Seen
<1> QED BY <1>1, <1>2

(* The directory on the card goes on: a commit. *)
LEMMA Committing ==
  ASSUME Inv, Inv', Logging, Logging', fname' = fname, fp'.objsize = fp.objsize,
         Behind(disk, disk'), fname \in NamesOn(disk'),
         (Inv /\ Logging /\ fname \in NamesOn(disk) => SizeOf(disk, fname) <= fp.objsize)',
         \A e \in Entries(disk') : SameSize(e, disk) \/ e.name = fname
  PROVE  Log!Commit
<1> DEFINE n == fp.objsize
           m == SizeOf(disk', fname)
<1>1. Sound(disk) /\ Sound(disk')  BY DEF Inv, CardOK
<1>2. fname \in 0 .. MaxName /\ fname # 0 /\ n \in Nat  BY LogFacts, DatalogAssumption
<1>3. m \in Nat /\ m <= n  BY <1>1, <1>2, SizeOnCard
<1>4. /\ WrittenLog = [name |-> fname, text |-> Text(fname, n)] /\ WrittenLog' = WrittenLog
      /\ CardFiles = FilesOf(disk) /\ CardFiles' = FilesOf(disk')
  BY <1>1, Mapped, ReadBack
<1>5. /\ FilesOf(disk') = [k \in DOMAIN FilesOf(disk) \cup {fname} |->
                             IF k = fname THEN Text(fname, m) ELSE FilesOf(disk)[k]]
      /\ fname \in NamesOn(disk) => SizeOf(disk, fname) <= m
  BY <1>1, GrownFile
<1> HIDE DEF n, m
<1>6. Len(Text(fname, n)) = n /\ SubSeq(Text(fname, n), 1, m) = Text(fname, m) /\ m \in 0 .. n
  <2>1. m \in 0 .. n  BY <1>2, <1>3
  <2> QED BY <1>2, <2>1, TextIsSeq
<1>7. fname \in DOMAIN FilesOf(disk) => Len(FilesOf(disk)[fname]) <= m
  BY <1>1, <1>5, FilesAreTexts
<1> DEFINE T == Text(fname, n)
           F == FilesOf(disk)
           G == FilesOf(disk')
<1>8. /\ WrittenLog = [name |-> fname, text |-> T] /\ WrittenLog' = WrittenLog
      /\ CardFiles = F /\ CardFiles' = G
      /\ G = [k \in DOMAIN F \cup {fname} |-> IF k = fname THEN SubSeq(T, 1, m) ELSE F[k]]
      /\ m \in 0 .. Len(T) /\ (fname \in DOMAIN F => m >= Len(F[fname]))
  <2>1. fname \in DOMAIN F => m >= Len(F[fname])
    <3> HAVE fname \in DOMAIN F
    <3>1. fname \in NamesOn(disk)  BY <1>1, FilesAreTexts
    <3>2. Len(F[fname]) = SizeOf(disk, fname) /\ SizeOf(disk, fname) \in Nat
      BY <1>1, <3>1, FilesAreTexts, SizeOnCard
    <3> QED BY <1>3, <1>5, <3>1, <3>2
  <2> QED BY <1>4, <1>5, <1>6, <2>1
<1> HIDE DEF T, F, G
<1>9. WrittenLog # Log!NoLog  BY <1>2, <1>8 DEF Log!NoLog
<1> QED BY <1>8, <1>9 DEF Log!Commit

(* A step of FatFs is a commit or a write of DurableLog, or none of its    *)
(* steps.                                                                  *)
LEMMA WorkingLogs ==
  ASSUME Inv, Inv', LogInv, Working,
         (Inv /\ Logging /\ fname \in NamesOn(disk) => SizeOf(disk, fname) <= fp.objsize)'
  PROVE  [Log!Next]_(Log!logVars)
<1>1. /\ dl' = dl /\ fname' = fname /\ (Logging' <=> Logging)
      /\ Quiet \/ Flushing \/ FatChanged \/ EntryChanged
      /\ Sound(disk) /\ Sound(disk')
  BY Moves DEF Working, logVars, LogInv, Inv, CardOK, Logging
<1>2. ASSUME FilesOf(disk') = FilesOf(disk)  PROVE [Log!Next]_(Log!logVars)
  <2>1. CardFiles' = CardFiles  BY <1>1, <1>2, Mapped, ReadBack
  <2>2. CASE Logging
    <3>1. fp'.objsize = fp.objsize \/ (fp'.objsize \in Nat /\ fp.objsize <= fp'.objsize)
      BY <2>2, ObjectMoves
    <3> QED BY <1>1, <2>1, <2>2, <3>1, Growing
  <2>3. CASE ~Logging
    <3>1. WrittenLog' = WrittenLog  BY <1>1, <2>3, Mapped
    <3> QED BY <2>1, <3>1 DEF Log!logVars
  <2> QED BY <2>2, <2>3
<1>3. CASE Quiet \/ FatChanged \/ EntryChanged
  <2>1. Entries(disk') = Entries(disk)  BY <1>3 DEF Quiet, FatChanged, EntryChanged
  <2>2. FilesOf(disk') = FilesOf(disk)  BY <2>1 DEF FilesOf, NamesOn, SizeOf
  <2> QED BY <1>2, <2>2
<1>4. CASE Flushing
  <2>1. \A e \in Entries(disk') : SameSize(e, disk) \/ Ours(e)
    BY <1>4, NewEntries DEF LogInv
  <2>2. Behind(disk, disk')  BY <1>4, FlushedCard
  <2>3. CASE (\A e \in Entries(disk') : SameSize(e, disk))
    <3>1. FilesOf(disk') = FilesOf(disk)  BY <1>1, <2>2, <2>3, FilesStay
    <3> QED BY <1>2, <3>1
  <2>4. CASE ~(\A e \in Entries(disk') : SameSize(e, disk))
    <3>1. PICK e \in Entries(disk') : ~SameSize(e, disk)  BY <2>4
    <3>2. Ours(e)  BY <2>1, <3>1
    <3>3. fname \in NamesOn(disk')  BY <3>2 DEF NamesOn, Ours
    <3>4. Logging
      <4>1. pc # "idle"  BY <1>4 DEF Flushing
      <4> QED BY <3>2, <4>1 DEF Ours, IsOpen, Logging
    <3>5. disk' # disk  BY <3>1 DEF SameSize
    <3>6. fp'.objsize = fp.objsize  BY <3>4, <3>5, ObjectMoves
    <3>7. \A f \in Entries(disk') : SameSize(f, disk) \/ f.name = fname
      BY <2>1 DEF Ours
    <3>8. Log!Commit  BY <1>1, <2>2, <3>3, <3>4, <3>6, <3>7, Committing
    <3> QED BY <3>8 DEF Log!Next
  <2> QED BY <2>3, <2>4
<1> QED BY <1>1, <1>3, <1>4

(* No file is open any more. *)
LEMMA Losing ==
  ASSUME Inv, Inv', disk' = disk, ~Logging'  PROVE [Log!Next]_(Log!logVars)
<1>1. CardFiles' = CardFiles  BY Mapped
<1>2. WrittenLog' = Log!NoLog  BY Mapped DEF Log!NoLog
<1> QED BY <1>1, <1>2 DEF Log!Lose, Log!Next

(* datalog_open() has created its file. *)
LEMMA Beginning ==
  ASSUME Inv, LogInv, Opened, res = "OK"  PROVE Log!Begin
<1>1. /\ dl = "open" /\ pc = "idle" /\ dl' = "header" /\ fname' = fname /\ disk' = disk
      /\ fp' = fp
  BY DEF Opened, Answered, f_write, Start
<1>2. IsOpen /\ ~Logging /\ Logging'  BY <1>1 DEF IsOpen, Logging
<1>3. fp.objsize = 0
  <2>1. ChainOK /\ fp.fptr = 0  BY <1>1, <1>2 DEF Inv, FileOK, EndOK
  <2> QED BY <2>1 DEF ChainOK
<1>4. Sound(disk)  BY DEF Inv, CardOK
<1>5. fname \in Names  BY <1>1, DatalogAssumption DEF Inv, Control
<1>6. fname \notin DOMAIN FilesOf(disk)
  <2>1. \A e \in Entries(disk) : e.name # fname  BY <1>1 DEF LogInv, NameIsNew
  <2>2. DOMAIN FilesOf(disk) = NamesOn(disk)  BY <1>4, FilesAreTexts
  <2> QED BY <2>1, <2>2 DEF NamesOn
<1>7. Text(fname, 0) = << >>  BY DEF Text
<1>8. /\ CardFiles = FilesOf(disk) /\ CardFiles' = CardFiles
      /\ WrittenLog = Log!NoLog
      /\ WrittenLog' = [name |-> fname, text |-> << >>]
  BY <1>1, <1>2, <1>3, <1>4, <1>7, Mapped, ReadBack DEF Log!NoLog
<1> QED BY <1>5, <1>6, <1>8 DEF Log!Begin

(* Every step is one of DurableLog, or none. *)
LEMMA LogStep ==
  ASSUME Inv, Inv', LogInv, [Next]_vars,
         (Inv /\ Logging /\ fname \in NamesOn(disk) => SizeOf(disk, fname) <= fp.objsize)'
  PROVE  [Log!Next]_(Log!logVars)
<1>1. CASE Working  BY <1>1, WorkingLogs
<1>2. CASE Reset
  <2>1. disk' = disk /\ ~Logging'  BY <1>2 DEF Reset, LosePower, Logging
  <2> QED BY <2>1, Losing
<1>3. CASE Open \/ Mounted \/ NameTaken \/ NameFree \/ HeaderClosed
  <2>1. disk' = disk /\ ~Logging'
    BY <1>3 DEF Open, Mounted, NameTaken, NameFree, HeaderClosed, OpenFailed, Probe, Start,
                fatVars, f_mount, f_stat, f_open, Logging
  <2> QED BY <2>1, Losing
<1>4. CASE Opened
  <2>1. CASE res = "OK"  BY <1>4, <2>1, Beginning DEF Log!Next
  <2>2. CASE res # "OK"
    <3>1. disk' = disk /\ ~Logging'  BY <1>4, <2>2 DEF Opened, OpenFailed, fatVars, Logging
    <3> QED BY <3>1, Losing
  <2> QED BY <2>1, <2>2
<1>5. CASE HeaderWritten \/ HeaderSynced \/ WriteRow \/ RowRefused \/ RowWritten \/ RowSynced
  <2>1. disk' = disk /\ fp' = fp /\ fname' = fname /\ Logging /\ Logging'
    BY <1>5 DEF HeaderWritten, HeaderSynced, WriteRow, RowRefused, RowWritten, RowSynced, Answered,
                Start, fatVars, f_write, f_sync, f_close, Logging
  <2>2. CardFiles' = CardFiles  BY <2>1, Mapped
  <2> QED BY <2>1, <2>2, Growing
<1>6. CASE UNCHANGED vars
  <2>1. disk' = disk /\ fp' = fp /\ fname' = fname /\ dl' = dl  BY <1>6 DEF vars
  <2>2. Logging' <=> Logging  BY <2>1 DEF Logging
  <2>3. CardFiles' = CardFiles /\ WrittenLog' = WrittenLog  BY <2>1, <2>2, Mapped
  <2> QED BY <2>3 DEF Log!logVars
<1> QED BY <1>1, <1>2, <1>3, <1>4, <1>5, <1>6 DEF Next, Program

(* The card at the start is one of DurableLog. *)
LEMMA LogInit ==
  ASSUME Init, Inv  PROVE Log!Init
<1>1. Sound(disk) /\ ~Logging  BY DEF Init, Inv, CardOK, Logging
<1>2. CardFiles = FilesOf(disk)  BY <1>1, Mapped, ReadBack
<1>3. WrittenLog = Log!NoLog  BY <1>1, Mapped DEF Log!NoLog
<1>4. /\ NamesOn(disk) \in SUBSET Names
      /\ CardFiles \in [NamesOn(disk) -> Seq([of : 0 .. MaxName, row : Nat])]
  BY <1>1, <1>2, FilesAreTexts
<1> QED BY <1>3, <1>4 DEF Log!Init

(* Logging implements DurableLog: whatever the card and power do, what a   *)
(* reader of the card finds changes by commits of the file being written   *)
(* alone, f_write() only adds to what can be committed, datalog_open()     *)
(* begins a file that the card does not hold, and only closing it or       *)
(* losing power gives up what was not committed.                           *)
THEOREM LoggingIsDurable == Spec => DurableLogSpec
<1>1. Init /\ Inv => Log!Init  BY LogInit
<1>2. Inv /\ Inv' /\ LogInv /\ [Next]_vars
        /\ (Inv /\ Logging /\ fname \in NamesOn(disk) => SizeOf(disk, fname) <= fp.objsize)'
        => [Log!Next]_(Log!logVars)
  BY LogStep
<1>3. Inv /\ Logging /\ fname \in NamesOn(disk) => SizeOf(disk, fname) <= fp.objsize
  BY NotAhead
<1> QED BY <1>1, <1>2, <1>3, Invariance, LogInvariance, PTL DEF Spec, DurableLogSpec, Log!Spec
=============================================================================
