-------------------------- MODULE FatVolumeProofs ---------------------------
(***************************************************************************)
(* Theorems about FatVolume: the card and the file object stay sound from  *)
(* one call to the next, whatever the application calls; room is refused   *)
(* only when there is none; and what a reader finds from the root down are *)
(* all the objects of the card, each with clusters of its own.             *)
(*                                                                         *)
(* The calls come first, one after the other, then the invariant, and in   *)
(* the end the reader, who sees the volume by paths.                       *)
(***************************************************************************)
EXTENDS FatVolumeCalls

(* A cluster further at each step, until the one of the target is reached. *)
LEMMA SeekTurnsOn ==
  ASSUME NEW u, NEW ch, NEW tab, NEW but, Filed(u, ch, tab, but), NEW ofs \in Nat,
         "WRITE" \in u.fp.flag \/ ofs <= u.fp.objsize,
         NEW s, SeekGoesOn(u, s, ofs, ch, tab, but, 0), NEW N \in Nat
  PROVE  SeekGoesOn(u, Repeat(SeekStep, s, N), ofs, ch, tab, but, N)
<1>1. PICK f : Turns("seek", 0, s, N, f) /\ Repeat(SeekStep, s, N) = f[N]  BY SeekTurns
<1> DEFINE S == {n \in 0 .. N : SeekGoesOn(u, f[n], ofs, ch, tab, but, n)}
<1>2. 0 \in S
  <2>1. f[0] = s  BY <1>1 DEF Turns
  <2>2. SeekGoesOn(u, f[0], ofs, ch, tab, but, 0)  BY <2>1
  <2>3. 0 \in 0 .. N  OBVIOUS
  <2> QED BY <2>2, <2>3
<1>3. ASSUME NEW n \in 0 .. N - 1, n \in S  PROVE n + 1 \in S
  <2>1. SeekGoesOn(u, f[n], ofs, ch, tab, but, n) /\ n \in Nat  BY <1>3
  <2>2. n + 1 \in 1 .. N /\ n + 1 \in 0 .. N /\ (n + 1) - 1 = n  OBVIOUS
  <2>3. f[n + 1] = SeekStep(f[n])  BY <1>1, <2>2, TurnIs DEF Turns
  <2>4. SeekGoesOn(u, SeekStep(f[n]), ofs, ch, tab, but, n + 1)  BY <2>1, SeekStepIs
  <2> QED BY <2>2, <2>3, <2>4
<1>4. N \in S
  <2> HIDE DEF S
  <2>1. \A n \in 0 .. N : n \in S  BY <1>2, <1>3, Induction
  <2> QED BY <2>1
<1> QED BY <1>1, <1>4

(* All of the chain is behind the position or next to it, when the steps   *)
(* are as many as there are clusters.                                      *)
LEMMA SeekArrives ==
  ASSUME NEW u, NEW ch, NEW tab, NEW but, NEW ofs, NEW s,
         SeekGoesOn(u, s, ofs, ch, tab, but, NCLST)
  PROVE  \E dh : \E a \in Nat : Seeks(u, s, ofs, ch, dh, tab, but, a) /\ s.left <= CLSZ
<1>1. PICK dh : \E a \in Nat :
               Seeks(u, s, ofs, ch, dh, tab, but, a) /\ (s.left <= CLSZ \/ a >= NCLST)
  BY DEF SeekGoesOn
<1>2. PICK a \in Nat :
               Seeks(u, s, ofs, ch, dh, tab, but, a) /\ (s.left <= CLSZ \/ a >= NCLST)
  BY <1>1
<1>3. CLSZ \in Nat  BY Sizes
<1>4. s.left <= CLSZ
  <2>1. CASE Lost(u, s, ch, dh)  BY <2>1, <1>3 DEF Lost
  <2>2. CASE OnChain(u, s, ofs, ch, dh, tab, a)
    <3> DEFINE q == dh[s.fp.sclust]
    <3>1. a + 1 \in 1 .. Len(q) /\ s.fp.sclust \in DOMAIN dh  BY <2>2 DEF OnChain
    <3>2. Chained(s.v.fat, dh)  BY <1>2 DEF Seeks, Good
    <3>3. Strand(s.v.fat, s.fp.sclust, q)  BY <3>1, <3>2, StrandOf
    <3>4. Len(q) \in 1 .. NCLST /\ NCLST \in Nat  BY <3>3, Sizes DEF Strand
    <3>5. ~(a >= NCLST)
      <4> HIDE DEF q
      <4> QED BY <3>1, <3>4
    <3> QED BY <3>5, <1>2
  <2> QED BY <2>1, <2>2, <1>2 DEF Seeks
<1> QED BY <1>2, <1>4

(* What a call with a file leaves: the chain of the file is another one at *)
(* most, and the entry is to be written when that or the size changed.     *)
Served(s, t, ch, tab, but) ==
  \E dh : /\ Filed(t, dh, tab, but) /\ Rechains(ch, dh, s.fp.sclust, t.fp.sclust)
          /\ Keeps(s.v, t.v) /\ Kin(s.fp, t.fp)
          /\ \/ "MODIFIED" \in t.fp.flag
             \/ dh = ch /\ t.fp.sclust = s.fp.sclust /\ t.fp.objsize = s.fp.objsize

(* The position e is in the cluster a of the chain.                        *)
LEMMA EndPosition ==
  ASSUME NEW a \in Nat, NEW l \in 1 .. CLSZ, NEW e, e = CLSZ * a + l
  PROVE  /\ e \in Nat /\ e > 0 /\ (e - 1) \div CLSZ = a
         /\ IF l = CLSZ THEN e % SS = 0 ELSE e % CLSZ = l /\ e % SS = l % SS
<1>1. CLSZ \in Nat /\ CLSZ # 0 /\ CSIZE \in Nat /\ SS \in Nat /\ SS # 0 /\ CLSZ = CSIZE * SS  BY Sizes
<1> DEFINE w == CLSZ * a
<1>2. w \in Nat
  <2> HIDE DEF w
  <2>1. CLSZ * a \in Nat  BY <1>1, OneMore
  <2> QED BY <2>1 DEF w
<1>3. w + (l - 1) = e - 1 /\ e \in Nat /\ e > 0 /\ l - 1 \in 0 .. CLSZ - 1
  <2>1. e = w + l  OBVIOUS
  <2> HIDE DEF w
  <2> QED BY <2>1, <1>1, <1>2
<1>4. (e - 1) \div CLSZ = a
  <2>1. (CLSZ * a + (l - 1)) \div CLSZ = a  BY <1>1, <1>3, Quotient
  <2> QED BY <2>1, <1>3
<1>5. CASE l # CLSZ
  <2>1. l \in 0 .. CLSZ - 1  BY <1>1, <1>5
  <2> QED BY <2>1, <1>3, <1>4, <1>5, PositionOf
<1>6. CASE l = CLSZ
  <2>1. w + CLSZ = CLSZ * (a + 1)  BY <1>1, OneMore
  <2>2. a + 1 \in Nat /\ 0 \in 0 .. CLSZ - 1  BY <1>1
  <2>3. (CLSZ * (a + 1) + 0) % SS = 0 % SS  BY <2>2, PositionOf
  <2>4. CLSZ * (a + 1) \in Nat  BY <2>2, <1>1, OneMore
  <2>5. (CLSZ * (a + 1) + 0) = e
    <3> DEFINE z == CLSZ * (a + 1)
    <3>1. z \in Nat /\ w + CLSZ = z /\ e = w + CLSZ  BY <2>1, <2>4, <1>6
    <3> HIDE DEF z, w
    <3> QED BY <3>1 DEF z
  <2>6. 0 % SS = 0
    <3>1. 0 \in Nat /\ 0 \in 0 .. SS - 1  BY <1>1
    <3>2. SS * 0 = 0  BY <1>1
    <3>3. (SS * 0 + 0) % SS = 0  BY <3>1, <1>1, Quotient
    <3> QED BY <3>2, <3>3
  <2> QED BY <2>3, <2>5, <2>6, <1>3, <1>4, <1>6
<1> QED BY <1>5, <1>6

(* What the end of a seek does to the file object before the buffer.       *)
Ended(s) ==
  LET at == [s EXCEPT !.fp.fptr = @ + s.left]
  IN  IF at.fp.fptr <= fp.objsize THEN at
      ELSE [at EXCEPT !.fp.objsize = at.fp.fptr, !.fp.flag = @ \cup {"MODIFIED"}]
EndedIs(s, t) ==
  LET e == s.fp.fptr + s.left
  IN  /\ DOMAIN t = {"v", "fp", "left", "got", "res"} /\ t.v = s.v /\ t.left = s.left
      /\ t.res = s.res /\ DOMAIN t.fp = DOMAIN s.fp /\ t.fp.id = s.fp.id
      /\ t.fp.err = s.fp.err /\ t.fp.sclust = s.fp.sclust /\ t.fp.clust = s.fp.clust
      /\ t.fp.sect = s.fp.sect /\ t.fp.buf = s.fp.buf /\ t.fp.dir = s.fp.dir /\ t.fp.fptr = e
      /\ IF e <= fp.objsize THEN t.fp.objsize = s.fp.objsize /\ t.fp.flag = s.fp.flag
         ELSE t.fp.objsize = e /\ t.fp.flag = s.fp.flag \cup {"MODIFIED"}

(* What Ended() assigns.                                                   *)
LEMMA EndedGives ==
  ASSUME NEW s, StateForm(s),
         DOMAIN s.fp = {"id", "flag", "err", "sclust", "objsize", "fptr", "clust", "sect", "buf", "dir"}
  PROVE  EndedIs(s, Ended(s))
<1> DEFINE at == [s EXCEPT !.fp.fptr = @ + s.left]
<1>1. DOMAIN s = {"v", "fp", "left", "got", "res"}  BY DEF StateForm
<1>2. /\ DOMAIN at = {"v", "fp", "left", "got", "res"} /\ at.v = s.v /\ at.left = s.left
      /\ at.res = s.res /\ DOMAIN at.fp = DOMAIN s.fp /\ at.fp.id = s.fp.id
      /\ at.fp.err = s.fp.err /\ at.fp.sclust = s.fp.sclust /\ at.fp.clust = s.fp.clust
      /\ at.fp.sect = s.fp.sect /\ at.fp.buf = s.fp.buf /\ at.fp.dir = s.fp.dir
      /\ at.fp.fptr = s.fp.fptr + s.left /\ at.fp.objsize = s.fp.objsize /\ at.fp.flag = s.fp.flag
  BY <1>1
<1> DEFINE t == Ended(s)
<1>3. t = IF at.fp.fptr <= fp.objsize THEN at
          ELSE [at EXCEPT !.fp.objsize = at.fp.fptr, !.fp.flag = @ \cup {"MODIFIED"}]
  BY DEF Ended
<1> HIDE DEF at, t
<1>4. CASE at.fp.fptr <= fp.objsize
  <2>1. t = at  BY <1>3, <1>4
  <2> QED BY <2>1, <1>2, <1>4 DEF EndedIs, t
<1>5. CASE ~(at.fp.fptr <= fp.objsize)
  <2>1. t = [at EXCEPT !.fp.objsize = at.fp.fptr, !.fp.flag = @ \cup {"MODIFIED"}]  BY <1>3, <1>5
  <2>2. /\ DOMAIN t = {"v", "fp", "left", "got", "res"} /\ t.v = at.v /\ t.left = at.left
        /\ t.res = at.res /\ DOMAIN t.fp = DOMAIN at.fp /\ t.fp.id = at.fp.id
        /\ t.fp.err = at.fp.err /\ t.fp.sclust = at.fp.sclust /\ t.fp.clust = at.fp.clust
        /\ t.fp.sect = at.fp.sect /\ t.fp.buf = at.fp.buf /\ t.fp.dir = at.fp.dir
        /\ t.fp.fptr = at.fp.fptr /\ t.fp.objsize = at.fp.fptr
        /\ t.fp.flag = at.fp.flag \cup {"MODIFIED"}
    BY <2>1, <1>2
  <2> QED BY <2>2, <1>2, <1>5 DEF EndedIs, t
<1> QED BY <1>4, <1>5

Sought(u, t, ofs, ch, tab, but) ==
  /\ Served(u, t, ch, tab, but)
  /\ t.fp.fptr = ofs \/ Full(t.v)

(* The end of a seek: the position and the size, and then the buffer.      *)
LEMMA SeekEndsAt ==
  ASSUME NEW s, StateForm(s),
         DOMAIN s.fp = {"id", "flag", "err", "sclust", "objsize", "fptr", "clust", "sect", "buf", "dir"}
  PROVE  LET e == s.fp.fptr + s.left
             sect == clst2sect(s.fp.clust) + s.left \div SS
         IN  SeekEnds(s) = IF e % SS = 0 \/ sect = fp.sect THEN Ended(s)
                           ELSE Fill(WriteBack(Ended(s)), sect)
<1> DEFINE at == [s EXCEPT !.fp.fptr = @ + s.left]
<1>1. at.fp.fptr = s.fp.fptr + s.left /\ s.res = "OK"  BY DEF StateForm
<1> QED BY <1>1 DEF SeekEnds, Ended, OnSector

(* A file that has no cluster gets none, on a full volume.                 *)
LEMMA SeekNowhere ==
  ASSUME NEW ch, NEW tab, NEW but, Filed(Transfer(0), ch, tab, but), NEW ofs \in Nat,
         NEW s, NEW dh, NEW a \in Nat, Seeks(Transfer(0), s, ofs, ch, dh, tab, but, a),
         Lost(Transfer(0), s, ch, dh)
  PROVE  Sought(Transfer(0), SeekEnds(s), ofs, ch, tab, but)
<1> DEFINE u == Transfer(0)
           t == SeekEnds(s)
<1>1. /\ u.fp = fp /\ StateForm(s) /\ SeekSame(fp, s.fp) /\ FilForm(fp) /\ Good(s.v, dh, tab, but)
      /\ Rechains(ch, dh, fp.sclust, s.fp.sclust) /\ Keeps(u.v, s.v)
  BY DEF Seeks, Filed, Transfer
<1>2. /\ s.fp.sclust = 0 /\ fp.sclust = 0 /\ s.fp.clust = 0 /\ dh = ch /\ s.fp.fptr = 0
      /\ s.left = 0 /\ Full(s.v)
  BY <1>1 DEF Lost
<1>3. fp.objsize = 0 /\ "DIRTY" \notin fp.flag  BY <1>1, <1>2 DEF Filed
<1>4. 0 % SS = 0
  <2>1. SS \in Nat /\ SS # 0 /\ 0 \in Nat /\ 0 \in 0 .. SS - 1 /\ SS * 0 = 0  BY Sizes
  <2>2. (SS * 0 + 0) % SS = 0  BY <2>1, Quotient
  <2> QED BY <2>1, <2>2
<1>5. t = Ended(s)
  <2>1. s.fp.fptr + s.left = 0  BY <1>2
  <2>2. DOMAIN s.fp = {"id", "flag", "err", "sclust", "objsize", "fptr", "clust", "sect", "buf", "dir"}
    BY <1>1 DEF SeekSame, FilForm
  <2> QED BY <2>1, <2>2, <1>1, <1>4, SeekEndsAt
<1> HIDE DEF t
<1>6. EndedIs(s, t)
  <2>1. DOMAIN s.fp = {"id", "flag", "err", "sclust", "objsize", "fptr", "clust", "sect", "buf", "dir"}
    BY <1>1 DEF SeekSame, FilForm
  <2> QED BY <2>1, <1>1, <1>5, EndedGives
<1>7. /\ DOMAIN t = {"v", "fp", "left", "got", "res"} /\ t.v = s.v /\ t.left = 0 /\ t.res = "OK"
      /\ DOMAIN t.fp = DOMAIN fp /\ t.fp.id = fp.id /\ t.fp.err = "OK" /\ t.fp.sclust = 0
      /\ t.fp.clust = 0 /\ t.fp.sect = fp.sect /\ t.fp.buf = fp.buf /\ t.fp.dir = fp.dir
      /\ t.fp.fptr = 0 /\ t.fp.objsize = 0 /\ t.fp.flag = fp.flag
  <2>1. s.fp.fptr + s.left = 0 /\ 0 <= fp.objsize  BY <1>2, <1>3
  <2> QED BY <2>1, <1>1, <1>2, <1>3, <1>6 DEF EndedIs, StateForm, SeekSame, FilForm
<1>8. FilForm(t.fp)  BY <1>1, <1>7 DEF FilForm
<1>9. Filed(t, dh, tab, but)  BY <1>1, <1>3, <1>7, <1>8 DEF Filed
<1>10. Kin(fp, t.fp)  BY <1>7 DEF Kin
<1> HIDE DEF u
<1>11. Served(u, t, ch, tab, but)
  BY <1>1, <1>2, <1>3, <1>7, <1>9, <1>10 DEF Served
<1>12. Full(t.v)  BY <1>2, <1>7
<1> QED BY <1>11, <1>12 DEF Sought, t, u

(* The seek ends at a place of the chain.                                  *)
LEMMA SeekSomewhere ==
  ASSUME NEW ch, NEW tab, NEW but, Filed(Transfer(0), ch, tab, but), NEW ofs \in Nat,
         NEW s, NEW dh, NEW a \in Nat, Seeks(Transfer(0), s, ofs, ch, dh, tab, but, a),
         OnChain(Transfer(0), s, ofs, ch, dh, tab, a), s.left <= CLSZ
  PROVE  Sought(Transfer(0), SeekEnds(s), ofs, ch, tab, but)
<1> DEFINE u == Transfer(0)
           t == SeekEnds(s)
           w == Ended(s)
           o == s.fp.sclust
           q == dh[o]
           c == q[a + 1]
           l == IF s.left > 0 THEN s.left ELSE CLSZ
           e == s.fp.fptr + s.left
           sect == clst2sect(s.fp.clust) + s.left \div SS
<1>1. /\ u.fp = fp /\ u.v = vol /\ StateForm(s) /\ SeekSame(fp, s.fp) /\ FilForm(fp)
      /\ Good(s.v, dh, tab, but) /\ s.fp.fptr \in Nat
      /\ Rechains(ch, dh, fp.sclust, o) /\ Keeps(vol, s.v) /\ Chained(s.v.fat, dh)
  BY DEF Seeks, Filed, Transfer, Good
<1>2. /\ o \in DOMAIN dh \ DOMAIN tab /\ a + 1 \in 1 .. Len(q)
      /\ s.fp.clust = c /\ Buffers(s.fp, q)
      /\ \/ dh = ch /\ o = fp.sclust /\ SizeFits(q, s.fp.objsize)
         \/ s.fp.objsize <= (Len(q) - 1) * CLSZ /\ a + 1 = Len(q)
      /\ \/ s.left > 0 /\ s.fp.fptr = CLSZ * a /\ s.fp.fptr + s.left = ofs
         \/ s.left = 0 /\ s.fp.fptr = CLSZ * (a + 1) /\ a + 1 = Len(q) /\ Full(s.v)
  BY <1>1 DEF OnChain
<1>3. CLSZ \in Nat /\ CLSZ # 0 /\ SS \in Nat /\ SS # 0 /\ CLSZ * a \in Nat
      /\ CLSZ * (a + 1) = (CLSZ * a) + CLSZ /\ 0 \notin Cluster
  <2>1. CLSZ * a \in Nat /\ CLSZ * (a + 1) = (CLSZ * a) + CLSZ  BY Sizes, OneMore
  <2> QED BY <2>1, Sizes
<1>4. l \in 1 .. CLSZ /\ e = (CLSZ * a) + l /\ (s.left = l \/ l = CLSZ)
  <2> DEFINE x == CLSZ * a
             y == CLSZ * (a + 1)
  <2>1. s.left \in Nat /\ y = x + CLSZ /\ x \in Nat  BY <1>1, <1>3 DEF StateForm
  <2>2. (s.left > 0 /\ s.fp.fptr = x) \/ (s.left = 0 /\ s.fp.fptr = y)  BY <1>2
  <2> HIDE DEF x, y
  <2>3. l \in 1 .. CLSZ /\ e = x + l /\ (s.left = l \/ l = CLSZ)
    BY <2>1, <2>2, <1>3
  <2> QED BY <2>3 DEF x
<1>5. /\ e \in Nat /\ e > 0 /\ (e - 1) \div CLSZ = a
      /\ IF l = CLSZ THEN e % SS = 0 ELSE e % CLSZ = l /\ e % SS = l % SS
  <2> HIDE DEF l, e
  <2> QED BY <1>4, EndPosition
<1>6. Strand(s.v.fat, o, q) /\ Len(q) \in Nat /\ Len(q) # 0 /\ c \in Cluster /\ DOMAIN q = 1 .. Len(q)
  <2>1. Strand(s.v.fat, o, q)  BY <1>1, <1>2, StrandOf
  <2>2. Len(q) \in 1 .. NCLST /\ DOMAIN q = 1 .. Len(q)
        /\ \A k \in 1 .. Len(q) : q[k] \in Cluster
    BY <2>1 DEF Strand
  <2>3. a + 1 \in 1 .. Len(q)  BY <1>2
  <2>4. q[a + 1] \in Cluster  BY <2>2, <2>3
  <2>5. Len(q) \in Nat /\ Len(q) # 0
    <3> HIDE DEF q
    <3> QED BY <2>2, Sizes
  <2> QED BY <2>1, <2>2, <2>4, <2>5
<1>6a. a + 1 \in 1 .. Len(q)  BY <1>2
<1>7. /\ (Len(q) - 1) * CLSZ \in Nat /\ Len(q) * CLSZ = (Len(q) - 1) * CLSZ + CLSZ
      /\ CLSZ * a <= (Len(q) - 1) * CLSZ /\ (a + 1 = Len(q) => CLSZ * a = (Len(q) - 1) * CLSZ)
  <2> HIDE DEF q, c
  <2>1. a + 1 <= Len(q)  BY <1>6, <1>6a
  <2>2. /\ (Len(q) - 1) * CLSZ \in Nat /\ Len(q) * CLSZ = (Len(q) - 1) * CLSZ + CLSZ
        /\ CLSZ * a <= (Len(q) - 1) * CLSZ
    BY <2>1, <1>3, <1>6, Products
  <2>3. a + 1 = Len(q) => CLSZ * a = (Len(q) - 1) * CLSZ
    <3> SUFFICES ASSUME a + 1 = Len(q)  PROVE CLSZ * a = (Len(q) - 1) * CLSZ  OBVIOUS
    <3>1. Len(q) - 1 = a  BY <1>6
    <3> QED BY <3>1, <1>3
  <2> QED BY <2>2, <2>3
<1>8. DOMAIN s.fp = {"id", "flag", "err", "sclust", "objsize", "fptr", "clust", "sect", "buf", "dir"}
  BY <1>1 DEF SeekSame, FilForm
<1>9. t = IF e % SS = 0 \/ sect = fp.sect THEN w ELSE Fill(WriteBack(w), sect)
  BY <1>1, <1>8, SeekEndsAt
<1>10. EndedIs(s, w)  BY <1>1, <1>8, EndedGives
<1> HIDE DEF t, w
<1> DEFINE size == IF e <= fp.objsize THEN fp.objsize ELSE e
<1>11. /\ DOMAIN w = {"v", "fp", "left", "got", "res"} /\ w.v = s.v /\ w.left = s.left /\ w.res = "OK"
       /\ DOMAIN w.fp = DOMAIN fp /\ w.fp.id = fp.id /\ w.fp.err = "OK" /\ w.fp.sclust = o
       /\ w.fp.clust = c /\ w.fp.sect = fp.sect /\ w.fp.buf = fp.buf /\ w.fp.dir = fp.dir
       /\ w.fp.fptr = e /\ w.fp.objsize = size
       /\ w.fp.flag = IF e <= fp.objsize THEN fp.flag ELSE fp.flag \cup {"MODIFIED"}
  BY <1>1, <1>2, <1>10 DEF EndedIs, StateForm, SeekSame, FilForm
<1>12. fp.objsize \in Nat /\ s.fp.objsize = fp.objsize  BY <1>1 DEF FilForm, SeekSame
<1>13. size \in Nat /\ e \in 0 .. size /\ SizeFits(q, size)
       /\ (e <= fp.objsize => dh = ch /\ o = fp.sclust)
  <2> DEFINE m == (Len(q) - 1) * CLSZ
             x == Len(q) * CLSZ
             y == CLSZ * a
  <2>1. m \in Nat /\ x = m + CLSZ /\ y <= m /\ y \in Nat /\ (a + 1 = Len(q) => y = m)  BY <1>3, <1>7
  <2>2. \/ dh = ch /\ o = fp.sclust /\ fp.objsize \in m + 1 .. x
        \/ fp.objsize <= m /\ a + 1 = Len(q)
    BY <1>2, <1>12 DEF SizeFits
  <2>3. e = y + l /\ l \in 1 .. CLSZ  BY <1>4
  <2> HIDE DEF m, x, y, l, e, q
  <2>4. size \in Nat /\ e \in 0 .. size /\ size \in m + 1 .. x
        /\ (e <= fp.objsize => dh = ch /\ o = fp.sclust)
    <3>1. CASE dh = ch /\ o = fp.sclust /\ fp.objsize \in m + 1 .. x
      <4>1. fp.objsize >= m + 1 /\ fp.objsize <= x /\ e <= x /\ e \in Nat /\ e > 0
        BY <3>1, <2>1, <2>3, <1>3, <1>5, <1>12
      <4>2. CASE e <= fp.objsize  BY <4>1, <4>2, <3>1, <2>1, <1>12
      <4>3. CASE ~(e <= fp.objsize)  BY <4>1, <4>3, <3>1, <2>1, <1>12
      <4> QED BY <4>2, <4>3
    <3>2. CASE fp.objsize <= m /\ a + 1 = Len(q)
      BY <3>2, <2>1, <2>3, <1>3, <1>5, <1>12
    <3> QED BY <2>2, <3>1, <3>2
  <2> HIDE DEF size
  <2> QED BY <2>4 DEF SizeFits, m, x
<1> HIDE DEF size
<1>14. FilForm(w.fp)
  <2>1. o \in Cluster  BY <1>1, <1>2, Heads
  <2> HIDE DEF o, e, c
  <2> QED BY <2>1, <1>1, <1>6, <1>11, <1>13 DEF FilForm
<1>15. Loose(w, dh, tab, but)
  <2>1. StateForm(w)  BY <1>1, <1>11 DEF StateForm
  <2>2. Buffers(w.fp, q)
    <3>1. "DIRTY" \in w.fp.flag => "DIRTY" \in fp.flag  BY <1>11
    <3>2. s.fp.flag = fp.flag /\ s.fp.sect = fp.sect  BY <1>1 DEF SeekSame
    <3> QED BY <3>1, <3>2, <1>2, <1>11 DEF Buffers
  <2> QED BY <2>1, <2>2, <1>1, <1>2, <1>11, <1>13, <1>14 DEF Loose
<1>16. e % SS # 0 => /\ l = s.left /\ l \in 0 .. CLSZ - 1 /\ e % CLSZ = l /\ sect \in Sector
                     /\ sect = clst2sect(c) + (e % CLSZ) \div SS
  <2> SUFFICES ASSUME e % SS # 0
               PROVE  /\ l = s.left /\ l \in 0 .. CLSZ - 1 /\ e % CLSZ = l /\ sect \in Sector
                      /\ sect = clst2sect(c) + (e % CLSZ) \div SS
    OBVIOUS
  <2>1. l # CLSZ /\ l = s.left /\ e % CLSZ = l  BY <1>4, <1>5
  <2>2. l \in 0 .. CLSZ - 1 /\ e \in Nat
    <3> HIDE DEF l
    <3> QED BY <2>1, <1>3, <1>4, <1>5
  <2>3. (e % CLSZ) \div SS \in 0 .. CSIZE - 1
    <3> HIDE DEF e
    <3> QED BY <2>2, Position
  <2>4. sect = clst2sect(c) + (e % CLSZ) \div SS  BY <1>2, <2>1
  <2>5. SectorsOf(c) \subseteq Sector /\ clst2sect(c) \in Nat /\ CSIZE \in Nat  BY <1>6, SectorsAre, Sizes
  <2>6. sect \in SectorsOf(c)
    <3> DEFINE z == (e % CLSZ) \div SS
               b == clst2sect(c)
    <3>1. z \in 0 .. CSIZE - 1 /\ sect = b + z /\ b \in Nat /\ CSIZE \in Nat  BY <2>3, <2>4, <2>5
    <3> HIDE DEF z, b, sect
    <3>2. sect \in b .. b + CSIZE - 1  BY <3>1
    <3> QED BY <3>2 DEF SectorsOf, b
  <2> QED BY <2>1, <2>2, <2>4, <2>5, <2>6
<1>17. /\ Loose(t, dh, tab, but) /\ t.fp.sclust = o /\ t.fp.objsize = size /\ t.fp.fptr = e
       /\ t.fp.clust = c /\ SameButDisk(s.v, t.v) /\ t.fp.id = fp.id /\ t.fp.dir = fp.dir
       /\ t.fp.flag \ {"DIRTY"} = w.fp.flag \ {"DIRTY"}
       /\ (e % SS # 0 => t.fp.sect = sect)
  <2>1. CASE e % SS = 0 \/ sect = fp.sect
    <3>1. t = w  BY <2>1, <1>9
    <3>2. SameButDisk(s.v, w.v)  BY <1>11 DEF SameButDisk
    <3> HIDE DEF sect, e, o, c
    <3> QED BY <2>1, <3>1, <3>2, <1>11, <1>15
  <2>2. CASE e % SS # 0 /\ sect # fp.sect
    <3>1. t = Fill(WriteBack(w), sect)  BY <2>2, <1>9
    <3>2. sect \in Sector  BY <2>2, <1>16
    <3> HIDE DEF sect
    <3>3. /\ Loose(t, dh, tab, but) /\ SameButDisk(w.v, t.v) /\ Kept(w.fp, t.fp)
          /\ t.fp.sect = sect /\ t.fp.clust = w.fp.clust /\ t.fp.fptr = w.fp.fptr
          /\ t.left = w.left /\ t.fp.flag = w.fp.flag \ {"DIRTY"}
      BY <3>1, <3>2, <1>15, FetchIs
    <3> HIDE DEF e, o, c
    <3> QED BY <3>3, <1>11 DEF Kept
  <2> QED BY <2>1, <2>2
<1>18. Points(t.fp, q)
  <2> HIDE DEF sect, e, c, q, l
  <2>1. c = q[(e - 1) \div CLSZ + 1]  BY <1>5 DEF c
  <2> QED BY <2>1, <1>16, <1>17 DEF Points
<1>19. Filed(t, dh, tab, but)
  <2>1. t.fp.sclust # 0
    <3>1. o \in Cluster  BY <1>1, <1>2, Heads
    <3> QED BY <3>1, <1>17, <1>3
  <2> QED BY <2>1, <1>17, <1>18, FiledIsLoose
<1>20. Keeps(vol, t.v)
  <2>1. Keeps(s.v, t.v)  BY <1>17, KeepsSame DEF SameButDisk
  <2> QED BY <2>1, <1>1, KeepsOn
<1>21. Kin(fp, t.fp) /\ (e <= fp.objsize \/ "MODIFIED" \in t.fp.flag)
  <2>1. t.fp.flag \ {"DIRTY", "MODIFIED"} = fp.flag \ {"DIRTY", "MODIFIED"}
        /\ ("MODIFIED" \in fp.flag => "MODIFIED" \in t.fp.flag)
        /\ (e <= fp.objsize \/ "MODIFIED" \in t.fp.flag)
    <3> DEFINE A == t.fp.flag
               B == w.fp.flag
               C == fp.flag
               yes == e <= fp.objsize
    <3>1. A \ {"DIRTY"} = B \ {"DIRTY"} /\ B = (IF yes THEN C ELSE C \cup {"MODIFIED"})
      BY <1>11, <1>17
    <3> HIDE DEF A, B, C, yes
    <3> QED BY <3>1 DEF A, B, C, yes
  <2> QED BY <2>1, <1>17 DEF Kin
<1>22. Served(u, t, ch, tab, but)
  <2>1. Rechains(ch, dh, u.fp.sclust, t.fp.sclust) /\ Keeps(u.v, t.v) /\ Kin(u.fp, t.fp)
    BY <1>1, <1>17, <1>20, <1>21
  <2>2. "MODIFIED" \in t.fp.flag
        \/ (dh = ch /\ t.fp.sclust = u.fp.sclust /\ t.fp.objsize = u.fp.objsize)
    BY <1>1, <1>13, <1>17, <1>21 DEF size
  <2> HIDE DEF u
  <2> QED BY <2>1, <2>2, <1>19 DEF Served
<1>23. t.fp.fptr = ofs \/ Full(t.v)
  <2>1. Full(s.v) => Full(t.v)  BY <1>17 DEF Full, SameButDisk, CountIsRight, Free
  <2> QED BY <2>1, <1>2, <1>17
<1> QED BY <1>22, <1>23 DEF Sought, t

(* f_lseek() to a position that is not the start                           *)
LEMMA Seeking ==
  ASSUME NEW ch, NEW tab, NEW but, Filed(Transfer(0), ch, tab, but), NEW ofs \in Nat, ofs # 0,
         "WRITE" \in fp.flag \/ ofs <= fp.objsize
  PROVE  Sought(Transfer(0), SeekEnds(Repeat(SeekStep, SeekStart(ofs), NCLST)), ofs, ch, tab, but)
<1> DEFINE u == Transfer(0)
           s == Repeat(SeekStep, SeekStart(ofs), NCLST)
<1>1. u.fp = fp  BY DEF Transfer
<1>2. NCLST \in Nat  BY Sizes
<1>3. \E dh : \E a \in Nat : Seeks(u, SeekStart(ofs), ofs, ch, dh, tab, but, a)  BY SeekStartIs
<1> HIDE DEF u
<1>4. SeekGoesOn(u, SeekStart(ofs), ofs, ch, tab, but, 0)
  <2>1. \A a \in Nat : a >= 0  OBVIOUS
  <2> QED BY <2>1, <1>3 DEF SeekGoesOn
<1>5. SeekGoesOn(u, s, ofs, ch, tab, but, NCLST)  BY <1>1, <1>2, <1>4, SeekTurnsOn DEF u
<1> HIDE DEF s
<1>6. \E dh : \E a \in Nat : Seeks(u, s, ofs, ch, dh, tab, but, a) /\ s.left <= CLSZ
  BY <1>5, SeekArrives
<1>7. PICK dh : \E a \in Nat : Seeks(u, s, ofs, ch, dh, tab, but, a) /\ s.left <= CLSZ  BY <1>6
<1>8. PICK a \in Nat : Seeks(u, s, ofs, ch, dh, tab, but, a) /\ s.left <= CLSZ  BY <1>7
<1>9. CASE Lost(u, s, ch, dh)  BY <1>8, <1>9, SeekNowhere DEF u, s
<1>10. CASE OnChain(u, s, ofs, ch, dh, tab, a)  BY <1>8, <1>10, SeekSomewhere DEF u, s
<1> QED BY <1>8, <1>9, <1>10 DEF Seeks

(* f_truncate(): the buffer may be written after its cluster is freed.     *)
Dried(s, t) ==
  /\ DOMAIN t = {"v", "fp", "left", "got", "res"} /\ t.left = s.left /\ t.got = s.got /\ t.res = s.res
  /\ OnlyFlag(s.fp, t.fp) /\ t.fp.flag = s.fp.flag \ {"DIRTY"}
  /\ Vol(t.v) /\ SameButDisk(s.v, t.v)
  /\ \A x \in Sector : ("DIRTY" \in s.fp.flag => x # s.fp.sect) => t.v.disk[x] = s.v.disk[x]

(* The buffer is written, wherever it is of.                               *)
LEMMA DriedIs ==
  ASSUME NEW s, DOMAIN s = {"v", "fp", "left", "got", "res"}, FilForm(s.fp), Vol(s.v),
         "DIRTY" \in s.fp.flag => s.fp.sect \in Sector
  PROVE  Dried(s, WriteBack(s))
<1> DEFINE t == WriteBack(s)
<1>1. CASE "DIRTY" \notin s.fp.flag
  <2>1. t = s  BY <1>1 DEF WriteBack
  <2>2. s.fp.flag \ {"DIRTY"} = s.fp.flag  BY <1>1
  <2> QED BY <2>1, <2>2 DEF Dried, SameButDisk, OnlyFlag
<1>2. CASE "DIRTY" \in s.fp.flag
  <2>4. s.fp.sect \in Sector  BY <1>2
  <2>5. t = [s EXCEPT !.v.disk[s.fp.sect] = s.fp.buf, !.fp.flag = @ \ {"DIRTY"}]
    BY <1>2 DEF WriteBack
  <2>6. /\ DOMAIN t = {"v", "fp", "left", "got", "res"} /\ t.left = s.left /\ t.got = s.got
        /\ t.res = s.res /\ OnlyFlag(s.fp, t.fp) /\ t.fp.flag = s.fp.flag \ {"DIRTY"}
        /\ t.v = [s.v EXCEPT !.disk[s.fp.sect] = s.fp.buf]
    BY <2>5 DEF OnlyFlag, FilForm
  <2> HIDE DEF t
  <2>7. /\ DOMAIN t.v.disk = Sector /\ t.v.disk[s.fp.sect] = s.fp.buf
        /\ \A x \in Sector : x # s.fp.sect => t.v.disk[x] = s.v.disk[x]
    BY <2>4, <2>6 DEF Vol
  <2>8. DOMAIN t.v = DOMAIN s.v /\ SameButDisk(s.v, t.v)
    BY <2>6 DEF Vol, SameButDisk
  <2>9. Vol(t.v)
    BY <2>7, <2>8 DEF Vol, SameButDisk, FilForm
  <2> QED BY <1>2, <2>6, <2>7, <2>8, <2>9 DEF Dried, t
<1> QED BY <1>1, <1>2

(* f_truncate() writes the buffer to a cluster that may be free by now: to *)
(* no table, and to no other file.                                         *)
LEMMA LateWrite ==
  ASSUME NEW u, NEW ch, NEW tab, NEW but, Filed(u, ch, tab, but), u.fp.sclust # 0,
         NEW s, DOMAIN s = {"v", "fp", "left", "got", "res"}, FilForm(s.fp), Vol(s.v),
         s.v.disk = u.v.disk, s.fp.sect = u.fp.sect, "DIRTY" \in s.fp.flag => "DIRTY" \in u.fp.flag,
         NEW dh, Chained(s.v.fat, dh),
         \A h \in DOMAIN tab : h \in DOMAIN dh /\ dh[h] = ch[h]
  PROVE  Dried(s, WriteBack(s)) /\ Good(WriteBack(s).v, dh, tab, but)
<1> DEFINE t == WriteBack(s)
           o == u.fp.sclust
<1>1. /\ Good(u.v, ch, tab, but) /\ Chained(u.v.fat, ch) /\ Tabular(ch, tab)
      /\ o \in DOMAIN ch \ DOMAIN tab /\ Buffers(u.fp, ch[o])
  BY DEF Filed, Good
<1>2. "DIRTY" \in s.fp.flag => \E k \in 1 .. Len(ch[o]) : s.fp.sect \in SectorsOf(ch[o][k])
  BY <1>1 DEF Buffers
<1>3. \A k \in 1 .. Len(ch[o]) : ch[o][k] \in Cluster  BY <1>1, StrandOf DEF Strand
<1>4. "DIRTY" \in s.fp.flag => s.fp.sect \in Sector  BY <1>2, <1>3, SectorsAre
<1>5. Dried(s, t)  BY <1>4, DriedIs
<1> HIDE DEF t
<1>6. ASSUME NEW h \in DOMAIN tab, NEW k \in 1 .. Len(ch[h]), NEW x \in SectorsOf(ch[h][k])
      PROVE  t.v.disk[x] = u.v.disk[x]
  <2>1. h \in DOMAIN ch /\ h # o  BY <1>1 DEF Tabular
  <2>2. ch[h][k] \in Cluster  BY <2>1, <1>1, StrandOf DEF Strand
  <2>3. x \in Sector  BY <2>2, SectorsAre
  <2>4. ASSUME NEW j \in 1 .. Len(ch[o]), x \in SectorsOf(ch[o][j])  PROVE FALSE
    <3>1. ch[o][j] = ch[h][k]  BY <2>2, <2>4, <1>3, SectorsAre
    <3> QED BY <2>1, <3>1, <1>1, OnePlace
  <2>5. "DIRTY" \in s.fp.flag => x # s.fp.sect  BY <1>2, <2>4
  <2> QED BY <2>3, <2>5, <1>5 DEF Dried
<1>7. Vol(t.v) /\ Chained(t.v.fat, dh)  BY <1>5 DEF Dried, SameButDisk
<1>8. Good(t.v, dh, tab, but)  BY <1>1, <1>6, <1>7, GoodAgain
<1> QED BY <1>5, <1>8 DEF t

(* The clusters that remain are as many as the size asks for.              *)
LEMMA SizeOf ==
  ASSUME NEW p \in Nat, p # 0, NEW k, k = (p - 1) \div CLSZ + 1
  PROVE  k \in Nat /\ k # 0 /\ p \in (k - 1) * CLSZ + 1 .. k * CLSZ
<1> DEFINE b == (p - 1) \div CLSZ
           x == (p - 1) % CLSZ
           w == CLSZ * b
<1>1. CLSZ \in Nat /\ CLSZ # 0 /\ p - 1 \in Nat  BY Sizes
<1>2. b \in Nat /\ x \in 0 .. CLSZ - 1 /\ p - 1 = w + x  BY <1>1, Position
<1>3. k = b + 1  OBVIOUS
<1> HIDE DEF b, x
<1>4. w \in Nat /\ CLSZ * (b + 1) = w + CLSZ  BY <1>1, <1>2, OneMore
<1>5. (k - 1) * CLSZ = w /\ k * CLSZ = CLSZ * (b + 1)
  <2>1. k - 1 = b /\ k \in Nat  BY <1>2, <1>3
  <2> QED BY <2>1, <1>1, <1>2, <1>3
<1> HIDE DEF w
<1>6. p \in w + 1 .. w + CLSZ  BY <1>1, <1>2, <1>4
<1>7. k \in Nat /\ k # 0  BY <1>2, <1>3
<1> QED BY <1>4, <1>5, <1>6, <1>7

(* The file object of which the rest goes                                  *)
Rest(v) ==
  [Transfer(0) EXCEPT !.v = v, !.fp.objsize = fp.fptr,
                      !.fp.sclust = IF fp.fptr = 0 THEN 0 ELSE @,
                      !.fp.flag = @ \cup {"MODIFIED"}]
RestForm(s, v) ==
  /\ DOMAIN s = {"v", "fp", "left", "got", "res"} /\ s.v = v /\ s.left = 0 /\ s.res = "OK"
  /\ s.fp.sclust = (IF fp.fptr = 0 THEN 0 ELSE fp.sclust)
  /\ s.fp.objsize = fp.fptr /\ s.fp.fptr = fp.fptr /\ s.fp.clust = fp.clust /\ s.fp.sect = fp.sect
  /\ s.fp.id = fp.id /\ s.fp.dir = fp.dir /\ s.fp.flag = fp.flag \cup {"MODIFIED"} /\ FilForm(s.fp)

(* What is assigned when the rest of a file goes.                          *)
LEMMA RestIs ==
  ASSUME NEW v, FilForm(fp)
  PROVE  RestForm(Rest(v), v)
<1> DEFINE s == Rest(v)
<1>1. /\ DOMAIN s = {"v", "fp", "left", "got", "res"} /\ s.v = v /\ s.left = 0 /\ s.res = "OK"
      /\ s.fp.sclust = (IF fp.fptr = 0 THEN 0 ELSE fp.sclust)
      /\ s.fp.objsize = fp.fptr /\ s.fp.fptr = fp.fptr /\ s.fp.clust = fp.clust
      /\ s.fp.sect = fp.sect /\ s.fp.id = fp.id /\ s.fp.dir = fp.dir
      /\ s.fp.flag = fp.flag \cup {"MODIFIED"} /\ s.fp.buf = fp.buf /\ s.fp.err = fp.err
      /\ DOMAIN s.fp = DOMAIN fp
  BY DEF Rest, Transfer, FilForm
<1> HIDE DEF s
<1>2. FilForm(s.fp)
  <2>1. fp.fptr \in Nat /\ fp.fptr \in 0 .. fp.fptr  BY DEF FilForm
  <2>2. s.fp.sclust \in Cluster \cup {0}  BY <1>1 DEF FilForm
  <2> QED BY <2>1, <2>2, <1>1 DEF FilForm
<1> QED BY <1>1, <1>2 DEF RestForm, s

(* All of the file goes.                                                   *)
LEMMA TruncateAll ==
  ASSUME NEW ch, NEW tab, NEW but, Filed(Transfer(0), ch, tab, but),
         fp.fptr = 0, fp.sclust # 0
  PROVE  Served(Transfer(0), WriteBack(Rest(remove_chain(vol, fp.sclust, 0).v)), ch, tab, but)
<1> DEFINE u == Transfer(0)
           r == remove_chain(vol, fp.sclust, 0)
           s == Rest(r.v)
           t == WriteBack(s)
           o == fp.sclust
           dh == Without(ch, o)
<1>1. /\ u.fp = fp /\ u.v = vol /\ FilForm(fp) /\ Good(vol, ch, tab, but) /\ Vol(vol)
      /\ Chained(vol.fat, ch) /\ Tabular(ch, tab) /\ o \in DOMAIN ch \ DOMAIN tab
  BY DEF Filed, Transfer, Good
<1>2. /\ r.res = "OK" /\ Vol(r.v) /\ r.v.disk = vol.disk /\ Keeps(vol, r.v)
      /\ Chained(r.v.fat, dh)
  BY <1>1, Removing
<1> HIDE DEF r
<1>3. RestForm(s, r.v)  BY <1>1, RestIs
<1> HIDE DEF s
<1>4. DOMAIN dh = DOMAIN ch \ {o} /\ \A h \in DOMAIN tab : h \in DOMAIN dh /\ dh[h] = ch[h]
  BY <1>1 DEF Without, Tabular
<1> HIDE DEF dh, u
<1>5. Dried(s, t) /\ Good(t.v, dh, tab, but)
  <2>1. /\ DOMAIN s = {"v", "fp", "left", "got", "res"} /\ FilForm(s.fp) /\ Vol(s.v)
        /\ s.v.disk = u.v.disk /\ s.fp.sect = u.fp.sect /\ Chained(s.v.fat, dh)
    BY <1>1, <1>2, <1>3 DEF RestForm
  <2>2. "DIRTY" \in s.fp.flag => "DIRTY" \in u.fp.flag  BY <1>1, <1>3 DEF RestForm
  <2>3. Filed(u, ch, tab, but) /\ u.fp.sclust # 0  BY <1>1 DEF u
  <2> HIDE DEF t
  <2> QED BY <2>1, <2>2, <2>3, <1>4, LateWrite DEF t
<1> HIDE DEF t
<1>6. /\ DOMAIN t = {"v", "fp", "left", "got", "res"} /\ t.left = 0 /\ t.res = "OK"
      /\ t.fp.sclust = 0 /\ t.fp.objsize = 0 /\ t.fp.id = fp.id /\ t.fp.dir = fp.dir
      /\ t.fp.flag = (fp.flag \cup {"MODIFIED"}) \ {"DIRTY"} /\ FilForm(t.fp)
  BY <1>3, <1>5 DEF RestForm, Dried, OnlyFlag, FilForm
<1>7. Filed(t, dh, tab, but)
  <2>1. "DIRTY" \notin t.fp.flag  BY <1>6
  <2> QED BY <2>1, <1>5, <1>6 DEF Filed
<1>8. Rechains(ch, dh, o, 0)
  <2>1. \A x \in DOMAIN ch : x # o => dh[x] = ch[x]  BY DEF dh, Without
  <2>2. 0 \notin DOMAIN ch  BY <1>1, Heads
  <2> HIDE DEF o
  <2> QED BY <2>1, <2>2, <1>4 DEF Rechains
<1>9. Keeps(vol, t.v)
  <2>1. Keeps(r.v, t.v)  BY <1>3, <1>5, KeepsSame DEF RestForm, Dried, SameButDisk
  <2> QED BY <2>1, <1>2, KeepsOn
<1>10. Kin(fp, t.fp) /\ "MODIFIED" \in t.fp.flag  BY <1>6 DEF Kin
<1>11. Rechains(ch, dh, u.fp.sclust, t.fp.sclust) /\ Keeps(u.v, t.v) /\ Kin(u.fp, t.fp)
  BY <1>1, <1>6, <1>8, <1>9, <1>10
<1>12. Served(u, t, ch, tab, but)  BY <1>7, <1>10, <1>11 DEF Served
<1> QED BY <1>12 DEF t, s, r, u

(* What is behind cluster k of the file goes.                              *)
LEMMA TruncateSome ==
  ASSUME NEW ch, NEW tab, NEW but, Filed(Transfer(0), ch, tab, but),
         fp.fptr # 0, fp.sclust # 0, NEW k, k = (fp.fptr - 1) \div CLSZ + 1,
         NEW w, Vol(w), w.disk = vol.disk, Keeps(vol, w),
         NEW dh, Chained(w.fat, dh), DOMAIN dh = DOMAIN ch,
         \A h \in DOMAIN ch : h # fp.sclust => dh[h] = ch[h],
         Len(dh[fp.sclust]) = k, \A j \in 1 .. k : dh[fp.sclust][j] = ch[fp.sclust][j]
  PROVE  Served(Transfer(0), WriteBack(Rest(w)), ch, tab, but)
<1> DEFINE u == Transfer(0)
           s == Rest(w)
           t == WriteBack(s)
           o == fp.sclust
           p == fp.fptr
<1>1. /\ u.fp = fp /\ u.v = vol /\ FilForm(fp) /\ Good(vol, ch, tab, but) /\ Vol(vol)
      /\ Chained(vol.fat, ch) /\ Tabular(ch, tab) /\ o \in DOMAIN ch \ DOMAIN tab
      /\ Points(fp, ch[o])
  BY DEF Filed, Transfer, Good
<1>2. p \in Nat /\ p # 0 /\ k \in Nat /\ k # 0 /\ p \in (k - 1) * CLSZ + 1 .. k * CLSZ
  <2>1. p \in Nat /\ p # 0  BY <1>1 DEF FilForm
  <2> HIDE DEF p
  <2> QED BY <2>1, SizeOf DEF p
<1>3. RestForm(s, w)  BY <1>1, RestIs
<1> HIDE DEF s
<1>4. \A h \in DOMAIN tab : h \in DOMAIN dh /\ dh[h] = ch[h]
  BY <1>1 DEF Tabular
<1> HIDE DEF u
<1>5. Dried(s, t) /\ Good(t.v, dh, tab, but)
  <2>1. /\ DOMAIN s = {"v", "fp", "left", "got", "res"} /\ FilForm(s.fp) /\ Vol(s.v)
        /\ s.v.disk = u.v.disk /\ s.fp.sect = u.fp.sect /\ Chained(s.v.fat, dh)
    BY <1>1, <1>3 DEF RestForm
  <2>2. "DIRTY" \in s.fp.flag => "DIRTY" \in u.fp.flag  BY <1>1, <1>3 DEF RestForm
  <2>3. Filed(u, ch, tab, but) /\ u.fp.sclust # 0  BY <1>1 DEF u
  <2> HIDE DEF t
  <2> QED BY <2>1, <2>2, <2>3, <1>4, LateWrite DEF t
<1> HIDE DEF t
<1>6. /\ DOMAIN t = {"v", "fp", "left", "got", "res"} /\ t.left = 0 /\ t.res = "OK"
      /\ t.fp.sclust = o /\ t.fp.objsize = p /\ t.fp.fptr = p /\ t.fp.clust = fp.clust
      /\ t.fp.sect = fp.sect /\ t.fp.id = fp.id /\ t.fp.dir = fp.dir
      /\ t.fp.flag = (fp.flag \cup {"MODIFIED"}) \ {"DIRTY"} /\ FilForm(t.fp)
  BY <1>3, <1>5 DEF RestForm, Dried, OnlyFlag, FilForm
<1>7. Filed(t, dh, tab, but)
  <2>1. Buffers(t.fp, dh[o])
    <3>1. "DIRTY" \notin t.fp.flag  BY <1>6
    <3> QED BY <3>1 DEF Buffers
  <2>2. SizeFits(dh[o], p)
    <3> HIDE DEF p
    <3> QED BY <1>2 DEF SizeFits
  <2>3. Points(t.fp, dh[o])
    <3>1. dh[o][k] = ch[o][k]
      <4>1. k \in 1 .. k  BY <1>2
      <4> QED BY <4>1
    <3>2. fp.clust = ch[o][(p - 1) \div CLSZ + 1]
      <4>1. p > 0  BY <1>2
      <4> QED BY <4>1, <1>1 DEF Points
    <3>3. fp.clust = dh[o][(p - 1) \div CLSZ + 1]  BY <3>1, <3>2
    <3>4. p % SS # 0 => fp.sect = clst2sect(fp.clust) + (p % CLSZ) \div SS  BY <1>1 DEF Points
    <3> HIDE DEF p, o
    <3> QED BY <3>3, <3>4, <1>6 DEF Points
  <2>4. o \in DOMAIN dh \ DOMAIN tab  BY <1>1
  <2> HIDE DEF o, p
  <2> QED BY <2>1, <2>2, <2>3, <2>4, <1>5, <1>6 DEF Filed, o
<1>8. Rechains(ch, dh, o, o)
  <2>1. 0 \notin DOMAIN ch  BY <1>1, Heads
  <2> HIDE DEF p
  <2> QED BY <2>1, <1>1 DEF Rechains
<1>9. Keeps(vol, t.v)
  <2>1. Keeps(w, t.v)  BY <1>3, <1>5, KeepsSame DEF RestForm, Dried, SameButDisk
  <2> QED BY <2>1, KeepsOn
<1>10. Kin(fp, t.fp) /\ "MODIFIED" \in t.fp.flag  BY <1>6 DEF Kin
<1>11. Rechains(ch, dh, u.fp.sclust, t.fp.sclust) /\ Keeps(u.v, t.v) /\ Kin(u.fp, t.fp)
  BY <1>1, <1>6, <1>8, <1>9, <1>10
<1>12. Served(u, t, ch, tab, but)  BY <1>7, <1>10, <1>11 DEF Served
<1> QED BY <1>12 DEF t, s, u

(* A call that does nothing                                                *)
LEMMA ServedSame ==
  ASSUME NEW s, NEW ch, NEW tab, NEW but, Filed(s, ch, tab, but)
  PROVE  Served(s, s, ch, tab, but)
<1>1. Rechains(ch, ch, s.fp.sclust, s.fp.sclust)  BY FiledHeads, RechainsSame
<1>2. Keeps(s.v, s.v)  BY KeepsSame
<1> QED BY <1>1, <1>2 DEF Served, Kin

(* f_truncate()                                                            *)
LEMMA Truncating ==
  ASSUME NEW ch, NEW tab, NEW but, Filed(Transfer(0), ch, tab, but)
  PROVE  Served(Transfer(0), Truncated, ch, tab, but)
<1> DEFINE u == Transfer(0)
           o == fp.sclust
           q == ch[o]
           k == (fp.fptr - 1) \div CLSZ + 1
           next == get_fat(vol, fp.clust)
<1>1. /\ u.fp = fp /\ u.v = vol /\ FilForm(fp) /\ Good(vol, ch, tab, but) /\ Vol(vol)
      /\ Chained(vol.fat, ch)
  BY DEF Filed, Transfer, Good
<1>2. CASE fp.fptr >= fp.objsize
  <2>1. Truncated = u  BY <1>2 DEF Truncated
  <2> QED BY <2>1, ServedSame
<1>3. CASE ~(fp.fptr >= fp.objsize)
  <2>1. /\ o # 0 /\ o \in DOMAIN ch \ DOMAIN tab /\ SizeFits(q, fp.objsize) /\ Points(fp, q)
        /\ fp.fptr \in 0 .. fp.objsize /\ fp.objsize \in Nat /\ fp.objsize # 0
    <3>1. fp.fptr \in 0 .. fp.objsize /\ fp.objsize \in Nat /\ fp.objsize # 0  BY <1>1, <1>3 DEF FilForm
    <3> QED BY <3>1, <1>1 DEF Filed
  <2>2. CASE fp.fptr = 0
    <3>1. remove_chain(vol, o, 0).res = "OK"  BY <1>1, <2>1, Removing
    <3>2. Truncated = WriteBack(Rest(remove_chain(vol, o, 0).v))
      BY <1>3, <2>2, <3>1 DEF Truncated, Rest
    <3> QED BY <2>1, <2>2, <3>2, TruncateAll
  <2>3. CASE fp.fptr # 0
    <3>1. k \in 1 .. Len(q) /\ fp.clust = q[k]
      <4>1. Strand(vol.fat, o, q)  BY <1>1, <2>1, StrandOf
      <4>2. fp.fptr \in 1 .. fp.objsize /\ fp.fptr > 0  BY <2>1, <2>3
      <4> HIDE DEF q
      <4>3. k \in 1 .. Len(q)  BY <4>1, <4>2, <2>1, LastByte
      <4> QED BY <4>2, <4>3, <2>1 DEF Points
    <3>2. LinkOf(vol, q, k) /\ Len(q) \in Nat
      <4>1. Strand(vol.fat, o, q)  BY <1>1, <2>1, StrandOf
      <4>2. Len(q) \in Nat
        <5> HIDE DEF q
        <5> QED BY <4>1, Sizes DEF Strand
      <4> QED BY <4>2, <1>1, <2>1, <3>1, NextLink
    <3>3. n_fatent \in Nat /\ EOC = n_fatent /\ Cluster = 2 .. n_fatent - 1  BY Sizes
    <3>4. CASE k < Len(q)
      <4>1. next = q[k + 1] /\ next \in Cluster  BY <3>1, <3>2, <3>4 DEF LinkOf
      <4> DEFINE r == remove_chain(vol, q[k + 1], q[k])
                 dh == Cut(ch, o, k)
      <4>2. k \in 1 .. Len(q) - 1
        <5> HIDE DEF q, k
        <5> QED BY <3>1, <3>2, <3>4
      <4>3. /\ r.res = "OK" /\ Vol(r.v) /\ r.v.disk = vol.disk /\ Keeps(vol, r.v)
            /\ Chained(r.v.fat, dh)
        BY <1>1, <2>1, <4>2, Cutting
      <4> HIDE DEF r
      <4>4. Truncated = WriteBack(Rest(r.v))
        <5>1. next # 1 /\ next < n_fatent  BY <4>1, <3>3
        <5>2. r = remove_chain(vol, next, fp.clust)  BY <3>1, <4>1 DEF r
        <5> HIDE DEF next
        <5> QED BY <1>3, <2>3, <4>3, <5>1, <5>2 DEF Truncated, Rest, next
      <4>5. /\ DOMAIN dh = DOMAIN ch /\ \A h \in DOMAIN ch : h # o => dh[h] = ch[h]
            /\ dh[o] = SubSeq(q, 1, k)
        BY <2>1 DEF Cut
      <4>6. Len(dh[o]) = k /\ \A j \in 1 .. k : dh[o][j] = q[j]
        <5>1. q \in Seq(Cluster)  BY <1>1, <2>1, StrandOf DEF Strand
        <5> HIDE DEF q, k, dh
        <5> QED BY <5>1, <4>5, <3>1
      <4> DEFINE w == r.v
      <4>7. /\ Vol(w) /\ w.disk = vol.disk /\ Keeps(vol, w) /\ Chained(w.fat, dh)
            /\ Truncated = WriteBack(Rest(w))
        BY <4>3, <4>4
      <4>8. k = (fp.fptr - 1) \div CLSZ + 1 /\ fp.sclust # 0  BY <2>1
      <4>9. /\ DOMAIN dh = DOMAIN ch /\ \A h \in DOMAIN ch : h # fp.sclust => dh[h] = ch[h]
            /\ Len(dh[fp.sclust]) = k /\ \A j \in 1 .. k : dh[fp.sclust][j] = ch[fp.sclust][j]
        BY <4>5, <4>6
      <4> HIDE DEF dh, w, k
      <4>10. Served(u, WriteBack(Rest(w)), ch, tab, but)
        BY <2>3, <4>7, <4>8, <4>9, TruncateSome
      <4> QED BY <4>7, <4>10
    <3>5. CASE ~(k < Len(q))
      <4>1. k = Len(q)
        <5> HIDE DEF q, k
        <5> QED BY <3>1, <3>2, <3>5
      <4>2. next = EOC  BY <3>1, <3>2, <4>1 DEF LinkOf
      <4>3. Truncated = WriteBack(Rest(vol))
        <5>1. next # 1 /\ ~(next < n_fatent)  BY <4>2, Sizes
        <5> HIDE DEF next
        <5> QED BY <1>3, <2>3, <5>1 DEF Truncated, Rest, next
      <4>4. Keeps(vol, vol)  BY KeepsSame
      <4> QED BY <1>1, <2>1, <2>3, <4>1, <4>3, <4>4, TruncateSome
    <3> QED BY <3>4, <3>5
  <2> QED BY <2>2, <2>3
<1> QED BY <1>2, <1>3

(***************************************************************************)
(* What holds between any two calls.                                       *)
(***************************************************************************)

(* A file object that is open, and the place of its entry, while that is   *)
(* not what it is to become.                                               *)
IsOpen(v, f) == v.mounted /\ f.id = v.id
But(v, f) == IF IsOpen(v, f) /\ "MODIFIED" \in f.flag THEN f.dir ELSE << 0, 0 >>
Call(v, f, n) == [v |-> v, fp |-> f, left |-> n, got |-> << >>, res |-> "OK"]
IsFor(v, f, ch, tab, g, i) ==
  /\ f.dir = Slotted(ch[g], i) /\ "DIR" \notin tab[g][i].attr
  /\ tab[g][i].sclust = f.sclust /\ tab[g][i].size = f.objsize
  /\ Filed(Call(v, f, 0), ch, tab, But(v, f))
HasEntry(v, f, ch, tab) ==
  \E g \in DOMAIN tab : \E i \in Shown(tab[g]) : IsFor(v, f, ch, tab, g, i)

(* What FSInfo is told of the free clusters, or will be.                   *)
Pending(v, f) == v.mounted /\ v.fsi_flag /\ (v.wflag \/ (IsOpen(v, f) /\ "MODIFIED" \in f.flag))
Told(v, f) ==
  /\ v.mounted => /\ CountIsRight(v) /\ v.registered /\ v.id > 0
                  /\ v.free_clst = Unknown => v.info.free = Unknown
  /\ v.info.free \in {Unknown, Cardinality(Free(v))} \/ Pending(v, f)

Healthy(v, f, ch, tab) ==
  /\ Good(v, ch, tab, But(v, f)) /\ TreeForm(ch, tab) /\ FilForm(f) /\ f.id <= v.id
  /\ Told(v, f) /\ (IsOpen(v, f) => HasEntry(v, f, ch, tab))
Sound(v, f) == \E ch, tab : Healthy(v, f, ch, tab)

(* What is free is in no chain.                                            *)
LEMMA SameFree ==
  ASSUME NEW v, NEW w, NEW ch, Chained(v.fat, ch), Chained(w.fat, ch)
  PROVE  Free(w) = Free(v)
<1>1. ASSUME NEW c \in Cluster, NEW a, NEW b, Chained(a.fat, ch), Chained(b.fat, ch), a.fat[c] # 0
      PROVE  b.fat[c] # 0
  <2>1. \E h \in DOMAIN ch : \E k \in 1 .. Len(ch[h]) : ch[h][k] = c  BY <1>1, SomePlace
  <2>2. PICK h \in DOMAIN ch : \E k \in 1 .. Len(ch[h]) : ch[h][k] = c  BY <2>1
  <2>3. PICK k \in 1 .. Len(ch[h]) : ch[h][k] = c  BY <2>2
  <2>4. Strand(b.fat, h, ch[h])  BY <1>1, StrandOf
  <2> QED BY <2>3, <2>4 DEF Strand
<1>2. \A c \in Cluster : v.fat[c] # 0 <=> w.fat[c] # 0  BY <1>1
<1> QED BY <1>2 DEF Free

(* The chains of a table's objects do not matter to what it holds.         *)
LEMMA HeldAgain ==
  ASSUME NEW v, NEW ch, NEW tab, NEW but, Good(v, ch, tab, but),
         NEW g \in DOMAIN tab, NEW i \in DOMAIN tab[g], NEW e, IsLike(e, tab[g][i]),
         "DIR" \notin e.attr, NEW p, p = Slotted(ch[g], i), but = p \/ but = << 0, 0 >>
  PROVE  Good(v, ch, Set(tab, g, i, e), p)
<1> DEFINE t == Set(tab, g, i, e)
<1>1. SetOf(tab, t, g, i, e)  BY SetIs
<1> HIDE DEF t
<1>2. DOMAIN t = DOMAIN tab /\ t[g][i] = e /\ DOMAIN t[g] = DOMAIN tab[g]
      /\ (\A k \in DOMAIN tab[g] : k # i => t[g][k] = tab[g][k])
      /\ (\A h \in DOMAIN tab : h # g => t[h] = tab[h])
      /\ (\A h \in DOMAIN tab : DOMAIN t[h] = DOMAIN tab[h])
  BY <1>1 DEF SetOf
<1>3. Vol(v) /\ Chained(v.fat, ch) /\ Tabular(ch, tab)  BY DEF Good
<1>4. Tabular(ch, t)  BY <1>2, <1>3 DEF Tabular
<1>5. ASSUME NEW h \in DOMAIN t, NEW k \in DOMAIN t[h]
      PROVE  /\ IsLike(At(v, Slotted(ch[h], k)), t[h][k])
             /\ Slotted(ch[h], k) # p => At(v, Slotted(ch[h], k)) = t[h][k]
  <2>1. h \in DOMAIN tab /\ k \in DOMAIN tab[h]  BY <1>2, <1>5
  <2>2. RowOf(v, ch, tab, but, h, k)  BY <2>1, RowFacts
  <2>3. /\ IsLike(At(v, Slotted(ch[h], k)), tab[h][k]) /\ Slotted(ch[h], k) # << 0, 0 >>
        /\ Slotted(ch[h], k) # but => At(v, Slotted(ch[h], k)) = tab[h][k]
    BY <2>2 DEF RowOf, PlaceOf
  <2>4. CASE h = g /\ k = i
    <3>1. t[h][k] = e /\ Slotted(ch[h], k) = p  BY <2>4, <1>2
    <3>2. IsLike(At(v, Slotted(ch[h], k)), e)
      BY <2>3, <2>4 DEF IsLike
    <3> QED BY <3>1, <3>2
  <2>5. CASE ~(h = g /\ k = i)
    <3>1. t[h][k] = tab[h][k]  BY <2>1, <2>5, <1>2
    <3> QED BY <3>1, <2>3
  <2> QED BY <2>4, <2>5
<1>6. Good(v, ch, t, p)  BY <1>3, <1>4, <1>5 DEF Good, Held
<1> QED BY <1>6 DEF t

(* What FSInfo is told stays right in a call with the open file.           *)
LEMMA ToldAgain ==
  ASSUME NEW v, NEW f, Told(v, f), NEW w, NEW g, Keeps(v, w), g.id = f.id,
         v.mounted,
         "MODIFIED" \in f.flag => "MODIFIED" \in g.flag,
         Free(w) = Free(v) \/ w.wflag \/ (IsOpen(v, f) /\ "MODIFIED" \in g.flag)
  PROVE  Told(w, g)
<1>1. /\ w.info = v.info /\ w.registered = v.registered /\ w.mounted = v.mounted
      /\ w.id = v.id /\ w.wflag = v.wflag
      /\ w.free_clst = Unknown <=> v.free_clst = Unknown
      /\ v.fsi_flag => w.fsi_flag
      /\ CountIsRight(v) => /\ CountIsRight(w)
                            /\ Free(w) = Free(v) \/ w.fsi_flag \/ v.free_clst = Unknown
  BY DEF Keeps
<1>2. /\ CountIsRight(v) /\ v.registered /\ v.id > 0
      /\ v.free_clst = Unknown => v.info.free = Unknown
      /\ v.info.free \in {Unknown, Cardinality(Free(v))} \/ Pending(v, f)
  BY DEF Told
<1>3. IsOpen(v, f) => IsOpen(w, g)  BY <1>1 DEF IsOpen
<1>4. w.info.free \in {Unknown, Cardinality(Free(w))} \/ Pending(w, g)
  <2>1. CASE Pending(v, f)  BY <2>1, <1>1, <1>3 DEF Pending
  <2>2. CASE v.info.free = Unknown  BY <2>2, <1>1
  <2>3. CASE v.info.free = Cardinality(Free(v))
    <3>1. CASE Free(w) = Free(v)  BY <2>3, <3>1, <1>1
    <3>2. CASE Free(w) # Free(v)
      <4>1. w.fsi_flag \/ v.info.free = Unknown  BY <3>2, <1>1, <1>2
      <4>2. w.wflag \/ (IsOpen(v, f) /\ "MODIFIED" \in g.flag)  BY <3>2
      <4> QED BY <4>1, <4>2, <1>1, <1>3 DEF Pending
    <3> QED BY <3>1, <3>2
  <2> QED BY <2>1, <2>2, <2>3, <1>2
<1>5. w.mounted => /\ CountIsRight(w) /\ w.registered /\ w.id > 0
                   /\ w.free_clst = Unknown => w.info.free = Unknown
  BY <1>1, <1>2
<1> QED BY <1>4, <1>5 DEF Told

(* An entry gets a chain and a size.                                       *)
LEMMA EntryEdit ==
  ASSUME NEW e, IsEntry(e), NEW c, NEW z
  PROVE  [e EXCEPT !.sclust = c, !.size = z] = Entry(e.name, e.attr, c, z)
<1>1. PICK n : n = e.name  OBVIOUS
<1>2. PICK a : a = e.attr  OBVIOUS
<1>3. PICK s : s = e.sclust  OBVIOUS
<1>4. PICK y : y = e.size  OBVIOUS
<1>5. e = [name |-> n, attr |-> a, sclust |-> s, size |-> y]
  BY <1>1, <1>2, <1>3, <1>4 DEF IsEntry, Entry
<1>6. [[name |-> n, attr |-> a, sclust |-> s, size |-> y] EXCEPT !.sclust = c, !.size = z]
        = [name |-> n, attr |-> a, sclust |-> c, size |-> z]
  <2> DEFINE r == [name |-> n, attr |-> a, sclust |-> s, size |-> y]
             t == [r EXCEPT !.sclust = c, !.size = z]
  <2>1. t = [k \in {"name", "attr", "sclust", "size"} |->
               IF k = "size" THEN z ELSE IF k = "sclust" THEN c ELSE r[k]]
    OBVIOUS
  <2>2. r.name = n /\ r.attr = a  OBVIOUS
  <2> HIDE DEF r, t
  <2>3. t.name = n /\ t.attr = a /\ t.sclust = c /\ t.size = z  BY <2>1, <2>2
  <2>4. t = [name |-> n, attr |-> a, sclust |-> c, size |-> z]  BY <2>1, <2>3
  <2> QED BY <2>4 DEF t, r
<1> QED BY <1>1, <1>2, <1>5, <1>6 DEF Entry

(* What a call with a file leaves is sound.                                *)
LEMMA ServedSound ==
  ASSUME NEW v, NEW f, NEW ch, NEW tab, Healthy(v, f, ch, tab), IsOpen(v, f), NEW n,
         NEW t, Served(Call(v, f, n), t, ch, tab, But(v, f))
  PROVE  Sound(t.v, t.fp)
<1> DEFINE but == But(v, f)
<1>1. /\ Good(v, ch, tab, but) /\ TreeForm(ch, tab) /\ FilForm(f) /\ f.id <= v.id /\ Told(v, f)
      /\ Chained(v.fat, ch) /\ v.mounted
  BY DEF Healthy, Good, IsOpen
<1>2. PICK g \in DOMAIN tab : \E i \in Shown(tab[g]) : IsFor(v, f, ch, tab, g, i)
  BY DEF Healthy, HasEntry
<1>3. PICK i \in Shown(tab[g]) : IsFor(v, f, ch, tab, g, i)  BY <1>2
<1>4. /\ f.dir = Slotted(ch[g], i) /\ "DIR" \notin tab[g][i].attr
      /\ tab[g][i].sclust = f.sclust /\ tab[g][i].size = f.objsize
  BY <1>3 DEF IsFor
<1>5. Call(v, f, n).fp = f /\ Call(v, f, n).v = v  BY DEF Call
<1>6. PICK dh : /\ Filed(t, dh, tab, but) /\ Rechains(ch, dh, f.sclust, t.fp.sclust)
                /\ Keeps(v, t.v) /\ Kin(f, t.fp)
                /\ \/ "MODIFIED" \in t.fp.flag
                   \/ dh = ch /\ t.fp.sclust = f.sclust /\ t.fp.objsize = f.objsize
  BY <1>5 DEF Served
<1>7. /\ FilForm(t.fp) /\ Good(t.v, dh, tab, but) /\ Chained(t.v.fat, dh)
      /\ t.fp.id = f.id /\ t.fp.dir = f.dir /\ t.v.mounted = v.mounted /\ t.v.id = v.id
      /\ IsOpen(t.v, t.fp) /\ ("MODIFIED" \in f.flag => "MODIFIED" \in t.fp.flag)
  BY <1>6 DEF Filed, Kin, Keeps, IsOpen, Good
<1>8. Told(t.v, t.fp)
  <2>1. dh = ch => Free(t.v) = Free(v)  BY <1>1, <1>7, SameFree
  <2> QED BY <2>1, <1>1, <1>6, <1>7, ToldAgain
<1>9. ASSUME NEW u, DOMAIN u = DOMAIN tab, TreeForm(dh, u), Good(t.v, dh, u, But(t.v, t.fp)),
             i \in Shown(u[g]), IsFor(t.v, t.fp, dh, u, g, i)
      PROVE  Sound(t.v, t.fp)
  <2>1. HasEntry(t.v, t.fp, dh, u)  BY <1>9 DEF HasEntry
  <2>2. t.fp.id <= t.v.id  BY <1>1, <1>7
  <2>3. Healthy(t.v, t.fp, dh, u)  BY <2>1, <2>2, <1>7, <1>8, <1>9 DEF Healthy
  <2> QED BY <2>3 DEF Sound
<1>10. ASSUME NEW u, NEW b, DOMAIN u = DOMAIN tab, Good(t.v, dh, u, b)
       PROVE  Filed(Call(t.v, t.fp, 0), dh, u, b)
  <2>1. /\ DOMAIN Call(t.v, t.fp, 0) = {"v", "fp", "left", "got", "res"}
        /\ Call(t.v, t.fp, 0).v = t.v /\ Call(t.v, t.fp, 0).fp = t.fp
        /\ Call(t.v, t.fp, 0).left = 0 /\ Call(t.v, t.fp, 0).res = "OK" /\ 0 \in Nat
    BY DEF Call
  <2> QED BY <2>1, <1>6, <1>10 DEF Filed
<1>11. CASE "MODIFIED" \notin t.fp.flag
  <2>1. dh = ch /\ t.fp.sclust = f.sclust /\ t.fp.objsize = f.objsize  BY <1>6, <1>11
  <2>2. But(t.v, t.fp) = << 0, 0 >> /\ but = << 0, 0 >>  BY <1>7, <1>11 DEF But
  <2>3. Filed(Call(t.v, t.fp, 0), dh, tab, But(t.v, t.fp))  BY <2>2, <1>7, <1>10
  <2>4. IsFor(t.v, t.fp, dh, tab, g, i)  BY <2>1, <2>3, <1>4, <1>7 DEF IsFor
  <2> QED BY <2>1, <2>2, <2>4, <1>1, <1>7, <1>9
<1>12. CASE "MODIFIED" \in t.fp.flag
  <2> DEFINE e == [tab[g][i] EXCEPT !.sclust = t.fp.sclust, !.size = t.fp.objsize]
             u == Set(tab, g, i, e)
  <2>1. But(t.v, t.fp) = f.dir /\ (but = f.dir \/ but = << 0, 0 >>)  BY <1>7, <1>12 DEF But
  <2>2. IsEntry(tab[g][i]) /\ i \in DOMAIN tab[g]  BY <1>1, EntryFacts
  <2>3. /\ DOMAIN tab[g][i] = {"name", "attr", "sclust", "size"}
        /\ tab[g][i] = Entry(tab[g][i].name, tab[g][i].attr, tab[g][i].sclust, tab[g][i].size)
    BY <2>2 DEF IsEntry, Entry
  <2>4. /\ e.name = tab[g][i].name /\ e.attr = tab[g][i].attr /\ e.sclust = t.fp.sclust
        /\ e.size = t.fp.objsize /\ IsEntry(e)
    <3>1. e = Entry(tab[g][i].name, tab[g][i].attr, t.fp.sclust, t.fp.objsize)
      BY <2>2, EntryEdit
    <3>2. t.fp.sclust \in Cluster \cup {0} /\ t.fp.objsize \in Nat  BY <1>7 DEF FilForm
    <3> HIDE DEF e
    <3> QED BY <3>1, <3>2 DEF Entry, IsEntry
  <2> HIDE DEF e
  <2>5. "VOL" \notin e.attr /\ "DIR" \notin e.attr /\ IsLike(e, tab[g][i])
    BY <2>4, <1>4 DEF Shown, Plain, IsLike
  <2>6. IF e.sclust = 0 THEN e.size = 0 ELSE SizeFits(dh[e.sclust], e.size)
    BY <2>4, <1>6 DEF Filed
  <2>7. TreeForm(dh, u)  BY <2>4, <2>5, <2>6, <1>1, <1>4, <1>6, Updating
  <2>8. dh[g] = ch[g] /\ g \in DOMAIN ch
    <3>1. g \in DOMAIN ch  BY <1>1 DEF Good, Tabular
    <3>2. g # f.sclust
      <4>1. EntryIsSound(ch, tab, g, tab[g][i])  BY <1>1, EntryFacts
      <4>2. 0 \notin DOMAIN ch  BY <1>1, Heads
      <4> QED BY <4>1, <4>2, <3>1, <1>4 DEF EntryIsSound
    <3> QED BY <3>1, <3>2, <1>6 DEF Rechains
  <2>9. Good(t.v, dh, u, f.dir)
    <3>1. f.dir = Slotted(dh[g], i)  BY <2>8, <1>4
    <3> QED BY <3>1, <2>1, <2>2, <2>5, <1>7, HeldAgain
  <2>10. DOMAIN u = DOMAIN tab /\ u[g][i] = e /\ DOMAIN u[g] = DOMAIN tab[g]
    <3>1. SetOf(tab, u, g, i, e)  BY <2>2, SetIs
    <3> HIDE DEF u
    <3> QED BY <3>1 DEF SetOf
  <2> HIDE DEF u
  <2>11. i \in Shown(u[g])  BY <2>2, <2>4, <2>10 DEF Shown, Plain
  <2>12. Filed(Call(t.v, t.fp, 0), dh, u, f.dir)  BY <2>9, <2>10, <1>10
  <2>13. IsFor(t.v, t.fp, dh, u, g, i)
    BY <2>1, <2>4, <2>5, <2>8, <2>10, <2>12, <1>4, <1>7 DEF IsFor
  <2> QED BY <2>1, <2>7, <2>9, <2>10, <2>11, <2>13, <1>9
<1> QED BY <1>11, <1>12

(* FSInfo is told.                                                         *)
Synchronised(v, w) ==
  /\ Vol(w) /\ w.fat = v.fat /\ w.disk = v.disk /\ w.registered = v.registered
  /\ w.mounted = v.mounted /\ w.id = v.id /\ w.free_clst = v.free_clst /\ w.last_clst = v.last_clst
  /\ w.info.free = (IF v.fsi_flag THEN v.free_clst ELSE v.info.free)
  /\ w.wflag = FALSE /\ w.fsi_flag = FALSE

(* What sync_fs() assigns.                                                 *)
LEMMA SyncIs ==
  ASSUME NEW v, Vol(v)
  PROVE  Synchronised(v, sync_fs(v))
<1> DEFINE new == [free |-> v.free_clst, next |-> v.last_clst]
           w == sync_fs(v)
<1>1. /\ DOMAIN w = DOMAIN v /\ w.fat = v.fat /\ w.disk = v.disk /\ w.registered = v.registered
      /\ w.mounted = v.mounted /\ w.id = v.id /\ w.free_clst = v.free_clst
      /\ w.last_clst = v.last_clst /\ w.wflag = FALSE /\ w.fsi_flag = FALSE
      /\ w.info = IF v.fsi_flag THEN new ELSE v.info
  BY DEF sync_fs, Vol
<1>2. DOMAIN new = {"free", "next"} /\ new.free = v.free_clst /\ new.next = v.last_clst  OBVIOUS
<1> HIDE DEF w, new
<1>3. /\ w.info.free = (IF v.fsi_flag THEN v.free_clst ELSE v.info.free)
      /\ w.info.next = (IF v.fsi_flag THEN v.last_clst ELSE v.info.next)
      /\ DOMAIN w.info = {"free", "next"}
  BY <1>1, <1>2 DEF Vol
<1>4. Vol(w)  BY <1>1, <1>3 DEF Vol
<1> QED BY <1>1, <1>3, <1>4 DEF Synchronised, w

(* After sync_fs() FSInfo has the free count.                              *)
LEMMA ToldNow ==
  ASSUME NEW v, NEW f, Told(v, f), v.mounted, NEW w, Synchronised(v, w), NEW g
  PROVE  Told(w, g)
<1>1. Free(w) = Free(v)  BY DEF Synchronised, Free
<1>2. CountIsRight(v) /\ v.registered /\ v.id > 0 /\ (v.free_clst = Unknown => v.info.free = Unknown)
      /\ (v.info.free \in {Unknown, Cardinality(Free(v))} \/ v.fsi_flag)
  BY DEF Told, Pending
<1>3. CountIsRight(w)  BY <1>1, <1>2 DEF CountIsRight, Synchronised
<1>4. w.info.free \in {Unknown, Cardinality(Free(w))}
  BY <1>1, <1>2 DEF CountIsRight, Synchronised
<1>5. w.free_clst = Unknown => w.info.free = Unknown
  BY <1>2 DEF Synchronised
<1> QED BY <1>2, <1>3, <1>4, <1>5 DEF Told, Synchronised

(* What does not touch the FAT or the sectors is still good.               *)
LEMMA GoodSame ==
  ASSUME NEW v, NEW ch, NEW tab, NEW but, Good(v, ch, tab, but),
         NEW w, Vol(w), w.fat = v.fat, w.disk = v.disk
  PROVE  Good(w, ch, tab, but)
<1>1. \A p : At(w, p) = At(v, p)  BY DEF At
<1> QED BY <1>1 DEF Good, Held

(* A row is set to what it is.                                             *)
LEMMA SetSame ==
  ASSUME NEW ch, NEW tab, Tabular(ch, tab), NEW g \in DOMAIN tab, NEW i \in DOMAIN tab[g],
         NEW fat, NEW m, NEW x, TreeForm(ch, tab), Chained(fat, ch), NEW v, NEW but, Good(v, ch, tab, but),
         Good(m, ch, Set(tab, g, i, tab[g][i]), x)
  PROVE  Good(m, ch, tab, x)
<1> DEFINE t == Set(tab, g, i, tab[g][i])
<1>1. SetOf(tab, t, g, i, tab[g][i])  BY SetIs
<1> HIDE DEF t
<1>2. DOMAIN t = DOMAIN tab /\ \A h \in DOMAIN tab : /\ DOMAIN t[h] = DOMAIN tab[h]
                                                     /\ \A k \in DOMAIN tab[h] : t[h][k] = tab[h][k]
  BY <1>1 DEF SetOf
<1>3. Good(m, ch, t, x)  BY DEF t
<1> QED BY <1>2, <1>3 DEF Good, Held, Tabular

(* The file object before it is opened.                                    *)
LEMMA ClosedForm == FilForm(Closed) /\ Closed.id = 0 /\ Closed.flag = {}
<1>1. 0 \in 0 .. 0 /\ 0 \in Nat  OBVIOUS
<1> QED BY <1>1 DEF FilForm, Closed

(* A file object that has nothing to write yet is closed.                  *)
LEMMA Closing ==
  ASSUME NEW v, NEW f, NEW ch, NEW tab, Healthy(v, f, ch, tab),
         ~IsOpen(v, f) \/ "MODIFIED" \notin f.flag
  PROVE  Sound(v, Closed) /\ ~IsOpen(v, Closed)
<1>1. Good(v, ch, tab, << 0, 0 >>)  BY DEF Healthy, But
<1>2. Told(v, f) /\ TreeForm(ch, tab) /\ f.id \in Nat /\ f.id <= v.id /\ v.id \in Nat
  BY DEF Healthy, FilForm, Good, Vol
<1>3. ~IsOpen(v, Closed)  BY <1>2, ClosedForm DEF IsOpen, Told
<1>4. But(v, Closed) = << 0, 0 >>  BY <1>3 DEF But
<1>5. Told(v, Closed)
  <2>1. Pending(v, f) => Pending(v, Closed)  BY DEF Pending
  <2> QED BY <2>1, <1>2 DEF Told
<1>6. Closed.id <= v.id  BY <1>2, ClosedForm
<1>7. Healthy(v, Closed, ch, tab)  BY <1>1, <1>2, <1>3, <1>4, <1>5, <1>6, ClosedForm DEF Healthy
<1> QED BY <1>3, <1>7 DEF Sound

(* f_sync() and f_close()                                                  *)
LEMMA Syncing ==
  ASSUME NEW ch, NEW tab, Healthy(vol, fp, ch, tab), IsOpen(vol, fp)
  PROVE  Sound(Synced.v, Synced.fp) /\ Sound(Synced.v, Closed)
<1> DEFINE u == Transfer(0)
<1>1. u.v = vol /\ u.fp = fp /\ u = Call(vol, fp, 0)  BY DEF Transfer, Call
<1>2. CASE "MODIFIED" \notin fp.flag
  <2>1. Synced = u  BY <1>2 DEF Synced
  <2>2. Sound(vol, fp)  BY DEF Sound
  <2>3. Sound(vol, Closed)  BY <1>2, Closing
  <2> QED BY <2>1, <2>2, <2>3, <1>1
<1>3. CASE "MODIFIED" \in fp.flag
  <2>1. PICK g \in DOMAIN tab : \E i \in Shown(tab[g]) : IsFor(vol, fp, ch, tab, g, i)
    BY DEF Healthy, HasEntry
  <2>2. PICK i \in Shown(tab[g]) : IsFor(vol, fp, ch, tab, g, i)  BY <2>1
  <2> DEFINE s == WriteBack(u)
             p == fp.dir
             e == At(s.v, p)
             w == Put(s.v, p, Entry(e.name, e.attr, fp.sclust, fp.objsize))
             x == sync_fs(w)
             t == [s EXCEPT !.v = x, !.fp.flag = @ \ {"MODIFIED"}]
  <2>3. Synced = t  BY <1>3 DEF Synced
  <2>4. But(vol, fp) = p  BY <1>3 DEF But
  <2>5. /\ p = Slotted(ch[g], i) /\ "DIR" \notin tab[g][i].attr
        /\ tab[g][i].sclust = fp.sclust /\ tab[g][i].size = fp.objsize
        /\ Filed(u, ch, tab, p)
    BY <2>2, <2>4, <1>1 DEF IsFor
  <2>6. Flushed(u, s, ch, tab, p)
    <3>1. DOMAIN u = {"v", "fp", "left", "got", "res"} /\ FilForm(u.fp) /\ Good(u.v, ch, tab, p)
      BY <2>5 DEF Filed
    <3>2. "DIRTY" \in u.fp.flag => \E o \in DOMAIN ch \ DOMAIN tab : Buffers(u.fp, ch[o])
      BY <2>5 DEF Filed
    <3> HIDE DEF u
    <3> QED BY <3>1, <3>2, WriteBackIs
  <2> HIDE DEF s
  <2>7. /\ Good(s.v, ch, tab, p) /\ SameButDisk(vol, s.v) /\ OnlyFlag(fp, s.fp)
        /\ s.fp.flag = fp.flag \ {"DIRTY"} /\ DOMAIN s = {"v", "fp", "left", "got", "res"}
        /\ s.left = 0 /\ s.res = "OK"
    BY <2>6, <1>1 DEF Flushed, Transfer
  <2>8. TreeForm(ch, tab) /\ Told(vol, fp) /\ vol.mounted /\ FilForm(fp) /\ fp.id <= vol.id
        /\ fp.id = vol.id
    BY DEF Healthy, IsOpen
  <2>9. Chained(s.v.fat, ch) /\ Tabular(ch, tab)  BY <2>7 DEF Good
  <2>10. IsEntry(tab[g][i]) /\ i \in DOMAIN tab[g]  BY <2>8, <2>9, EntryFacts
  <2>11. IsLike(e, tab[g][i])
    <3>1. RowOf(s.v, ch, tab, p, g, i)  BY <2>7, <2>10, RowFacts
    <3> QED BY <3>1, <2>5 DEF RowOf
  <2>12. Entry(e.name, e.attr, fp.sclust, fp.objsize) = tab[g][i]
    BY <2>5, <2>10, <2>11 DEF IsLike, IsEntry
  <2>13. Good(w, ch, Set(tab, g, i, tab[g][i]), << 0, 0 >>) /\ SameButDisk(s.v, w)
    <3>1. w = Put(s.v, Slotted(ch[g], i), tab[g][i])  BY <2>5, <2>12
    <3> HIDE DEF w
    <3> QED BY <3>1, <2>5, <2>7, <2>10, PutRow
  <2> HIDE DEF w
  <2>14. Good(w, ch, tab, << 0, 0 >>)  BY <2>7, <2>8, <2>9, <2>10, <2>13, SetSame
  <2>15. Synchronised(w, x)  BY <2>14, SyncIs DEF Good
  <2> HIDE DEF x
  <2>16. Good(x, ch, tab, << 0, 0 >>)
    BY <2>14, <2>15, GoodSame DEF Synchronised
  <2>17. x.mounted = vol.mounted /\ x.id = vol.id
    BY <2>7, <2>13, <2>15 DEF SameButDisk, Synchronised
  <2>18. Told(w, fp) /\ w.mounted
    <3>1. /\ w.fat = vol.fat /\ w.info = vol.info /\ w.registered = vol.registered
          /\ w.mounted = vol.mounted /\ w.id = vol.id /\ w.free_clst = vol.free_clst
          /\ w.fsi_flag = vol.fsi_flag /\ w.wflag = vol.wflag
      BY <2>7, <2>13 DEF SameButDisk
    <3>2. Keeps(vol, w)  BY <3>1, KeepsSame
    <3>3. Free(w) = Free(vol)  BY <3>1 DEF Free
    <3> QED BY <3>1, <3>2, <3>3, <2>8, ToldAgain
  <2>19. \A f : Told(x, f)  BY <2>15, <2>18, ToldNow
  <2>20. /\ DOMAIN t = {"v", "fp", "left", "got", "res"} /\ t.v = x /\ DOMAIN t.fp = DOMAIN s.fp
         /\ t.fp.id = s.fp.id /\ t.fp.err = s.fp.err /\ t.fp.sclust = s.fp.sclust
         /\ t.fp.objsize = s.fp.objsize /\ t.fp.fptr = s.fp.fptr /\ t.fp.clust = s.fp.clust
         /\ t.fp.sect = s.fp.sect /\ t.fp.buf = s.fp.buf /\ t.fp.dir = s.fp.dir
         /\ t.fp.flag = s.fp.flag \ {"MODIFIED"}
    BY <2>7, <2>8 DEF OnlyFlag, FilForm
  <2> HIDE DEF t
  <2>21. /\ FilForm(t.fp) /\ t.fp.id = fp.id /\ t.fp.sclust = fp.sclust /\ t.fp.objsize = fp.objsize
         /\ t.fp.fptr = fp.fptr /\ t.fp.clust = fp.clust /\ t.fp.sect = fp.sect
         /\ t.fp.dir = fp.dir /\ "MODIFIED" \notin t.fp.flag /\ "DIRTY" \notin t.fp.flag
    BY <2>7, <2>8, <2>20 DEF OnlyFlag, FilForm
  <2>22. But(x, t.fp) = << 0, 0 >>  BY <2>21 DEF But
  <2>23. IsFor(x, t.fp, ch, tab, g, i)
    <3> DEFINE c == Call(x, t.fp, 0)
    <3>1. /\ DOMAIN c = {"v", "fp", "left", "got", "res"} /\ c.v = x /\ c.fp = t.fp /\ c.left = 0
          /\ c.res = "OK" /\ 0 \in Nat
      BY DEF Call
    <3> HIDE DEF c
    <3>2. Filed(c, ch, tab, << 0, 0 >>)
      <4>1. IF fp.sclust = 0 THEN fp.objsize = 0
            ELSE /\ fp.sclust \in DOMAIN ch \ DOMAIN tab /\ SizeFits(ch[fp.sclust], fp.objsize)
                 /\ Points(fp, ch[fp.sclust])
        BY <2>5, <1>1 DEF Filed
      <4>2. \A q : Buffers(t.fp, q)  BY <2>21 DEF Buffers
      <4>3. \A q : Points(fp, q) => Points(t.fp, q)  BY <2>21 DEF Points
      <4> QED BY <3>1, <4>1, <4>2, <4>3, <2>16, <2>21 DEF Filed
    <3> QED BY <3>2, <2>5, <2>21, <2>22 DEF IsFor, c
  <2>24. Healthy(x, t.fp, ch, tab)
    <3>1. HasEntry(x, t.fp, ch, tab)  BY <2>23 DEF HasEntry
    <3>2. t.fp.id <= x.id  BY <2>8, <2>17, <2>21
    <3> QED BY <3>1, <3>2, <2>8, <2>16, <2>19, <2>21, <2>22 DEF Healthy
  <2>25. Sound(x, Closed)  BY <2>21, <2>24, Closing
  <2> QED BY <2>3, <2>20, <2>24, <2>25 DEF Sound
<1> QED BY <1>2, <1>3

(* A volume is mounted: its count is what FSInfo says.                     *)
LEMMA ToldOn ==
  ASSUME NEW v, NEW f, Told(v, f), v.mounted, NEW w, Keeps(v, w), NEW g,
         Pending(v, f) => w.wflag \/ (IsOpen(w, g) /\ "MODIFIED" \in g.flag),
         Free(w) = Free(v) \/ w.wflag \/ (IsOpen(w, g) /\ "MODIFIED" \in g.flag)
  PROVE  Told(w, g)
<1>1. /\ w.info = v.info /\ w.registered = v.registered /\ w.mounted = v.mounted
      /\ w.id = v.id /\ w.wflag = v.wflag
      /\ w.free_clst = Unknown <=> v.free_clst = Unknown
      /\ v.fsi_flag => w.fsi_flag
      /\ CountIsRight(v) => /\ CountIsRight(w)
                            /\ Free(w) = Free(v) \/ w.fsi_flag \/ v.free_clst = Unknown
  BY DEF Keeps
<1>2. /\ CountIsRight(v) /\ v.registered /\ v.id > 0
      /\ v.free_clst = Unknown => v.info.free = Unknown
      /\ v.info.free \in {Unknown, Cardinality(Free(v))} \/ Pending(v, f)
  BY DEF Told
<1>3. w.info.free \in {Unknown, Cardinality(Free(w))} \/ Pending(w, g)
  <2>1. CASE Pending(v, f)  BY <2>1, <1>1 DEF Pending
  <2>2. CASE v.info.free = Unknown  BY <2>2, <1>1
  <2>3. CASE v.info.free = Cardinality(Free(v))
    <3>1. CASE Free(w) = Free(v)  BY <2>3, <3>1, <1>1
    <3>2. CASE Free(w) # Free(v)
      <4>1. w.fsi_flag \/ v.info.free = Unknown  BY <3>2, <1>1, <1>2
      <4>2. w.wflag \/ (IsOpen(w, g) /\ "MODIFIED" \in g.flag)  BY <3>2
      <4> QED BY <4>1, <4>2, <1>1 DEF Pending
    <3> QED BY <3>1, <3>2
  <2> QED BY <2>1, <2>2, <2>3, <1>2
<1>4. w.mounted => /\ CountIsRight(w) /\ w.registered /\ w.id > 0
                   /\ w.free_clst = Unknown => w.info.free = Unknown
  BY <1>1, <1>2
<1> QED BY <1>3, <1>4 DEF Told

Ready2Use(v, m, f, ch, tab) ==
  /\ Healthy(m, f, ch, tab) /\ m.mounted = m.registered /\ m.registered = v.registered
  /\ (IsOpen(m, f) <=> IsOpen(v, f)) /\ m.fat = v.fat /\ m.disk = v.disk /\ (v.mounted => m = v)
  /\ But(m, f) = But(v, f)

(* mount_volume() takes the hints from FSInfo, and no object is open then  *)
(* that was not.                                                           *)
LEMMA MountIs ==
  ASSUME NEW v, NEW f, NEW ch, NEW tab, Healthy(v, f, ch, tab)
  PROVE  Ready2Use(v, mount_volume(v), f, ch, tab)
<1> DEFINE m == mount_volume(v)
<1>1. /\ Good(v, ch, tab, But(v, f)) /\ TreeForm(ch, tab) /\ FilForm(f) /\ f.id <= v.id
      /\ Told(v, f) /\ Vol(v) /\ v.mounted \in BOOLEAN /\ v.registered \in BOOLEAN
      /\ v.id \in Nat /\ f.id \in Nat
  BY DEF Healthy, Good, Vol, FilForm
<1>2. CASE ~v.registered \/ v.mounted
  <2>1. m = v  BY <1>2 DEF mount_volume
  <2>2. v.mounted = v.registered  BY <1>1, <1>2 DEF Told
  <2> QED BY <2>1, <2>2 DEF Ready2Use
<1>3. CASE v.registered /\ ~v.mounted
  <2>1. m = [v EXCEPT !.mounted = TRUE, !.id = @ + 1, !.fsi_flag = FALSE,
                      !.free_clst = v.info.free, !.last_clst = v.info.next]
    BY <1>3 DEF mount_volume
  <2>2. /\ DOMAIN m = DOMAIN v /\ m.fat = v.fat /\ m.disk = v.disk /\ m.info = v.info
        /\ m.registered = v.registered /\ m.mounted = TRUE /\ m.id = v.id + 1
        /\ m.fsi_flag = FALSE /\ m.free_clst = v.info.free /\ m.last_clst = v.info.next
        /\ m.wflag = v.wflag
    BY <2>1, <1>1 DEF Vol
  <2> HIDE DEF m
  <2>3. Vol(m)
    <3>1. m.id \in Nat  BY <2>2, <1>1
    <3> QED BY <3>1, <2>2, <1>1 DEF Vol
  <2>4. ~IsOpen(m, f) /\ ~IsOpen(v, f) /\ f.id <= m.id  BY <2>2, <1>1, <1>3 DEF IsOpen
  <2>5. But(m, f) = << 0, 0 >> /\ But(v, f) = << 0, 0 >>  BY <2>4 DEF But
  <2>6. Good(m, ch, tab, But(m, f))  BY <2>2, <2>3, <2>5, <1>1, GoodSame
  <2>7. Told(m, f)
    <3>1. v.info.free \in {Unknown, Cardinality(Free(v))}  BY <1>1, <1>3 DEF Told, Pending
    <3>2. Free(m) = Free(v)  BY <2>2 DEF Free
    <3>3. m.id > 0  BY <2>2, <1>1
    <3> QED BY <3>1, <3>2, <3>3, <2>2, <1>3 DEF Told, CountIsRight
  <2>8. Healthy(m, f, ch, tab)  BY <2>4, <2>6, <2>7, <1>1 DEF Healthy
  <2> QED BY <2>2, <2>4, <2>5, <2>8, <1>3 DEF Ready2Use, m
<1> QED BY <1>1, <1>2, <1>3

(* f_mount(): nothing waits to be written.                                 *)
LEMMA Mounting ==
  ASSUME NEW v, NEW f, NEW ch, NEW tab, Healthy(v, f, ch, tab),
         IsOpen(v, f) => "MODIFIED" \notin f.flag, ~v.wflag, NEW r \in BOOLEAN
  PROVE  LET w == [v EXCEPT !.mounted = FALSE, !.registered = r]
         IN  Sound(w, f) /\ Sound(mount_volume(w), f)
<1> DEFINE w == [v EXCEPT !.mounted = FALSE, !.registered = r]
<1>1. /\ Good(v, ch, tab, << 0, 0 >>) /\ TreeForm(ch, tab) /\ FilForm(f) /\ f.id <= v.id
      /\ Told(v, f) /\ Vol(v)
  BY DEF Healthy, Good, But
<1>2. /\ DOMAIN w = DOMAIN v /\ w.fat = v.fat /\ w.disk = v.disk /\ w.info = v.info
      /\ w.registered = r /\ w.mounted = FALSE /\ w.id = v.id
      /\ w.fsi_flag = v.fsi_flag /\ w.free_clst = v.free_clst /\ w.last_clst = v.last_clst
      /\ w.wflag = v.wflag
  BY <1>1 DEF Vol
<1> HIDE DEF w
<1>3. Vol(w)  BY <1>1, <1>2 DEF Vol
<1>4. ~IsOpen(w, f) /\ But(w, f) = << 0, 0 >>  BY <1>2 DEF IsOpen, But
<1>5. Good(w, ch, tab, << 0, 0 >>)  BY <1>1, <1>2, <1>3, GoodSame
<1>6. Told(w, f)
  <2>1. v.info.free \in {Unknown, Cardinality(Free(v))}  BY <1>1 DEF Told, Pending
  <2>2. Free(w) = Free(v)  BY <1>2 DEF Free
  <2> QED BY <2>1, <2>2, <1>2 DEF Told
<1>7. Healthy(w, f, ch, tab)  BY <1>1, <1>2, <1>4, <1>5, <1>6 DEF Healthy
<1>8. Healthy(mount_volume(w), f, ch, tab)  BY <1>7, MountIs DEF Ready2Use
<1> QED BY <1>7, <1>8 DEF Sound, w

(***************************************************************************)
(* Calls by path.                                                          *)
(***************************************************************************)
(* What a path leads to: the directory h its last name is looked up in,    *)
(* and the entry there.                                                    *)
Leads(tab, path, w, h, t) ==
  /\ Len(path) \in Nat /\ Len(path) # 0 /\ Trace(tab, path, Len(path) - 1, t)
  /\ h = t[Len(path) - 1] /\ h \in DOMAIN tab
  /\ w.dir = IdOf(h) /\ IsName(w.name) /\ w.name = create_name(path[Len(path)])
Shows(v, ch, tab, w, h) ==
  /\ w.dptr \in Shown(tab[h]) /\ tab[h][w.dptr].name = w.name
  /\ Place(v, w.dir, w.dptr) = Slotted(ch[h], w.dptr)
  /\ EntryAt(v, w.dir, w.dptr) = At(v, Slotted(ch[h], w.dptr))
Lacks(tab, w, h) == \A k \in Shown(tab[h]) : tab[h][k].name # w.name
PathFinds(v, ch, tab, path, w) == \E h, t : Leads(tab, path, w, h, t) /\ Shows(v, ch, tab, w, h)
PathLacks(tab, path, w) == \E h, t : Leads(tab, path, w, h, t) /\ Lacks(tab, w, h)

(* In a sound tree directories lead to directories.                        *)
LEMMA TreeLeads ==
  ASSUME NEW ch, NEW tab, TreeForm(ch, tab)
  PROVE  DirsLead(tab)
<1> SUFFICES ASSUME NEW h \in DOMAIN tab, NEW i \in Listed(tab[h]), "DIR" \in tab[h][i].attr
             PROVE  tab[h][i].sclust \in DOMAIN tab \ {dirbase}
  BY DEF DirsLead
<1>1. i \in Shown(tab[h])
  BY ListedShown DEF TreeForm
<1> QED  BY <1>1 DEF TreeForm, Entered, EntryIsSound

(* follow_path() arrives at an entry of the tree, or where it would be.    *)
LEMMA PathLeads ==
  ASSUME NEW v, NEW ch, NEW tab, NEW but, Good(v, ch, tab, but), TreeForm(ch, tab),
         NEW path \in Seq(Seq(STRING)), NEW w, w = follow_path(v, path)
  PROVE  /\ w.res \in FollowRes
         /\ Named(w) = "OK" => PathFinds(v, ch, tab, path, w)
         /\ w.res = "NO_FILE" => PathLacks(tab, path, w)
         /\ w.res = "OK" /\ w.name = NoName => w.dir = 0 /\ w.dptr = 0
         /\ v.registered \/ w.res = "NOT_ENABLED"
<1>1. w \in Lookup(path) /\ Reaches(tab, path, Len(path), w)
  BY FollowIs, TreeLeads
<1>2. Len(path) \in Nat
  OBVIOUS
<1>3. ASSUME Arrives(tab, path, Len(path), w)
      PROVE  \E h, t : /\ Leads(tab, path, w, h, t) /\ LooksUp(tab, h, w)
  <2>1. PICK t : /\ Trace(tab, path, Len(path) - 1, t) /\ w.dir = IdOf(t[Len(path) - 1])
                 /\ LooksUp(tab, t[Len(path) - 1], w)
    BY <1>3 DEF Arrives
  <2>2. Len(path) >= 1 /\ IsName(w.name) /\ w.name = create_name(path[Len(path)])
    BY <1>3 DEF Arrives
  <2>3. Len(path) - 1 \in 0 .. Len(path) - 1
    BY <1>2, <2>2
  <2>4. t[Len(path) - 1] \in DOMAIN tab
    BY <2>1, <2>3 DEF Trace
  <2> QED  BY <1>2, <2>1, <2>2, <2>4 DEF Leads
<1>4. ASSUME NEW h, NEW t, Leads(tab, path, w, h, t) PROVE Listed(tab[h]) = Shown(tab[h])
  BY <1>4, ListedShown DEF Leads, TreeForm
<1>5. ASSUME Named(w) = "OK" PROVE PathFinds(v, ch, tab, path, w)
  <2>1. w.res = "OK" /\ w.name # NoName
    BY <1>5 DEF Named
  <2>2. Arrives(tab, path, Len(path), w)
    BY <1>1, <2>1 DEF Reaches
  <2>3. PICK h, t : Leads(tab, path, w, h, t) /\ LooksUp(tab, h, w)
    BY <1>3, <2>2
  <2>4. w.dptr \in Shown(tab[h]) /\ tab[h][w.dptr].name = w.name
    BY <1>4, <2>1, <2>3 DEF LooksUp
  <2>5. h \in DOMAIN tab /\ w.dir = IdOf(h) /\ w.dptr \in DOMAIN tab[h]
    BY <2>3, <2>4 DEF Leads, Shown
  <2>6. RowOf(v, ch, tab, but, h, w.dptr) /\ TableFound(v, ch, tab, h, w.dir)
    BY <2>5, RowFacts, TableIs
  <2> QED  BY <2>3, <2>4, <2>6 DEF PathFinds, Shows, RowOf, TableFound
<1>6. ASSUME w.res = "NO_FILE" PROVE PathLacks(tab, path, w)
  <2>2. Arrives(tab, path, Len(path), w)
    BY <1>1, <1>6 DEF Reaches
  <2>3. PICK h, t : Leads(tab, path, w, h, t) /\ LooksUp(tab, h, w)
    BY <1>3, <2>2
  <2> QED  BY <1>4, <1>6, <2>3 DEF PathLacks, Lacks, LooksUp
<1>7. ASSUME w.res = "OK", w.name = NoName PROVE w.dir = 0 /\ w.dptr = 0
  <2>1. ~IsName(w.name)
    BY <1>7, NamesAre
  <2> QED  BY <1>1, <1>7, <2>1 DEF Reaches, Arrives
<1>8. w.res \in FollowRes
  BY <1>1 DEF Lookup
<1>9. v.registered \/ w.res = "NOT_ENABLED"
  BY FollowIs, TreeLeads
<1> QED  BY <1>5, <1>6, <1>7, <1>8, <1>9

(***************************************************************************)
(* f_open()                                                                *)
(***************************************************************************)
(* A file object that is new, and where FA_OPEN_APPEND takes it.           *)
OpenedAs(f, v, place, flag, e) ==
  /\ FilForm(f) /\ f.id = v.id /\ f.flag = flag /\ f.dir = place /\ f.sclust = e.sclust
  /\ f.objsize = e.size
Fresh(v, place, flag) ==
  [Closed EXCEPT !.id = v.id, !.flag = flag, !.sclust = At(v, place).sclust,
                 !.objsize = At(v, place).size, !.dir = place]

(* The file object that f_open() makes.                                    *)
LEMMA FreshIs ==
  ASSUME NEW v, v.id \in Nat, NEW place, NEW flag, NEW e, e = At(v, place), IsEntry(e)
  PROVE  /\ OpenedAs(Fresh(v, place, flag), v, place, flag, e)
         /\ Fresh(v, place, flag).fptr = 0
         /\ Opened(v, place, flag) =
              IF "SEEKEND" \in flag /\ e.size > 0 THEN SeekEnd(v, Fresh(v, place, flag))
              ELSE Fresh(v, place, flag)
<1> DEFINE f == Fresh(v, place, flag)
<1>1. /\ DOMAIN f = {"id", "flag", "err", "sclust", "objsize", "fptr", "clust", "sect", "buf", "dir"}
      /\ f.id = v.id /\ f.flag = flag /\ f.dir = place /\ f.sclust = e.sclust /\ f.objsize = e.size
      /\ f.fptr = 0 /\ f.clust = 0 /\ f.sect = 0 /\ f.err = "OK" /\ f.buf = [i \in Slot |-> Zero]
  BY DEF Fresh, Closed
<1>2. e.sclust \in Cluster \cup {0} /\ e.size \in Nat
  BY DEF IsEntry
<1>3. DOMAIN f.buf = Slot
  BY <1>1
<1>4. 0 \in 0 .. e.size
  BY <1>2
<1>5. FilForm(f)
  BY <1>1, <1>2, <1>3, <1>4 DEF FilForm
<1>6. OpenedAs(f, v, place, flag, e)
  BY <1>1, <1>5 DEF OpenedAs
<1>7. Opened(v, place, flag) =
        IF "SEEKEND" \in flag /\ e.size > 0 THEN SeekEnd(v, f) ELSE f
  BY DEF Opened, Fresh
<1> QED  BY <1>1, <1>6, <1>7

(* Where the last byte of a file is.                                       *)
LEMMA LastPlace ==
  ASSUME NEW size \in Nat, size > 0, NEW a, a = (size - 1) \div CLSZ,
         NEW l, l = size - a * CLSZ
  PROVE  a \in Nat /\ l \in 1 .. CLSZ /\ size = CLSZ * a + l /\ (l = CLSZ => l % SS = 0)
<1>1. size - 1 \in Nat
  OBVIOUS
<1>2. /\ a \in Nat /\ (size - 1) % CLSZ \in 0 .. CLSZ - 1
      /\ size - 1 = CLSZ * a + ((size - 1) % CLSZ)
  BY <1>1, Position
<1>3. CLSZ \in Nat /\ SS \in Nat
  BY Sizes
<1>4. a * CLSZ = CLSZ * a /\ CLSZ * a \in Nat
  BY <1>2, <1>3
<1> DEFINE p == CLSZ * a
           x == (size - 1) % CLSZ
<1>5. p \in Nat /\ x \in 0 .. CLSZ - 1 /\ size - 1 = p + x /\ l = size - p
  BY <1>2, <1>4
<1> HIDE DEF p, x
<1>6. l \in 1 .. CLSZ /\ size = p + l
  BY <1>3, <1>5
<1>7. CLSZ % SS = 0
  <2>1. 0 \in 0 .. CLSZ - 1 /\ 1 \in Nat
    BY Sizes
  <2>2. (CLSZ * 1 + 0) % SS = 0 % SS
    BY <2>1, PositionOf
  <2>3. CLSZ * 1 + 0 = CLSZ /\ 0 % SS = 0
    BY Sizes
  <2> QED  BY <2>2, <2>3
<1> QED  BY <1>2, <1>6, <1>7 DEF p

SeekEndSect(v, f, last) == clst2sect(Nth(v, f.sclust, last)) + (f.objsize - last * CLSZ) \div SS

(* What FA_OPEN_APPEND assigns.                                            *)
LEMMA SeekEndIs ==
  ASSUME NEW v, NEW f,
         DOMAIN f = {"id", "flag", "err", "sclust", "objsize", "fptr", "clust", "sect", "buf", "dir"},
         NEW last, last = (f.objsize - 1) \div CLSZ, NEW sect, sect = SeekEndSect(v, f, last)
  PROVE  LET g == SeekEnd(v, f)
         IN  /\ DOMAIN g = DOMAIN f /\ g.id = f.id /\ g.flag = f.flag /\ g.err = f.err
             /\ g.sclust = f.sclust /\ g.objsize = f.objsize /\ g.dir = f.dir
             /\ g.fptr = f.objsize /\ g.clust = Nth(v, f.sclust, last)
             /\ IF (f.objsize - last * CLSZ) % SS = 0 THEN g.sect = f.sect /\ g.buf = f.buf
                ELSE g.sect = sect /\ g.buf = v.disk[sect]
<1> DEFINE ofs == f.objsize - last * CLSZ
           clst == Nth(v, f.sclust, last)
           at == [f EXCEPT !.fptr = f.objsize, !.clust = clst]
<1>1. SeekEnd(v, f) = IF ofs % SS = 0 THEN at
                      ELSE [at EXCEPT !.sect = sect, !.buf = v.disk[sect]]
  BY DEF SeekEnd, SeekEndSect
<1>2. /\ DOMAIN at = DOMAIN f /\ at.id = f.id /\ at.flag = f.flag /\ at.err = f.err
      /\ at.sclust = f.sclust /\ at.objsize = f.objsize /\ at.dir = f.dir
      /\ at.fptr = f.objsize /\ at.clust = clst /\ at.sect = f.sect /\ at.buf = f.buf
  OBVIOUS
<1> HIDE DEF at
<1>3. CASE ofs % SS = 0
  BY <1>1, <1>2, <1>3
<1>4. CASE ofs % SS # 0
  <2> DEFINE g == [at EXCEPT !.sect = sect, !.buf = v.disk[sect]]
  <2>1. SeekEnd(v, f) = g
    BY <1>1, <1>4
  <2>2. /\ DOMAIN g = DOMAIN at /\ g.id = at.id /\ g.flag = at.flag /\ g.err = at.err
        /\ g.sclust = at.sclust /\ g.objsize = at.objsize /\ g.dir = at.dir
        /\ g.fptr = at.fptr /\ g.clust = at.clust /\ g.sect = sect /\ g.buf = v.disk[sect]
    BY <1>2
  <2> HIDE DEF g
  <2> QED  BY <1>2, <1>4, <2>1, <2>2
<1> QED  BY <1>3, <1>4

(* A file object with nothing in its buffer is in step with its chain.     *)
LEMMA FiledWhen ==
  ASSUME NEW v, NEW f, NEW ch, NEW tab, NEW but, FilForm(f), Good(v, ch, tab, but),
         f.sclust = 0 => f.objsize = 0, "DIRTY" \notin f.flag,
         f.sclust # 0 => /\ f.sclust \in DOMAIN ch \ DOMAIN tab
                         /\ SizeFits(ch[f.sclust], f.objsize) /\ Points(f, ch[f.sclust])
  PROVE  Filed(Call(v, f, 0), ch, tab, but)
<1> DEFINE s == Call(v, f, 0)
<1>1. /\ DOMAIN s = {"v", "fp", "left", "got", "res"} /\ s.left = 0 /\ s.res = "OK"
      /\ s.fp = f /\ s.v = v
  BY DEF Call
<1>2. \A q : Buffers(f, q)
  BY DEF Buffers
<1>3. 0 \in Nat
  OBVIOUS
<1> HIDE DEF s
<1> QED  BY <1>1, <1>2, <1>3 DEF Filed, s

(* A file that is opened is in step with its chain, at its end too.        *)
LEMMA OpenedIs ==
  ASSUME NEW v, NEW ch, NEW tab, NEW but, Good(v, ch, tab, but), NEW place, NEW flag,
         "DIRTY" \notin flag, NEW e, e = At(v, place), IsEntry(e), "DIR" \notin e.attr,
         NEW h, EntryIsSound(ch, tab, h, e)
  PROVE  LET f == Opened(v, place, flag)
         IN  OpenedAs(f, v, place, flag, e) /\ Filed(Call(v, f, 0), ch, tab, but)
<1> DEFINE f == Opened(v, place, flag)
           g == Fresh(v, place, flag)
<1>1. v.id \in Nat /\ Vol(v) /\ Chained(v.fat, ch)
  BY DEF Good, Vol
<1>2. /\ OpenedAs(g, v, place, flag, e) /\ g.fptr = 0
      /\ f = IF "SEEKEND" \in flag /\ e.size > 0 THEN SeekEnd(v, g) ELSE g
  BY <1>1, FreshIs
<1>3. e.sclust = 0 => e.size = 0
  BY DEF EntryIsSound
<1>4. e.sclust # 0 => e.sclust \in DOMAIN ch \ DOMAIN tab /\ SizeFits(ch[e.sclust], e.size)
  BY DEF EntryIsSound, SizeFits
<1>5. e.size \in Nat
  BY DEF IsEntry
<1>7. ASSUME OpenedAs(f, v, place, flag, e),
             e.sclust # 0 => Points(f, ch[e.sclust])
      PROVE  Filed(Call(v, f, 0), ch, tab, but)
  <2>1. /\ FilForm(f) /\ f.sclust = e.sclust /\ f.objsize = e.size /\ "DIRTY" \notin f.flag
    BY <1>7 DEF OpenedAs
  <2>2. /\ f.sclust = 0 => f.objsize = 0
        /\ f.sclust # 0 => /\ f.sclust \in DOMAIN ch \ DOMAIN tab
                           /\ SizeFits(ch[f.sclust], f.objsize) /\ Points(f, ch[f.sclust])
    BY <1>3, <1>4, <1>7, <2>1
  <2> HIDE DEF f
  <2> QED  BY <2>1, <2>2, FiledWhen
<1> SUFFICES OpenedAs(f, v, place, flag, e) /\ (e.sclust # 0 => Points(f, ch[e.sclust]))
  BY <1>7
<1>8. CASE ~("SEEKEND" \in flag /\ e.size > 0)
  <2>1. f = g
    BY <1>2, <1>8
  <2>2. 0 % SS = 0
    BY Sizes
  <2>3. \A q : Points(g, q)
    BY <1>2, <2>2 DEF Points
  <2> QED  BY <1>2, <2>1, <2>3
<1>9. CASE "SEEKEND" \in flag /\ e.size > 0
  <2>1. f = SeekEnd(v, g) /\ e.sclust # 0 /\ e.size \in 1 .. e.size
    BY <1>2, <1>3, <1>5, <1>9
  <2> DEFINE o == e.sclust
             q == ch[o]
             last == (e.size - 1) \div CLSZ
             l == e.size - last * CLSZ
             sect == SeekEndSect(v, g, last)
  <2>2. /\ FilForm(g) /\ g.id = v.id /\ g.flag = flag /\ g.dir = place /\ g.sclust = o
        /\ g.objsize = e.size
    BY <1>2 DEF OpenedAs
  <2>3. Strand(v.fat, o, q) /\ SizeFits(q, e.size) /\ o \in DOMAIN ch
    BY <1>1, <1>4, <2>1, StrandOf
  <2>4. last \in Nat /\ last + 1 \in 1 .. Len(q)
    BY <1>5, <2>1, <2>3, LastByte
  <2>5. last \in Nat /\ l \in 1 .. CLSZ /\ e.size = CLSZ * last + l /\ (l = CLSZ => l % SS = 0)
    BY <1>5, <1>9, LastPlace
  <2>6. /\ (e.size - 1) \div CLSZ = last
        /\ IF l = CLSZ THEN e.size % SS = 0 ELSE e.size % CLSZ = l /\ e.size % SS = l % SS
    <3> HIDE DEF last, l
    <3> QED  BY <2>5, EndPosition
  <2>7. Chain(v, o) = q /\ Len(q) \in Nat
    BY <1>1, <2>3, ChainOf DEF Strand
  <2>8. last < Len(q)
    <3> HIDE DEF last
    <3> QED  BY <2>4, <2>7
  <2>9. Nth(v, o, last) = q[last + 1] /\ q[last + 1] \in Cluster
    <3> HIDE DEF last
    <3> QED  BY <2>3, <2>4, <2>7, <2>8 DEF Nth, Strand
  <2>10. /\ DOMAIN f = DOMAIN g /\ f.id = g.id /\ f.flag = g.flag /\ f.err = g.err
         /\ f.sclust = g.sclust /\ f.objsize = g.objsize /\ f.dir = g.dir
         /\ f.fptr = e.size /\ f.clust = q[last + 1]
         /\ IF l % SS = 0 THEN f.sect = g.sect /\ f.buf = g.buf
            ELSE f.sect = sect /\ f.buf = v.disk[sect]
    <3>1. DOMAIN g = {"id", "flag", "err", "sclust", "objsize", "fptr", "clust", "sect", "buf", "dir"}
      BY <2>2 DEF FilForm
    <3>2. last = (g.objsize - 1) \div CLSZ /\ l = g.objsize - last * CLSZ
      BY <2>2
    <3>3. f = SeekEnd(v, g)
      BY <2>1
    <3> HIDE DEF g, f, last, sect
    <3>4. sect = SeekEndSect(v, g, last)
      BY DEF sect
    <3> QED  BY <2>2, <2>9, <3>1, <3>2, <3>3, <3>4, SeekEndIs
  <2>11. sect = clst2sect(q[last + 1]) + l \div SS
    BY <2>2, <2>9 DEF SeekEndSect
  <2> HIDE DEF f, g, q, last, l, sect
  <2>12. ASSUME l # CLSZ
         PROVE  l % CLSZ = l /\ sect \in Sector
    <3>1. l \in Nat /\ CLSZ \in Nat /\ l < CLSZ
      BY <2>5, <1>5, <2>12, Sizes
    <3>2. l % CLSZ = l
      BY <3>1
    <3>3. l \div SS \in 0 .. CSIZE - 1
      <4>1. l \in 0 .. CLSZ - 1 /\ l % CLSZ = l
        BY <3>1, <3>2
      <4>2. (l % CLSZ) \div SS \in 0 .. CSIZE - 1
        BY <3>1, Position
      <4> QED  BY <4>1, <4>2
    <3>4. sect \in SectorsOf(q[last + 1])
      <4>1. clst2sect(q[last + 1]) \in Nat /\ CSIZE \in Nat
        BY <2>9, SectorsAre, Sizes
      <4> QED  BY <2>11, <3>3, <4>1 DEF SectorsOf
    <3> QED  BY <2>9, <3>2, <3>4, SectorsAre
  <2>13. ASSUME l % SS # 0 PROVE l # CLSZ
    BY <2>5, <2>13
  <2>14. FilForm(f)
    <3>1. f.sect \in Sector \cup {0} /\ DOMAIN f.buf = Slot
      <4>1. CASE l % SS = 0
        BY <2>2, <2>10, <4>1 DEF FilForm
      <4>2. CASE l % SS # 0
        BY <1>1, <2>10, <2>12, <2>13, <4>2 DEF Vol
      <4> QED  BY <4>1, <4>2
    <3>2. e.size \in 0 .. e.size
      BY <1>5
    <3>3. f.clust \in Cluster \cup {0}
      BY <2>9, <2>10
    <3>4. /\ DOMAIN g = {"id", "flag", "err", "sclust", "objsize", "fptr", "clust", "sect", "buf", "dir"}
          /\ g.sclust \in Cluster \cup {0} /\ g.id \in Nat /\ g.err = "OK" /\ g.objsize \in Nat
      BY <2>2 DEF FilForm
    <3> QED  BY <2>2, <2>10, <3>1, <3>2, <3>3, <3>4 DEF FilForm
  <2>15. OpenedAs(f, v, place, flag, e)
    BY <2>2, <2>10, <2>14 DEF OpenedAs
  <2>16. Points(f, q)
    <3>1. f.clust = q[(f.fptr - 1) \div CLSZ + 1]
      BY <2>6, <2>10
    <3>2. ASSUME f.fptr % SS # 0
          PROVE  f.sect = clst2sect(f.clust) + (f.fptr % CLSZ) \div SS
      <4>1. e.size % SS # 0
        BY <2>10, <3>2
      <4>2. l # CLSZ /\ e.size % CLSZ = l /\ l % SS # 0
        BY <2>6, <4>1
      <4>3. f.sect = sect /\ sect = clst2sect(f.clust) + l \div SS
        BY <2>10, <2>11, <4>2
      <4> QED  BY <2>10, <4>2, <4>3
    <3> QED  BY <3>1, <3>2 DEF Points
  <2> QED  BY <2>15, <2>16 DEF q
<1> QED  BY <1>8, <1>9

(* An entry that is as the tree says may be of a file that is to change.   *)
LEMMA Weaker ==
  ASSUME NEW v, NEW ch, NEW tab, Good(v, ch, tab, << 0, 0 >>), NEW but
  PROVE  Good(v, ch, tab, but)
<1>1. ASSUME NEW h \in DOMAIN tab, NEW i \in DOMAIN tab[h]
      PROVE  /\ IsLike(At(v, Slotted(ch[h], i)), tab[h][i])
             /\ At(v, Slotted(ch[h], i)) = tab[h][i]
  <2>1. RowOf(v, ch, tab, << 0, 0 >>, h, i)
    BY RowFacts
  <2> QED  BY <2>1 DEF RowOf, PlaceOf
<1> QED  BY <1>1 DEF Good, Held

(* A file object is made for an entry of the tree.                         *)
LEMMA Handing ==
  ASSUME NEW v, NEW ch, NEW tab, Good(v, ch, tab, << 0, 0 >>), TreeForm(ch, tab),
         NEW g \in DOMAIN tab, NEW i \in Shown(tab[g]), "DIR" \notin tab[g][i].attr,
         NEW p, p = Slotted(ch[g], i), NEW flag, "DIRTY" \notin flag,
         Told(v, Opened(v, p, flag))
  PROVE  Sound(v, Opened(v, p, flag))
<1> DEFINE f == Opened(v, p, flag)
           e == tab[g][i]
<1>1. Chained(v.fat, ch) /\ Vol(v)
  BY DEF Good
<1>2. i \in DOMAIN tab[g] /\ IsEntry(e) /\ EntryIsSound(ch, tab, g, e)
  BY <1>1, EntryFacts
<1>3. e = At(v, p)
  <2>1. RowOf(v, ch, tab, << 0, 0 >>, g, i)
    BY <1>2, RowFacts
  <2> QED  BY <2>1 DEF RowOf, PlaceOf
<1> HIDE DEF e
<1>4. Good(v, ch, tab, But(v, f))
  <2> HIDE DEF f
  <2> QED  BY Weaker
<1>5. "DIR" \notin e.attr
  BY DEF e
<1>6. OpenedAs(f, v, p, flag, e) /\ Filed(Call(v, f, 0), ch, tab, But(v, f))
  <2> DEFINE b == But(v, f)
  <2>1. Good(v, ch, tab, b)
    BY <1>4
  <2> HIDE DEF b
  <2>2. OpenedAs(f, v, p, flag, e) /\ Filed(Call(v, f, 0), ch, tab, b)
    BY <1>2, <1>3, <1>5, <2>1, OpenedIs
  <2> QED  BY <2>2 DEF b
<1> HIDE DEF f
<1>7. IsFor(v, f, ch, tab, g, i)
  BY <1>5, <1>6 DEF IsFor, OpenedAs, e
<1>8. HasEntry(v, f, ch, tab)
  BY <1>7 DEF HasEntry
<1>9. f.id <= v.id /\ FilForm(f)
  <2>1. f.id = v.id /\ FilForm(f) /\ v.id \in Nat
    BY <1>1, <1>6 DEF OpenedAs, Vol
  <2> QED  BY <2>1
<1>10. Told(v, f)
  BY DEF f
<1>11. Healthy(v, f, ch, tab)
  BY <1>4, <1>8, <1>9, <1>10 DEF Healthy
<1> QED  BY <1>11 DEF Sound, f

(* What is told of a volume that a call with no file open has changed.     *)
LEMMA ToldFresh ==
  ASSUME NEW v, NEW f, Told(v, f), ~IsOpen(v, f), v.mounted, NEW w, Keeps(v, w),
         NEW g, g.id = w.id,
         "MODIFIED" \in g.flag \/ Free(w) = Free(v)
  PROVE  Told(w, g)
<1>1. w.mounted = v.mounted /\ w.id = v.id /\ w.wflag = v.wflag
  BY DEF Keeps
<1>2. IsOpen(w, g)
  BY <1>1 DEF IsOpen
<1>3. Pending(v, f) => w.wflag
  BY <1>1 DEF Pending
<1> QED  BY <1>2, <1>3, ToldOn

OpenedFlag(v, p, flag) == Opened(v, p, flag).id = v.id /\ Opened(v, p, flag).flag = flag

(* The file exists, and is opened as it is.                                *)
LEMMA RowOpened ==
  ASSUME NEW v, NEW ch, NEW tab, Good(v, ch, tab, << 0, 0 >>), TreeForm(ch, tab),
         NEW g \in DOMAIN tab, NEW i \in Shown(tab[g]), "DIR" \notin tab[g][i].attr,
         NEW p, p = Slotted(ch[g], i), NEW flag, "DIRTY" \notin flag
  PROVE  OpenedFlag(v, p, flag) /\ At(v, p) = tab[g][i]
<1> DEFINE e == tab[g][i]
<1>1. Chained(v.fat, ch) /\ Vol(v)
  BY DEF Good
<1>2. i \in DOMAIN tab[g] /\ IsEntry(e) /\ EntryIsSound(ch, tab, g, e)
  BY <1>1, EntryFacts
<1>3. e = At(v, p)
  <2>1. RowOf(v, ch, tab, << 0, 0 >>, g, i)
    BY <1>2, RowFacts
  <2> QED  BY <2>1 DEF RowOf, PlaceOf
<1>4. "DIR" \notin e.attr
  OBVIOUS
<1> HIDE DEF e
<1>5. OpenedAs(Opened(v, p, flag), v, p, flag, e)
  BY <1>2, <1>3, <1>4, OpenedIs
<1> QED  BY <1>3, <1>5 DEF OpenedAs, OpenedFlag, e

(* A file is opened as it is.                                              *)
LEMMA OpenOld ==
  ASSUME NEW v, NEW f, NEW ch, NEW tab, Healthy(v, f, ch, tab), ~IsOpen(v, f), v.mounted,
         NEW g \in DOMAIN tab, NEW i \in Shown(tab[g]), "DIR" \notin tab[g][i].attr,
         NEW p, p = Slotted(ch[g], i), NEW flag, "DIRTY" \notin flag
  PROVE  Sound(v, Opened(v, p, flag))
<1>1. Good(v, ch, tab, << 0, 0 >>) /\ TreeForm(ch, tab) /\ Told(v, f)
  BY DEF Healthy, But
<1>2. OpenedFlag(v, p, flag)
  BY <1>1, RowOpened
<1>3. Keeps(v, v)
  BY KeepsSame
<1>4. Told(v, Opened(v, p, flag))
  <2> DEFINE x == Opened(v, p, flag)
  <2>1. x.id = v.id
    BY <1>2 DEF OpenedFlag
  <2> HIDE DEF x
  <2>2. Told(v, x)
    BY <1>1, <1>3, <2>1, ToldFresh
  <2> QED  BY <2>2 DEF x
<1> QED  BY <1>1, <1>4, Handing

(* A file that was changed, or has its entry since, is opened.             *)
LEMMA OpenChanged ==
  ASSUME NEW v, NEW f, Told(v, f), ~IsOpen(v, f), v.mounted, NEW w, Keeps(v, w),
         NEW ch, NEW tab, Good(w, ch, tab, << 0, 0 >>), TreeForm(ch, tab),
         NEW g \in DOMAIN tab, NEW i \in Shown(tab[g]), "DIR" \notin tab[g][i].attr,
         NEW p, p = Slotted(ch[g], i), NEW flag, "DIRTY" \notin flag, "MODIFIED" \in flag
  PROVE  Sound(w, Opened(w, p, flag))
<1>1. OpenedFlag(w, p, flag)
  BY RowOpened
<1>2. Told(w, Opened(w, p, flag))
  <2> DEFINE x == Opened(w, p, flag)
  <2>1. x.id = w.id /\ x.flag = flag
    BY <1>1 DEF OpenedFlag
  <2> HIDE DEF x
  <2>2. Told(w, x)
    BY <2>1, ToldFresh
  <2> QED  BY <2>2 DEF x
<1> QED  BY <1>2, Handing

(* FA_CREATE_ALWAYS: the chain of the file goes.                           *)
Emptied(e) == Entry(e.name, {}, 0, 0)

(* The entry of a file that was emptied.                                   *)
LEMMA EmptiedIs ==
  ASSUME NEW e, Plain(e), NEW x, x = Emptied(e)
  PROVE  /\ IsEntry(x) /\ x.name = e.name /\ x.attr = {} /\ x.sclust = 0 /\ x.size = 0
         /\ "DIR" \notin x.attr /\ "VOL" \notin x.attr /\ Plain(x)
  BY DEF Emptied, Entry, IsEntry, Plain

Overwritten(v, w, ch, tab, g, i) ==
  /\ Keeps(v, w)
  /\ \E dh : Good(w, dh, Set(tab, g, i, Emptied(tab[g][i])), << 0, 0 >>)
             /\ TreeForm(dh, Set(tab, g, i, Emptied(tab[g][i]))) /\ dh[g] = ch[g]

(* FA_CREATE_ALWAYS empties the file, and frees its chain.                 *)
LEMMA Overwriting ==
  ASSUME NEW v, NEW ch, NEW tab, Good(v, ch, tab, << 0, 0 >>), TreeForm(ch, tab),
         NEW g \in DOMAIN tab, NEW i \in Shown(tab[g]), "DIR" \notin tab[g][i].attr
  PROVE  Overwritten(v, Overwrite(v, Slotted(ch[g], i)), ch, tab, g, i)
<1> DEFINE e == tab[g][i]
           p == Slotted(ch[g], i)
           x == Emptied(e)
           t == Set(tab, g, i, x)
           u == Put(v, p, x)
           s == e.sclust
<1>1. Chained(v.fat, ch) /\ Vol(v) /\ Tabular(ch, tab)
  BY DEF Good
<1>2. i \in DOMAIN tab[g] /\ IsEntry(e) /\ EntryIsSound(ch, tab, g, e)
  BY <1>1, EntryFacts
<1>3. At(v, p) = e
  <2>1. RowOf(v, ch, tab, << 0, 0 >>, g, i)
    BY <1>2, RowFacts
  <2> QED  BY <2>1 DEF RowOf, PlaceOf
<1>4. /\ IsEntry(x) /\ x.name = e.name /\ x.attr = {} /\ x.sclust = 0 /\ x.size = 0
      /\ "DIR" \notin x.attr /\ "VOL" \notin x.attr
  <2>1. Plain(e)
    BY DEF Shown
  <2> HIDE DEF x, e
  <2>2. x = Emptied(e)
    BY DEF x
  <2> QED  BY <2>1, <2>2, EmptiedIs
<1>5. Overwrite(v, p) = IF s = 0 THEN u
                        ELSE [remove_chain(u, s, 0).v EXCEPT !.last_clst = s - 1]
  BY <1>3 DEF Overwrite, Emptied
<1> HIDE DEF x
<1>6. Good(u, ch, t, << 0, 0 >>) /\ Keeps(v, u) /\ SameButDisk(v, u)
  BY <1>2, PutRow
<1>7. 0 \notin DOMAIN ch /\ DOMAIN ch \subseteq Cluster
  BY <1>1, Heads
<1>8. SetOf(tab, t, g, i, x)
  BY <1>2, SetIs
<1> HIDE DEF u, t
<1>9. ASSUME NEW dh, Rechains(ch, dh, s, 0)
      PROVE  TreeForm(dh, t)
  BY <1>1, <1>4, <1>9, Updating DEF t
<1>10. CASE s = 0
  <2>1. Rechains(ch, ch, s, 0)
    BY <1>7, <1>10, RechainsSame
  <2>2. TreeForm(ch, t)
    BY <1>9, <2>1
  <2> QED  BY <1>5, <1>6, <1>10, <2>2 DEF Overwritten, t, x
<1>11. CASE s # 0
  <2> DEFINE dh == Without(ch, s)
             r == remove_chain(u, s, 0)
             w == [r.v EXCEPT !.last_clst = s - 1]
  <2>1. s \in DOMAIN ch \ DOMAIN tab
    BY <1>2, <1>11 DEF EntryIsSound
  <2>2. Chained(u.fat, ch) /\ Vol(u)
    BY <1>6 DEF Good
  <2>3. /\ Vol(r.v) /\ r.v.disk = u.disk /\ Keeps(u, r.v) /\ Chained(r.v.fat, dh)
    BY <2>1, <2>2, Removing
  <2>4. \A h \in DOMAIN t : h \in DOMAIN dh /\ dh[h] = ch[h]
    <3>1. DOMAIN t = DOMAIN tab /\ DOMAIN tab \subseteq DOMAIN ch
      BY <1>1, <1>8 DEF SetOf, Tabular
    <3> QED  BY <2>1, <3>1 DEF Without
  <2>5. Good(r.v, dh, t, << 0, 0 >>)
    <3> HIDE DEF dh, r
    <3> QED  BY <1>6, <2>3, <2>4, GoodAgain
  <2>6. /\ DOMAIN w = DOMAIN r.v /\ w.fat = r.v.fat /\ w.disk = r.v.disk /\ w.info = r.v.info
        /\ w.registered = r.v.registered /\ w.mounted = r.v.mounted /\ w.id = r.v.id
        /\ w.fsi_flag = r.v.fsi_flag /\ w.free_clst = r.v.free_clst /\ w.last_clst = s - 1
        /\ w.wflag = r.v.wflag
    <3> HIDE DEF r
    <3> QED  BY <2>3 DEF Vol
  <2>7. Overwrite(v, p) = w
    BY <1>5, <1>11
  <2> HIDE DEF w, r, dh
  <2>8. Vol(w)
    <3>1. s - 1 \in 0 .. n_fatent - 1
      BY <1>7, <2>1, Sizes
    <3> QED  BY <2>3, <2>6, <3>1 DEF Vol
  <2>9. Good(w, dh, t, << 0, 0 >>)
    BY <2>5, <2>6, <2>8, GoodSame
  <2>10. Keeps(v, w)
    <3>1. Keeps(r.v, w)
      BY <2>6, KeepsSame
    <3>2. Keeps(u, w)
      BY <2>3, <3>1, KeepsOn
    <3> QED  BY <1>6, <3>2, KeepsOn
  <2>11. TreeForm(dh, t)
    <3>1. DOMAIN dh = (DOMAIN ch \ {s}) \cup ({0} \ {0}) /\ \A y \in DOMAIN ch : y # s => dh[y] = ch[y]
      BY DEF dh, Without
    <3>2. Rechains(ch, dh, s, 0)
      BY <1>7, <3>1 DEF Rechains
    <3> QED  BY <1>9, <3>2
  <2>12. dh[g] = ch[g]
    BY <1>8, <2>4 DEF SetOf
  <2> QED  BY <2>7, <2>9, <2>10, <2>11, <2>12 DEF Overwritten, t, x
<1> QED  BY <1>10, <1>11

(* A file is opened that was emptied.                                      *)
LEMMA OpenOver ==
  ASSUME NEW v, NEW f, NEW ch, NEW tab, Healthy(v, f, ch, tab), ~IsOpen(v, f), v.mounted,
         NEW g \in DOMAIN tab, NEW i \in Shown(tab[g]), "DIR" \notin tab[g][i].attr,
         NEW p, p = Slotted(ch[g], i), NEW flag, "DIRTY" \notin flag, "MODIFIED" \in flag
  PROVE  Sound(Overwrite(v, p), Opened(Overwrite(v, p), p, flag))
<1> DEFINE w == Overwrite(v, p)
           x == Emptied(tab[g][i])
           t == Set(tab, g, i, x)
<1>1. Good(v, ch, tab, << 0, 0 >>) /\ TreeForm(ch, tab) /\ Told(v, f)
  BY DEF Healthy, But
<1>2. Overwritten(v, w, ch, tab, g, i)
  BY <1>1, Overwriting
<1>3. PICK dh : Good(w, dh, t, << 0, 0 >>) /\ TreeForm(dh, t) /\ dh[g] = ch[g]
  BY <1>2 DEF Overwritten
<1>4. Keeps(v, w)
  BY <1>2 DEF Overwritten
<1>5. Plain(tab[g][i]) /\ i \in DOMAIN tab[g]
  BY DEF Shown
<1>6. Plain(x) /\ "DIR" \notin x.attr
  BY <1>5, EmptiedIs
<1>7. SetOf(tab, t, g, i, x)
  BY <1>5, SetIs
<1> HIDE DEF w, x, t
<1>8. g \in DOMAIN t /\ i \in Shown(t[g]) /\ "DIR" \notin t[g][i].attr
  BY <1>5, <1>6, <1>7 DEF SetOf, Shown
<1>9. p = Slotted(dh[g], i)
  BY <1>3 DEF Slotted
<1> QED  BY <1>1, <1>3, <1>4, <1>8, <1>9, OpenChanged DEF w

(* The row of an entry that is new                                         *)
LEMMA FreeIsOpen ==
  ASSUME NEW t, NEW i, FreeRow(t, i)
  PROVE  OpenRow(t, i)
BY DEF FreeRow, OpenRow

(* The entry of a file that is new.                                        *)
LEMMA NewFileIs ==
  ASSUME NEW name, IsName(name), NEW x, x = Entry(name, {}, 0, 0)
  PROVE  /\ IsEntry(x) /\ Plain(x) /\ x.name = name /\ x.sclust = 0 /\ x.size = 0
         /\ "DIR" \notin x.attr /\ \A ch, tab, h : EntryIsSound(ch, tab, h, x)
<1>1. name \notin {EndName, DDEM, Dot, DotDot}
  BY NamesAre
<1>2. x.name = name /\ x.attr = {} /\ x.sclust = 0 /\ x.size = 0
  BY DEF Entry
<1>3. IsEntry(x)
  BY <1>2 DEF IsEntry
<1>4. Plain(x)
  BY <1>1, <1>2 DEF Plain
<1>5. \A ch, tab, h : EntryIsSound(ch, tab, h, x)
  BY <1>2 DEF EntryIsSound
<1> QED  BY <1>2, <1>3, <1>4, <1>5

(* The row that is registered.                                             *)
LEMMA RegisterRow ==
  ASSUME NEW tab, NEW h \in DOMAIN tab, NEW q, NEW i \in Rows(q), NEW e, Plain(e)
  PROVE  /\ h \in DOMAIN Register(tab, h, q, i, e) /\ Register(tab, h, q, i, e)[h][i] = e
         /\ i \in Shown(Register(tab, h, q, i, e)[h])
BY DEF Register, Shown

(* A file is created.                                                      *)
LEMMA OpenNew ==
  ASSUME NEW v, NEW f, NEW ch, NEW tab, Healthy(v, f, ch, tab), ~IsOpen(v, f), v.mounted,
         NEW h \in DOMAIN tab, NEW name, IsName(name),
         \A k \in Shown(tab[h]) : tab[h][k].name # name,
         NEW new, Registers(v, ch, tab, << 0, 0 >>, h, name, new),
         NEW flag, "DIRTY" \notin flag, "MODIFIED" \in flag
  PROVE  Sound(new.v, Opened(new.v, new.place, flag))
<1> DEFINE x == Entry(name, {}, 0, 0)
<1>1. Good(v, ch, tab, << 0, 0 >>) /\ TreeForm(ch, tab) /\ Told(v, f) /\ Chained(v.fat, ch)
  BY DEF Healthy, But, Good
<1>2. /\ IsEntry(x) /\ Plain(x) /\ x.name = name /\ x.sclust = 0 /\ x.size = 0
      /\ "DIR" \notin x.attr /\ \A c, t, g : EntryIsSound(c, t, g, x)
  BY NewFileIs
<1> HIDE DEF x
<1>3. PICK dh : \E i \in Rows(dh[h]) :
         /\ new.res = "OK" /\ new.place = Slotted(dh[h], i)
         /\ Longer(ch, dh, h) /\ FreeRow(tab[h], i) /\ Keeps(v, new.v)
         /\ Good(new.v, dh, Register(tab, h, dh[h], i, x), << 0, 0 >>)
  BY DEF Registers, x
<1>4. PICK i \in Rows(dh[h]) :
         /\ new.place = Slotted(dh[h], i)
         /\ Longer(ch, dh, h) /\ FreeRow(tab[h], i) /\ Keeps(v, new.v)
         /\ Good(new.v, dh, Register(tab, h, dh[h], i, x), << 0, 0 >>)
  BY <1>3
<1> DEFINE t == Register(tab, h, dh[h], i, x)
<1>5. Rooted(ch, tab, x.sclust)
  BY <1>1, <1>2, RootedIsTree
<1>6. OpenRow(tab[h], i)
  BY <1>4, FreeIsOpen
<1>7. TreeForm(dh, t)
  BY <1>1, <1>2, <1>4, <1>5, <1>6, Attaching
<1>8. h \in DOMAIN t /\ i \in Shown(t[h]) /\ "DIR" \notin t[h][i].attr
  BY <1>2, RegisterRow
<1> HIDE DEF t
<1>9. Good(new.v, dh, t, << 0, 0 >>)
  BY <1>4 DEF t
<1> QED  BY <1>1, <1>4, <1>7, <1>8, <1>9, OpenChanged

(* f_open()                                                                *)
OpenedTo(call, m, w) ==
  /\ Sound(vol', fp') /\ answer'.call = call
  /\ answer'.res = "DENIED" /\ w.res = "NO_FILE" => Free(vol') = {} \/ Room(m, w.dir) >= MAX_DIR

(* Whatever f_open() is asked to open, the volume stays sound, and it is   *)
(* refused for want of room only when there is none.                       *)
LEMMA Opening ==
  ASSUME Sound(vol, fp), NEW path \in Seq(Seq(STRING)), NEW mode,
         mode \cap {"DIRTY", "MODIFIED"} = {}, f_open(path, mode)
  PROVE  OpenedTo(<< "f_open", path, mode >>, mount_volume(vol),
                  follow_path(mount_volume(vol), path))
<1>1. PICK ch, tab : Healthy(vol, fp, ch, tab)
  BY DEF Sound
<1> DEFINE m == mount_volume(vol)
           w == follow_path(m, path)
           res == OpenResult(m, w, mode)
           old == Place(m, w.dir, w.dptr)
           fresh == mode \cup {"MODIFIED"}
           new == dir_register(m, w.dir, w.name)
           call == << "f_open", path, mode >>
<1>2. /\ ~validate(fp) /\ answer'.call = call
      /\ IF res = "NO_FILE" /\ Creating(mode)
         THEN /\ vol' = new.v /\ answer'.res = new.res
              /\ fp' = IF new.res = "OK" THEN Opened(new.v, new.place, fresh) ELSE Closed
         ELSE IF res = "OK" /\ "CREATE_ALWAYS" \in mode
         THEN vol' = Overwrite(m, old) /\ fp' = Opened(Overwrite(m, old), old, fresh)
              /\ answer'.res = "OK"
         ELSE vol' = m /\ (fp' = IF res = "OK" THEN Opened(m, old, mode) ELSE Closed)
              /\ answer'.res = res
  BY DEF f_open, Reply
<1> HIDE DEF m, w, res, old, new, fresh, call
<1>3. Ready2Use(vol, m, fp, ch, tab)
  BY <1>1, MountIs DEF m
<1>4. Healthy(m, fp, ch, tab) /\ ~IsOpen(m, fp) /\ m.mounted = m.registered
  BY <1>2, <1>3 DEF Ready2Use, validate, IsOpen
<1>5. Good(m, ch, tab, << 0, 0 >>) /\ TreeForm(ch, tab)
  BY <1>4 DEF Healthy, But
<1>6. /\ w.res \in FollowRes
      /\ Named(w) = "OK" => PathFinds(m, ch, tab, path, w)
      /\ w.res = "NO_FILE" => PathLacks(tab, path, w)
      /\ w.res = "OK" /\ w.name = NoName => w.dir = 0 /\ w.dptr = 0
      /\ m.registered \/ w.res = "NOT_ENABLED"
  BY <1>5, PathLeads DEF w
<1>7. "DIRTY" \notin mode /\ "MODIFIED" \notin mode /\ "DIRTY" \notin fresh /\ "MODIFIED" \in fresh
  BY DEF fresh
<1>8. Sound(m, Closed)
  BY <1>4, Closing
<1>9. CASE res = "OK"
  <2>1. Named(w) = "OK" /\ "DIR" \notin EntryAt(m, w.dir, w.dptr).attr
    BY <1>9 DEF res, OpenResult
  <2>2. PICK h : \E t : Leads(tab, path, w, h, t) /\ Shows(m, ch, tab, w, h)
    BY <1>6, <2>1 DEF PathFinds
  <2>3. /\ h \in DOMAIN tab /\ w.dptr \in Shown(tab[h])
        /\ old = Slotted(ch[h], w.dptr) /\ EntryAt(m, w.dir, w.dptr) = At(m, old)
    BY <2>2 DEF Leads, Shows, old
  <2>4. m.mounted
    BY <1>4, <1>6, <2>1 DEF Named
  <2>5. At(m, old) = tab[h][w.dptr]
    <3>1. w.dptr \in DOMAIN tab[h]
      BY <2>3 DEF Shown
    <3>2. RowOf(m, ch, tab, << 0, 0 >>, h, w.dptr)
      BY <1>5, <2>3, <3>1, RowFacts
    <3> QED  BY <2>3, <3>2 DEF RowOf, PlaceOf
  <2>6. "DIR" \notin tab[h][w.dptr].attr
    BY <2>1, <2>3, <2>5
  <2>7. CASE "CREATE_ALWAYS" \in mode
    <3>1. Sound(Overwrite(m, old), Opened(Overwrite(m, old), old, fresh))
      BY <1>4, <1>7, <2>3, <2>4, <2>6, OpenOver
    <3> QED  BY <1>2, <1>9, <2>7, <3>1 DEF OpenedTo, call
  <2>8. CASE "CREATE_ALWAYS" \notin mode
    <3>1. Sound(m, Opened(m, old, mode))
      BY <1>4, <1>7, <2>3, <2>4, <2>6, OpenOld
    <3> QED  BY <1>2, <1>9, <2>8, <3>1 DEF OpenedTo, call
  <2> QED  BY <2>7, <2>8
<1>10. CASE res = "NO_FILE" /\ Creating(mode)
  <2>1. Named(w) # "OK"
    <3>1. SUFFICES ASSUME Named(w) = "OK" PROVE FALSE
      OBVIOUS
    <3> DEFINE a == EntryAt(m, w.dir, w.dptr).attr
    <3>2. IF "CREATE_NEW" \in mode THEN res = "EXIST"
          ELSE IF a \cap {"RDO", "DIR"} # {} THEN res = "DENIED"
          ELSE IF "DIR" \in a THEN res = "NO_FILE"
          ELSE IF "WRITE" \in mode /\ "RDO" \in a THEN res = "DENIED" ELSE res = "OK"
      BY <1>10, <3>1 DEF res, OpenResult
    <3> HIDE DEF a
    <3>3. "DIR" \in a => a \cap {"RDO", "DIR"} # {}
      OBVIOUS
    <3> QED  BY <1>10, <3>2, <3>3
  <2>2. w.res = "NO_FILE"
    <3>1. Named(w) = "NO_FILE"
      BY <1>10, <2>1 DEF res, OpenResult
    <3> QED  BY <3>1 DEF Named
  <2>3. PICK h : \E t : Leads(tab, path, w, h, t) /\ Lacks(tab, w, h)
    BY <1>6, <2>2 DEF PathLacks
  <2>4. h \in DOMAIN tab /\ w.dir = IdOf(h) /\ IsName(w.name)
        /\ \A k \in Shown(tab[h]) : tab[h][k].name # w.name
    BY <2>3 DEF Leads, Lacks
  <2>5. m.mounted
    BY <1>4, <1>6, <2>2
  <2>6. Registers(m, ch, tab, << 0, 0 >>, h, w.name, new) \/ Denies(m, ch, h, new)
    BY <1>5, <2>4, RegisterIs DEF new
  <2>7. CASE Registers(m, ch, tab, << 0, 0 >>, h, w.name, new)
    <3>1. new.res = "OK"
      BY <2>7 DEF Registers
    <3>2. Sound(new.v, Opened(new.v, new.place, fresh))
      BY <1>4, <1>7, <2>4, <2>5, <2>7, OpenNew
    <3>3. vol' = new.v /\ fp' = Opened(new.v, new.place, fresh) /\ answer'.res = "OK"
      BY <1>2, <1>10, <3>1
    <3> QED  BY <1>2, <3>2, <3>3 DEF OpenedTo, call
  <2>8. CASE Denies(m, ch, h, new)
    <3>1. /\ new.res = "DENIED" /\ new.v = m
          /\ Len(ch[h]) * CLSZ >= MAX_DIR \/ (CountIsRight(m) => Free(m) = {})
      BY <2>8 DEF Denies
    <3>2. CountIsRight(m)
      BY <1>4, <2>5 DEF Healthy, Told
    <3>3. Room(m, w.dir) = Len(ch[h]) * CLSZ
      BY <1>5, <2>4, TableIs DEF TableFound
    <3>4. vol' = m /\ fp' = Closed
      BY <1>2, <1>10, <3>1
    <3>5. Free(vol') = {} \/ Room(m, w.dir) >= MAX_DIR
      BY <3>1, <3>2, <3>3, <3>4
    <3> QED  BY <1>2, <1>8, <3>4, <3>5 DEF OpenedTo, call, m, w
  <2> QED  BY <2>6, <2>7, <2>8
<1>11. CASE res # "OK" /\ ~(res = "NO_FILE" /\ Creating(mode))
  <2>1. vol' = m /\ fp' = Closed /\ answer'.res = res
    BY <1>2, <1>11
  <2>2. w.res = "NO_FILE" => res # "DENIED"
    <3>1. ASSUME w.res = "NO_FILE" PROVE Named(w) = "NO_FILE"
      BY <3>1 DEF Named
    <3> QED  BY <3>1 DEF res, OpenResult
  <2> QED  BY <1>2, <1>8, <2>1, <2>2 DEF OpenedTo, call, m, w
<1> QED  BY <1>9, <1>10, <1>11

(***************************************************************************)
(* Calls with a file.                                                      *)
(***************************************************************************)
LEMMA FiledLeft ==
  ASSUME NEW v, NEW f, NEW ch, NEW tab, NEW but, Filed(Call(v, f, 0), ch, tab, but), NEW n \in Nat
  PROVE  Filed(Call(v, f, n), ch, tab, but)
<1>1. /\ DOMAIN Call(v, f, n) = {"v", "fp", "left", "got", "res"} /\ Call(v, f, n).left = n
      /\ Call(v, f, n).res = "OK" /\ Call(v, f, n).fp = f /\ Call(v, f, n).v = v
      /\ Call(v, f, 0).fp = f /\ Call(v, f, 0).v = v
  BY DEF Call
<1> QED  BY <1>1 DEF Filed

(* The object of an open file, at a call                                   *)
AtCall(ch, tab) ==
  /\ Healthy(vol, fp, ch, tab) /\ IsOpen(vol, fp) /\ FilForm(fp)
  /\ \A n \in Nat : /\ Filed(Transfer(n), ch, tab, But(vol, fp)) /\ Transfer(n) = Call(vol, fp, n)
                    /\ Transfer(n).fp = fp /\ Transfer(n).v = vol /\ Transfer(n).left = n
                    /\ Transfer(n).got = << >>

(* An object that passes validate() is in step with its chain.             *)
LEMMA Calling ==
  ASSUME Sound(vol, fp), validate(fp)
  PROVE  \E ch, tab : AtCall(ch, tab)
<1>1. PICK ch, tab : Healthy(vol, fp, ch, tab)
  BY DEF Sound
<1>2. IsOpen(vol, fp) /\ FilForm(fp)
  BY <1>1 DEF validate, IsOpen, Healthy
<1>3. Filed(Call(vol, fp, 0), ch, tab, But(vol, fp))
  BY <1>1, <1>2 DEF Healthy, HasEntry, IsFor
<1>4. ASSUME NEW n \in Nat
      PROVE  /\ Filed(Transfer(n), ch, tab, But(vol, fp)) /\ Transfer(n) = Call(vol, fp, n)
             /\ Transfer(n).fp = fp /\ Transfer(n).v = vol /\ Transfer(n).left = n
             /\ Transfer(n).got = << >>
  <2>1. Transfer(n) = Call(vol, fp, n)
    BY DEF Transfer, Call
  <2> QED  BY <1>3, <2>1, FiledLeft DEF Call
<1> QED  BY <1>1, <1>2, <1>4 DEF AtCall

(* A call with a file leaves a sound volume.                               *)
LEMMA ServedCall ==
  ASSUME NEW ch, NEW tab, AtCall(ch, tab), NEW n \in Nat, NEW t,
         Served(Transfer(n), t, ch, tab, But(vol, fp))
  PROVE  Sound(t.v, t.fp)
BY ServedSound DEF AtCall

(* The position of an open file is within it.                              *)
LEMMA FiledSize ==
  ASSUME NEW ch, NEW tab, AtCall(ch, tab)
  PROVE  fp.objsize \in Nat /\ fp.fptr \in 0 .. fp.objsize
BY DEF AtCall, FilForm

(* f_read()                                                                *)
LEMMA ReadsServed ==
  ASSUME NEW s, NEW ch, NEW tab, NEW but, Filed(s, ch, tab, but), NEW t, Reads(s, t, ch, tab, but)
  PROVE  Served(s, t, ch, tab, but)
<1>1. /\ Filed(t, ch, tab, but) /\ SameButDisk(s.v, t.v) /\ Kept(s.fp, t.fp)
  BY DEF Reads
<1>2. t.fp.sclust = s.fp.sclust /\ t.fp.objsize = s.fp.objsize
  BY <1>1 DEF Kept
<1>3. Rechains(ch, ch, s.fp.sclust, t.fp.sclust)
  BY <1>2, FiledHeads, RechainsSame
<1>4. Keeps(s.v, t.v)
  BY <1>1, KeepsSame DEF SameButDisk
<1>5. Kin(s.fp, t.fp)
  <2> DEFINE A == s.fp.flag
             B == t.fp.flag
  <2>1. B \ {"DIRTY"} = A \ {"DIRTY"} /\ t.fp.id = s.fp.id /\ t.fp.dir = s.fp.dir
    BY <1>1 DEF Kept
  <2> HIDE DEF A, B
  <2>2. B \ {"DIRTY", "MODIFIED"} = A \ {"DIRTY", "MODIFIED"} /\ ("MODIFIED" \in A => "MODIFIED" \in B)
    BY <2>1
  <2> QED  BY <2>1, <2>2 DEF Kin, A, B
<1> QED  BY <1>1, <1>2, <1>3, <1>4, <1>5 DEF Served

(* f_read() leaves a sound volume.                                         *)
LEMMA ReadCall ==
  ASSUME Sound(vol, fp), NEW n \in Nat, f_read(n)
  PROVE  Sound(vol', fp')
<1> DEFINE k == Lesser(n, fp.objsize - fp.fptr)
           s == Repeat(ReadStep, Transfer(k), n)
<1>1. CASE Refusal("READ") # "OK"
  BY <1>1 DEF f_read, Reply
<1>2. CASE Refusal("READ") = "OK"
  <2>1. vol' = s.v /\ fp' = s.fp
    BY <1>2 DEF f_read, Reply
  <2>2. validate(fp)
    BY <1>2 DEF Refusal
  <2>3. PICK ch, tab : AtCall(ch, tab)
    BY <2>2, Calling
  <2>4. fp.objsize \in Nat /\ fp.fptr \in 0 .. fp.objsize
    BY <2>3, FiledSize
  <2>5. k \in Nat /\ fp.fptr + k <= fp.objsize
    BY <2>4 DEF Lesser
  <2> HIDE DEF k
  <2> DEFINE u == Transfer(k)
  <2>6. Filed(u, ch, tab, But(vol, fp)) /\ u.fp = fp /\ u.left = k
    BY <2>3, <2>5 DEF AtCall
  <2>7. u.fp.fptr + u.left <= u.fp.objsize
    BY <2>5, <2>6
  <2> HIDE DEF u
  <2>8. Reads(u, s, ch, tab, But(vol, fp))
    BY <2>6, <2>7, Reading DEF u
  <2>9. Served(u, s, ch, tab, But(vol, fp))
    <3> HIDE DEF s
    <3> QED  BY <2>6, <2>8, ReadsServed
  <2> HIDE DEF s
  <2>10. Sound(s.v, s.fp)
    BY <2>3, <2>5, <2>9, ServedCall DEF u
  <2> QED  BY <2>1, <2>10
<1> QED  BY <1>1, <1>2

(* f_write()                                                               *)
LEMMA BytesCount ==
  ASSUME NEW n \in Nat, NEW s, s.left = n, s.got = << >>
  PROVE  Counted(s, Bytes(n)) /\ Len(Bytes(n)) = n
<1> DEFINE U == {[call |-> changes + 1, at |-> k] : k \in 1 .. n}
<1>1. Bytes(n) \in [1 .. n -> U]
  BY DEF Bytes
<1> HIDE DEF U
<1>2. Bytes(n) \in Seq(U) /\ Len(Bytes(n)) = n /\ << >> \in Seq(U) /\ Len(<< >>) = 0
  BY <1>1
<1> QED  BY <1>2 DEF Counted

Marked(t) == [t EXCEPT !.fp.flag = @ \cup {"MODIFIED"}]

(* FA_MODIFIED is set at the end of a write.                               *)
LEMMA MarkedIs ==
  ASSUME NEW t, NEW ch, NEW tab, NEW but, Filed(t, ch, tab, but), NEW u, u = Marked(t)
  PROVE  /\ Filed(u, ch, tab, but) /\ u.v = t.v /\ u.fp.sclust = t.fp.sclust
         /\ u.fp.id = t.fp.id /\ u.fp.dir = t.fp.dir /\ u.fp.flag = t.fp.flag \cup {"MODIFIED"}
         /\ u.fp = [t.fp EXCEPT !.flag = @ \cup {"MODIFIED"}]
<1>1. /\ DOMAIN t = {"v", "fp", "left", "got", "res"}
      /\ DOMAIN t.fp = {"id", "flag", "err", "sclust", "objsize", "fptr", "clust", "sect", "buf", "dir"}
  BY DEF Filed, FilForm
<1>2. /\ DOMAIN u = DOMAIN t /\ u.v = t.v /\ u.left = t.left /\ u.got = t.got /\ u.res = t.res
      /\ u.fp = [t.fp EXCEPT !.flag = @ \cup {"MODIFIED"}]
  BY <1>1 DEF Marked
<1>3. /\ DOMAIN u.fp = DOMAIN t.fp /\ u.fp.id = t.fp.id /\ u.fp.err = t.fp.err
      /\ u.fp.sclust = t.fp.sclust /\ u.fp.objsize = t.fp.objsize /\ u.fp.fptr = t.fp.fptr
      /\ u.fp.clust = t.fp.clust /\ u.fp.sect = t.fp.sect /\ u.fp.buf = t.fp.buf
      /\ u.fp.dir = t.fp.dir /\ u.fp.flag = t.fp.flag \cup {"MODIFIED"}
  BY <1>1, <1>2
<1>4. FilForm(u.fp)
  BY <1>3 DEF Filed, FilForm
<1>5. \A q : (Points(t.fp, q) => Points(u.fp, q)) /\ (Buffers(t.fp, q) => Buffers(u.fp, q))
  BY <1>3 DEF Points, Buffers
<1>6. "DIRTY" \in u.fp.flag <=> "DIRTY" \in t.fp.flag
  BY <1>3
<1>7. Filed(u, ch, tab, but)
  <2>1. CASE t.fp.sclust = 0
    BY <1>2, <1>3, <1>4, <1>6, <2>1 DEF Filed
  <2>2. CASE t.fp.sclust # 0
    BY <1>2, <1>3, <1>4, <1>5, <2>2 DEF Filed
  <2> QED  BY <2>1, <2>2
<1> QED  BY <1>2, <1>3, <1>7

(* Such a file object is of the same file.                                 *)
LEMMA MarkedKin ==
  ASSUME NEW f, NEW g, NEW h, Kin(f, g), h.id = g.id, h.dir = g.dir,
         h.flag = g.flag \cup {"MODIFIED"}
  PROVE  Kin(f, h) /\ "MODIFIED" \in h.flag
<1> DEFINE A == f.flag
           B == g.flag
           C == h.flag
<1>1. /\ B \ {"DIRTY", "MODIFIED"} = A \ {"DIRTY", "MODIFIED"} /\ C = B \cup {"MODIFIED"}
      /\ h.id = f.id /\ h.dir = f.dir
  BY DEF Kin
<1> HIDE DEF A, B, C
<1>2. C \ {"DIRTY", "MODIFIED"} = A \ {"DIRTY", "MODIFIED"} /\ "MODIFIED" \in C
  BY <1>1
<1> QED  BY <1>1, <1>2 DEF Kin, A, C

(* What was told of the free clusters is right, and still is.              *)
LEMMA FullIs ==
  ASSUME NEW ch, NEW tab, AtCall(ch, tab), NEW w, Keeps(vol, w), Full(w)
  PROVE  Free(w) = {}
<1>1. CountIsRight(vol)
  BY DEF AtCall, Healthy, Told, IsOpen
<1> QED  BY <1>1 DEF Keeps, Full

(* f_write() leaves a sound volume, and writes less than it was asked to   *)
(* only when that is full.                                                 *)
LEMMA WriteCall ==
  ASSUME Sound(vol, fp), NEW n \in Nat, f_write(n)
  PROVE  /\ Sound(vol', fp') /\ answer'.call = << "f_write", Bytes(n) >>
         /\ answer'.res = "OK" => answer'.out[1] = Len(Bytes(n)) \/ Free(vol') = {}
<1> DEFINE b == Bytes(n)
           u == WriteAll(Transfer(n), b, n)
<1>1. CASE Refusal("WRITE") # "OK"
  <2>1. /\ vol' = vol /\ fp' = fp
        /\ answer' = [call |-> << "f_write", b >>, res |-> Refusal("WRITE"), out |-> << >>]
    BY <1>1 DEF f_write, Reply
  <2> QED  BY <1>1, <2>1
<1>2. CASE Refusal("WRITE") = "OK"
  <2>1. /\ vol' = u.v
        /\ fp' = (IF u.res = "OK" THEN [u.fp EXCEPT !.flag = @ \cup {"MODIFIED"}] ELSE u.fp)
        /\ answer' = [call |-> << "f_write", b >>, res |-> u.res, out |-> << Len(u.got) >>]
    <3> HIDE DEF b
    <3> QED  BY <1>2 DEF f_write, Reply, b
  <2>3. validate(fp)
    BY <1>2 DEF Refusal
  <2>4. PICK ch, tab : AtCall(ch, tab)
    BY <2>3, Calling
  <2> DEFINE r == Transfer(n)
             but == But(vol, fp)
  <2>5. Filed(r, ch, tab, but) /\ r.fp = fp /\ r.left = n /\ r.v = vol /\ r.got = << >>
    BY <2>4 DEF AtCall
  <2> HIDE DEF r, but
  <2>6. Counted(r, b) /\ Len(b) = n
    BY <2>5, BytesCount
  <2> HIDE DEF b, u
  <2>7. n <= n
    OBVIOUS
  <2>8. Writes(r, u, ch, tab, but, b) /\ u.left = 0
    BY <2>5, <2>6, <2>7, Writing DEF u, r
  <2>9. PICK dh : /\ Filed(u, dh, tab, but) /\ Rechains(ch, dh, fp.sclust, u.fp.sclust)
                  /\ Keeps(vol, u.v) /\ Kin(fp, u.fp) /\ Accounts(u, b)
    BY <2>5, <2>8 DEF Writes
  <2> DEFINE t == Marked(u)
  <2>10. /\ Filed(t, dh, tab, but) /\ t.v = u.v /\ t.fp.sclust = u.fp.sclust
         /\ t.fp.id = u.fp.id /\ t.fp.dir = u.fp.dir /\ t.fp.flag = u.fp.flag \cup {"MODIFIED"}
         /\ t.fp = [u.fp EXCEPT !.flag = @ \cup {"MODIFIED"}]
    BY <2>9, MarkedIs
  <2> HIDE DEF t
  <2>11. Kin(fp, t.fp) /\ "MODIFIED" \in t.fp.flag
    BY <2>9, <2>10, MarkedKin
  <2>12. Served(r, t, ch, tab, but)
    BY <2>5, <2>9, <2>10, <2>11 DEF Served
  <2>13. Sound(t.v, t.fp)
    BY <2>4, <2>12, ServedCall DEF r, but
  <2>14. u.res = "OK"
    BY <2>9 DEF Filed
  <2>15. vol' = t.v /\ fp' = t.fp
    BY <2>1, <2>10, <2>14
  <2>16. Len(u.got) = n \/ Free(u.v) = {}
    <3>1. CASE Counted(u, b)
      <4>1. Len(u.got) + u.left = Len(b) /\ Len(u.got) \in Nat
        BY <3>1 DEF Counted
      <4> QED  BY <2>6, <2>8, <4>1
    <3>2. CASE Full(u.v)
      BY <2>4, <2>9, <3>2, FullIs
    <3> QED  BY <2>9, <3>1, <3>2 DEF Accounts, Full
  <2>17. answer'.call = << "f_write", b >> /\ answer'.out[1] = Len(u.got)
    BY <2>1
  <2> QED  BY <2>6, <2>10, <2>13, <2>15, <2>16, <2>17 DEF b
<1> QED  BY <1>1, <1>2

(* f_lseek()                                                               *)
LEMMA Rewinding ==
  ASSUME NEW s, NEW ch, NEW tab, NEW but, Filed(s, ch, tab, but),
         NEW t, t = [s EXCEPT !.fp.fptr = 0]
  PROVE  Served(s, t, ch, tab, but) /\ t.fp.fptr = 0
<1>1. /\ DOMAIN s = {"v", "fp", "left", "got", "res"}
      /\ DOMAIN s.fp = {"id", "flag", "err", "sclust", "objsize", "fptr", "clust", "sect", "buf", "dir"}
      /\ s.fp.objsize \in Nat
  BY DEF Filed, FilForm
<1>2. /\ DOMAIN t = DOMAIN s /\ t.v = s.v /\ t.left = s.left /\ t.got = s.got /\ t.res = s.res
      /\ t.fp = [s.fp EXCEPT !.fptr = 0]
  BY <1>1
<1>3. /\ DOMAIN t.fp = DOMAIN s.fp /\ t.fp.id = s.fp.id /\ t.fp.err = s.fp.err
      /\ t.fp.sclust = s.fp.sclust /\ t.fp.objsize = s.fp.objsize /\ t.fp.fptr = 0
      /\ t.fp.clust = s.fp.clust /\ t.fp.sect = s.fp.sect /\ t.fp.buf = s.fp.buf
      /\ t.fp.dir = s.fp.dir /\ t.fp.flag = s.fp.flag
  BY <1>1, <1>2
<1>4. FilForm(t.fp)
  <2>1. 0 \in 0 .. s.fp.objsize
    BY <1>1
  <2> QED  BY <1>3, <2>1 DEF Filed, FilForm
<1>5. \A q : Points(t.fp, q) /\ (Buffers(s.fp, q) => Buffers(t.fp, q))
  <2>1. 0 % SS = 0
    BY Sizes
  <2> QED  BY <1>3, <2>1 DEF Points, Buffers
<1>6. Filed(t, ch, tab, but)
  <2>1. CASE s.fp.sclust = 0
    BY <1>2, <1>3, <1>4, <2>1 DEF Filed
  <2>2. CASE s.fp.sclust # 0
    BY <1>2, <1>3, <1>4, <1>5, <2>2 DEF Filed
  <2> QED  BY <2>1, <2>2
<1>7. Rechains(ch, ch, s.fp.sclust, t.fp.sclust)
  BY <1>3, FiledHeads, RechainsSame
<1>8. Keeps(s.v, t.v)
  BY <1>2, KeepsSame
<1>9. Kin(s.fp, t.fp)
  BY <1>3 DEF Kin
<1> QED  BY <1>3, <1>6, <1>7, <1>8, <1>9 DEF Served

(* f_lseek() leaves a sound volume, and ends before its target only when   *)
(* that is full.                                                           *)
LEMMA SeekCall ==
  ASSUME Sound(vol, fp), NEW n \in Nat, f_lseek(n)
  PROVE  /\ Sound(vol', fp') /\ answer'.call = << "f_lseek", n >>
         /\ answer'.res = "OK" /\ "WRITE" \in fp.flag => fp'.fptr = n \/ Free(vol') = {}
<1> DEFINE ofs == IF "WRITE" \in fp.flag THEN n ELSE Lesser(n, fp.objsize)
           s == IF ofs = 0 THEN [Transfer(0) EXCEPT !.fp.fptr = 0]
                ELSE SeekEnds(Repeat(SeekStep, SeekStart(ofs), NCLST))
<1>1. /\ answer'.call = << "f_lseek", n >>
      /\ IF ~validate(fp) THEN vol' = vol /\ fp' = fp /\ answer'.res = "INVALID_OBJECT"
         ELSE IF fp.err # "OK" THEN vol' = vol /\ fp' = fp /\ answer'.res = fp.err
         ELSE vol' = s.v /\ fp' = s.fp
  BY DEF f_lseek, Reply
<1>2. CASE ~validate(fp)
  BY <1>1, <1>2
<1>3. CASE validate(fp)
  <2>1. PICK ch, tab : AtCall(ch, tab)
    BY <1>3, Calling
  <2>2. vol' = s.v /\ fp' = s.fp
    BY <1>1, <1>3, <2>1 DEF AtCall, FilForm
  <2> DEFINE r == Transfer(0)
             but == But(vol, fp)
  <2>3. 0 \in Nat /\ Filed(r, ch, tab, but) /\ r.fp = fp /\ r.v = vol
    BY <2>1 DEF AtCall
  <2>4. fp.objsize \in Nat
    BY <2>1, FiledSize
  <2>5. ofs \in Nat /\ ("WRITE" \in fp.flag => ofs = n) /\ ("WRITE" \in fp.flag \/ ofs <= fp.objsize)
    BY <2>4 DEF Lesser
  <2> HIDE DEF ofs
  <2>6. Served(r, s, ch, tab, but) /\ (s.fp.fptr = ofs \/ Full(s.v))
    <3>1. CASE ofs = 0
      <4>1. s = [r EXCEPT !.fp.fptr = 0]
        BY <3>1
      <4> HIDE DEF r, s, but
      <4> QED  BY <2>3, <3>1, <4>1, Rewinding
    <3>2. CASE ofs # 0
      <4>1. s = SeekEnds(Repeat(SeekStep, SeekStart(ofs), NCLST))
        BY <3>2
      <4> HIDE DEF but
      <4>2. Sought(r, SeekEnds(Repeat(SeekStep, SeekStart(ofs), NCLST)), ofs, ch, tab, but)
        BY <2>3, <2>5, <3>2, Seeking
      <4> HIDE DEF r, s
      <4> QED  BY <4>1, <4>2 DEF Sought
    <3> QED  BY <3>1, <3>2
  <2> HIDE DEF s
  <2>7. Sound(s.v, s.fp)
    BY <2>1, <2>3, <2>6, ServedCall
  <2>8. Keeps(vol, s.v)
    <3> HIDE DEF r
    <3> QED  BY <2>3, <2>6 DEF Served
  <2>9. Full(s.v) => Free(s.v) = {}
    BY <2>1, <2>8, FullIs
  <2> QED  BY <1>1, <2>2, <2>5, <2>6, <2>7, <2>9
<1> QED  BY <1>2, <1>3

(* f_truncate(), f_sync() and f_close()                                    *)
LEMMA TruncateCall ==
  ASSUME Sound(vol, fp), f_truncate
  PROVE  Sound(vol', fp')
<1>1. CASE Refusal("WRITE") # "OK"
  BY <1>1 DEF f_truncate, Reply
<1>2. CASE Refusal("WRITE") = "OK"
  <2>1. vol' = Truncated.v /\ fp' = Truncated.fp
    BY <1>2 DEF f_truncate, Reply
  <2>2. PICK ch, tab : AtCall(ch, tab)
    BY <1>2, Calling DEF Refusal
  <2>3. Filed(Transfer(0), ch, tab, But(vol, fp)) /\ 0 \in Nat
    BY <2>2 DEF AtCall
  <2>4. Served(Transfer(0), Truncated, ch, tab, But(vol, fp))
    BY <2>3, Truncating
  <2>5. Sound(Truncated.v, Truncated.fp)
    BY <2>2, <2>3, <2>4, ServedCall
  <2> QED  BY <2>1, <2>5
<1> QED  BY <1>1, <1>2

(* f_sync() and f_close() leave a sound volume.                            *)
LEMMA SyncCall ==
  ASSUME Sound(vol, fp), f_sync \/ f_close
  PROVE  Sound(vol', fp')
<1>1. CASE ~validate(fp)
  BY <1>1 DEF f_sync, f_close, Reply
<1>2. CASE validate(fp)
  <2>1. PICK ch, tab : AtCall(ch, tab)
    BY <1>2, Calling
  <2>2. Sound(Synced.v, Synced.fp) /\ Sound(Synced.v, Closed)
    BY <2>1, Syncing DEF AtCall
  <2>3. vol' = Synced.v /\ (fp' = Synced.fp \/ fp' = Closed)
    BY <1>2 DEF f_sync, f_close, Reply
  <2> QED  BY <2>2, <2>3
<1> QED  BY <1>1, <1>2

(***************************************************************************)
(* Calls that leave the open file alone.                                   *)
(***************************************************************************)
Carried(v, f, ch, tab, dh, t) ==
  IsOpen(v, f) =>
    \E g \in DOMAIN tab : \E i \in Shown(tab[g]) :
      /\ IsFor(v, f, ch, tab, g, i)
      /\ g \in DOMAIN t /\ i \in Shown(t[g]) /\ t[g][i] = tab[g][i]
      /\ Slotted(dh[g], i) = Slotted(ch[g], i)
      /\ f.sclust # 0 => f.sclust \in DOMAIN dh \ DOMAIN t /\ dh[f.sclust] = ch[f.sclust]

(* The file object is what it was, and so is its entry.                    *)
LEMMA Carrying ==
  ASSUME NEW v, NEW f, NEW ch, NEW tab, Healthy(v, f, ch, tab),
         NEW w, NEW dh, NEW t, Good(w, dh, t, But(v, f)), TreeForm(dh, t), Told(w, f),
         w.id = v.id, w.mounted = v.mounted, Carried(v, f, ch, tab, dh, t)
  PROVE  Healthy(w, f, dh, t)
<1>1. (IsOpen(w, f) <=> IsOpen(v, f)) /\ But(w, f) = But(v, f)
  BY DEF IsOpen, But
<1>2. FilForm(f) /\ f.id <= w.id
  BY DEF Healthy
<1>3. ASSUME IsOpen(w, f) PROVE HasEntry(w, f, dh, t)
  <2>1. PICK g \in DOMAIN tab : \E i \in Shown(tab[g]) :
          /\ IsFor(v, f, ch, tab, g, i)
          /\ g \in DOMAIN t /\ i \in Shown(t[g]) /\ t[g][i] = tab[g][i]
          /\ Slotted(dh[g], i) = Slotted(ch[g], i)
          /\ f.sclust # 0 => f.sclust \in DOMAIN dh \ DOMAIN t /\ dh[f.sclust] = ch[f.sclust]
    BY <1>1, <1>3 DEF Carried
  <2>2. PICK i \in Shown(tab[g]) :
          /\ IsFor(v, f, ch, tab, g, i)
          /\ g \in DOMAIN t /\ i \in Shown(t[g]) /\ t[g][i] = tab[g][i]
          /\ Slotted(dh[g], i) = Slotted(ch[g], i)
          /\ f.sclust # 0 => f.sclust \in DOMAIN dh \ DOMAIN t /\ dh[f.sclust] = ch[f.sclust]
    BY <2>1
  <2>3. /\ f.dir = Slotted(ch[g], i) /\ "DIR" \notin tab[g][i].attr
        /\ tab[g][i].sclust = f.sclust /\ tab[g][i].size = f.objsize
        /\ Filed(Call(v, f, 0), ch, tab, But(v, f))
    BY <2>2 DEF IsFor
  <2>4. /\ DOMAIN Call(w, f, 0) = {"v", "fp", "left", "got", "res"} /\ Call(w, f, 0).left = 0
        /\ Call(w, f, 0).res = "OK" /\ Call(w, f, 0).fp = f /\ Call(w, f, 0).v = w
        /\ Call(v, f, 0).fp = f /\ 0 \in Nat
    BY DEF Call
  <2>5. Filed(Call(w, f, 0), dh, t, But(v, f))
    <3>1. CASE f.sclust = 0
      BY <1>2, <2>3, <2>4, <3>1 DEF Filed
    <3>2. CASE f.sclust # 0
      BY <1>2, <2>2, <2>3, <2>4, <3>2 DEF Filed
    <3> QED  BY <3>1, <3>2
  <2>6. IsFor(w, f, dh, t, g, i)
    BY <1>1, <2>2, <2>3, <2>5 DEF IsFor
  <2> QED  BY <2>2, <2>6 DEF HasEntry
<1> QED  BY <1>1, <1>2, <1>3 DEF Healthy

(* A tree that does not change has the open file.                          *)
LEMMA CarriedSame ==
  ASSUME NEW v, NEW f, NEW ch, NEW tab, Healthy(v, f, ch, tab)
  PROVE  Carried(v, f, ch, tab, ch, tab)
<1> SUFFICES ASSUME IsOpen(v, f)
             PROVE  Carried(v, f, ch, tab, ch, tab)
  BY DEF Carried
<1>1. PICK g \in DOMAIN tab : \E i \in Shown(tab[g]) : IsFor(v, f, ch, tab, g, i)
  BY DEF Healthy, HasEntry
<1>2. PICK i \in Shown(tab[g]) : IsFor(v, f, ch, tab, g, i)
  BY <1>1
<1>3. f.sclust # 0 => f.sclust \in DOMAIN ch \ DOMAIN tab
  BY <1>2 DEF IsFor, Filed, Call
<1> QED  BY <1>1, <1>2, <1>3 DEF Carried

(* Neither the FAT nor the sectors change.                                 *)
LEMMA HealthSame ==
  ASSUME NEW v, NEW f, NEW ch, NEW tab, Healthy(v, f, ch, tab),
         NEW w, Vol(w), w.fat = v.fat, w.disk = v.disk, w.id = v.id, w.mounted = v.mounted,
         Told(w, f)
  PROVE  Healthy(w, f, ch, tab)
<1>1. Good(w, ch, tab, But(v, f)) /\ TreeForm(ch, tab)
  BY GoodSame DEF Healthy
<1> QED  BY <1>1, CarriedSame, Carrying

(* The volume is mounted, and nothing else.                                *)
LEMMA QuietCall ==
  ASSUME Sound(vol, fp), vol' = mount_volume(vol) \/ vol' = vol, fp' = fp
  PROVE  Sound(vol', fp')
<1>1. PICK ch, tab : Healthy(vol, fp, ch, tab)
  BY DEF Sound
<1>2. Ready2Use(vol, mount_volume(vol), fp, ch, tab)
  BY <1>1, MountIs
<1> QED  BY <1>1, <1>2 DEF Ready2Use, Sound

(* f_getfree()                                                             *)
LEMMA Counting ==
  ASSUME NEW m, NEW f, NEW ch, NEW tab, Healthy(m, f, ch, tab), m.mounted,
         NEW n, n = (IF m.free_clst <= NCLST THEN m.free_clst ELSE Cardinality(Free(m))),
         NEW w, w = [m EXCEPT !.free_clst = n, !.fsi_flag = @ \/ m.free_clst > NCLST]
  PROVE  Sound(w, f)
<1>1. Vol(m) /\ Told(m, f) /\ CountIsRight(m)
  BY DEF Healthy, Good, Told
<1>2. /\ DOMAIN w = DOMAIN m /\ w.fat = m.fat /\ w.disk = m.disk /\ w.info = m.info
      /\ w.registered = m.registered /\ w.mounted = m.mounted /\ w.id = m.id
      /\ w.wflag = m.wflag /\ w.last_clst = m.last_clst /\ w.free_clst = n
      /\ w.fsi_flag = (m.fsi_flag \/ m.free_clst > NCLST)
  BY <1>1 DEF Vol
<1>3. n = Cardinality(Free(m)) /\ n \in 0 .. NCLST
  <2>1. Cardinality(Free(m)) \in 0 .. NCLST
    BY FreeIs
  <2>2. m.free_clst \in 0 .. NCLST \cup {Unknown} /\ Unknown = NCLST + 2 /\ NCLST \in Nat
    BY <1>1, Sizes DEF Vol
  <2>3. CASE m.free_clst = Unknown
    BY <2>1, <2>2, <2>3
  <2>4. CASE m.free_clst # Unknown
    BY <1>1, <2>1, <2>2, <2>4 DEF CountIsRight
  <2> QED  BY <2>3, <2>4
<1>4. Vol(w)
  <2>1. w.fsi_flag \in BOOLEAN
    BY <1>1, <1>2 DEF Vol
  <2> QED  BY <1>1, <1>2, <1>3, <2>1 DEF Vol
<1>5. Free(w) = Free(m)
  BY <1>2 DEF Free
<1>6. Told(w, f)
  <2>1. CountIsRight(w) /\ w.free_clst # Unknown
    <3>1. Unknown = NCLST + 2 /\ NCLST \in Nat
      BY Sizes
    <3> QED  BY <1>2, <1>3, <1>5, <3>1 DEF CountIsRight
  <2>2. Pending(m, f) => Pending(w, f)
    BY <1>2 DEF Pending, IsOpen
  <2> QED  BY <1>1, <1>2, <1>5, <2>1, <2>2 DEF Told
<1>7. Healthy(w, f, ch, tab)
  BY <1>2, <1>4, <1>6, HealthSame
<1> QED  BY <1>7 DEF Sound

(* f_getfree() leaves a sound volume.                                      *)
LEMMA GetFreeCall ==
  ASSUME Sound(vol, fp), f_getfree
  PROVE  Sound(vol', fp')
<1>1. PICK ch, tab : Healthy(vol, fp, ch, tab)
  BY DEF Sound
<1> DEFINE m == mount_volume(vol)
           n == IF m.free_clst <= NCLST THEN m.free_clst ELSE Cardinality(Free(m))
           w == [m EXCEPT !.free_clst = n, !.fsi_flag = @ \/ m.free_clst > NCLST]
<1>2. fp' = fp /\ IF ~m.registered THEN vol' = m ELSE vol' = w
  BY DEF f_getfree, Reply
<1> HIDE DEF m
<1>3. Healthy(m, fp, ch, tab) /\ m.mounted = m.registered
  BY <1>1, MountIs DEF Ready2Use, m
<1>4. CASE ~m.registered
  BY <1>2, <1>3, <1>4 DEF Sound
<1>5. CASE m.registered
  <2>1. m.mounted
    BY <1>3, <1>5
  <2> HIDE DEF n
  <2>2. Sound(w, fp)
    BY <1>3, <2>1, Counting DEF n
  <2> QED  BY <1>2, <1>5, <2>2
<1> QED  BY <1>4, <1>5

(* f_mount()                                                               *)
LEMMA MountCall ==
  ASSUME Sound(vol, fp), NEW how, f_mount(how)
  PROVE  Sound(vol', fp')
<1>1. PICK ch, tab : Healthy(vol, fp, ch, tab)
  BY DEF Sound
<1> DEFINE w == [vol EXCEPT !.mounted = FALSE, !.registered = how # "never"]
<1>2. /\ validate(fp) => "MODIFIED" \notin fp.flag /\ ~vol.wflag
      /\ ~vol.wflag
      /\ fp' = fp /\ vol' = IF how = "now" THEN mount_volume(w) ELSE w
  BY DEF f_mount, Reply
<1>3. IsOpen(vol, fp) => "MODIFIED" \notin fp.flag
  BY <1>2 DEF validate, IsOpen
<1>4. Sound(w, fp) /\ Sound(mount_volume(w), fp)
  BY <1>1, <1>2, <1>3, Mounting
<1> QED  BY <1>2, <1>4

(* What only looks                                                         *)
LEMMA LookCall ==
  ASSUME Sound(vol, fp), NEW path,
         f_stat(path) \/ f_opendir(path) \/ f_readdir \/ f_rewinddir \/ f_closedir
  PROVE  Sound(vol', fp')
<1>1. fp' = fp /\ (vol' = vol \/ vol' = mount_volume(vol))
  BY DEF f_stat, f_opendir, f_readdir, f_rewinddir, f_closedir, Reply
<1> QED  BY <1>1, QuietCall

(***************************************************************************)
(* Calls that change the tree.                                             *)
(***************************************************************************)
(* FSInfo is told at the end, or is to be.                                 *)
LEMMA ToldLater ==
  ASSUME NEW v, NEW f, Told(v, f), v.mounted, NEW x, Keeps(v, x), Vol(x), NEW g
  PROVE  /\ Told(sync_fs(x), g) /\ Synchronised(x, sync_fs(x))
         /\ Told([x EXCEPT !.wflag = TRUE], g)
<1> DEFINE h == [id |-> x.id, flag |-> {"MODIFIED"}]
<1>1. x.mounted = v.mounted /\ x.id = v.id
  BY DEF Keeps
<1>2. IsOpen(x, h) /\ "MODIFIED" \in h.flag
  BY <1>1 DEF IsOpen
<1> HIDE DEF h
<1>3. Told(x, h)
  BY <1>2, ToldOn
<1>4. Synchronised(x, sync_fs(x))
  BY SyncIs
<1>5. Told(sync_fs(x), g)
  BY <1>1, <1>3, <1>4, ToldNow
<1>6. Told([x EXCEPT !.wflag = TRUE], g)
  <2> DEFINE w == [x EXCEPT !.wflag = TRUE]
  <2>1. /\ w.fat = x.fat /\ w.info = x.info /\ w.registered = x.registered
        /\ w.mounted = x.mounted /\ w.id = x.id /\ w.free_clst = x.free_clst
        /\ w.fsi_flag = x.fsi_flag /\ w.wflag = TRUE
    BY DEF Vol
  <2> HIDE DEF w
  <2>2. Free(w) = Free(x)
    BY <2>1 DEF Free
  <2>3. Pending(x, h) => Pending(w, g)
    BY <2>1 DEF Pending
  <2>4. CountIsRight(x) => CountIsRight(w)
    BY <2>1, <2>2 DEF CountIsRight
  <2>5. Told(w, g)
    BY <1>3, <2>1, <2>2, <2>3, <2>4 DEF Told
  <2> QED  BY <2>5 DEF w
<1> QED  BY <1>4, <1>5, <1>6

(* A call that has changed the tree leaves a sound volume, whether FSInfo  *)
(* is told at its end or later.                                            *)
LEMMA TreeDone ==
  ASSUME NEW v, NEW f, NEW ch, NEW tab, Healthy(v, f, ch, tab), v.mounted,
         NEW x, Keeps(v, x), NEW dh, NEW t, Good(x, dh, t, But(v, f)), TreeForm(dh, t),
         Carried(v, f, ch, tab, dh, t)
  PROVE  Sound(sync_fs(x), f) /\ Sound([x EXCEPT !.wflag = TRUE], f)
<1>1. Told(v, f) /\ Vol(x) /\ x.id = v.id /\ x.mounted = v.mounted
  BY DEF Healthy, Good, Keeps
<1>2. ASSUME NEW w, Vol(w), w.fat = x.fat, w.disk = x.disk, w.id = x.id, w.mounted = x.mounted,
             Told(w, f)
      PROVE  Sound(w, f)
  <2>1. Good(w, dh, t, But(v, f))
    BY <1>2, GoodSame
  <2>2. Healthy(w, f, dh, t)
    BY <1>1, <1>2, <2>1, Carrying
  <2> QED  BY <2>2 DEF Sound
<1>3. Sound(sync_fs(x), f)
  <2> DEFINE w == sync_fs(x)
  <2>1. Told(w, f) /\ Synchronised(x, w)
    BY <1>1, ToldLater
  <2> HIDE DEF w
  <2>2. Sound(w, f)
    BY <1>2, <2>1 DEF Synchronised
  <2> QED  BY <2>2 DEF w
<1>4. Sound([x EXCEPT !.wflag = TRUE], f)
  <2> DEFINE w == [x EXCEPT !.wflag = TRUE]
  <2>1. /\ DOMAIN w = DOMAIN x /\ w.fat = x.fat /\ w.disk = x.disk /\ w.info = x.info
        /\ w.registered = x.registered /\ w.mounted = x.mounted /\ w.id = x.id
        /\ w.last_clst = x.last_clst /\ w.free_clst = x.free_clst
        /\ w.fsi_flag = x.fsi_flag /\ w.wflag = TRUE
    BY <1>1 DEF Vol
  <2>2. Told(w, f)
    BY <1>1, ToldLater
  <2> HIDE DEF w
  <2>3. Vol(w)
    BY <1>1, <2>1 DEF Vol
  <2>4. Sound(w, f)
    BY <1>2, <2>1, <2>2, <2>3
  <2> QED  BY <2>4 DEF w
<1> QED  BY <1>3, <1>4

(* A table that goes is not missed.                                        *)
LEMMA GoodLess ==
  ASSUME NEW v, NEW ch, NEW tab, NEW but, Good(v, ch, tab, but), NEW o, o # dirbase
  PROVE  Good(v, ch, Without(tab, o), but)
<1> DEFINE t == Without(tab, o)
<1>1. /\ DOMAIN t = DOMAIN tab \ {o} /\ \A h \in DOMAIN t : t[h] = tab[h]
  BY DEF Without
<1> HIDE DEF t
<1>2. Tabular(ch, t)
  BY <1>1 DEF Good, Tabular
<1>3. Held(v, ch, t, but)
  BY <1>1 DEF Good, Held
<1> QED  BY <1>2, <1>3 DEF Good, t

(* The chain of an object without an entry goes.                           *)
Removed(v, r, ch, tab, but, o) ==
  /\ r.res = "OK" /\ Keeps(v, r.v) /\ Free(r.v) = Free(v) \cup ToSet(ch[o])
  /\ Good(r.v, Without(ch, o), Without(tab, o), but)
  /\ TreeForm(Without(ch, o), Without(tab, o))

(* remove_chain() removes the chain, and the table with it.                *)
LEMMA Removal ==
  ASSUME NEW v, NEW ch, NEW tab, NEW but, Good(v, ch, tab, but),
         NEW o \in DOMAIN ch, Rooted(ch, tab, o), o \in DOMAIN tab => Shown(tab[o]) = {}
  PROVE  Removed(v, remove_chain(v, o, 0), ch, tab, but, o)
<1> DEFINE r == remove_chain(v, o, 0)
           dh == Without(ch, o)
           t == Without(tab, o)
<1>1. Chained(v.fat, ch) /\ Vol(v) /\ Tabular(ch, tab)
  BY DEF Good
<1>2. /\ r.res = "OK" /\ Vol(r.v) /\ r.v.disk = v.disk /\ Keeps(v, r.v) /\ Chained(r.v.fat, dh)
      /\ Free(r.v) = Free(v) \cup ToSet(ch[o])
  BY <1>1, Removing
<1>3. o # dirbase
  <2>1. o \in Cluster /\ 0 \notin Cluster
    BY <1>1, Heads, Sizes
  <2> QED  BY <2>1 DEF Rooted
<1>4. Good(v, ch, t, but)
  BY <1>3, GoodLess
<1>5. \A h \in DOMAIN t : h \in DOMAIN dh /\ dh[h] = ch[h]
  BY <1>1 DEF Without, Tabular
<1>6. Rooted(dh, t, 0)
  BY <1>1, Dropping
<1> HIDE DEF dh, t, r
<1>7. TreeForm(dh, t)
  BY <1>2, <1>6, RootedIsTree
<1>8. Good(r.v, dh, t, but)
  BY <1>2, <1>4, <1>5, GoodAgain
<1> QED  BY <1>2, <1>7, <1>8 DEF Removed, r, dh, t

(* f_unlink(): the entry goes, and then the chain.                         *)
Unlinking(v, p, s) == LET gone == Put(v, p, Gone)
                      IN  IF s = 0 THEN [v |-> gone, res |-> "OK"] ELSE remove_chain(gone, s, 0)
Unlinks(v, f, r) == r.res = "OK" /\ Sound(sync_fs(r.v), f)

(* An object is removed: the open file is another one.                     *)
LEMMA UnlinkIs ==
  ASSUME NEW v, NEW f, NEW ch, NEW tab, Healthy(v, f, ch, tab), v.mounted,
         NEW g \in DOMAIN tab, NEW i \in Shown(tab[g]), NEW s, s = tab[g][i].sclust,
         NEW p, p = Slotted(ch[g], i), IsOpen(v, f) => f.dir # p,
         "DIR" \in tab[g][i].attr => Shown(tab[s]) = {}
  PROVE  Unlinks(v, f, Unlinking(v, p, s))
<1> DEFINE but == But(v, f)
           t == Set(tab, g, i, Gone)
           u == Put(v, p, Gone)
           r == Unlinking(v, p, s)
<1>1. Good(v, ch, tab, but) /\ TreeForm(ch, tab) /\ Chained(v.fat, ch) /\ Tabular(ch, tab)
  BY DEF Healthy, Good
<1>2. i \in DOMAIN tab[g] /\ IsEntry(tab[g][i]) /\ EntryIsSound(ch, tab, g, tab[g][i])
  BY <1>1, EntryFacts
<1>3. Good(u, ch, t, but) /\ Keeps(v, u)
  BY <1>1, <1>2, PutRow
<1>4. Rooted(ch, t, s)
  BY <1>1, Detaching
<1>5. SetOf(tab, t, g, i, Gone)
  BY <1>2, SetIs
<1>6. Chained(u.fat, ch)
  BY <1>3 DEF Good
<1>7. /\ s = 0 => r.res = "OK" /\ r.v = u
      /\ s # 0 => r = remove_chain(u, s, 0)
  BY DEF Unlinking
<1>8. 0 \notin DOMAIN ch /\ DOMAIN ch \subseteq Cluster
  BY <1>1, Heads
<1> HIDE DEF u, r, t, but
<1>9. s # 0 => s \in DOMAIN ch
  BY <1>1, <1>2 DEF EntryIsSound, Tabular
<1>10. s \in DOMAIN tab => "DIR" \in tab[g][i].attr /\ Shown(tab[s]) = {}
  <2>1. 0 \notin DOMAIN tab
    BY <1>1, <1>8 DEF Tabular
  <2> QED  BY <1>2, <2>1 DEF EntryIsSound
<1>11. s \in DOMAIN t => Shown(t[s]) = {}
  <2>1. s \in DOMAIN tab => s # g
    BY <1>10
  <2> QED  BY <1>5, <1>10, <2>1 DEF SetOf

(* The entry of the open file is another one.                              *)
<1>12. ASSUME NEW h \in DOMAIN tab, NEW j \in Shown(tab[h]), IsFor(v, f, ch, tab, h, j), IsOpen(v, f)
       PROVE  /\ ~(h = g /\ j = i) /\ h \in DOMAIN t /\ j \in Shown(t[h]) /\ t[h][j] = tab[h][j]
              /\ h # s /\ (f.sclust # 0 => f.sclust # s /\ f.sclust \in DOMAIN ch \ DOMAIN tab)
  <2>1. f.dir = Slotted(ch[h], j) /\ tab[h][j].sclust = f.sclust
    BY <1>12 DEF IsFor
  <2>2. ~(h = g /\ j = i)
    BY <1>12, <2>1
  <2>3. h \in DOMAIN t /\ j \in Shown(t[h]) /\ t[h][j] = tab[h][j]
    BY <1>5, <2>2 DEF SetOf, Shown
  <2>4. h # s
    BY <1>10
  <2>5. f.sclust # 0 => f.sclust # s
    BY <1>1, <2>1, <2>2 DEF TreeForm, Once
  <2>6. f.sclust # 0 => f.sclust \in DOMAIN ch \ DOMAIN tab
    BY <1>12 DEF IsFor, Filed, Call
  <2> QED  BY <2>2, <2>3, <2>4, <2>5, <2>6
<1>13. IsOpen(v, f) => \E h \in DOMAIN tab : \E j \in Shown(tab[h]) : IsFor(v, f, ch, tab, h, j)
  BY DEF Healthy, HasEntry
<1>14. CASE s = 0
  <2>1. TreeForm(ch, t)
    BY <1>4, <1>6, <1>14, RootedIsTree
  <2>2. DOMAIN t = DOMAIN tab
    BY <1>5 DEF SetOf
  <2>3. Carried(v, f, ch, tab, ch, t)
    BY <1>12, <1>13, <2>2 DEF Carried
  <2>4. Sound(sync_fs(u), f)
    BY <1>3, <2>1, <2>3, TreeDone DEF but
  <2> QED  BY <1>7, <1>14, <2>4 DEF Unlinks, r
<1>15. CASE s # 0
  <2> DEFINE dh == Without(ch, s)
             z == Without(t, s)
  <2>1. Removed(u, r, ch, t, but, s)
    BY <1>3, <1>4, <1>7, <1>9, <1>11, <1>15, Removal
  <2>2. Keeps(v, r.v)
    BY <1>3, <2>1, KeepsOn DEF Removed
  <2>3. Carried(v, f, ch, tab, dh, z)
    <3>1. /\ DOMAIN dh = DOMAIN ch \ {s} /\ \A h \in DOMAIN dh : dh[h] = ch[h]
          /\ DOMAIN z = DOMAIN t \ {s} /\ \A h \in DOMAIN z : z[h] = t[h]
          /\ DOMAIN t = DOMAIN tab /\ DOMAIN tab \subseteq DOMAIN ch
      BY <1>1, <1>5 DEF Without, SetOf, Tabular
    <3> HIDE DEF dh, z
    <3>2. ASSUME NEW h \in DOMAIN tab, NEW j \in Shown(tab[h]), IsFor(v, f, ch, tab, h, j), IsOpen(v, f)
          PROVE  /\ h \in DOMAIN z /\ j \in Shown(z[h]) /\ z[h][j] = tab[h][j]
                 /\ Slotted(dh[h], j) = Slotted(ch[h], j)
                 /\ f.sclust # 0 => f.sclust \in DOMAIN dh \ DOMAIN z /\ dh[f.sclust] = ch[f.sclust]
      <4>1. /\ h \in DOMAIN t /\ j \in Shown(t[h]) /\ t[h][j] = tab[h][j] /\ h # s
            /\ f.sclust # 0 => f.sclust # s /\ f.sclust \in DOMAIN ch \ DOMAIN tab
        BY <1>12, <3>2
      <4>2. h \in DOMAIN z /\ z[h] = t[h] /\ dh[h] = ch[h]
        BY <3>1, <4>1
      <4> QED  BY <3>1, <4>1, <4>2 DEF Slotted
    <3> QED  BY <1>13, <3>2 DEF Carried
  <2>4. Good(r.v, dh, z, but) /\ TreeForm(dh, z) /\ r.res = "OK"
    BY <2>1 DEF Removed
  <2> HIDE DEF dh, z
  <2>5. Sound(sync_fs(r.v), f)
    BY <2>2, <2>3, <2>4, TreeDone DEF but
  <2> QED  BY <2>4, <2>5 DEF Unlinks, r
<1> QED  BY <1>14, <1>15

(* f_unlink() leaves a sound volume.                                       *)
LEMMA UnlinkCall ==
  ASSUME Sound(vol, fp), NEW path \in Seq(Seq(STRING)), f_unlink(path)
  PROVE  Sound(vol', fp')
<1>1. PICK ch, tab : Healthy(vol, fp, ch, tab)
  BY DEF Sound
<1> DEFINE m == mount_volume(vol)
           w == follow_path(m, path)
           place == Place(m, w.dir, w.dptr)
           e == At(m, place)
           r == Unlinking(m, place, e.sclust)
           free == ~("RDO" \in e.attr \/ ("DIR" \in e.attr /\ Listed(Table(m, e.sclust)) # {}))
<1>2. /\ fp' = fp
      /\ IF Named(w) = "OK" /\ free
         THEN /\ ~OpenFile(place)
              /\ vol' = IF r.res = "OK" THEN sync_fs(r.v) ELSE [r.v EXCEPT !.wflag = TRUE]
         ELSE vol' = m
  BY DEF f_unlink, Reply, Unlinking, dir_remove, Gone
<1> HIDE DEF m, w, place, e, r, free
<1>3. Ready2Use(vol, m, fp, ch, tab)
  BY <1>1, MountIs DEF m
<1>4. /\ Healthy(m, fp, ch, tab) /\ (IsOpen(m, fp) <=> IsOpen(vol, fp)) /\ m.mounted = m.registered
  BY <1>3 DEF Ready2Use
<1>5. Good(m, ch, tab, But(m, fp)) /\ TreeForm(ch, tab)
  BY <1>4 DEF Healthy
<1>6. CASE ~(Named(w) = "OK" /\ free)
  BY <1>2, <1>4, <1>6 DEF Sound
<1>7. CASE Named(w) = "OK" /\ free
  <2>1. PathFinds(m, ch, tab, path, w) /\ (m.registered \/ w.res = "NOT_ENABLED")
    BY <1>5, <1>7, PathLeads DEF w
  <2>2. m.mounted
    BY <1>4, <1>7, <2>1 DEF Named
  <2>3. PICK h : \E t : Leads(tab, path, w, h, t) /\ Shows(m, ch, tab, w, h)
    BY <2>1 DEF PathFinds
  <2>4. h \in DOMAIN tab /\ w.dptr \in Shown(tab[h]) /\ place = Slotted(ch[h], w.dptr)
    BY <2>3 DEF Leads, Shows, place
  <2>5. IsOpen(m, fp) => fp.dir # place
    BY <1>2, <1>4, <1>7 DEF OpenFile, validate, IsOpen
  <2>6. w.dptr \in DOMAIN tab[h] /\ EntryIsSound(ch, tab, h, tab[h][w.dptr])
    BY <1>5, <2>4, EntryFacts DEF Good
  <2>7. e = tab[h][w.dptr]
    <3>1. RowOf(m, ch, tab, But(m, fp), h, w.dptr)
      BY <1>5, <2>4, <2>6, RowFacts
    <3>2. place # << 0, 0 >>
      BY <2>4, <3>1 DEF RowOf, PlaceOf
    <3>3. place # But(m, fp)
      BY <2>5, <3>2 DEF But
    <3> QED  BY <2>4, <3>1, <3>3 DEF RowOf, e
  <2>8. ASSUME "DIR" \in e.attr PROVE Shown(tab[e.sclust]) = {}
    <3>1. e.sclust \in DOMAIN tab \ {dirbase}
      BY <2>6, <2>7, <2>8 DEF EntryIsSound
    <3>2. TableFound(m, ch, tab, e.sclust, IdOf(e.sclust)) /\ IdOf(e.sclust) = e.sclust
      BY <1>5, <3>1, TableIs DEF IdOf
    <3>3. Listed(Table(m, e.sclust)) = {}
      BY <1>7, <2>8 DEF free
    <3>4. Listed(tab[e.sclust]) = Shown(tab[e.sclust])
      BY <1>5, <3>1, ListedShown DEF TreeForm
    <3> QED  BY <3>2, <3>3, <3>4 DEF TableFound
  <2>9. Unlinks(m, fp, r)
    BY <1>4, <2>2, <2>4, <2>5, <2>7, <2>8, UnlinkIs DEF r
  <2> QED  BY <1>2, <1>7, <2>9 DEF Unlinks
<1> QED  BY <1>6, <1>7

(* A table that gets longer has its rows where they were.                  *)
LEMMA LongerPlace ==
  ASSUME NEW fat, NEW ch, Chained(fat, ch), NEW dh, NEW h, Longer(ch, dh, h),
         NEW g \in DOMAIN ch, NEW i \in Rows(ch[g])
  PROVE  Slotted(dh[g], i) = Slotted(ch[g], i)
<1>1. Strand(fat, g, ch[g])
  BY StrandOf
<1>2. i \div CLSZ + 1 \in 1 .. Len(ch[g])
  BY <1>1, RowPlace DEF PlaceOf
<1>3. CASE dh[g] = ch[g]
  BY <1>3 DEF Slotted
<1>4. CASE dh[g] # ch[g]
  <2>1. g = h /\ \E c : dh = Grown(ch, h, c)
    BY <1>4 DEF Longer
  <2>2. PICK c : dh = Grown(ch, h, c)
    BY <2>1
  <2>3. dh[g] = Append(ch[g], c)
    BY <2>1, <2>2 DEF Grown
  <2>4. ch[g] \in Seq(Cluster)
    BY <1>1 DEF Strand
  <2>5. dh[g][i \div CLSZ + 1] = ch[g][i \div CLSZ + 1]
    <3> DEFINE k == i \div CLSZ + 1
    <3>1. k \in 1 .. Len(ch[g])
      BY <1>2
    <3> HIDE DEF k
    <3>2. Append(ch[g], c)[k] = ch[g][k]
      BY <2>4, <3>1
    <3> QED  BY <2>3, <3>2 DEF k
  <2> QED  BY <2>5 DEF Slotted
<1> QED  BY <1>3, <1>4

(* A row that was registered is set.                                       *)
LEMMA SetRegister ==
  ASSUME NEW tab, NEW h \in DOMAIN tab, NEW q, NEW i \in Rows(q), NEW a, NEW b
  PROVE  Set(Register(tab, h, q, i, a), h, i, b) = Register(tab, h, q, i, b)
<1> DEFINE A == Register(tab, h, q, i, a)
           B == Register(tab, h, q, i, b)
           R(e) == [k \in Rows(q) |-> IF k = i THEN e
                                      ELSE IF k \in DOMAIN tab[h] THEN tab[h][k] ELSE NoEntry]
<1>1. /\ A = [g \in DOMAIN tab |-> IF g # h THEN tab[g] ELSE R(a)]
      /\ B = [g \in DOMAIN tab |-> IF g # h THEN tab[g] ELSE R(b)]
  BY DEF Register
<1>2. [R(a) EXCEPT ![i] = b] = R(b)
  OBVIOUS
<1> HIDE DEF A, B, R
<1>3. A[h] = R(a)
  BY <1>1
<1>4. Set(A, h, i, b) = [A EXCEPT ![h] = R(b)]
  BY <1>2, <1>3 DEF Set
<1>5. [A EXCEPT ![h] = R(b)] = B
  BY <1>1
<1> QED  BY <1>4, <1>5 DEF A, B

(* The rows of the other objects stay where they are when one is put into  *)
(* a table.                                                                *)
LEMMA RegisterKeeps ==
  ASSUME NEW fat, NEW ch, Chained(fat, ch), NEW tab, Tabular(ch, tab), NEW h \in DOMAIN tab,
         NEW dh, Longer(ch, dh, h), NEW j \in Rows(dh[h]), FreeRow(tab[h], j), NEW e,
         NEW t, t = Register(tab, h, dh[h], j, e),
         NEW g \in DOMAIN tab, NEW i \in Shown(tab[g])
  PROVE  /\ g \in DOMAIN t /\ i \in Shown(t[g]) /\ t[g][i] = tab[g][i]
         /\ Slotted(dh[g], i) = Slotted(ch[g], i) /\ DOMAIN t = DOMAIN tab
<1>1. i \in DOMAIN tab[g] /\ Plain(tab[g][i]) /\ g \in DOMAIN ch /\ DOMAIN tab[g] = Rows(ch[g])
  BY DEF Shown, Tabular
<1>2. Slotted(dh[g], i) = Slotted(ch[g], i)
  BY <1>1, LongerPlace
<1>3. DOMAIN t = DOMAIN tab
  BY DEF Register
<1>4. t[g][i] = tab[g][i] /\ i \in DOMAIN t[g]
  <2>1. CASE g # h
    BY <1>1, <2>1 DEF Register
  <2>2. CASE g = h
    <3>1. i # j
      BY <1>1, <2>2 DEF FreeRow, Plain
    <3>2. i \in Rows(dh[h])
      BY <1>1, <2>2 DEF Longer
    <3>3. t[h] = [k \in Rows(dh[h]) |-> IF k = j THEN e
                     ELSE IF k \in DOMAIN tab[h] THEN tab[h][k] ELSE NoEntry]
      BY DEF Register
    <3> QED  BY <1>1, <2>2, <3>1, <3>2, <3>3
  <2> QED  BY <2>1, <2>2
<1> QED  BY <1>1, <1>2, <1>3, <1>4 DEF Shown

(* f_mkdir(): a chain of one cluster with its table.                       *)
NewDirEntry(name, c) == Entry(name, {"DIR"}, c, 0)
Sprung(v, d, ch, tab, but, h, c) ==
  LET dh == Plus(ch, c)
      t == Also(tab, c, NewTable(c, IdOf(h)))
  IN  /\ Good(d, dh, t, but) /\ Rooted(dh, t, c) /\ Keeps(v, d)
      /\ Shown(t[c]) = {} /\ EntryIsSound(dh, t, h, NewDirEntry(NoName, c))
      /\ c \in DOMAIN dh /\ dh[c] = << c >> /\ c \in Cluster \ DOMAIN ch
      /\ DOMAIN t = DOMAIN tab \cup {c} /\ \A g \in DOMAIN tab : t[g] = tab[g]
      /\ DOMAIN dh = DOMAIN ch \cup {c} /\ \A g \in DOMAIN ch : dh[g] = ch[g]
      /\ h # c /\ c \notin DOMAIN tab /\ Free(d) \cup {c} = Free(v)

(* The table that f_mkdir() makes has no entry yet.                        *)
LEMMA MakeTable ==
  ASSUME NEW v, NEW ch, NEW tab, NEW but, Good(v, ch, tab, but), TreeForm(ch, tab),
         NEW h \in DOMAIN tab, NEW r, Allocated(v, 0, r)
  PROVE  Sprung(v, NewDir(r.v, r.clst, IdOf(h)), ch, tab, but, h, r.clst)
<1> DEFINE c == r.clst
           dh == Plus(ch, c)
           t == Also(tab, c, NewTable(c, IdOf(h)))
           d == NewDir(r.v, c, IdOf(h))
<1>1. Chained(v.fat, ch) /\ Vol(v) /\ Tabular(ch, tab)
  BY DEF Good
<1>2. /\ c \in Free(v) /\ Vol(r.v) /\ r.v.disk = v.disk /\ Keeps(v, r.v)
      /\ Free(r.v) = Free(v) \ {c}
  BY DEF Allocated
<1>3. c \in Cluster /\ c \notin DOMAIN ch
  BY <1>1, <1>2, FreeIsFree
<1>4. Chained(r.v.fat, dh)
  BY <1>1, NewChain
<1>5. /\ DOMAIN dh = DOMAIN ch \cup {c} /\ \A g \in DOMAIN ch : dh[g] = ch[g]
      /\ dh[c] = << c >>
  BY <1>3 DEF Plus
<1>6. DOMAIN tab \subseteq DOMAIN ch /\ dirbase \in DOMAIN tab
  BY <1>1 DEF Tabular
<1>7. Good(r.v, dh, tab, but)
  <2> HIDE DEF dh, c
  <2> QED  BY <1>2, <1>4, <1>5, <1>6, GoodAgain
<1>8. Good(d, dh, t, but) /\ SameButDisk(r.v, d) /\ Keeps(r.v, d)
  <2>1. c \in DOMAIN dh \ DOMAIN tab
    BY <1>3, <1>5, <1>6
  <2> HIDE DEF dh, c
  <2> QED  BY <1>5, <1>7, <2>1, NewDirIs
<1>9. Rooted(dh, t, c)
  BY <1>1, <1>3, <1>4, Sprouting
<1>10. /\ DOMAIN t = DOMAIN tab \cup {c} /\ t[c] = NewTable(c, IdOf(h))
       /\ \A g \in DOMAIN tab : t[g] = tab[g]
  BY <1>3, <1>6 DEF Also
<1>11. Strand(r.v.fat, c, << c >>) /\ c # dirbase /\ h \in Cluster /\ h # c
  <2>1. Strand(r.v.fat, c, dh[c])
    BY <1>4, <1>5, StrandOf
  <2>2. DOMAIN ch \subseteq Cluster
    BY <1>1, Heads
  <2> QED  BY <1>3, <1>5, <1>6, <2>1, <2>2
<1>12. Shown(t[c]) = {} /\ t[c][1].sclust = IdOf(h)
  <2>1. IdOf(h) \in Cluster \cup {0}
    BY <1>11 DEF IdOf
  <2> HIDE DEF t
  <2> QED  BY <1>10, <1>11, <2>1, NewTableIs
<1>13. EntryIsSound(dh, t, h, NewDirEntry(NoName, c))
  <2>1. NewDirEntry(NoName, c).sclust = c /\ NewDirEntry(NoName, c).attr = {"DIR"}
    BY DEF NewDirEntry, Entry
  <2> HIDE DEF t
  <2> QED  BY <1>10, <1>11, <1>12, <2>1 DEF EntryIsSound
<1>14. Keeps(v, d)
  BY <1>2, <1>8, KeepsOn
<1>15. Free(d) \cup {c} = Free(v)
  <2>1. Free(d) = Free(r.v)
    BY <1>8 DEF SameButDisk, Free
  <2> QED  BY <1>2, <2>1
<1> HIDE DEF t, dh, d
<1>16. c \notin DOMAIN tab
  BY <1>3, <1>6
<1> QED  BY <1>3, <1>5, <1>8, <1>9, <1>10, <1>11, <1>12, <1>13, <1>14, <1>15, <1>16 DEF Sprung, t, dh, d

(* The open file is not in the way.                                        *)
FileAside(v, f, ch, tab) ==
  IsOpen(v, f) =>
    \E g \in DOMAIN tab : \E i \in Shown(tab[g]) :
      IsFor(v, f, ch, tab, g, i) /\ (f.sclust # 0 => f.sclust \in DOMAIN ch \ DOMAIN tab)

(* The open file has its entry in the tree.                                *)
LEMMA FileIsAside ==
  ASSUME NEW v, NEW f, NEW ch, NEW tab, Healthy(v, f, ch, tab)
  PROVE  FileAside(v, f, ch, tab)
<1> SUFFICES ASSUME IsOpen(v, f) PROVE FileAside(v, f, ch, tab)
  BY DEF FileAside
<1>1. PICK g \in DOMAIN tab : \E i \in Shown(tab[g]) : IsFor(v, f, ch, tab, g, i)
  BY DEF Healthy, HasEntry
<1>2. PICK i \in Shown(tab[g]) : IsFor(v, f, ch, tab, g, i)
  BY <1>1
<1>3. f.sclust # 0 => f.sclust \in DOMAIN ch \ DOMAIN tab
  BY <1>2 DEF IsFor, Filed, Call
<1> QED  BY <1>1, <1>2, <1>3 DEF FileAside

(* The directory gets its entry.                                           *)
Grafted(n, name, c) == Put(n.v, n.place, NewDirEntry(name, c))

(* f_mkdir() puts the entry into the directory.                            *)
LEMMA Graft ==
  ASSUME NEW v, NEW f, NEW ch, NEW tab, Healthy(v, f, ch, tab), v.mounted,
         NEW h \in DOMAIN tab, NEW c, NEW d, Sprung(v, d, ch, tab, But(v, f), h, c),
         NEW name, IsName(name), \A k \in Shown(tab[h]) : tab[h][k].name # name,
         NEW n, Registers(d, Plus(ch, c), Also(tab, c, NewTable(c, IdOf(h))), But(v, f), h, name, n)
  PROVE  Sound(sync_fs(Grafted(n, name, c)), f)
<1> DEFINE ph == Plus(ch, c)
           t == Also(tab, c, NewTable(c, IdOf(h)))
           but == But(v, f)
           e == NewDirEntry(name, c)
           x == Grafted(n, name, c)
           a == Entry(name, {}, 0, 0)
<1>1. /\ Good(d, ph, t, but) /\ Rooted(ph, t, c) /\ Keeps(v, d)
      /\ Shown(t[c]) = {} /\ EntryIsSound(ph, t, h, NewDirEntry(NoName, c))
      /\ c \in DOMAIN ph /\ ph[c] = << c >> /\ c \in Cluster \ DOMAIN ch
      /\ DOMAIN t = DOMAIN tab \cup {c} /\ \A g \in DOMAIN tab : t[g] = tab[g]
      /\ DOMAIN ph = DOMAIN ch \cup {c} /\ \A g \in DOMAIN ch : ph[g] = ch[g]
      /\ h # c /\ c \notin DOMAIN tab
  BY DEF Sprung
<1>2. /\ e.name = name /\ e.attr = {"DIR"} /\ e.sclust = c /\ e.size = 0
      /\ NewDirEntry(NoName, c).attr = {"DIR"} /\ NewDirEntry(NoName, c).sclust = c
      /\ e = Entry(e.name, e.attr, e.sclust, e.size)
  BY DEF NewDirEntry, Entry
<1> HIDE DEF ph, t, but, e, a, x
<1>3. IsEntry(e) /\ Plain(e)
  <2>1. name \notin {EndName, DDEM, Dot, DotDot}
    BY NamesAre
  <2> QED  BY <1>1, <1>2, <2>1 DEF IsEntry, Plain
<1>4. EntryIsSound(ph, t, h, e)
  BY <1>1, <1>2 DEF EntryIsSound
<1>5. PICK dh : \E i \in Rows(dh[h]) :
         /\ n.res = "OK" /\ n.place = Slotted(dh[h], i)
         /\ Longer(ph, dh, h) /\ FreeRow(t[h], i) /\ Keeps(d, n.v)
         /\ Good(n.v, dh, Register(t, h, dh[h], i, a), but)
  BY DEF Registers, ph, t, but, a
<1>6. PICK i \in Rows(dh[h]) :
         /\ n.place = Slotted(dh[h], i)
         /\ Longer(ph, dh, h) /\ FreeRow(t[h], i) /\ Keeps(d, n.v)
         /\ Good(n.v, dh, Register(t, h, dh[h], i, a), but)
  BY <1>5
<1> DEFINE A == Register(t, h, dh[h], i, a)
           E == Register(t, h, dh[h], i, e)
<1>7. h \in DOMAIN t /\ t[h] = tab[h]
  BY <1>1
<1>8. Chained(d.fat, ph) /\ Tabular(ph, t)
  BY <1>1 DEF Good
<1>9. h \in DOMAIN A /\ i \in DOMAIN A[h]
  BY <1>6, <1>7 DEF Register
<1>10. Set(A, h, i, e) = E
  BY <1>6, <1>7, SetRegister
<1>11. TreeForm(dh, E)
  <2>1. OpenRow(t[h], i)
    BY <1>6, FreeIsOpen
  <2>2. \A k \in Shown(t[h]) : t[h][k].name # e.name
    BY <1>2, <1>7
  <2>3. Rooted(ph, t, e.sclust)
    BY <1>1, <1>2
  <2> QED  BY <1>3, <1>4, <1>6, <1>7, <1>8, <2>1, <2>2, <2>3, Attaching
<1>12. x = Put(n.v, Slotted(dh[h], i), e)
  BY <1>6 DEF x, Grafted, e
<1> HIDE DEF A
<1>13. Good(x, dh, Set(A, h, i, e), but) /\ Keeps(n.v, x)
  <2>1. Good(n.v, dh, A, but)
    BY <1>6 DEF A
  <2> QED  BY <1>9, <1>12, <2>1, PutRow
<1>14. Keeps(v, x)
  BY <1>1, <1>6, <1>13, KeepsOn
<1> HIDE DEF E
<1>15. Carried(v, f, ch, tab, dh, E)
  <2>1. FileAside(v, f, ch, tab)
    BY FileIsAside
  <2>2. ASSUME NEW g \in DOMAIN tab, NEW j \in Shown(tab[g])
        PROVE  /\ g \in DOMAIN E /\ j \in Shown(E[g]) /\ E[g][j] = tab[g][j]
               /\ Slotted(dh[g], j) = Slotted(ch[g], j) /\ DOMAIN E = DOMAIN t
    <3>1. g \in DOMAIN t /\ j \in Shown(t[g]) /\ t[g] = tab[g]
      BY <1>1
    <3>2. /\ g \in DOMAIN E /\ j \in Shown(E[g]) /\ E[g][j] = t[g][j]
          /\ Slotted(dh[g], j) = Slotted(ph[g], j) /\ DOMAIN E = DOMAIN t
      BY <1>6, <1>7, <1>8, <3>1, RegisterKeeps DEF E
    <3>3. ph[g] = ch[g]
      <4>1. g \in DOMAIN ch
        BY DEF Healthy, Good, Tabular
      <4> QED  BY <1>1, <4>1
    <3> QED  BY <3>1, <3>2, <3>3 DEF Slotted
  <2>3. ASSUME f.sclust \in DOMAIN ch \ DOMAIN tab
        PROVE  f.sclust \in DOMAIN dh \ DOMAIN E /\ dh[f.sclust] = ch[f.sclust]
    <3>1. DOMAIN E = DOMAIN t
      BY DEF E, Register
    <3>2. f.sclust # h /\ f.sclust \in DOMAIN ph /\ f.sclust \notin DOMAIN t /\ ph[f.sclust] = ch[f.sclust]
      BY <1>1, <2>3
    <3> QED  BY <1>6, <3>1, <3>2 DEF Longer
  <2> QED  BY <2>1, <2>2, <2>3 DEF Carried, FileAside
<1> QED  BY <1>10, <1>11, <1>13, <1>14, <1>15, TreeDone DEF x, but

(* Or it does not, and the chain goes.                                     *)
LEMMA Ungraft ==
  ASSUME NEW v, NEW f, NEW ch, NEW tab, Healthy(v, f, ch, tab), v.mounted,
         NEW h \in DOMAIN tab, NEW c, NEW d, Sprung(v, d, ch, tab, But(v, f), h, c),
         NEW r, r = remove_chain(d, c, 0)
  PROVE  Sound([r.v EXCEPT !.wflag = TRUE], f) /\ Free(r.v) = Free(v)
<1> DEFINE ph == Plus(ch, c)
           t == Also(tab, c, NewTable(c, IdOf(h)))
           but == But(v, f)
           dh == Without(ph, c)
           z == Without(t, c)
<1>1. /\ Good(d, ph, t, but) /\ Rooted(ph, t, c) /\ Keeps(v, d)
      /\ Shown(t[c]) = {} /\ c \in DOMAIN ph /\ ph[c] = << c >> /\ c \in Cluster \ DOMAIN ch
      /\ DOMAIN t = DOMAIN tab \cup {c} /\ \A g \in DOMAIN tab : t[g] = tab[g]
      /\ DOMAIN ph = DOMAIN ch \cup {c} /\ \A g \in DOMAIN ch : ph[g] = ch[g]
      /\ c \notin DOMAIN tab /\ Free(d) \cup {c} = Free(v)
  BY DEF Sprung
<1> HIDE DEF ph, t, but
<1>2. Removed(d, r, ph, t, but, c)
  BY <1>1, Removal
<1>3. /\ Keeps(d, r.v) /\ Free(r.v) = Free(d) \cup ToSet(ph[c])
      /\ Good(r.v, dh, z, but) /\ TreeForm(dh, z)
  BY <1>2 DEF Removed
<1>4. Free(r.v) = Free(v)
  <2>1. ToSet(<< c >>) = {c}
    BY DEF ToSet
  <2> QED  BY <1>1, <1>3, <2>1
<1>5. Keeps(v, r.v)
  BY <1>1, <1>3, KeepsOn
<1>6. /\ DOMAIN dh = DOMAIN ch /\ \A g \in DOMAIN ch : dh[g] = ch[g]
      /\ DOMAIN z = DOMAIN tab /\ \A g \in DOMAIN tab : z[g] = tab[g]
  BY <1>1 DEF Without
<1>7. DOMAIN tab \subseteq DOMAIN ch
  BY DEF Healthy, Good, Tabular
<1> HIDE DEF dh, z
<1>8. Carried(v, f, ch, tab, dh, z)
  <2>1. FileAside(v, f, ch, tab)
    BY FileIsAside
  <2>2. \A g \in DOMAIN tab : \A i \in Shown(tab[g]) :
           /\ g \in DOMAIN z /\ i \in Shown(z[g]) /\ z[g][i] = tab[g][i]
           /\ Slotted(dh[g], i) = Slotted(ch[g], i)
    BY <1>6, <1>7
  <2>3. f.sclust \in DOMAIN ch \ DOMAIN tab =>
           f.sclust \in DOMAIN dh \ DOMAIN z /\ dh[f.sclust] = ch[f.sclust]
    BY <1>6
  <2> QED  BY <2>1, <2>2, <2>3 DEF Carried, FileAside
<1>9. Sound([r.v EXCEPT !.wflag = TRUE], f)
  BY <1>3, <1>5, <1>8, TreeDone DEF but
<1> QED  BY <1>4, <1>9

(* f_mkdir()                                                               *)
Making(m, w, c, new) ==
  IF new.res = "OK" THEN sync_fs(Grafted(new, w.name, c))
  ELSE [remove_chain(new.v, c, 0).v EXCEPT !.wflag = TRUE]

(* f_mkdir() makes the directory, or gives its cluster back.               *)
LEMMA MakingIs ==
  ASSUME NEW v, NEW f, NEW ch, NEW tab, Healthy(v, f, ch, tab), v.mounted,
         NEW w, NEW h \in DOMAIN tab, w.dir = IdOf(h), IsName(w.name), Lacks(tab, w, h),
         NEW r, Allocated(v, 0, r),
         NEW new, new = dir_register(NewDir(r.v, r.clst, w.dir), w.dir, w.name)
  PROVE  /\ Sound(Making(v, w, r.clst, new), f)
         /\ new.res # "OK" => /\ new.res = "DENIED"
                              /\ \/ Cardinality(Free(Making(v, w, r.clst, new))) <= 1
                                 \/ Room(v, w.dir) >= MAX_DIR
<1> DEFINE c == r.clst
           d == NewDir(r.v, c, w.dir)
           ph == Plus(ch, c)
           t == Also(tab, c, NewTable(c, IdOf(h)))
           but == But(v, f)
<1>1. Good(v, ch, tab, but) /\ TreeForm(ch, tab) /\ CountIsRight(v)
  BY DEF Healthy, Told
<1>2. Sprung(v, d, ch, tab, but, h, c)
  BY <1>1, MakeTable
<1>3. /\ Good(d, ph, t, but) /\ h \in DOMAIN t /\ Keeps(v, d)
      /\ Free(d) \cup {c} = Free(v) /\ \A g \in DOMAIN ch : ph[g] = ch[g]
  BY <1>2 DEF Sprung
<1>4. Registers(d, ph, t, but, h, w.name, new) \/ Denies(d, ph, h, new)
  <2> HIDE DEF d, ph, t, but
  <2> QED  BY <1>3, RegisterIs DEF d
<1>5. CASE Registers(d, ph, t, but, h, w.name, new)
  <2>1. new.res = "OK"
    BY <1>5 DEF Registers
  <2>2. \A k \in Shown(tab[h]) : tab[h][k].name # w.name
    BY DEF Lacks
  <2>3. Sound(sync_fs(Grafted(new, w.name, c)), f)
    <3> HIDE DEF d, c
    <3> QED  BY <1>2, <1>5, <2>2, Graft
  <2> QED  BY <2>1, <2>3 DEF Making
<1>6. CASE Denies(d, ph, h, new)
  <2>1. new.res = "DENIED" /\ new.v = d
        /\ (Len(ph[h]) * CLSZ >= MAX_DIR \/ (CountIsRight(d) => Free(d) = {}))
    BY <1>6 DEF Denies
  <2> DEFINE r2 == remove_chain(d, c, 0)
             x == [r2.v EXCEPT !.wflag = TRUE]
  <2>2. Sound(x, f) /\ Free(r2.v) = Free(v)
    <3> HIDE DEF d, c
    <3> QED  BY <1>2, Ungraft
  <2>3. Making(v, w, c, new) = x
    BY <2>1 DEF Making
  <2>4. Free(x) = Free(v)
    <3>1. x.fat = r2.v.fat
      OBVIOUS
    <3> QED  BY <2>2, <3>1 DEF Free
  <2>5. CountIsRight(d)
    BY <1>1, <1>3 DEF Keeps
  <2>6. CASE Len(ph[h]) * CLSZ >= MAX_DIR
    <3>1. h \in DOMAIN ch
      BY <1>1 DEF Good, Tabular
    <3>2. ph[h] = ch[h]
      BY <1>3, <3>1
    <3>3. Room(v, w.dir) = Len(ch[h]) * CLSZ
      BY <1>1, TableIs DEF TableFound
    <3> QED  BY <2>1, <2>2, <2>3, <2>6, <3>2, <3>3
  <2>7. CASE Free(d) = {}
    <3>1. Free(v) = {c}
      BY <1>3, <2>7
    <3>2. Cardinality(Free(x)) = 1
      BY <2>4, <3>1, FS_Singleton
    <3> HIDE DEF x
    <3> QED  BY <2>1, <2>2, <2>3, <3>2
  <2> QED  BY <2>1, <2>5, <2>6, <2>7
<1> QED  BY <1>4, <1>5, <1>6

MadeIt(path, m, w) ==
  /\ Sound(vol', fp') /\ answer'.call = << "f_mkdir", path >>
  /\ answer'.res = "DENIED" => Cardinality(Free(vol')) <= 1 \/ Room(m, w.dir) >= MAX_DIR

(* f_mkdir() leaves a sound volume, and is refused only when two clusters  *)
(* are not free or the directory is full.                                  *)
LEMMA MkdirCall ==
  ASSUME Sound(vol, fp), NEW path \in Seq(Seq(STRING)), f_mkdir(path)
  PROVE  MadeIt(path, mount_volume(vol), follow_path(mount_volume(vol), path))
<1>1. PICK ch, tab : Healthy(vol, fp, ch, tab)
  BY DEF Sound
<1> DEFINE m == mount_volume(vol)
           w == follow_path(m, path)
           r == create_chain(m, 0)
           new == dir_register(NewDir(r.v, r.clst, w.dir), w.dir, w.name)
<1>2. /\ fp' = fp /\ answer'.call = << "f_mkdir", path >>
      /\ IF w.res # "NO_FILE"
         THEN vol' = m /\ answer'.res = (IF Named(w) = "OK" THEN "EXIST" ELSE Named(w))
         ELSE IF r.clst = 0 THEN vol' = m /\ answer'.res = "DENIED"
         ELSE vol' = Making(m, w, r.clst, new)
              /\ answer'.res = IF new.res = "OK" THEN "OK" ELSE new.res
  BY DEF f_mkdir, Reply, Making, Grafted, NewDirEntry
<1> HIDE DEF m, w, r, new
<1>3. Ready2Use(vol, m, fp, ch, tab)
  BY <1>1, MountIs DEF m
<1>4. /\ Healthy(m, fp, ch, tab) /\ m.mounted = m.registered
  BY <1>3 DEF Ready2Use
<1>5. Good(m, ch, tab, But(m, fp)) /\ TreeForm(ch, tab) /\ Vol(m) /\ Told(m, fp)
  BY <1>4 DEF Healthy, Good
<1>6. Sound(m, fp)
  BY <1>4 DEF Sound
<1>7. w.res \in FollowRes /\ (w.res = "NO_FILE" => PathLacks(tab, path, w))
      /\ (m.registered \/ w.res = "NOT_ENABLED")
  BY <1>5, PathLeads DEF w
<1>8. CASE w.res # "NO_FILE"
  <2>1. (IF Named(w) = "OK" THEN "EXIST" ELSE Named(w)) # "DENIED"
    BY <1>7 DEF Named, FollowRes
  <2> QED  BY <1>2, <1>6, <1>8, <2>1 DEF MadeIt, m, w
<1>9. CASE w.res = "NO_FILE"
  <2>1. m.mounted /\ CountIsRight(m)
    BY <1>4, <1>5, <1>7, <1>9 DEF Told
  <2>2. NoRoom(m, r) \/ Allocated(m, 0, r)
    BY <1>5, Allocation DEF r
  <2>3. CASE NoRoom(m, r)
    <3>1. r.clst = 0 /\ Free(m) = {}
      BY <2>1, <2>3 DEF NoRoom
    <3>2. vol' = m
      BY <1>2, <1>9, <3>1
    <3>3. Cardinality(Free(vol')) = 0
      BY <3>1, <3>2, FS_EmptySet
    <3>4. Cardinality(Free(vol')) <= 1
      BY <3>3
    <3> QED  BY <1>2, <1>6, <3>2, <3>4 DEF MadeIt
  <2>4. CASE Allocated(m, 0, r)
    <3>1. r.clst # 0
      BY <2>4, Sizes DEF Allocated, Free
    <3>2. PICK h : \E t : Leads(tab, path, w, h, t) /\ Lacks(tab, w, h)
      BY <1>7, <1>9 DEF PathLacks
    <3>3. h \in DOMAIN tab /\ w.dir = IdOf(h) /\ IsName(w.name) /\ Lacks(tab, w, h)
      BY <3>2 DEF Leads
    <3>4. /\ Sound(Making(m, w, r.clst, new), fp)
          /\ new.res # "OK" => /\ new.res = "DENIED"
                               /\ \/ Cardinality(Free(Making(m, w, r.clst, new))) <= 1
                                  \/ Room(m, w.dir) >= MAX_DIR
      BY <1>4, <2>1, <2>4, <3>3, MakingIs DEF new
    <3>5. vol' = Making(m, w, r.clst, new) /\ answer'.res = IF new.res = "OK" THEN "OK" ELSE new.res
      BY <1>2, <1>9, <3>1
    <3>6. answer'.res = "DENIED" => new.res # "OK"
      BY <3>5
    <3> QED  BY <1>2, <3>4, <3>5, <3>6 DEF MadeIt, m, w
  <2> QED  BY <2>2, <2>3, <2>4
<1> QED  BY <1>8, <1>9

(* Rows that are not one are set in any order, and one that was there      *)
(* before the table got longer too.                                        *)
LEMMA SetTwice ==
  ASSUME NEW tab, NEW g \in DOMAIN tab, NEW i \in DOMAIN tab[g],
         NEW s \in DOMAIN tab, NEW k \in DOMAIN tab[s], ~(g = s /\ i = k), NEW a, NEW b
  PROVE  Set(Set(tab, g, i, a), s, k, b) = Set(Set(tab, s, k, b), g, i, a)
<1> DEFINE u == Set(tab, g, i, a)
           w == Set(tab, s, k, b)
           l == Set(u, s, k, b)
           m == Set(w, g, i, a)
<1>1. /\ DOMAIN u = DOMAIN tab /\ \A x \in DOMAIN tab : x # g => u[x] = tab[x]
      /\ u[g] = [tab[g] EXCEPT ![i] = a]
  BY DEF Set
<1>2. /\ DOMAIN w = DOMAIN tab /\ \A x \in DOMAIN tab : x # s => w[x] = tab[x]
      /\ w[s] = [tab[s] EXCEPT ![k] = b]
  BY DEF Set
<1> HIDE DEF u, w
<1>3. /\ DOMAIN l = DOMAIN u /\ \A x \in DOMAIN u : x # s => l[x] = u[x]
      /\ l[s] = [u[s] EXCEPT ![k] = b] /\ l = [x \in DOMAIN u |-> l[x]]
  BY <1>1 DEF Set
<1>4. /\ DOMAIN m = DOMAIN w /\ \A x \in DOMAIN w : x # g => m[x] = w[x]
      /\ m[g] = [w[g] EXCEPT ![i] = a] /\ m = [x \in DOMAIN w |-> m[x]]
  BY <1>2 DEF Set
<1> HIDE DEF l, m
<1>5. ASSUME NEW x \in DOMAIN tab PROVE l[x] = m[x]
  <2>1. CASE g # s
    BY <1>1, <1>2, <1>3, <1>4, <2>1
  <2>2. CASE g = s
    <3>1. l[g] = [[tab[g] EXCEPT ![i] = a] EXCEPT ![k] = b]
      BY <1>1, <1>3, <2>2
    <3>2. m[g] = [[tab[g] EXCEPT ![k] = b] EXCEPT ![i] = a]
      BY <1>2, <1>4, <2>2
    <3>3. l[g] = m[g]
      BY <2>2, <3>1, <3>2
    <3>4. ASSUME x # g PROVE l[x] = tab[x] /\ m[x] = tab[x]
      <4>1. u[x] = tab[x] /\ w[x] = tab[x]
        BY <1>1, <1>2, <2>2, <3>4
      <4>2. l[x] = u[x] /\ m[x] = w[x]
        BY <1>1, <1>2, <1>3, <1>4, <2>2, <3>4
      <4> QED  BY <4>1, <4>2
    <3> QED  BY <3>3, <3>4
  <2> QED  BY <2>1, <2>2
<1>6. l = m
  BY <1>1, <1>2, <1>3, <1>4, <1>5
<1> QED  BY <1>6 DEF l, u, m, w

(* A row is set before or after the table gets longer.                     *)
LEMMA SetLonger ==
  ASSUME NEW tab, NEW h \in DOMAIN tab, NEW q, DOMAIN tab[h] \subseteq Rows(q), NEW j, NEW e,
         NEW g \in DOMAIN tab, NEW i \in DOMAIN tab[g], ~(g = h /\ i = j), NEW a
  PROVE  Set(Register(tab, h, q, j, e), g, i, a) = Register(Set(tab, g, i, a), h, q, j, e)
<1> DEFINE r == Register(tab, h, q, j, e)
           l == Set(r, g, i, a)
           u == Set(tab, g, i, a)
           m == Register(u, h, q, j, e)
<1>1. /\ DOMAIN u = DOMAIN tab /\ \A x \in DOMAIN tab : x # g => u[x] = tab[x]
      /\ u[g] = [tab[g] EXCEPT ![i] = a]
  BY DEF Set
<1>2. /\ DOMAIN r = DOMAIN tab /\ \A x \in DOMAIN tab : x # h => r[x] = tab[x]
      /\ r[h] = [k \in Rows(q) |-> IF k = j THEN e
                                   ELSE IF k \in DOMAIN tab[h] THEN tab[h][k] ELSE NoEntry]
  BY DEF Register
<1>3. /\ DOMAIN m = DOMAIN u /\ \A x \in DOMAIN u : x # h => m[x] = u[x]
      /\ m[h] = [k \in Rows(q) |-> IF k = j THEN e
                                   ELSE IF k \in DOMAIN u[h] THEN u[h][k] ELSE NoEntry]
      /\ m = [x \in DOMAIN u |-> m[x]]
  <2> HIDE DEF u
  <2>1. h \in DOMAIN u
    BY <1>1
  <2> QED  BY <2>1 DEF Register
<1>4. /\ DOMAIN l = DOMAIN r /\ \A x \in DOMAIN r : x # g => l[x] = r[x]
      /\ l[g] = [r[g] EXCEPT ![i] = a] /\ l = [x \in DOMAIN r |-> l[x]]
  <2> HIDE DEF r
  <2>1. g \in DOMAIN r
    BY <1>2
  <2> QED  BY <2>1 DEF Set
<1> HIDE DEF r, l, u, m
<1>5. ASSUME NEW x \in DOMAIN tab PROVE l[x] = m[x]
  <2>1. CASE x # h
    BY <1>1, <1>2, <1>3, <1>4, <2>1
  <2>2. CASE x = h /\ g # h
    BY <1>1, <1>2, <1>3, <1>4, <2>2
  <2>3. CASE x = h /\ g = h
    <3>1. l[h] = [r[h] EXCEPT ![i] = a] /\ u[h] = [tab[h] EXCEPT ![i] = a]
      BY <1>1, <1>4, <2>3
    <3>2. i # j /\ i \in DOMAIN tab[h] /\ i \in Rows(q) /\ DOMAIN u[h] = DOMAIN tab[h]
      BY <2>3, <3>1
    <3>3. l[h] = m[h]
      BY <1>2, <1>3, <3>1, <3>2
    <3> QED  BY <2>3, <3>3
  <2> QED  BY <2>1, <2>2, <2>3
<1>6. l = m
  BY <1>1, <1>2, <1>3, <1>4, <1>5
<1> QED  BY <1>6 DEF l, r, m, u

(* A row that is not the one that is set.                                  *)
LEMMA SetAside ==
  ASSUME NEW tab, NEW g \in DOMAIN tab, NEW i \in DOMAIN tab[g], NEW e,
         NEW h \in DOMAIN tab, NEW k \in Shown(tab[h]), ~(g = h /\ i = k)
  PROVE  LET t == Set(tab, g, i, e)
         IN  /\ h \in DOMAIN t /\ k \in Shown(t[h]) /\ t[h][k] = tab[h][k]
             /\ DOMAIN t = DOMAIN tab
BY DEF Set, Shown

(* The ".." of a directory                                                 *)
LEMMA DotDotPlace ==
  ASSUME NEW v, NEW ch, NEW tab, NEW but, Good(v, ch, tab, but), NEW s \in DOMAIN tab
  PROVE  /\ << clst2sect(s) + 1 \div SS, 1 % SS >> = Slotted(ch[s], 1)
         /\ 1 \in DOMAIN tab[s] /\ At(v, Slotted(ch[s], 1)).name = tab[s][1].name
<1>1. s \in DOMAIN ch /\ Chained(v.fat, ch) /\ DOMAIN tab[s] = Rows(ch[s])
  BY DEF Good, Tabular
<1>2. Strand(v.fat, s, ch[s])
  BY <1>1, StrandOf
<1>3. ch[s][1] = s /\ 1 \in Rows(ch[s])
  BY <1>2, RowIs DEF Strand
<1>4. 1 \div CLSZ = 0 /\ 1 % CLSZ = 1 /\ 1 \div SS = 0
  BY Sizes
<1>5. Slotted(ch[s], 1) = << clst2sect(s) + 1 \div SS, 1 % SS >>
  BY <1>3, <1>4 DEF Slotted
<1>6. At(v, Slotted(ch[s], 1)).name = tab[s][1].name
  BY <1>1, <1>3, RowFacts DEF RowOf, IsLike
<1> QED  BY <1>1, <1>3, <1>5, <1>6

(* The object has its new entry, its ".." where it leads to another        *)
(* directory, and its old entry no more.                                   *)
Twice(tab, h, q, j, g, i, name) == Register(tab, h, q, j, [tab[g][i] EXCEPT !.name = name])
Hooked(tab, h, q, j, g, i, name) ==
  IF Moves(tab, g, i, h)
  THEN Set(Twice(tab, h, q, j, g, i, name), tab[g][i].sclust, 1, UpTo(h))
  ELSE Twice(tab, h, q, j, g, i, name)

(* The two entries and the ".." come to the tree that Moving has.          *)
LEMMA HookedOnce ==
  ASSUME NEW tab, NEW h \in DOMAIN tab, NEW q, DOMAIN tab[h] \subseteq Rows(q), NEW j,
         FreeRow(tab[h], j), NEW g \in DOMAIN tab, NEW i \in Shown(tab[g]), NEW name,
         Moves(tab, g, i, h) => /\ tab[g][i].sclust \in DOMAIN tab \ {h}
                                /\ 1 \in DOMAIN tab[tab[g][i].sclust]
                                /\ ~Plain(tab[tab[g][i].sclust][1])
  PROVE  Set(Hooked(tab, h, q, j, g, i, name), g, i, Gone) =
           Register(Unhooked(tab, g, i, h), h, q, j, [tab[g][i] EXCEPT !.name = name])
<1> DEFINE e == [tab[g][i] EXCEPT !.name = name]
           s == tab[g][i].sclust
           up == UpTo(h)
           t == Twice(tab, h, q, j, g, i, name)
           u == Set(tab, g, i, Gone)
<1>1. i \in DOMAIN tab[g] /\ Plain(tab[g][i]) /\ tab[g][i].name \notin {EndName, DDEM}
  BY DEF Shown, Plain
<1>2. ~(g = h /\ i = j)
  BY <1>1 DEF FreeRow
<1> HIDE DEF e, s, up
<1>3. t = Register(tab, h, q, j, e)
  BY DEF Twice, e
<1> HIDE DEF t, u
<1>4. Set(t, g, i, Gone) = Register(u, h, q, j, e)
  BY <1>1, <1>2, <1>3, SetLonger DEF u
<1>5. CASE ~Moves(tab, g, i, h)
  BY <1>4, <1>5 DEF Hooked, Unhooked, t, u, e
<1>6. CASE Moves(tab, g, i, h)
  <2>1. s \in DOMAIN tab /\ s # h /\ 1 \in DOMAIN tab[s] /\ ~(g = s /\ i = 1)
    BY <1>1, <1>6 DEF s
  <2> DEFINE w == Set(tab, s, 1, up)
  <2>2. Set(t, s, 1, up) = Register(w, h, q, j, e)
    BY <1>3, <2>1, SetLonger
  <2>3. /\ DOMAIN w = DOMAIN tab /\ w[h] = tab[h] /\ DOMAIN w[g] = DOMAIN tab[g]
    BY <2>1 DEF Set
  <2>4. Set(w, g, i, Gone) = Set(u, s, 1, up)
    BY <1>1, <2>1, SetTwice DEF u
  <2> HIDE DEF w
  <2>5. Set(Register(w, h, q, j, e), g, i, Gone) = Register(Set(w, g, i, Gone), h, q, j, e)
    BY <1>1, <1>2, <2>3, SetLonger
  <2>6. Hooked(tab, h, q, j, g, i, name) = Set(t, s, 1, up)
    BY <1>6 DEF Hooked, t, s, up
  <2>7. Unhooked(tab, g, i, h) = Set(u, s, 1, up)
    BY <1>6 DEF Unhooked, u, s, up
  <2> QED  BY <2>2, <2>4, <2>5, <2>6, <2>7 DEF e
<1> QED  BY <1>5, <1>6

(* What f_rename() makes of the card, step by step.                        *)
Copied(n, e) == Put(n.v, n.place, [e EXCEPT !.name = At(n.v, n.place).name])
Upped(x, e, moved, dir) ==
  LET dotdot == << clst2sect(e.sclust) + 1 \div SS, 1 % SS >>
  IN  IF moved /\ At(x, dotdot).name = DotDot
      THEN Put(x, dotdot, Entry(DotDot, {"DIR"}, dir, 0)) ELSE x

(* Renamed() does these three.                                             *)
LEMMA RenamedParts ==
  ASSUME NEW m, NEW djo, NEW djn, NEW n, NEW place, place = Place(m, djo.dir, djo.dptr),
         NEW e, e = At(m, place)
  PROVE  Renamed(m, djo, djn, n) =
           Put(Upped(Copied(n, e), e, "DIR" \in e.attr /\ djo.dir # djn.dir, djn.dir), place, Gone)
<1>1. CASE "DIR" \in e.attr /\ djo.dir # djn.dir
  BY <1>1 DEF Renamed, Copied, Upped, dir_remove, Gone
<1>2. CASE ~("DIR" \in e.attr /\ djo.dir # djn.dir)
  BY <1>2 DEF Renamed, Copied, Upped, dir_remove, Gone
<1> QED  BY <1>1, <1>2

(* The card after f_rename().                                              *)
From(v, djo, djn, g, h, place) ==
  djo.dir = IdOf(g) /\ djn.dir = IdOf(h) /\ place = Place(v, djo.dir, djo.dptr)

(* The card has the tree that they make.                                   *)
LEMMA RenamedGood ==
  ASSUME NEW v, NEW ch, NEW tab, NEW but, Good(v, ch, tab, but), TreeForm(ch, tab),
         NEW g \in DOMAIN tab, NEW i \in Shown(tab[g]), NEW h \in DOMAIN tab,
         NEW place, place = Slotted(ch[g], i), place # but, NEW name,
         NEW dh, Longer(ch, dh, h), NEW j \in Rows(dh[h]), FreeRow(tab[h], j),
         NEW n, n.place = Slotted(dh[h], j),
         Good(n.v, dh, Register(tab, h, dh[h], j, Entry(name, {}, 0, 0)), but), Keeps(v, n.v),
         Moves(tab, g, i, h) => tab[g][i].sclust # h,
         NEW djo, NEW djn, From(v, djo, djn, g, h, place)
  PROVE  /\ Good(Renamed(v, djo, djn, n), dh,
                 Set(Hooked(tab, h, dh[h], j, g, i, name), g, i, Gone), but)
         /\ Keeps(v, Renamed(v, djo, djn, n))
<1> DEFINE e == tab[g][i]
           s == e.sclust
           a == Entry(name, {}, 0, 0)
           A == Register(tab, h, dh[h], j, a)
           T == Twice(tab, h, dh[h], j, g, i, name)
           H == Hooked(tab, h, dh[h], j, g, i, name)
           x == Copied(n, e)
           moved == "DIR" \in e.attr /\ djo.dir # djn.dir
           y == Upped(x, e, moved, djn.dir)
<1>1. Chained(v.fat, ch) /\ Tabular(ch, tab) /\ Tables(ch, tab)
  BY DEF Good, TreeForm
<1>2. /\ i \in DOMAIN tab[g] /\ IsEntry(e) /\ EntryIsSound(ch, tab, g, e)
      /\ DOMAIN ch \subseteq Cluster
  BY <1>1, EntryFacts
<1>3. At(v, place) = e
  <2>1. RowOf(v, ch, tab, but, g, i)
    BY <1>2, RowFacts
  <2> QED  BY <2>1 DEF RowOf
<1>4. a.name = name
  BY DEF Entry
<1>5. Renamed(v, djo, djn, n) = Put(y, place, Gone)
  <2> HIDE DEF e
  <2> QED  BY <1>3, RenamedParts DEF From
<1> HIDE DEF a, e, x, y

(* The copy                                                                *)
<1>6. h \in DOMAIN A /\ j \in DOMAIN A[h] /\ A[h][j] = a
  BY DEF Register
<1>7. Good(n.v, dh, A, but)
  BY DEF a
<1>8. Set(A, h, j, [e EXCEPT !.name = name]) = T
  BY SetRegister DEF Twice, e
<1> HIDE DEF A
<1>9. At(n.v, n.place).name = name
  <2>1. RowOf(n.v, dh, A, but, h, j)
    BY <1>6, <1>7, RowFacts
  <2> QED  BY <1>4, <1>6, <2>1 DEF RowOf, IsLike
<1>10. x = Put(n.v, Slotted(dh[h], j), [e EXCEPT !.name = name])
  BY <1>9 DEF x, Copied
<1> HIDE DEF T
<1>11. Good(x, dh, T, but) /\ Keeps(n.v, x)
  BY <1>6, <1>7, <1>8, <1>10, PutRow

(* The way up                                                              *)
<1>12. moved <=> Moves(tab, g, i, h)
  <2>1. g \in Cluster /\ h \in Cluster
    BY <1>1, <1>2 DEF Tabular
  <2>2. IdOf(g) # IdOf(h) <=> g # h
    BY <2>1, Sizes DEF IdOf
  <2> QED  BY <2>2 DEF Moves, e, From
<1>13. /\ \A r \in DOMAIN tab : r \in DOMAIN T /\ \A k \in Shown(tab[r]) : k \in DOMAIN T[r]
       /\ \A r \in DOMAIN tab : r # h => T[r] = tab[r]
  <2>1. \A r \in DOMAIN tab \ {h} : T[r] = tab[r] /\ r \in DOMAIN T
    BY DEF T, Twice, Register
  <2>2. h \in DOMAIN T /\ DOMAIN T[h] = Rows(dh[h])
    BY DEF T, Twice, Register
  <2>3. DOMAIN tab[h] \subseteq Rows(dh[h])
    BY <1>1 DEF Longer, Tabular
  <2> QED  BY <2>1, <2>2, <2>3 DEF Shown
<1> HIDE DEF moved, H
<1>14. ASSUME Moves(tab, g, i, h)
       PROVE  /\ s \in DOMAIN tab /\ s # h /\ 1 \in DOMAIN tab[s] /\ ~Plain(tab[s][1])
              /\ tab[s][1].name = DotDot
  <2>1. s \in DOMAIN tab \ {dirbase}
    BY <1>2, <1>14 DEF EntryIsSound, Moves, e
  <2>2. 1 \in DOMAIN tab[s] /\ RowForm(s, tab[s], 1)
    BY <1>1, <2>1, FirstRows DEF Tables, TableForm
  <2> QED  BY <1>14, <2>1, <2>2 DEF RowForm, Plain, e
<1>15. /\ Good(y, dh, H, but) /\ Keeps(x, y) /\ g \in DOMAIN H /\ i \in DOMAIN H[g]
  <2>1. CASE ~Moves(tab, g, i, h)
    <3>1. y = x
      BY <1>12, <2>1 DEF y, Upped
    <3>2. H = T
      BY <2>1 DEF H, Hooked, T
    <3>3. Keeps(x, x)
      BY KeepsSame
    <3> QED  BY <1>11, <1>13, <3>1, <3>2, <3>3
  <2>2. CASE Moves(tab, g, i, h)
    <3>1. s \in DOMAIN T /\ T[s] = tab[s]
      BY <1>13, <1>14, <2>2
    <3>2. /\ << clst2sect(s) + 1 \div SS, 1 % SS >> = Slotted(dh[s], 1)
          /\ 1 \in DOMAIN T[s] /\ At(x, Slotted(dh[s], 1)).name = T[s][1].name
      BY <1>11, <3>1, DotDotPlace
    <3>3. y = Put(x, Slotted(dh[s], 1), UpTo(h))
      BY <1>12, <1>14, <2>2, <3>1, <3>2 DEF y, Upped, UpTo, From
    <3>4. H = Set(T, s, 1, UpTo(h))
      BY <2>2 DEF H, Hooked, T, e
    <3>5. Good(y, dh, H, but) /\ Keeps(x, y)
      BY <1>11, <3>1, <3>2, <3>3, <3>4, PutRow
    <3>6. g \in DOMAIN H /\ DOMAIN H[g] = DOMAIN T[g]
      <4>1. g \in DOMAIN T
        BY <1>13
      <4> QED  BY <3>1, <3>4, <4>1 DEF Set
    <3> QED  BY <1>13, <3>5, <3>6
  <2> QED  BY <2>1, <2>2

(* The entry goes.                                                         *)
<1>16. place = Slotted(dh[g], i)
  <2>1. g \in DOMAIN ch /\ i \in Rows(ch[g])
    BY <1>1, <1>2 DEF Tabular
  <2> QED  BY <1>1, <2>1, LongerPlace
<1>17. Good(Put(y, place, Gone), dh, Set(H, g, i, Gone), but) /\ Keeps(y, Put(y, place, Gone))
  BY <1>15, <1>16, PutRow
<1>18. Keeps(v, Put(y, place, Gone))
  <2>1. Keeps(v, x)
    BY <1>11, KeepsOn
  <2>2. Keeps(v, y)
    BY <1>15, <2>1, KeepsOn
  <2> QED  BY <1>17, <2>2, KeepsOn
<1> QED  BY <1>5, <1>17, <1>18 DEF H

(* The open file is another one.                                           *)
Beside(v, f, place) == IsOpen(v, f) => f.dir # place

(* The name is new, or the object's own.                                   *)
NewName(tab, h, name, g, i) == \A k \in Shown(tab[h]) : tab[h][k].name = name => g = h /\ k = i

(* f_rename() leaves a sound volume.                                       *)
LEMMA RenamedSound ==
  ASSUME NEW v, NEW f, NEW ch, NEW tab, Healthy(v, f, ch, tab), v.mounted,
         NEW g \in DOMAIN tab, NEW i \in Shown(tab[g]), NEW h \in DOMAIN tab,
         NEW place, place = Slotted(ch[g], i), Beside(v, f, place),
         NEW name, IsName(name), NewName(tab, h, name, g, i),
         NEW Y, Moves(tab, g, i, h) => Aside(tab, Y, h, tab[g][i].sclust),
         NEW n, Registers(v, ch, tab, But(v, f), h, name, n),
         NEW djo, NEW djn, From(v, djo, djn, g, h, place)
  PROVE  Sound(sync_fs(Renamed(v, djo, djn, n)), f)
<1> DEFINE but == But(v, f)
           x == Renamed(v, djo, djn, n)
           s == tab[g][i].sclust
           new == [tab[g][i] EXCEPT !.name = name]
<1>1. Good(v, ch, tab, but) /\ TreeForm(ch, tab) /\ Chained(v.fat, ch) /\ Tabular(ch, tab)
      /\ Tables(ch, tab)
  BY DEF Healthy, Good, TreeForm
<1>2. i \in DOMAIN tab[g] /\ EntryIsSound(ch, tab, g, tab[g][i])
  BY <1>1, EntryFacts
<1>3. place # but
  <2>1. RowOf(v, ch, tab, but, g, i)
    BY <1>1, <1>2, RowFacts
  <2> QED  BY <2>1 DEF RowOf, PlaceOf, But, Beside
<1>4. PICK dh : \E j \in Rows(dh[h]) :
         /\ n.place = Slotted(dh[h], j)
         /\ Longer(ch, dh, h) /\ FreeRow(tab[h], j) /\ Keeps(v, n.v)
         /\ Good(n.v, dh, Register(tab, h, dh[h], j, Entry(name, {}, 0, 0)), but)
  BY DEF Registers
<1>5. PICK j \in Rows(dh[h]) :
         /\ n.place = Slotted(dh[h], j)
         /\ Longer(ch, dh, h) /\ FreeRow(tab[h], j) /\ Keeps(v, n.v)
         /\ Good(n.v, dh, Register(tab, h, dh[h], j, Entry(name, {}, 0, 0)), but)
  BY <1>4
<1> DEFINE T == Twice(tab, h, dh[h], j, g, i, name)
           H == Hooked(tab, h, dh[h], j, g, i, name)
           z == Set(H, g, i, Gone)
<1> HIDE DEF but, x, s, new
<1>14. /\ Chained(v.fat, ch) /\ Tabular(ch, tab) /\ Longer(ch, dh, h)
       /\ j \in Rows(dh[h]) /\ FreeRow(tab[h], j)
  BY <1>1, <1>5
<1>6. ASSUME Moves(tab, g, i, h)
      PROVE  s \in DOMAIN tab \ {h} /\ 1 \in DOMAIN tab[s] /\ ~Plain(tab[s][1])
  <2>1. s \in DOMAIN tab \ {dirbase}
    BY <1>2, <1>6 DEF EntryIsSound, Moves, s
  <2>2. 1 \in DOMAIN tab[s] /\ RowForm(s, tab[s], 1)
    BY <1>1, <2>1, FirstRows DEF Tables, TableForm
  <2>3. s # h
    BY <1>6 DEF Aside, s
  <2> QED  BY <2>1, <2>2, <2>3 DEF RowForm, Plain
<1>7. Good(x, dh, z, but) /\ Keeps(v, x)
  <2>1. Moves(tab, g, i, h) => tab[g][i].sclust # h
    BY <1>6 DEF s
  <2> HIDE DEF z
  <2> QED  BY <1>1, <1>3, <1>5, <2>1, RenamedGood DEF x, z
<1>8. z = Register(Unhooked(tab, g, i, h), h, dh[h], j, new)
  <2>1. DOMAIN tab[h] \subseteq Rows(dh[h])
    BY <1>1, <1>5 DEF Longer, Tabular
  <2> QED  BY <1>5, <1>6, <2>1, HookedOnce DEF new, s
<1>9. TreeForm(dh, z)
  <2>1. TreeForm(dh, Register(Unhooked(tab, g, i, h), h, dh[h], j, [tab[g][i] EXCEPT !.name = name]))
    BY <1>1, <1>5, Moving DEF NewName
  <2> HIDE DEF z
  <2> QED  BY <1>8, <2>1 DEF new
<1>10. ASSUME NEW a \in DOMAIN tab, NEW k \in Shown(tab[a]), ~(g = a /\ i = k)
       PROVE  /\ a \in DOMAIN z /\ k \in Shown(z[a]) /\ z[a][k] = tab[a][k]
              /\ Slotted(dh[a], k) = Slotted(ch[a], k) /\ DOMAIN z = DOMAIN tab
  <2>5. T = Register(tab, h, dh[h], j, new)
    BY DEF Twice, new
  <2> HIDE DEF T
  <2>1. /\ a \in DOMAIN T /\ k \in Shown(T[a]) /\ T[a][k] = tab[a][k]
        /\ Slotted(dh[a], k) = Slotted(ch[a], k) /\ DOMAIN T = DOMAIN tab
    BY <1>14, <2>5, RegisterKeeps
  <2>2. g \in DOMAIN T /\ i \in DOMAIN T[g]
    <3>1. g \in DOMAIN T /\ (g # h => T[g] = tab[g]) /\ DOMAIN T[h] = Rows(dh[h])
      BY <2>5 DEF Register
    <3>2. DOMAIN tab[h] \subseteq Rows(dh[h])
      BY <1>14 DEF Longer, Tabular
    <3> QED  BY <1>2, <3>1, <3>2
  <2> HIDE DEF T, H
  <2>3. /\ a \in DOMAIN H /\ k \in Shown(H[a]) /\ H[a][k] = tab[a][k] /\ DOMAIN H = DOMAIN tab
        /\ g \in DOMAIN H /\ i \in DOMAIN H[g]
    <3>1. CASE ~Moves(tab, g, i, h)
      BY <2>1, <2>2, <3>1 DEF H, Hooked, T
    <3>2. CASE Moves(tab, g, i, h)
      <4>1. s \in DOMAIN tab \ {h} /\ 1 \in DOMAIN tab[s] /\ ~Plain(tab[s][1])
        BY <1>6, <3>2
      <4>2. s \in DOMAIN T /\ T[s] = tab[s]
        BY <4>1 DEF T, Twice, Register
      <4>3. ~(s = a /\ 1 = k)
        BY <4>1 DEF Shown
      <4>4. H = Set(T, s, 1, UpTo(h))
        BY <3>2 DEF H, Hooked, T, s
      <4>5. a \in DOMAIN H /\ k \in Shown(H[a]) /\ H[a][k] = T[a][k] /\ DOMAIN H = DOMAIN T
        BY <2>1, <4>1, <4>2, <4>3, <4>4, SetAside
      <4>6. g \in DOMAIN H /\ DOMAIN H[g] = DOMAIN T[g]
        BY <2>2, <4>2, <4>4 DEF Set
      <4> QED  BY <2>1, <2>2, <4>5, <4>6
    <3> QED  BY <3>1, <3>2
  <2>4. a \in DOMAIN z /\ k \in Shown(z[a]) /\ z[a][k] = H[a][k] /\ DOMAIN z = DOMAIN H
    BY <1>10, <2>3, SetAside
  <2> QED  BY <2>1, <2>3, <2>4
<1> HIDE DEF z, H, T
<1>11. Carried(v, f, ch, tab, dh, z)
  <2>1. FileAside(v, f, ch, tab)
    BY FileIsAside
  <2>2. ASSUME IsOpen(v, f), NEW a \in DOMAIN tab, NEW k \in Shown(tab[a]), IsFor(v, f, ch, tab, a, k)
        PROVE  ~(g = a /\ i = k)
    BY <2>2 DEF IsFor, Beside
  <2>3. ASSUME f.sclust \in DOMAIN ch \ DOMAIN tab, DOMAIN z = DOMAIN tab
        PROVE  f.sclust \in DOMAIN dh \ DOMAIN z /\ dh[f.sclust] = ch[f.sclust]
    BY <1>5, <2>3 DEF Longer
  <2>4. ASSUME IsOpen(v, f), NEW a \in DOMAIN tab, NEW k \in Shown(tab[a]), IsFor(v, f, ch, tab, a, k),
               f.sclust # 0 => f.sclust \in DOMAIN ch \ DOMAIN tab
        PROVE  /\ a \in DOMAIN z /\ k \in Shown(z[a]) /\ z[a][k] = tab[a][k]
               /\ Slotted(dh[a], k) = Slotted(ch[a], k)
               /\ f.sclust # 0 => f.sclust \in DOMAIN dh \ DOMAIN z /\ dh[f.sclust] = ch[f.sclust]
    <3>1. /\ a \in DOMAIN z /\ k \in Shown(z[a]) /\ z[a][k] = tab[a][k]
          /\ Slotted(dh[a], k) = Slotted(ch[a], k) /\ DOMAIN z = DOMAIN tab
      BY <1>10, <2>2, <2>4
    <3> QED  BY <2>3, <2>4, <3>1
  <2> QED  BY <2>1, <2>4 DEF Carried, FileAside
<1> QED  BY <1>7, <1>9, <1>11, TreeDone DEF but, x

(* f_rename(): what the two paths lead to.                                 *)
Asked(m, ch, tab, djo, djn, g, i, h, name, Y) ==
  /\ g \in DOMAIN tab /\ i \in Shown(tab[g]) /\ h \in DOMAIN tab /\ IsName(name)
  /\ From(m, djo, djn, g, h, Slotted(ch[g], i)) /\ NewName(tab, h, name, g, i)
  /\ Moves(tab, g, i, h) => Aside(tab, Y, h, tab[g][i].sclust)
NameFor(djo, djn) == IF djn.name = NoName THEN djo.name ELSE djn.name

(* The second path leads to the object itself.                             *)
LEMMA SameObject ==
  ASSUME NEW m, NEW ch, NEW tab, NEW but, Good(m, ch, tab, but), TreeForm(ch, tab),
         NEW path \in Seq(Seq(STRING)), NEW path2 \in Seq(Seq(STRING)),
         NEW djo, djo = follow_path(m, path), NEW djn, djn = follow_path(m, path2),
         Named(djo) = "OK", djn.res = "OK", djn.dir = djo.dir, djn.dptr = djo.dptr
  PROVE  \E g, i, h, Y : Asked(m, ch, tab, djo, djn, g, i, h, NameFor(djo, djn), Y)
<1>1. PICK g : \E t : Leads(tab, path, djo, g, t) /\ Shows(m, ch, tab, djo, g)
  BY PathLeads DEF PathFinds
<1>2. /\ g \in DOMAIN tab /\ djo.dir = IdOf(g) /\ IsName(djo.name)
      /\ djo.dptr \in Shown(tab[g]) /\ tab[g][djo.dptr].name = djo.name
      /\ Place(m, djo.dir, djo.dptr) = Slotted(ch[g], djo.dptr)
  BY <1>1 DEF Leads, Shows
<1>3. NameFor(djo, djn) = djo.name
  <2>1. CASE djn.name = NoName
    BY <2>1 DEF NameFor
  <2>2. CASE djn.name # NoName
    <3>1. Named(djn) = "OK"
      BY <2>2 DEF Named
    <3>2. PICK h : \E t : Leads(tab, path2, djn, h, t) /\ Shows(m, ch, tab, djn, h)
      BY <3>1, PathLeads DEF PathFinds
    <3>3. h \in DOMAIN tab /\ djn.dir = IdOf(h) /\ tab[h][djn.dptr].name = djn.name
      BY <3>2 DEF Leads, Shows
    <3>4. g = h
      <4>1. DOMAIN tab \subseteq Cluster
        <5>1. DOMAIN tab \subseteq DOMAIN ch /\ Chained(m.fat, ch)
          BY DEF Good, Tabular
        <5> QED  BY <5>1, Heads
      <4>2. IdOf(g) = IdOf(h)
        BY <1>2, <3>3
      <4>3. Base(IdOf(g)) = g /\ Base(IdOf(h)) = h
        BY <1>2, <3>3, <4>1, BaseOf
      <4> QED  BY <4>2, <4>3
    <3> QED  BY <1>2, <2>2, <3>3, <3>4 DEF NameFor
  <2> QED  BY <2>1, <2>2
<1>4. NewName(tab, g, djo.name, g, djo.dptr)
  <2>1. \A k, l \in Shown(tab[g]) : tab[g][k].name = tab[g][l].name => k = l
    BY <1>2 DEF TreeForm, Tables, TableForm
  <2> QED  BY <1>2, <2>1 DEF NewName
<1>5. From(m, djo, djn, g, g, Slotted(ch[g], djo.dptr))
  BY <1>2 DEF From
<1>6. ~Moves(tab, g, djo.dptr, g)
  BY DEF Moves
<1>7. Asked(m, ch, tab, djo, djn, g, djo.dptr, g, NameFor(djo, djn), {})
  BY <1>2, <1>3, <1>4, <1>5, <1>6 DEF Asked
<1> QED  BY <1>7

(* The second path leads to no object.                                     *)
LEMMA OtherObject ==
  ASSUME NEW m, NEW ch, NEW tab, NEW but, Good(m, ch, tab, but), TreeForm(ch, tab),
         NEW path \in Seq(Seq(STRING)), NEW path2 \in Seq(Seq(STRING)),
         NEW djo, djo = follow_path(m, path), NEW djn, djn = follow_path(m, path2),
         Named(djo) = "OK", djn.res = "NO_FILE",
         ~(Len(path) < Len(path2)
             /\ \A k \in DOMAIN path : create_name(path[k]) = create_name(path2[k]))
  PROVE  \E g, i, h, Y : Asked(m, ch, tab, djo, djn, g, i, h, NameFor(djo, djn), Y)
<1>1. PICK g : \E t : Leads(tab, path, djo, g, t) /\ Shows(m, ch, tab, djo, g)
  BY PathLeads DEF PathFinds
<1>2. PICK t : Leads(tab, path, djo, g, t) /\ Shows(m, ch, tab, djo, g)
  BY <1>1
<1>3. PICK h : \E u : Leads(tab, path2, djn, h, u) /\ Lacks(tab, djn, h)
  BY PathLeads DEF PathLacks
<1>4. PICK u : Leads(tab, path2, djn, h, u) /\ Lacks(tab, djn, h)
  BY <1>3
<1> DEFINE i == djo.dptr
           p == Len(path)
           q == Len(path2)
           Y == {u[k] : k \in 0 .. q - 1}
<1>5. /\ g \in DOMAIN tab /\ djo.dir = IdOf(g) /\ i \in Shown(tab[g])
      /\ tab[g][i].name = create_name(path[p]) /\ Place(m, djo.dir, i) = Slotted(ch[g], i)
      /\ p \in Nat /\ p # 0 /\ Trace(tab, path, p - 1, t) /\ g = t[p - 1]
  BY <1>2 DEF Leads, Shows
<1>6. /\ h \in DOMAIN tab /\ djn.dir = IdOf(h) /\ IsName(djn.name)
      /\ q \in Nat /\ q # 0 /\ Trace(tab, path2, q - 1, u) /\ h = u[q - 1]
      /\ \A k \in Shown(tab[h]) : tab[h][k].name # djn.name
  BY <1>4 DEF Leads, Lacks
<1>7. NameFor(djo, djn) = djn.name
  BY <1>6, NamesAre DEF NameFor
<1>8. NewName(tab, h, djn.name, g, i)
  BY <1>6 DEF NewName
<1>9. From(m, djo, djn, g, h, Slotted(ch[g], i))
  BY <1>5, <1>6 DEF From
<1>10. Moves(tab, g, i, h) => Aside(tab, Y, h, tab[g][i].sclust)
  <2>1. SUFFICES ASSUME "DIR" \in tab[g][i].attr PROVE Aside(tab, Y, h, tab[g][i].sclust)
    BY DEF Moves
  <2>2. Chained(m.fat, ch)
    BY DEF Good
  <2>3. ~(p <= q - 1 /\ SameNames(path, path2, p))
    <3>1. DOMAIN path = 1 .. p
      OBVIOUS
    <3>2. p <= q - 1 => p < q
      BY <1>5, <1>6
    <3> QED  BY <3>1, <3>2 DEF SameNames
  <2>4. i \in Shown(tab[t[p - 1]]) /\ "DIR" \in tab[t[p - 1]][i].attr
        /\ tab[t[p - 1]][i].name = create_name(path[p])
    BY <1>5, <2>1
  <2> HIDE DEF i, p, q
  <2>5. q - 1 \in Nat
    BY <1>6
  <2>6. Aside(tab, {u[k] : k \in 0 .. q - 1}, u[q - 1], tab[t[p - 1]][i].sclust)
    BY <1>5, <1>6, <2>2, <2>3, <2>4, <2>5, NotBelow
  <2> QED  BY <1>5, <1>6, <2>6
<1> HIDE DEF Y
<1>11. Asked(m, ch, tab, djo, djn, g, i, h, NameFor(djo, djn), Y)
  BY <1>5, <1>6, <1>7, <1>8, <1>9, <1>10 DEF Asked
<1> QED  BY <1>11

RenamedTo(call, m, djn) ==
  /\ Sound(vol', fp') /\ answer'.call = call
  /\ answer'.res = "DENIED" => Free(vol') = {} \/ Room(m, djn.dir) >= MAX_DIR

(* f_rename() leaves a sound volume, and is refused only when there is no  *)
(* room for the entry.                                                     *)
LEMMA RenameCall ==
  ASSUME Sound(vol, fp), NEW path \in Seq(Seq(STRING)), NEW path2 \in Seq(Seq(STRING)),
         f_rename(path, path2)
  PROVE  RenamedTo(<< "f_rename", path, path2 >>, mount_volume(vol),
                   follow_path(mount_volume(vol), path2))
<1>1. PICK ch, tab : Healthy(vol, fp, ch, tab)
  BY DEF Sound
<1> DEFINE m == mount_volume(vol)
           djo == follow_path(m, path)
           djn == follow_path(m, path2)
           place == Place(m, djo.dir, djo.dptr)
           call == << "f_rename", path, path2 >>
           same == djn.dir = djo.dir /\ djn.dptr = djo.dptr
           new == dir_register(m, djn.dir, NameFor(djo, djn))
           under == Len(path) < Len(path2)
                      /\ \A k \in DOMAIN path : create_name(path[k]) = create_name(path2[k])
<1>2. /\ ~under /\ fp' = fp /\ answer'.call = call
      /\ IF Named(djo) # "OK" THEN vol' = m /\ answer'.res = Named(djo)
         ELSE IF djn.res = "OK" /\ ~same THEN vol' = m /\ answer'.res = "EXIST"
         ELSE IF djn.res \notin {"OK", "NO_FILE"} THEN vol' = m /\ answer'.res = djn.res
         ELSE /\ ~OpenFile(place)
              /\ IF new.res # "OK" THEN vol' = new.v /\ answer'.res = new.res
                 ELSE vol' = sync_fs(Renamed(m, djo, djn, new)) /\ answer'.res = "OK"
  BY DEF f_rename, Reply, NameFor
<1> HIDE DEF m, djo, djn, place, new, call, same, under
<1>3. Ready2Use(vol, m, fp, ch, tab)
  BY <1>1, MountIs DEF m
<1>4. /\ Healthy(m, fp, ch, tab) /\ (IsOpen(m, fp) <=> IsOpen(vol, fp)) /\ m.mounted = m.registered
  BY <1>3 DEF Ready2Use
<1>5. Good(m, ch, tab, But(m, fp)) /\ TreeForm(ch, tab) /\ Told(m, fp)
  BY <1>4 DEF Healthy
<1>6. Sound(m, fp)
  BY <1>4 DEF Sound
<1>7. djo.res \in FollowRes /\ djn.res \in FollowRes /\ (m.registered \/ djo.res = "NOT_ENABLED")
  BY <1>5, PathLeads DEF djo, djn
<1>8. Named(djo) # "DENIED" /\ djn.res # "DENIED"
  BY <1>7 DEF Named, FollowRes
<1>9. CASE Named(djo) # "OK" \/ (djn.res = "OK" /\ ~same) \/ djn.res \notin {"OK", "NO_FILE"}
  <2>1. vol' = m /\ answer'.res # "DENIED"
    BY <1>2, <1>8, <1>9
  <2> QED  BY <1>2, <1>6, <2>1 DEF RenamedTo, call
<1>10. CASE /\ Named(djo) = "OK" /\ djn.res \in {"OK", "NO_FILE"}
            /\ djn.res = "OK" => same
  <2>1. \E g, i, h, Y : Asked(m, ch, tab, djo, djn, g, i, h, NameFor(djo, djn), Y)
    <3>1. CASE djn.res = "OK"
      BY <1>5, <1>10, <3>1, SameObject DEF djo, djn, same
    <3>2. CASE djn.res = "NO_FILE"
      BY <1>2, <1>5, <1>10, <3>2, OtherObject DEF djo, djn, under
    <3> QED  BY <1>10, <3>1, <3>2
  <2>2. PICK g, i, h, Y : Asked(m, ch, tab, djo, djn, g, i, h, NameFor(djo, djn), Y)
    BY <2>1
  <2> DEFINE name == NameFor(djo, djn)
  <2>3. /\ g \in DOMAIN tab /\ i \in Shown(tab[g]) /\ h \in DOMAIN tab /\ IsName(name)
        /\ From(m, djo, djn, g, h, Slotted(ch[g], i)) /\ NewName(tab, h, name, g, i)
        /\ Moves(tab, g, i, h) => Aside(tab, Y, h, tab[g][i].sclust)
    BY <2>2 DEF Asked
  <2> HIDE DEF name
  <2>4. djn.dir = IdOf(h) /\ place = Slotted(ch[g], i)
    BY <2>3 DEF From, place
  <2>5. m.mounted /\ CountIsRight(m)
    BY <1>4, <1>5, <1>7, <1>10 DEF Named, Told
  <2>6. /\ ~OpenFile(place)
        /\ IF new.res # "OK" THEN vol' = new.v /\ answer'.res = new.res
           ELSE vol' = sync_fs(Renamed(m, djo, djn, new)) /\ answer'.res = "OK"
    BY <1>2, <1>10
  <2>7. Beside(m, fp, place)
    BY <1>4, <2>6 DEF OpenFile, validate, IsOpen, Beside
  <2>8. Registers(m, ch, tab, But(m, fp), h, name, new) \/ Denies(m, ch, h, new)
    BY <1>5, <2>3, <2>4, RegisterIs DEF new, name
  <2>9. CASE Registers(m, ch, tab, But(m, fp), h, name, new)
    <3>1. new.res = "OK"
      BY <2>9 DEF Registers
    <3>2. From(m, djo, djn, g, h, place)
      BY <2>3, <2>4
    <3>3. Sound(sync_fs(Renamed(m, djo, djn, new)), fp)
      BY <1>4, <2>3, <2>4, <2>5, <2>7, <2>9, <3>2, RenamedSound
    <3> QED  BY <1>2, <2>6, <3>1, <3>3 DEF RenamedTo, call
  <2>10. CASE Denies(m, ch, h, new)
    <3>1. /\ new.res = "DENIED" /\ new.v = m
          /\ Len(ch[h]) * CLSZ >= MAX_DIR \/ Free(m) = {}
      BY <2>5, <2>10 DEF Denies
    <3>2. Room(m, djn.dir) = Len(ch[h]) * CLSZ
      BY <1>5, <2>3, <2>4, TableIs DEF TableFound
    <3>3. vol' = m
      BY <2>6, <3>1
    <3>4. Free(vol') = {} \/ Room(m, djn.dir) >= MAX_DIR
      BY <3>1, <3>2, <3>3
    <3> QED  BY <1>2, <1>6, <3>3, <3>4 DEF RenamedTo, call, m, djn
  <2> QED  BY <2>8, <2>9, <2>10
<1> QED  BY <1>9, <1>10

(***************************************************************************)
(* What holds between any two calls, of the whole volume.                  *)
(***************************************************************************)
FatInv == Sound(vol, fp) /\ caller \in Callers

(* The application finds a card that is sound.                             *)
LEMMA BeginsSound ==
  ASSUME Init
  PROVE  FatInv
<1> DEFINE card == caller.card
<1>1. caller \in Callers /\ SoundCard(card)
  BY CallersAssumption DEF Init
<1>2. PICK H \in SUBSET Cluster : \E D \in SUBSET H :
        LET ch == [h \in H |-> Chain(card, h)]
        IN  /\ Chained(card.fat, ch)
            /\ TreeIsSound(ch, [h \in D |-> TableOf(card.disk, ch[h])])
            /\ card.disk = [s \in Sector |-> [i \in Slot |-> card.disk[s][i]]]
            /\ card.info.free \in {Unknown, Cardinality(Free(card))}
            /\ card.info.next \in 0 .. n_fatent - 1 \cup {Unknown}
            /\ card = [fat |-> card.fat, disk |-> card.disk,
                       info |-> [free |-> card.info.free, next |-> card.info.next]]
  BY <1>1 DEF SoundCard
<1> DEFINE ch == [h \in H |-> Chain(card, h)]
<1>3. PICK D \in SUBSET H :
        /\ Chained(card.fat, ch)
        /\ TreeIsSound(ch, [h \in D |-> TableOf(card.disk, ch[h])])
        /\ card.disk = [s \in Sector |-> [i \in Slot |-> card.disk[s][i]]]
        /\ card.info.free \in {Unknown, Cardinality(Free(card))}
        /\ card.info.next \in 0 .. n_fatent - 1 \cup {Unknown}
        /\ card = [fat |-> card.fat, disk |-> card.disk,
                   info |-> [free |-> card.info.free, next |-> card.info.next]]
  BY <1>2
<1> DEFINE tab == [h \in D |-> TableOf(card.disk, ch[h])]
<1>4. /\ DOMAIN vol = {"fat", "disk", "info", "registered", "mounted", "id", "last_clst",
                       "free_clst", "fsi_flag", "wflag"}
      /\ vol.fat = card.fat /\ vol.disk = card.disk /\ vol.info = card.info
      /\ vol.registered = FALSE /\ vol.mounted = FALSE /\ vol.id = 0 /\ vol.last_clst = 0
      /\ vol.free_clst = 0 /\ vol.fsi_flag = FALSE /\ vol.wflag = FALSE /\ fp = Closed
  BY DEF Init
<1>5. Chained(vol.fat, ch) /\ TreeForm(ch, tab) /\ Free(vol) = Free(card)
  BY <1>3, <1>4, SoundIsForm DEF Free
<1>6. Vol(vol)
  <2>1. vol.fat \in [Cluster -> LinkVal]
    BY <1>5 DEF Chained, LinkVal
  <2>2. DOMAIN card.disk = Sector
    BY <1>3
  <2>3. \A s \in Sector : DOMAIN card.disk[s] = Slot
    BY <1>3
  <2>4. DOMAIN card.info = {"free", "next"}
    <3> DEFINE info == [free |-> card.info.free, next |-> card.info.next]
    <3>1. card.info = info
      BY <1>3
    <3> QED  BY <3>1
  <2>5. card.info.free \in 0 .. NCLST \cup {Unknown}
    BY <1>3, FreeIs
  <2>6. 0 \in 0 .. NCLST /\ 0 \in 0 .. n_fatent - 1
    BY Sizes
  <2>7. card.info.next \in 0 .. n_fatent - 1 \cup {Unknown}
    BY <1>3
  <2>8. /\ vol.registered \in BOOLEAN /\ vol.mounted \in BOOLEAN /\ vol.id \in Nat
        /\ vol.fsi_flag \in BOOLEAN /\ vol.wflag \in BOOLEAN
        /\ vol.free_clst \in 0 .. NCLST \cup {Unknown}
        /\ vol.last_clst \in 0 .. n_fatent - 1 \cup {Unknown}
    <3> HIDE DEF card
    <3>1. vol.registered \in BOOLEAN /\ vol.mounted \in BOOLEAN
      BY <1>4, Zenon
    <3>2. vol.fsi_flag \in BOOLEAN /\ vol.wflag \in BOOLEAN
      BY <1>4, Zenon
    <3>3. vol.id \in Nat /\ vol.free_clst = 0 /\ vol.last_clst = 0
      BY <1>4
    <3> QED  BY <2>6, <3>1, <3>2, <3>3
  <2>9. /\ DOMAIN vol.disk = Sector /\ \A s \in Sector : DOMAIN vol.disk[s] = Slot
        /\ DOMAIN vol.info = {"free", "next"} /\ vol.info.free \in 0 .. NCLST \cup {Unknown}
        /\ vol.info.next \in 0 .. n_fatent - 1 \cup {Unknown}
    BY <1>4, <2>2, <2>3, <2>4, <2>5, <2>7
  <2> QED  BY <1>4, <2>1, <2>8, <2>9 DEF Vol
<1>7. Tabular(ch, tab)
  <2>1. dirbase \in DOMAIN tab /\ DOMAIN tab \subseteq DOMAIN ch
    BY <1>3 DEF TreeIsSound
  <2>2. \A h \in DOMAIN tab : DOMAIN tab[h] = Rows(ch[h])
    BY DEF TableOf, Rows
  <2> QED  BY <2>1, <2>2 DEF Tabular
<1>8. Held(vol, ch, tab, << 0, 0 >>)
  <2> SUFFICES ASSUME NEW h \in DOMAIN tab, NEW i \in DOMAIN tab[h]
               PROVE  /\ IsLike(At(vol, Slotted(ch[h], i)), tab[h][i])
                      /\ Slotted(ch[h], i) # << 0, 0 >> =>
                           At(vol, Slotted(ch[h], i)) = tab[h][i]
    BY DEF Held
  <2>1. tab[h] = TableOf(vol.disk, ch[h])
    BY <1>4
  <2>2. i \in 0 .. Lesser(Len(ch[h]) * CLSZ, MAX_DIR) - 1
    BY <2>1 DEF TableOf
  <2>3. tab[h][i] = vol.disk[Slotted(ch[h], i)[1]][Slotted(ch[h], i)[2]]
    BY <2>1, <2>2 DEF TableOf
  <2>4. At(vol, Slotted(ch[h], i)) = tab[h][i]
    BY <2>3 DEF At
  <2> HIDE DEF ch, tab
  <2> QED  BY <2>4 DEF IsLike
<1>9. But(vol, fp) = << 0, 0 >> /\ ~IsOpen(vol, fp)
  BY <1>4 DEF But, IsOpen
<1>10. Good(vol, ch, tab, But(vol, fp))
  BY <1>5, <1>6, <1>7, <1>8, <1>9 DEF Good
<1>11. Told(vol, fp)
  BY <1>3, <1>4, <1>5 DEF Told
<1>12. FilForm(fp) /\ fp.id <= vol.id
  BY <1>4, ClosedForm
<1> HIDE DEF ch, tab
<1>13. Healthy(vol, fp, ch, tab)
  BY <1>5, <1>9, <1>10, <1>11, <1>12 DEF Healthy
<1> QED  BY <1>1, <1>13 DEF FatInv, Sound

(* Every call replies, and the application is the one it was.              *)
LEMMA SameCaller ==
  ASSUME FatInv, [Next]_vars
  PROVE  caller' = caller
<1>1. ASSUME NEW call, NEW v, NEW res, NEW out, Reply(call, v, res, out)
      PROVE  caller' = caller
  BY <1>1 DEF Reply
<1>2. CASE UNCHANGED vars
  BY <1>2 DEF vars
<1>3. CASE Next
  <2>1. CASE OnFile
    BY <2>1, <1>1 DEF OnFile, f_read, f_write, f_lseek, f_truncate, f_sync, f_close
  <2>2. CASE OnDirectory
    BY <2>2, <1>1 DEF OnDirectory, f_readdir, f_rewinddir, f_closedir
  <2>3. CASE OnTree
    <3>1. CASE f_getfree
      BY <3>1, <1>1 DEF f_getfree
    <3>2. ASSUME NEW path, f_stat(path) \/ f_opendir(path) \/ f_mkdir(path) \/ f_unlink(path)
          PROVE  caller' = caller
      <4>1. CASE f_stat(path)
        BY <4>1, <1>1 DEF f_stat
      <4>2. CASE f_opendir(path)
        BY <4>2, <1>1 DEF f_opendir
      <4>3. CASE f_mkdir(path)
        BY <4>3, <1>1 DEF f_mkdir
      <4>4. CASE f_unlink(path)
        BY <4>4, <1>1 DEF f_unlink
      <4> QED  BY <3>2, <4>1, <4>2, <4>3, <4>4
    <3>3. ASSUME NEW path, NEW mode, f_open(path, mode)
          PROVE  caller' = caller
      BY <3>3, <1>1 DEF f_open
    <3>4. ASSUME NEW path, NEW path2, f_rename(path, path2)
          PROVE  caller' = caller
      BY <3>4, <1>1 DEF f_rename
    <3> QED  BY <2>3, <3>1, <3>2, <3>3, <3>4 DEF OnTree
  <2>4. CASE \E how \in {"now", "later", "never"} : f_mount(how)
    BY <2>4, <1>1 DEF f_mount
  <2> QED  BY <1>3, <2>1, <2>2, <2>3, <2>4 DEF Next
<1> QED  BY <1>2, <1>3

(* Every step leaves a sound volume.                                       *)
LEMMA StaysSoundNext ==
  ASSUME FatInv, [Next]_vars
  PROVE  FatInv'
<1>1. Sound(vol, fp) /\ caller \in Callers
  BY DEF FatInv
<1>2. /\ caller.paths \subseteq Seq(Seq(STRING)) /\ caller.lengths \subseteq Nat
      /\ \A mode \in caller.modes : mode \cap {"DIRTY", "MODIFIED"} = {}
  BY <1>1, CallersAssumption
<1>3. CASE UNCHANGED vars
  BY <1>1, <1>3 DEF vars, FatInv, Sound, Healthy
<1>4. CASE Next
  <2>1. ASSUME NEW n \in Nat, (n > 0 /\ (f_read(n) \/ f_write(n))) \/ f_lseek(n)
        PROVE  Sound(vol', fp')
    BY <1>1, <2>1, ReadCall, WriteCall, SeekCall
  <2>2. ASSUME OnFile PROVE Sound(vol', fp')
    BY <1>1, <1>2, <2>1, <2>2, TruncateCall, SyncCall DEF OnFile
  <2>3. ASSUME OnDirectory PROVE Sound(vol', fp')
    BY <1>1, <2>3, LookCall DEF OnDirectory
  <2>4. ASSUME OnTree PROVE Sound(vol', fp')
    <3>1. CASE f_getfree
      BY <1>1, <3>1, GetFreeCall
    <3>2. ASSUME NEW path \in Seq(Seq(STRING)),
                 f_stat(path) \/ f_opendir(path) \/ f_mkdir(path) \/ f_unlink(path)
          PROVE  Sound(vol', fp')
      BY <1>1, <3>2, LookCall, MkdirCall, UnlinkCall DEF MadeIt
    <3>3. ASSUME NEW path \in Seq(Seq(STRING)), NEW mode \in caller.modes, f_open(path, mode)
          PROVE  Sound(vol', fp')
      BY <1>1, <1>2, <3>3, Opening DEF OpenedTo
    <3>4. ASSUME NEW path \in Seq(Seq(STRING)), NEW path2 \in Seq(Seq(STRING)),
                 f_rename(path, path2)
          PROVE  Sound(vol', fp')
      BY <1>1, <3>4, RenameCall DEF RenamedTo
    <3> QED  BY <1>2, <2>4, <3>1, <3>2, <3>3, <3>4 DEF OnTree
  <2>5. ASSUME \E how \in {"now", "later", "never"} : f_mount(how)
        PROVE  Sound(vol', fp')
    BY <1>1, <2>5, MountCall
  <2>6. Sound(vol', fp')
    BY <1>4, <2>2, <2>3, <2>4, <2>5 DEF Next
  <2> QED  BY <1>1, <2>6, SameCaller DEF FatInv
<1> QED  BY <1>3, <1>4

(* Between any two calls the card is sound, and so is the open file.       *)
THEOREM CardStaysSound == Spec => []FatInv
<1>1. Init => FatInv
  BY BeginsSound
<1>2. FatInv /\ [Next]_vars => FatInv'
  BY StaysSoundNext
<1> QED  BY <1>1, <1>2, PTL DEF Spec

(* The calls that do not ask for room                                      *)
LEMMA OtherCalls ==
  ASSUME FatInv, Next,
         answer'.call[1] \in {"f_write", "f_lseek", "f_open", "f_mkdir", "f_rename"}
  PROVE  \/ \E n \in Nat : f_write(n) \/ f_lseek(n)
         \/ \E path \in Seq(Seq(STRING)) : f_mkdir(path)
         \/ \E path \in Seq(Seq(STRING)) : \E mode \in caller.modes : f_open(path, mode)
         \/ \E path, path2 \in Seq(Seq(STRING)) : f_rename(path, path2)
<1> DEFINE P == \/ \E n \in Nat : f_write(n) \/ f_lseek(n)
                \/ \E path \in Seq(Seq(STRING)) : f_mkdir(path)
                \/ \E path \in Seq(Seq(STRING)) : \E mode \in caller.modes : f_open(path, mode)
                \/ \E path, path2 \in Seq(Seq(STRING)) : f_rename(path, path2)
<1>1. ASSUME NEW call, NEW v, NEW res, NEW out, Reply(call, v, res, out)
      PROVE  answer'.call = call
  BY <1>1 DEF Reply
<1>2. caller.paths \subseteq Seq(Seq(STRING)) /\ caller.lengths \subseteq Nat
  BY CallersAssumption DEF FatInv
<1> DEFINE room == {"f_write", "f_lseek", "f_open", "f_mkdir", "f_rename"}
<1>3. ASSUME NEW n, f_read(n) PROVE answer'.call[1] \notin room
  BY <1>3, <1>1 DEF f_read
<1>4. ASSUME f_truncate \/ f_sync \/ f_close PROVE answer'.call[1] \notin room
  BY <1>4, <1>1 DEF f_truncate, f_sync, f_close
<1>5. ASSUME f_readdir \/ f_rewinddir \/ f_closedir PROVE answer'.call[1] \notin room
  BY <1>5, <1>1 DEF f_readdir, f_rewinddir, f_closedir
<1>6. ASSUME f_getfree PROVE answer'.call[1] \notin room
  BY <1>6, <1>1 DEF f_getfree
<1>7. ASSUME NEW path, f_stat(path) PROVE answer'.call[1] \notin room
  BY <1>7, <1>1 DEF f_stat
<1>8. ASSUME NEW path, f_opendir(path) PROVE answer'.call[1] \notin room
  BY <1>8, <1>1 DEF f_opendir
<1>9. ASSUME NEW path, f_unlink(path) PROVE answer'.call[1] \notin room
  BY <1>9, <1>1 DEF f_unlink
<1>10. ASSUME NEW how, f_mount(how) PROVE answer'.call[1] \notin room
  BY <1>10, <1>1 DEF f_mount
<1>11. CASE OnFile
  BY <1>2, <1>3, <1>4, <1>11 DEF OnFile
<1>12. CASE OnDirectory
  BY <1>5, <1>12 DEF OnDirectory
<1>13. CASE OnTree
  BY <1>2, <1>6, <1>7, <1>8, <1>9, <1>13 DEF OnTree
<1>14. CASE \E how \in {"now", "later", "never"} : f_mount(how)
  BY <1>10, <1>14
<1> QED  BY <1>11, <1>12, <1>13, <1>14 DEF Next

(* A call that is refused has reason to be.                                *)
LEMMA RefusalsAreDue ==
  ASSUME FatInv, [Next]_vars
  PROVE  [RefusalIsDue]_vars
<1> SUFFICES ASSUME Next PROVE RefusalIsDue
  OBVIOUS
<1>1. Sound(vol, fp) /\ \A mode \in caller.modes : mode \cap {"DIRTY", "MODIFIED"} = {}
  BY CallersAssumption DEF FatInv
<1>2. Cardinality(Free(vol')) \in Nat /\ (Free(vol') = {} => Cardinality(Free(vol')) = 0)
  BY FreeIs
<1>3. CASE answer'.call[1] \notin {"f_write", "f_lseek", "f_open", "f_mkdir", "f_rename"}
  BY <1>3 DEF RefusalIsDue
<1>4. ASSUME NEW n \in Nat, f_write(n) PROVE RefusalIsDue
  <2>1. /\ answer'.call = << "f_write", Bytes(n) >>
        /\ answer'.res = "OK" => answer'.out[1] = Len(Bytes(n)) \/ Free(vol') = {}
    BY <1>1, <1>4, WriteCall
  <2>2. answer'.call[1] = "f_write" /\ answer'.call[2] = Bytes(n)
    BY <2>1
  <2> QED  BY <1>2, <2>1, <2>2 DEF RefusalIsDue
<1>5. ASSUME NEW n \in Nat, f_lseek(n) PROVE RefusalIsDue
  <2>1. /\ answer'.call = << "f_lseek", n >>
        /\ answer'.res = "OK" /\ "WRITE" \in fp.flag => fp'.fptr = n \/ Free(vol') = {}
    BY <1>1, <1>5, SeekCall
  <2>2. answer'.call[1] = "f_lseek" /\ answer'.call[2] = n
    BY <2>1
  <2> QED  BY <1>2, <2>1, <2>2 DEF RefusalIsDue
<1>6. ASSUME NEW path \in Seq(Seq(STRING)), f_mkdir(path) PROVE RefusalIsDue
  <2>1. MadeIt(path, mount_volume(vol), follow_path(mount_volume(vol), path))
    BY <1>1, <1>6, MkdirCall
  <2>2. answer'.call[1] = "f_mkdir" /\ answer'.call[2] = path
    BY <2>1 DEF MadeIt
  <2> QED  BY <2>1, <2>2 DEF RefusalIsDue, MadeIt
<1>7. ASSUME NEW path \in Seq(Seq(STRING)), NEW mode \in caller.modes, f_open(path, mode)
      PROVE  RefusalIsDue
  <2> DEFINE call == << "f_open", path, mode >>
  <2>1. OpenedTo(call, mount_volume(vol), follow_path(mount_volume(vol), path))
    BY <1>1, <1>7, Opening
  <2>2. answer'.call[1] = "f_open" /\ answer'.call[2] = path
    BY <2>1 DEF OpenedTo
  <2> QED  BY <1>2, <2>1, <2>2 DEF RefusalIsDue, OpenedTo
<1>8. ASSUME NEW path \in Seq(Seq(STRING)), NEW path2 \in Seq(Seq(STRING)),
             f_rename(path, path2)
      PROVE  RefusalIsDue
  <2>1. RenamedTo(<< "f_rename", path, path2 >>, mount_volume(vol),
                  follow_path(mount_volume(vol), path2))
    BY <1>1, <1>8, RenameCall
  <2>2. answer'.call[1] = "f_rename" /\ answer'.call[3] = path2
    BY <2>1 DEF RenamedTo
  <2> QED  BY <1>2, <2>1, <2>2 DEF RefusalIsDue, RenamedTo
<1> QED  BY <1>3, <1>4, <1>5, <1>6, <1>7, <1>8, OtherCalls

(* A call is refused, or does less than it was asked to, only when the     *)
(* volume or the directory is full: whatever the sizes of the volume are,  *)
(* and whatever sound card and calls the application has.                  *)
THEOREM NoRefusalWithoutReason == Spec => RefusedOnlyWhenFull
<1>1. FatInv /\ [Next]_vars => [RefusalIsDue]_vars
  BY RefusalsAreDue
<1> QED  BY <1>1, CardStaysSound, PTL DEF Spec, RefusedOnlyWhenFull

(***************************************************************************)
(* What a reader finds.                                                    *)
(***************************************************************************)
(* No cluster is linked to none.                                           *)
LEMMA NoChain ==
  ASSUME NEW v, v.fat \in [Cluster -> LinkVal]
  PROVE  Links(v, 0) = {}
<1> DEFINE w == Walk(v, 0)
           S == {k \in 0 .. NCLST : k >= 1 => w[k] \notin Cluster}
<1>1. /\ w \in [1 .. NCLST -> LinkVal] /\ w[1] = 0
      /\ \A k \in 1 .. NCLST - 1 : w[k + 1] = Follow(v.fat, w[k])
  <2>1. 0 \in LinkVal
    BY DEF LinkVal
  <2> QED  BY <2>1, WalkIs
<1> HIDE DEF w
<1>2. 0 \in S
  BY Sizes
<1>3. ASSUME NEW k \in 0 .. NCLST - 1, k \in S  PROVE k + 1 \in S
  <2>1. k + 1 \in 0 .. NCLST /\ (k # 0 => k \in 1 .. NCLST - 1 /\ k >= 1)
    BY Sizes
  <2>2. w[k + 1] \notin Cluster
    BY <1>1, <1>3, <2>1, Sizes DEF Follow
  <2> QED  BY <2>1, <2>2
<1>4. \A k \in 0 .. NCLST : k \in S
  <2> HIDE DEF S
  <2> QED  BY <1>2, <1>3, Sizes, Induction
<1>5. {k \in 1 .. NCLST : w[k] \in Cluster} = {}
  <2>1. \A k \in 1 .. NCLST : k \in 0 .. NCLST /\ k >= 1
    BY Sizes
  <2> QED  BY <1>4, <2>1
<1>6. Cardinality({}) = 0
  BY FS_EmptySet
<1>7. SubSeq(w, 1, 0) = << >>
  BY <1>1, Sizes
<1>8. Chain(v, 0) = SubSeq(w, 1, Cardinality({k \in 1 .. NCLST : w[k] \in Cluster}))
  BY DEF Chain, With, w
<1>9. Chain(v, 0) = << >>
  BY <1>5, <1>6, <1>7, <1>8
<1> QED  BY <1>9 DEF Links, ToSet

(* What is found directory by directory: the objects that are not deeper   *)
(* than n, and those that are in the deepest directories of them.          *)
Deep(os, n) == {o \in os : "DIR" \in o.e.attr /\ Len(o.path) = n}
Wider(os, n) == os \cup UNION {In(o) : o \in Deep(os, n)}
Stages(N, w) ==
  /\ w = [n \in 0 .. N |-> w[n]] /\ w[0] = {Root}
  /\ \A n \in 1 .. N : w[n] = Wider(w[n - 1], n - 1)

(* There is such a sequence of stages.                                     *)
LEMMA Widening ==
  ASSUME NEW N \in Nat
  PROVE  \E w : Stages(N, w)
<1> DEFINE S == {k \in 0 .. N : \E w : Stages(k, w)}
<1>1. 0 \in S
  <2> DEFINE w == [n \in 0 .. 0 |-> {Root}]
  <2>1. w = [n \in 0 .. 0 |-> w[n]] /\ w[0] = {Root} /\ 1 .. 0 = {}
    OBVIOUS
  <2> HIDE DEF w
  <2>2. Stages(0, w)
    BY <2>1 DEF Stages
  <2> QED  BY <2>2
<1>2. ASSUME NEW k \in 0 .. N - 1, k \in S  PROVE k + 1 \in S
  <2>1. PICK w : Stages(k, w)
    BY <1>2
  <2> DEFINE h == [n \in 0 .. k + 1 |-> IF n = k + 1 THEN Wider(w[k], k) ELSE w[n]]
  <2>2. k \in Nat /\ k + 1 \in 0 .. N /\ k + 1 # 0 /\ (k + 1) - 1 = k /\ k # k + 1
        /\ k + 1 \in 0 .. k + 1 /\ 0 \in 0 .. k + 1
    OBVIOUS
  <2>3. \A n \in 0 .. k : n # k + 1 /\ n \in 0 .. k + 1 /\ h[n] = w[n]
    BY <2>2
  <2>4. h[k + 1] = Wider(w[k], k) /\ h[k] = w[k] /\ h[0] = {Root}
    <3>1. w[0] = {Root}
      BY <2>1 DEF Stages
    <3>2. k \in 0 .. k /\ 0 \in 0 .. k
      BY <2>2
    <3> QED  BY <3>1, <3>2, <2>2, <2>3
  <2>5. h = [n \in 0 .. k + 1 |-> h[n]]
    OBVIOUS
  <2> HIDE DEF h
  <2>6. ASSUME NEW n \in 1 .. k + 1  PROVE h[n] = Wider(h[n - 1], n - 1)
    <3>1. CASE n = k + 1
      BY <3>1, <2>2, <2>4
    <3>2. CASE n # k + 1
      <4>1. n \in 1 .. k /\ n \in 0 .. k /\ n - 1 \in 0 .. k
        BY <3>2, <2>2
      <4>2. w[n] = Wider(w[n - 1], n - 1)
        BY <4>1, <2>1 DEF Stages
      <4> QED  BY <4>1, <4>2, <2>3
    <3> QED  BY <3>1, <3>2
  <2>7. Stages(k + 1, h)
    BY <2>4, <2>5, <2>6 DEF Stages
  <2> QED  BY <2>2, <2>7
<1>3. \A k \in 0 .. N : k \in S
  <2> HIDE DEF S
  <2> QED  BY <1>1, <1>2, Induction
<1> QED  BY <1>3

(* The objects of the model are those of the last stage.                   *)
LEMMA ObjectsAre ==
  \E w : Stages(NCLST, w) /\ Objects = w[NCLST] \ {Root}
<1> DEFINE Deepest(os, n) == {o \in os : "DIR" \in o.e.attr /\ Len(o.path) = n}
           Start(x) == [n \in 0 .. NCLST |->
                          IF n = 0 THEN {Root}
                          ELSE With(x[n - 1], LAMBDA os :
                                 os \cup UNION {In(o) : o \in Deepest(os, n - 1)})]
           Body(x) == [n \in 0 .. NCLST |-> IF n = 0 THEN {Root} ELSE Wider(x[n - 1], n - 1)]
           f == CHOOSE x : x = Start(x)
<1>1. \A x : Start(x) = Body(x)
  BY DEF With, Wider, Deep
<1>2. Objects = f[NCLST] \ {Root}
  BY DEF Objects
<1> HIDE DEF Start
<1>3. PICK w : Stages(NCLST, w)
  BY Widening, Sizes
<1>4. w = Body(w)
  <2>1. w = [n \in 0 .. NCLST |-> w[n]] /\ w[0] = {Root}
        /\ \A n \in 1 .. NCLST : w[n] = Wider(w[n - 1], n - 1)
    BY <1>3 DEF Stages
  <2>2. \A n \in 0 .. NCLST : n # 0 => n \in 1 .. NCLST
    BY Sizes
  <2>3. \A n \in 0 .. NCLST : w[n] = IF n = 0 THEN {Root} ELSE Wider(w[n - 1], n - 1)
    BY <2>1, <2>2
  <2> QED  BY <2>1, <2>3
<1>5. f = Body(f)
  <2> HIDE DEF Body
  <2> QED  BY <1>1, <1>4
<1> HIDE DEF f
<1>6. Stages(NCLST, f)
  <2>1. \A n \in 0 .. NCLST : f[n] = IF n = 0 THEN {Root} ELSE Wider(f[n - 1], n - 1)
    BY <1>5
  <2>2. f = [n \in 0 .. NCLST |-> f[n]]
    BY <1>5
  <2>3. \A n \in 1 .. NCLST : n \in 0 .. NCLST /\ n # 0
    BY Sizes
  <2>4. 0 \in 0 .. NCLST
    BY Sizes
  <2> HIDE DEF Body
  <2> QED  BY <2>1, <2>2, <2>3, <2>4 DEF Stages
<1> QED  BY <1>2, <1>6

(* An entry as the open file would have it.                                *)
LEMMA RowNow ==
  ASSUME NEW ch, NEW tab, Healthy(vol, fp, ch, tab), NEW g \in DOMAIN tab,
         NEW i \in Shown(tab[g]), NEW p, p = Slotted(ch[g], i), NEW e, e = At(vol, p)
  PROVE  /\ (IF OpenFile(p) THEN Entry(e.name, e.attr, fp.sclust, fp.objsize) ELSE e) = tab[g][i]
         /\ e.name = tab[g][i].name /\ p # << 0, 0 >>
<1>1. Good(vol, ch, tab, But(vol, fp)) /\ TreeForm(ch, tab) /\ Chained(vol.fat, ch)
  BY DEF Healthy, Good
<1>2. i \in DOMAIN tab[g] /\ IsEntry(tab[g][i])
  BY <1>1, EntryFacts
<1>3. /\ IsLike(e, tab[g][i]) /\ (p # But(vol, fp) => e = tab[g][i]) /\ p # << 0, 0 >>
      /\ g \in DOMAIN ch /\ i \in Nat /\ i < Len(ch[g]) * CLSZ
  BY <1>1, <1>2, RowFacts DEF RowOf, PlaceOf
<1>4. OpenFile(p) <=> IsOpen(vol, fp) /\ fp.dir = p
  BY DEF OpenFile, validate, IsOpen
<1>5. CASE OpenFile(p)
  <2>1. PICK h \in DOMAIN tab : \E k \in Shown(tab[h]) : IsFor(vol, fp, ch, tab, h, k)
    BY <1>4, <1>5 DEF Healthy, HasEntry
  <2>2. PICK k \in Shown(tab[h]) : IsFor(vol, fp, ch, tab, h, k)
    BY <2>1
  <2>3. fp.dir = Slotted(ch[h], k) /\ tab[h][k].sclust = fp.sclust /\ tab[h][k].size = fp.objsize
    BY <2>2 DEF IsFor
  <2>4. k \in DOMAIN tab[h]
    BY <1>1, EntryFacts
  <2>5. h \in DOMAIN ch /\ k \in Nat /\ k < Len(ch[h]) * CLSZ
    BY <1>1, <2>4, RowFacts DEF RowOf
  <2>6. g = h /\ i = k
    BY <1>1, <1>3, <1>4, <1>5, <2>3, <2>5, PlaceOnce
  <2>7. tab[g][i] = Entry(tab[g][i].name, tab[g][i].attr, tab[g][i].sclust, tab[g][i].size)
    BY <1>2 DEF IsEntry
  <2> QED  BY <1>3, <1>5, <2>3, <2>6, <2>7 DEF IsLike
<1>6. CASE ~OpenFile(p)
  <2>1. p # But(vol, fp)
    BY <1>3, <1>4, <1>6 DEF But
  <2> QED  BY <1>3, <1>6, <2>1
<1> QED  BY <1>5, <1>6

(* What In() finds in the directory o whose table is g: the objects of the *)
(* rows that are shown.                                                    *)
Stand(ch, tab, o, g, i) ==
  [path |-> Append(o.path, tab[g][i].name), dir |-> o.e.sclust,
   place |-> Slotted(ch[g], i), e |-> tab[g][i]]

(* In() finds what the table shows.                                        *)
LEMMA InIs ==
  ASSUME NEW ch, NEW tab, Healthy(vol, fp, ch, tab), NEW g \in DOMAIN tab,
         NEW o, o.e.sclust = IdOf(g)
  PROVE  In(o) = {Stand(ch, tab, o, g, i) : i \in Shown(tab[g])}
<1>1. Good(vol, ch, tab, But(vol, fp)) /\ TreeForm(ch, tab) /\ Tables(ch, tab)
  BY DEF Healthy, TreeForm
<1> DEFINE places == Places(vol, o.e.sclust)
           Now(e, place) == IF OpenFile(place) THEN Entry(e.name, e.attr, fp.sclust, fp.objsize)
                            ELSE e
           Object(e, place) == [path |-> Append(o.path, e.name), dir |-> o.e.sclust,
                                place |-> place, e |-> Now(e, place)]
<1>2. places = [i \in DOMAIN tab[g] |-> Slotted(ch[g], i)]
      /\ Table(vol, o.e.sclust) = [i \in DOMAIN tab[g] |-> At(vol, Slotted(ch[g], i))]
      /\ Listed(Table(vol, o.e.sclust)) = Listed(tab[g])
  BY <1>1, TableIs DEF TableFound
<1>3. Listed(tab[g]) = Shown(tab[g])
  BY <1>1, ListedShown
<1>4. In(o) = {Object(At(vol, places[i]), places[i]) :
                 i \in Listed([i \in DOMAIN places |-> At(vol, places[i])])}
  BY DEF In, With
<1>5. [i \in DOMAIN places |-> At(vol, places[i])] = Table(vol, o.e.sclust)
  <2> HIDE DEF places
  <2> QED  BY <1>2
<1>6. In(o) = {Object(At(vol, places[i]), places[i]) : i \in Shown(tab[g])}
  BY <1>2, <1>3, <1>4, <1>5
<1>7. ASSUME NEW i \in Shown(tab[g])
      PROVE  Object(At(vol, places[i]), places[i]) = Stand(ch, tab, o, g, i)
  <2>1. i \in DOMAIN tab[g]
    BY DEF Shown
  <2>2. places[i] = Slotted(ch[g], i)
    <3> HIDE DEF places
    <3> QED  BY <1>2, <2>1
  <2> HIDE DEF places
  <2> DEFINE p == Slotted(ch[g], i)
             e == At(vol, p)
  <2>3. Now(e, p) = tab[g][i] /\ e.name = tab[g][i].name
    BY RowNow
  <2>4. Object(e, p) = Stand(ch, tab, o, g, i)
    <3> HIDE DEF p, e, Now
    <3> QED  BY <2>3 DEF Stand, p
  <2> QED  BY <2>2, <2>4
<1> HIDE DEF Object, places
<1> QED  BY <1>6, <1>7

(* What is known of the objects that are found within n directories.       *)
Names(tab) == UNION {{tab[h][i].name : i \in DOMAIN tab[h]} : h \in DOMAIN tab}
Child(ch, tab, os, o) ==
  \E d \in os : \E g \in DOMAIN tab : \E i \in Shown(tab[g]) :
    /\ "DIR" \in d.e.attr /\ d.e.sclust = IdOf(g) /\ d.path \in Seq(Names(tab))
    /\ o = Stand(ch, tab, d, g, i)
Placed(ch, tab, os, n, o) ==
  /\ o.path \in Seq(Names(tab)) /\ Len(o.path) \in 0 .. n
  /\ o = Root \/ Child(ch, tab, os, o)
  /\ "DIR" \in o.e.attr => /\ \E g \in DOMAIN tab : o.e.sclust = IdOf(g)
                           /\ Len(o.path) < n => In(o) \subseteq os
Found(ch, tab, os, n) == Root \in os /\ \A o \in os : Placed(ch, tab, os, n, o)

(* What the root is.                                                       *)
LEMMA RootIs ==
  /\ Root.path = << >> /\ Root.place = << 0, 0 >> /\ Root.e = RootEntry
  /\ Root.e.attr = {"DIR"} /\ Root.e.sclust = 0 /\ "DIR" \in Root.e.attr /\ IdOf(dirbase) = 0
BY DEF Root, RootEntry, Entry, IdOf

(* The object of a row                                                     *)
StandOf(ch, tab, d, g, i, o) ==
  /\ o.path \in Seq(Names(tab)) /\ Len(o.path) = Len(d.path) + 1 /\ Len(d.path) \in Nat
  /\ o.e = tab[g][i] /\ o.place = Slotted(ch[g], i) /\ o.dir = d.e.sclust
  /\ o.path = Append(d.path, tab[g][i].name) /\ tab[g][i].name \in Names(tab)

(* What the object of a row is.                                            *)
LEMMA StandIs ==
  ASSUME NEW ch, NEW tab, NEW g \in DOMAIN tab, NEW i \in Shown(tab[g]),
         NEW d, d.path \in Seq(Names(tab)), NEW o, o = Stand(ch, tab, d, g, i)
  PROVE  StandOf(ch, tab, d, g, i, o)
<1>1. i \in DOMAIN tab[g]
  BY DEF Shown
<1>2. tab[g][i].name \in Names(tab)
  BY <1>1 DEF Names
<1>3. /\ o.e = tab[g][i] /\ o.place = Slotted(ch[g], i) /\ o.dir = d.e.sclust
      /\ o.path = Append(d.path, tab[g][i].name)
  BY DEF Stand
<1> QED  BY <1>2, <1>3 DEF StandOf

(* The next stage is what is known of it.                                  *)
LEMMA WiderFound ==
  ASSUME NEW ch, NEW tab, Healthy(vol, fp, ch, tab), NEW n \in Nat,
         NEW os, Found(ch, tab, os, n)
  PROVE  Found(ch, tab, Wider(os, n), n + 1)
<1> DEFINE more == Wider(os, n)
<1>1. Chained(vol.fat, ch) /\ TreeForm(ch, tab)
  BY DEF Healthy, Good
<1>2. os \subseteq more /\ \A d \in Deep(os, n) : In(d) \subseteq more
  BY DEF Wider
<1>3. ASSUME NEW o \in os  PROVE Placed(ch, tab, more, n + 1, o)
  <2>1. Placed(ch, tab, os, n, o)
    BY DEF Found
  <2>2. o.path \in Seq(Names(tab)) /\ Len(o.path) \in 0 .. n /\ Len(o.path) \in 0 .. n + 1
    BY <2>1 DEF Placed
  <2>3. o = Root \/ Child(ch, tab, more, o)
    BY <1>2, <2>1 DEF Placed, Child
  <2>4. ASSUME "DIR" \in o.e.attr, Len(o.path) < n + 1  PROVE In(o) \subseteq more
    <3>1. CASE Len(o.path) < n
      BY <1>2, <2>1, <2>4, <3>1 DEF Placed
    <3>2. CASE Len(o.path) = n
      BY <1>2, <2>4, <3>2 DEF Deep
    <3> QED  BY <2>2, <2>4, <3>1, <3>2
  <2>5. "DIR" \in o.e.attr => \E g \in DOMAIN tab : o.e.sclust = IdOf(g)
    BY <2>1 DEF Placed
  <2> HIDE DEF more
  <2> QED  BY <2>2, <2>3, <2>4, <2>5 DEF Placed
<1>4. ASSUME NEW d \in Deep(os, n), NEW o \in In(d)  PROVE Placed(ch, tab, more, n + 1, o)
  <2>1. d \in os /\ "DIR" \in d.e.attr /\ Len(d.path) = n /\ Placed(ch, tab, os, n, d)
    BY DEF Deep, Found
  <2>2. PICK g \in DOMAIN tab : d.e.sclust = IdOf(g)
    BY <2>1 DEF Placed
  <2>3. PICK i \in Shown(tab[g]) : o = Stand(ch, tab, d, g, i)
    BY <2>2, InIs
  <2>4. d.path \in Seq(Names(tab))
    BY <2>1 DEF Placed
  <2>5. o.path \in Seq(Names(tab)) /\ Len(o.path) = n + 1 /\ o.e = tab[g][i]
    <3>1. StandOf(ch, tab, d, g, i, o)
      BY <2>3, <2>4, StandIs
    <3> QED  BY <2>1, <3>1 DEF StandOf
  <2>6. Child(ch, tab, more, o)
    BY <1>2, <2>1, <2>2, <2>3, <2>4 DEF Child
  <2>7. ASSUME "DIR" \in o.e.attr  PROVE \E h \in DOMAIN tab : o.e.sclust = IdOf(h)
    <3>1. EntryIsSound(ch, tab, g, tab[g][i])
      BY <1>1, EntryFacts
    <3>2. tab[g][i].sclust \in DOMAIN tab \ {dirbase}
      BY <2>5, <2>7, <3>1 DEF EntryIsSound
    <3> QED  BY <2>5, <3>2 DEF IdOf
  <2>8. Len(o.path) \in 0 .. n + 1 /\ ~(Len(o.path) < n + 1)
    BY <2>5
  <2> HIDE DEF more
  <2> QED  BY <2>5, <2>6, <2>7, <2>8 DEF Placed
<1>5. \A o \in more : o \in os \/ \E d \in Deep(os, n) : o \in In(d)
  BY DEF Wider
<1>6. Root \in more
  BY <1>2 DEF Found
<1> HIDE DEF more
<1>7. \A o \in more : Placed(ch, tab, more, n + 1, o)
  BY <1>3, <1>4, <1>5
<1>8. Found(ch, tab, more, n + 1)
  BY <1>6, <1>7 DEF Found
<1> QED  BY <1>8 DEF more

(* So is every stage.                                                      *)
LEMMA StageFound ==
  ASSUME NEW ch, NEW tab, Healthy(vol, fp, ch, tab), NEW w, Stages(NCLST, w)
  PROVE  \A n \in 0 .. NCLST : Found(ch, tab, w[n], n)
<1> DEFINE S == {n \in 0 .. NCLST : Found(ch, tab, w[n], n)}
<1>1. 0 \in S
  <2>1. dirbase \in DOMAIN tab
    BY DEF Healthy, Good, Tabular
  <2>2. Root.path \in Seq(Names(tab)) /\ Len(Root.path) = 0
    BY RootIs
  <2>3. Placed(ch, tab, {Root}, 0, Root)
    BY <2>1, <2>2, RootIs DEF Placed
  <2>4. Found(ch, tab, {Root}, 0)
    BY <2>3 DEF Found
  <2>5. w[0] = {Root} /\ 0 \in 0 .. NCLST
    BY Sizes DEF Stages
  <2> QED  BY <2>4, <2>5
<1>2. ASSUME NEW n \in 0 .. NCLST - 1, n \in S  PROVE n + 1 \in S
  <2>1. n \in Nat /\ n + 1 \in 1 .. NCLST /\ n + 1 \in 0 .. NCLST /\ (n + 1) - 1 = n
    BY Sizes
  <2>2. w[n + 1] = Wider(w[n], n)
    <3>1. w[n + 1] = Wider(w[(n + 1) - 1], (n + 1) - 1)
      BY <2>1 DEF Stages
    <3> QED  BY <2>1, <3>1
  <2>3. Found(ch, tab, w[n], n)
    BY <1>2
  <2> QED  BY <2>1, <2>2, <2>3, WiderFound
<1>3. \A n \in 0 .. NCLST : n \in S
  <2> HIDE DEF S
  <2> QED  BY <1>1, <1>2, Sizes, Induction
<1> QED  BY <1>3

(* Objects that are at one place, and objects that have one path, are one. *)
LEMMA RootOrNot ==
  ASSUME NEW ch, NEW tab, Healthy(vol, fp, ch, tab), NEW os, NEW n, NEW o,
         Placed(ch, tab, os, n, o)
  PROVE  /\ o = Root <=> o.place = << 0, 0 >>
         /\ o = Root <=> Len(o.path) = 0
         /\ "DIR" \in o.e.attr => (o = Root <=> o.e.sclust = 0)
<1>1. CASE o = Root
  BY <1>1, RootIs
<1>2. CASE o # Root
  <2>1. PICK d \in os : \E g \in DOMAIN tab : \E i \in Shown(tab[g]) :
          /\ "DIR" \in d.e.attr /\ d.e.sclust = IdOf(g) /\ d.path \in Seq(Names(tab))
          /\ o = Stand(ch, tab, d, g, i)
    BY <1>2 DEF Placed, Child
  <2>9. PICK g \in DOMAIN tab : \E i \in Shown(tab[g]) :
          d.path \in Seq(Names(tab)) /\ o = Stand(ch, tab, d, g, i)
    BY <2>1
  <2>2. PICK i \in Shown(tab[g]) : d.path \in Seq(Names(tab)) /\ o = Stand(ch, tab, d, g, i)
    BY <2>9
  <2>3. /\ Len(o.path) = Len(d.path) + 1 /\ Len(d.path) \in Nat
        /\ o.e = tab[g][i] /\ o.place = Slotted(ch[g], i)
    <3>1. StandOf(ch, tab, d, g, i, o)
      BY <2>2, StandIs
    <3> QED  BY <3>1 DEF StandOf
  <2>4. o.place # << 0, 0 >>
    BY <2>3, RowNow
  <2>5. Chained(vol.fat, ch) /\ TreeForm(ch, tab)
    BY DEF Healthy, Good
  <2>6. EntryIsSound(ch, tab, g, tab[g][i])
    BY <2>5, EntryFacts
  <2>7. "DIR" \in o.e.attr => o.e.sclust \in DOMAIN tab
    BY <2>3, <2>6 DEF EntryIsSound
  <2>8. 0 \notin DOMAIN tab
    BY <2>5, Heads DEF TreeForm, Tables
  <2> QED  BY <1>2, <2>3, <2>4, <2>7, <2>8
<1> QED  BY <1>1, <1>2

Whole(ch, tab, os) == Healthy(vol, fp, ch, tab) /\ Found(ch, tab, os, NCLST)
ChildAt(ch, tab, os, d, g, i, o) ==
  /\ d \in os /\ g \in DOMAIN tab /\ i \in Shown(tab[g])
  /\ "DIR" \in d.e.attr /\ d.e.sclust = IdOf(g) /\ o = Stand(ch, tab, d, g, i)
  /\ StandOf(ch, tab, d, g, i, o)
RowAt(ch, tab, g, i) ==
  /\ g \in DOMAIN ch /\ g \in Cluster /\ i \in Nat /\ i < Len(ch[g]) * CLSZ
  /\ EntryIsSound(ch, tab, g, tab[g][i]) /\ IsEntry(tab[g][i])

(* Every object but the root has its row in a directory that is found.     *)
LEMMA ChildIs ==
  ASSUME NEW ch, NEW tab, NEW os, Whole(ch, tab, os), NEW o \in os, o # Root
  PROVE  \E d, g, i : ChildAt(ch, tab, os, d, g, i, o)
<1>1. Placed(ch, tab, os, NCLST, o)
  BY DEF Whole, Found
<1>2. PICK d \in os : \E g \in DOMAIN tab : \E i \in Shown(tab[g]) :
        /\ "DIR" \in d.e.attr /\ d.e.sclust = IdOf(g) /\ d.path \in Seq(Names(tab))
        /\ o = Stand(ch, tab, d, g, i)
  BY <1>1 DEF Placed, Child
<1>3. PICK g \in DOMAIN tab : \E i \in Shown(tab[g]) :
        /\ "DIR" \in d.e.attr /\ d.e.sclust = IdOf(g) /\ d.path \in Seq(Names(tab))
        /\ o = Stand(ch, tab, d, g, i)
  BY <1>2
<1>4. PICK i \in Shown(tab[g]) :
        /\ "DIR" \in d.e.attr /\ d.e.sclust = IdOf(g) /\ d.path \in Seq(Names(tab))
        /\ o = Stand(ch, tab, d, g, i)
  BY <1>3
<1>5. StandOf(ch, tab, d, g, i, o)
  BY <1>4, StandIs
<1> QED  BY <1>4, <1>5 DEF ChildAt

(* The row of an object is in its chain.                                   *)
LEMMA RowAtIs ==
  ASSUME NEW ch, NEW tab, Healthy(vol, fp, ch, tab), NEW g \in DOMAIN tab, NEW i \in Shown(tab[g])
  PROVE  RowAt(ch, tab, g, i)
<1>1. Good(vol, ch, tab, But(vol, fp)) /\ Chained(vol.fat, ch) /\ TreeForm(ch, tab)
  BY DEF Healthy, Good
<1>2. i \in DOMAIN tab[g] /\ IsEntry(tab[g][i]) /\ EntryIsSound(ch, tab, g, tab[g][i])
  BY <1>1, EntryFacts
<1>3. g \in DOMAIN ch /\ g \in Cluster /\ i \in Nat /\ i < Len(ch[g]) * CLSZ
  BY <1>1, <1>2, RowFacts DEF RowOf
<1> QED  BY <1>2, <1>3 DEF RowAt

(* Directories with one table are at one place.                            *)
LEMMA DirPlace ==
  ASSUME NEW ch, NEW tab, NEW os, Whole(ch, tab, os), NEW o \in os, NEW p \in os,
         "DIR" \in o.e.attr, "DIR" \in p.e.attr, o.e.sclust = p.e.sclust
  PROVE  o.place = p.place
<1>1. Healthy(vol, fp, ch, tab) /\ TreeForm(ch, tab) /\ Once(tab)
  BY DEF Whole, Healthy, TreeForm
<1>2. Placed(ch, tab, os, NCLST, o) /\ Placed(ch, tab, os, NCLST, p)
  BY DEF Whole, Found
<1>3. (o = Root <=> o.e.sclust = 0) /\ (p = Root <=> p.e.sclust = 0)
  BY <1>1, <1>2, RootOrNot
<1>4. CASE o = Root
  BY <1>3, <1>4
<1>5. CASE o # Root
  <2>1. p # Root
    BY <1>3, <1>5
  <2>2. PICK d, g, i : ChildAt(ch, tab, os, d, g, i, o)
    BY <1>5, ChildIs
  <2>3. PICK e, h, k : ChildAt(ch, tab, os, e, h, k, p)
    BY <2>1, ChildIs
  <2>4. /\ g \in DOMAIN tab /\ i \in Shown(tab[g]) /\ tab[g][i] = o.e /\ o.place = Slotted(ch[g], i)
        /\ h \in DOMAIN tab /\ k \in Shown(tab[h]) /\ tab[h][k] = p.e /\ p.place = Slotted(ch[h], k)
    BY <2>2, <2>3 DEF ChildAt, StandOf
  <2>5. tab[g][i].sclust = tab[h][k].sclust /\ tab[g][i].sclust # 0
    BY <1>3, <1>5, <2>4
  <2>6. g = h /\ i = k
    BY <1>1, <2>4, <2>5 DEF Once
  <2> QED  BY <2>4, <2>6
<1> QED  BY <1>4, <1>5

(* Objects at one place are one.                                           *)
LEMMA PlacedOnce ==
  ASSUME NEW ch, NEW tab, NEW os, Whole(ch, tab, os), NEW x \in os, NEW y \in os,
         x.place = y.place
  PROVE  x = y
<1>1. Healthy(vol, fp, ch, tab) /\ Chained(vol.fat, ch)
  BY DEF Whole, Healthy, Good
<1>2. \A o \in os : Placed(ch, tab, os, NCLST, o) /\ Len(o.path) \in 0 .. NCLST
  BY DEF Whole, Found, Placed
<1>3. \A o \in os : /\ o = Root <=> o.place = << 0, 0 >>
                    /\ o = Root <=> Len(o.path) = 0
  BY <1>1, <1>2, RootOrNot
<1> DEFINE S == {n \in 0 .. NCLST : \A o, p \in os : Len(o.path) = n /\ o.place = p.place => o = p}
<1>4. 0 \in S
  <2>1. \A o, p \in os : Len(o.path) = 0 /\ o.place = p.place => o = p
    BY <1>3
  <2> QED  BY <2>1, Sizes
<1>5. ASSUME NEW n \in 0 .. NCLST - 1, n \in S  PROVE n + 1 \in S
  <2>1. n \in Nat /\ n + 1 \in 0 .. NCLST /\ n + 1 # 0
    BY Sizes
  <2>2. ASSUME NEW o \in os, NEW p \in os, Len(o.path) = n + 1, o.place = p.place
        PROVE  o = p
    <3>1. o # Root /\ p # Root
      BY <1>3, <2>1, <2>2
    <3>2. PICK d, g, i : ChildAt(ch, tab, os, d, g, i, o)
      BY <3>1, ChildIs
    <3>3. PICK e, h, k : ChildAt(ch, tab, os, e, h, k, p)
      BY <3>1, ChildIs
    <3>4. /\ d \in os /\ g \in DOMAIN tab /\ i \in Shown(tab[g]) /\ "DIR" \in d.e.attr
          /\ d.e.sclust = IdOf(g) /\ o = Stand(ch, tab, d, g, i) /\ o.place = Slotted(ch[g], i)
          /\ Len(o.path) = Len(d.path) + 1 /\ Len(d.path) \in Nat
      BY <3>2 DEF ChildAt, StandOf
    <3>5. /\ e \in os /\ h \in DOMAIN tab /\ k \in Shown(tab[h]) /\ "DIR" \in e.e.attr
          /\ e.e.sclust = IdOf(h) /\ p = Stand(ch, tab, e, h, k) /\ p.place = Slotted(ch[h], k)
      BY <3>3 DEF ChildAt, StandOf
    <3>6. RowAt(ch, tab, g, i) /\ RowAt(ch, tab, h, k)
      BY <1>1, <3>4, <3>5, RowAtIs
    <3>7. Slotted(ch[g], i) = Slotted(ch[h], k)
      BY <2>2, <3>4, <3>5
    <3>8. g = h /\ i = k
      BY <1>1, <3>6, <3>7, PlaceOnce DEF RowAt
    <3>9. d.place = e.place
      BY <3>4, <3>5, <3>8, DirPlace
    <3>10. Len(d.path) = n
      BY <2>1, <2>2, <3>4
    <3>11. d = e
      BY <1>5, <3>4, <3>5, <3>9, <3>10
    <3> QED  BY <3>4, <3>5, <3>8, <3>11
  <2> QED  BY <2>1, <2>2
<1>6. \A n \in 0 .. NCLST : n \in S
  <2> HIDE DEF S
  <2> QED  BY <1>4, <1>5, Sizes, Induction
<1> QED  BY <1>2, <1>6

(* Two sequences that are one are one without their last element.          *)
LEMMA Appended ==
  ASSUME NEW U, NEW p \in Seq(U), NEW q \in Seq(U), NEW a \in U, NEW b \in U,
         Append(p, a) = Append(q, b)
  PROVE  p = q /\ a = b
<1>1. Len(Append(p, a)) = Len(p) + 1 /\ Len(Append(q, b)) = Len(q) + 1
  OBVIOUS
<1>2. Len(p) = Len(q) /\ Len(p) \in Nat
  BY <1>1
<1>3. Append(p, a)[Len(p) + 1] = a /\ Append(q, b)[Len(q) + 1] = b
  OBVIOUS
<1>4. \A k \in 1 .. Len(p) : Append(p, a)[k] = p[k]
  OBVIOUS
<1>5. \A k \in 1 .. Len(q) : Append(q, b)[k] = q[k]
  OBVIOUS
<1>6. \A k \in 1 .. Len(p) : p[k] = q[k]
  BY <1>2, <1>4, <1>5
<1> QED  BY <1>2, <1>3, <1>6

(* Objects with one path are one.                                          *)
LEMMA PathOnce ==
  ASSUME NEW ch, NEW tab, NEW os, Whole(ch, tab, os), NEW x \in os, NEW y \in os,
         x.path = y.path
  PROVE  x = y
<1>1. Healthy(vol, fp, ch, tab) /\ Tables(ch, tab)
  BY DEF Whole, Healthy, TreeForm
<1>2. \A o \in os : Placed(ch, tab, os, NCLST, o) /\ Len(o.path) \in 0 .. NCLST
  BY DEF Whole, Found, Placed
<1>3. \A o \in os : o = Root <=> Len(o.path) = 0
  BY <1>1, <1>2, RootOrNot
<1> DEFINE S == {n \in 0 .. NCLST : \A o, p \in os : Len(o.path) = n /\ o.path = p.path => o = p}
<1>4. 0 \in S
  <2>1. \A o, p \in os : Len(o.path) = 0 /\ o.path = p.path => o = p
    BY <1>3
  <2> QED  BY <2>1, Sizes
<1>5. ASSUME NEW n \in 0 .. NCLST - 1, n \in S  PROVE n + 1 \in S
  <2>1. n \in Nat /\ n + 1 \in 0 .. NCLST /\ n + 1 # 0
    BY Sizes
  <2>2. ASSUME NEW o \in os, NEW p \in os, Len(o.path) = n + 1, o.path = p.path
        PROVE  o = p
    <3>1. o # Root /\ p # Root
      BY <1>3, <2>1, <2>2
    <3>2. PICK d, g, i : ChildAt(ch, tab, os, d, g, i, o)
      BY <3>1, ChildIs
    <3>3. PICK e, h, k : ChildAt(ch, tab, os, e, h, k, p)
      BY <3>1, ChildIs
    <3>4. /\ d \in os /\ g \in DOMAIN tab /\ i \in Shown(tab[g])
          /\ d.e.sclust = IdOf(g) /\ o = Stand(ch, tab, d, g, i)
          /\ o.path = Append(d.path, tab[g][i].name) /\ tab[g][i].name \in Names(tab)
          /\ Len(o.path) = Len(d.path) + 1 /\ Len(d.path) \in Nat
      BY <3>2 DEF ChildAt, StandOf
    <3>5. /\ e \in os /\ h \in DOMAIN tab /\ k \in Shown(tab[h])
          /\ e.e.sclust = IdOf(h) /\ p = Stand(ch, tab, e, h, k)
          /\ p.path = Append(e.path, tab[h][k].name) /\ tab[h][k].name \in Names(tab)
      BY <3>3 DEF ChildAt, StandOf
    <3>6. d.path \in Seq(Names(tab)) /\ e.path \in Seq(Names(tab))
      BY <1>2, <3>4, <3>5 DEF Placed
    <3>7. Append(d.path, tab[g][i].name) = Append(e.path, tab[h][k].name)
      BY <2>2, <3>4, <3>5
    <3>8. d.path = e.path /\ tab[g][i].name = tab[h][k].name
      <4> DEFINE names == Names(tab)
                 begun == d.path
                 started == e.path
                 a == tab[g][i].name
                 b == tab[h][k].name
      <4>1. /\ begun \in Seq(names) /\ started \in Seq(names) /\ a \in names /\ b \in names
            /\ Append(begun, a) = Append(started, b)
        BY <3>4, <3>5, <3>6, <3>7
      <4> HIDE DEF names, begun, started, a, b
      <4>2. begun = started /\ a = b
        BY <4>1, Appended
      <4> QED  BY <4>2 DEF begun, started, a, b
    <3>9. Len(d.path) = n
      BY <2>1, <2>2, <3>4
    <3>10. d = e
      BY <1>5, <3>4, <3>5, <3>8, <3>9
    <3>11. g = h
      <4>1. g \in Cluster /\ h \in Cluster
        BY <1>1, <3>4, <3>5, RowAtIs DEF RowAt
      <4> QED  BY <4>1, <3>4, <3>5, <3>10, BaseOf
    <3>12. i = k
      BY <1>1, <3>4, <3>5, <3>8, <3>11 DEF Tables, TableForm
    <3> QED  BY <3>4, <3>5, <3>10, <3>11, <3>12
  <2> QED  BY <2>1, <2>2
<1>6. \A n \in 0 .. NCLST : n \in S
  <2> HIDE DEF S
  <2> QED  BY <1>4, <1>5, Sizes, Induction
<1> QED  BY <1>2, <1>6

(* Nothing is left out: every directory is found, and with it its entries. *)
Seen(tab, os) == {g \in DOMAIN tab : \E d \in os : "DIR" \in d.e.attr /\ d.e.sclust = IdOf(g)}
IsObject(ch, tab, o, g, i) == o.e = tab[g][i] /\ o.place = Slotted(ch[g], i)

(* What a directory shows is found at the next stage.                      *)
LEMMA NextStage ==
  ASSUME NEW ch, NEW tab, Healthy(vol, fp, ch, tab), NEW w, Stages(NCLST, w),
         NEW n \in 0 .. NCLST - 1, NEW d \in w[n], NEW g \in DOMAIN tab,
         "DIR" \in d.e.attr, d.e.sclust = IdOf(g), NEW i \in Shown(tab[g])
  PROVE  \E o \in w[n + 1] : IsObject(ch, tab, o, g, i)
<1> DEFINE o == Stand(ch, tab, d, g, i)
<1>1. n \in Nat /\ n \in 0 .. NCLST /\ n + 1 \in 1 .. NCLST /\ (n + 1) - 1 = n
  BY Sizes
<1>2. w[n + 1] = Wider(w[n], n)
  <2>1. w[n + 1] = Wider(w[(n + 1) - 1], (n + 1) - 1)
    BY <1>1 DEF Stages
  <2> QED  BY <1>1, <2>1
<1>3. Placed(ch, tab, w[n], n, d)
  BY <1>1, StageFound DEF Found
<1>4. In(d) \subseteq w[n + 1]
  <2>1. CASE Len(d.path) < n
    BY <1>2, <1>3, <2>1 DEF Placed, Wider
  <2>2. CASE ~(Len(d.path) < n)
    <3>1. Len(d.path) = n
      BY <1>1, <1>3, <2>2 DEF Placed
    <3>2. d \in Deep(w[n], n)
      BY <3>1 DEF Deep
    <3> QED  BY <1>2, <3>2 DEF Wider
  <2> QED  BY <2>1, <2>2
<1>5. o \in In(d)
  BY InIs
<1>6. o.e = tab[g][i] /\ o.place = Slotted(ch[g], i)
  BY DEF Stand
<1> HIDE DEF o
<1> QED  BY <1>4, <1>5, <1>6 DEF IsObject

(* As long as a directory is not seen, each stage sees another one.        *)
LEMMA SeesMore ==
  ASSUME NEW ch, NEW tab, Healthy(vol, fp, ch, tab), NEW w, Stages(NCLST, w),
         NEW n \in 0 .. NCLST - 1
  PROVE  /\ Seen(tab, w[n]) \subseteq Seen(tab, w[n + 1])
         /\ Seen(tab, w[n]) # DOMAIN tab => \E h : h \in Seen(tab, w[n + 1]) \ Seen(tab, w[n])
<1>1. n \in Nat /\ n \in 0 .. NCLST /\ n + 1 \in 1 .. NCLST /\ (n + 1) - 1 = n
  BY Sizes
<1>2. w[n + 1] = Wider(w[n], n)
  <2>1. w[n + 1] = Wider(w[(n + 1) - 1], (n + 1) - 1)
    BY <1>1 DEF Stages
  <2> QED  BY <1>1, <2>1
<1>3. Seen(tab, w[n]) \subseteq Seen(tab, w[n + 1])
  BY <1>2 DEF Seen, Wider
<1>4. ASSUME Seen(tab, w[n]) # DOMAIN tab
      PROVE  \E h : h \in Seen(tab, w[n + 1]) \ Seen(tab, w[n])
  <2>1. Chained(vol.fat, ch) /\ TreeForm(ch, tab) /\ dirbase \in DOMAIN tab
    BY DEF Healthy, Good, Tabular
  <2>2. Root \in w[n]
    BY <1>1, StageFound DEF Found
  <2>3. dirbase \in Seen(tab, w[n]) /\ Seen(tab, w[n]) \subseteq DOMAIN tab
    BY <2>1, <2>2, RootIs DEF Seen
  <2> DEFINE X == DOMAIN tab \ Seen(tab, w[n])
  <2>4. X \in SUBSET (DOMAIN tab \ {dirbase}) /\ X # {}
    BY <1>4, <2>3
  <2>5. PICK h \in X : Base(tab[h][1].sclust) \notin X
    BY <2>1, <2>4 DEF TreeForm, Upward
  <2>6. h \in DOMAIN tab \ {dirbase}
    BY <2>4
  <2>7. PICK g \in DOMAIN tab : \E k \in Shown(tab[g]) :
          /\ tab[g][k].sclust = h /\ "DIR" \in tab[g][k].attr
          /\ tab[h][1].sclust = IdOf(g) /\ Base(tab[h][1].sclust) = g
    BY <2>1, <2>6, Parents
  <2>8. PICK k \in Shown(tab[g]) : tab[g][k].sclust = h /\ "DIR" \in tab[g][k].attr
    BY <2>7
  <2>9. g \in Seen(tab, w[n])
    BY <2>5, <2>7
  <2>10. PICK d \in w[n] : "DIR" \in d.e.attr /\ d.e.sclust = IdOf(g)
    BY <2>9 DEF Seen
  <2>11. PICK o \in w[n + 1] : IsObject(ch, tab, o, g, k)
    BY <2>10, NextStage
  <2>12. h \in Seen(tab, w[n + 1])
    <3>1. IdOf(h) = h
      BY <2>6 DEF IdOf
    <3>2. "DIR" \in o.e.attr /\ o.e.sclust = IdOf(h)
      BY <2>8, <2>11, <3>1 DEF IsObject
    <3> QED  BY <2>6, <3>2 DEF Seen
  <2> QED  BY <2>12
<1> QED  BY <1>3, <1>4

(* There are no more directories than clusters: each is seen in time.      *)
LEMMA AllSeen ==
  ASSUME NEW ch, NEW tab, Healthy(vol, fp, ch, tab), NEW w, Stages(NCLST, w)
  PROVE  Seen(tab, w[NCLST - 1]) = DOMAIN tab
<1>1. Chained(vol.fat, ch) /\ TreeForm(ch, tab) /\ dirbase \in DOMAIN tab
      /\ DOMAIN tab \subseteq DOMAIN ch
  BY DEF Healthy, Good, Tabular
<1>2. DOMAIN tab \subseteq Cluster
  BY <1>1, Heads
<1> DEFINE T(n) == Seen(tab, w[n])
           S == {n \in 0 .. NCLST - 1 : T(n) = DOMAIN tab \/ Cardinality(T(n)) >= n + 1}
<1>3. \A n : T(n) \subseteq DOMAIN tab
  BY DEF Seen
<1>4. \A n : IsFiniteSet(T(n)) /\ Cardinality(T(n)) \in Nat
  <2>1. \A n : T(n) \in SUBSET Cluster
    BY <1>2, <1>3
  <2> HIDE DEF T
  <2> QED  BY <2>1, ClusterCount, FS_Subset, FS_CardinalityType
<1>5. \A n \in 0 .. NCLST - 1 :
        /\ T(n) \subseteq T(n + 1)
        /\ T(n) # DOMAIN tab => \E h : h \in T(n + 1) \ T(n)
  BY SeesMore
<1>6. dirbase \in T(0)
  <2>1. w[0] = {Root}
    BY DEF Stages
  <2> QED  BY <2>1, <1>1, RootIs DEF Seen
<1> HIDE DEF T
<1>7. 0 \in S
  <2>1. Cardinality({dirbase}) = 1 /\ {dirbase} \in SUBSET T(0)
    BY <1>6, FS_Singleton
  <2>2. Cardinality(T(0)) >= 1
    BY <2>1, <1>4, FS_Subset
  <2> QED  BY <2>2, Sizes
<1>8. ASSUME NEW n \in 0 .. (NCLST - 1) - 1, n \in S  PROVE n + 1 \in S
  <2>1. n \in 0 .. NCLST - 1 /\ n + 1 \in 0 .. NCLST - 1 /\ n \in Nat
    BY Sizes
  <2>2. CASE T(n) = DOMAIN tab
    BY <2>1, <2>2, <1>3, <1>5
  <2>3. CASE T(n) # DOMAIN tab
    <3>1. PICK h : h \in T(n + 1) \ T(n)
      BY <2>1, <2>3, <1>5
    <3>2. Cardinality(T(n) \cup {h}) = Cardinality(T(n)) + 1
      BY <1>4, <3>1, FS_AddElement
    <3>3. T(n) \cup {h} \in SUBSET T(n + 1)
      BY <2>1, <3>1, <1>5
    <3>4. Cardinality(T(n) \cup {h}) <= Cardinality(T(n + 1))
      BY <1>4, <3>3, FS_Subset
    <3>5. Cardinality(T(n)) >= n + 1
      BY <1>8, <2>3
    <3>6. Cardinality(T(n + 1)) >= (n + 1) + 1
      BY <1>4, <2>1, <3>2, <3>4, <3>5
    <3> QED  BY <2>1, <3>6
  <2> QED  BY <2>2, <2>3
<1>9. NCLST - 1 \in Nat
  BY Sizes
<1>10. NCLST - 1 \in S
  <2>1. \A n \in 0 .. NCLST - 1 : n \in S
    <3> HIDE DEF S
    <3> QED  BY <1>7, <1>8, <1>9, Induction
  <2> QED  BY <2>1, <1>9
<1>11. ASSUME T(NCLST - 1) # DOMAIN tab  PROVE FALSE
  <2>1. Cardinality(T(NCLST - 1)) >= NCLST
    BY <1>10, <1>11, Sizes
  <2>2. PICK h \in DOMAIN tab : h \notin T(NCLST - 1)
    BY <1>3, <1>11
  <2>3. Cardinality(T(NCLST - 1) \cup {h}) = Cardinality(T(NCLST - 1)) + 1
    BY <1>4, <2>2, FS_AddElement
  <2>4. T(NCLST - 1) \cup {h} \in SUBSET Cluster
    BY <1>2, <1>3, <2>2
  <2>5. Cardinality(T(NCLST - 1) \cup {h}) <= NCLST
    BY <2>4, ClusterCount, FS_Subset
  <2> QED  BY <1>4, <2>1, <2>3, <2>5, Sizes
<1>12. T(NCLST - 1) = DOMAIN tab
  BY <1>11
<1> QED  BY <1>12 DEF T

(* Every row that is shown is an object.                                   *)
LEMMA RowsFound ==
  ASSUME NEW ch, NEW tab, Healthy(vol, fp, ch, tab), NEW w, Stages(NCLST, w),
         NEW g \in DOMAIN tab, NEW i \in Shown(tab[g])
  PROVE  \E o \in w[NCLST] : IsObject(ch, tab, o, g, i)
<1>1. NCLST - 1 \in 0 .. NCLST - 1 /\ (NCLST - 1) + 1 = NCLST
  BY Sizes
<1>2. PICK d \in w[NCLST - 1] : "DIR" \in d.e.attr /\ d.e.sclust = IdOf(g)
  <2>1. g \in Seen(tab, w[NCLST - 1])
    BY AllSeen
  <2> QED  BY <2>1 DEF Seen
<1>3. \E o \in w[(NCLST - 1) + 1] : IsObject(ch, tab, o, g, i)
  BY <1>1, <1>2, NextStage
<1> QED  BY <1>1, <1>3

(***************************************************************************)
(* The volume as a reader finds it is sound.                               *)
(***************************************************************************)
(* The root directory as the owner of its clusters                         *)
Top == [Root EXCEPT !.e.sclust = dirbase]

(* What that owner is.                                                     *)
LEMMA TopIs ==
  /\ Top.path = << >> /\ Top.e.sclust = dirbase /\ "DIR" \in Top.e.attr
  /\ Root.path = << >>
BY DEF Top, Root, RootEntry, Entry

(* A chain has as many clusters as it is long.                             *)
LEMMA LinksCount ==
  ASSUME NEW fat, NEW h, NEW q, Strand(fat, h, q)
  PROVE  Cardinality(ToSet(q)) = Len(q) /\ Len(q) \in Nat /\ Len(q) # 0
<1> DEFINE P == 1 .. Len(q)
           f == [k \in P |-> q[k]]
           T == ToSet(q)
<1>1. Len(q) \in 1 .. NCLST /\ Injective(q) /\ DOMAIN q = P /\ Len(q) \in Nat
  BY Sizes DEF Strand
<1>2. T = {q[k] : k \in P}
  BY <1>1 DEF ToSet
<1>3. f \in [P -> T] /\ \A k \in P : f[k] = q[k]
  BY <1>2
<1>4. \A t \in T : \E k \in P : f[k] = t
  BY <1>2, <1>3
<1>5. \A j, k \in P : f[j] = f[k] => j = k
  BY <1>1, <1>3 DEF Injective
<1>6. IsFiniteSet(P) /\ Cardinality(P) = Len(q)
  <2>1. Len(q) \in Int /\ Len(q) > 0 /\ 1 \in Int
    BY <1>1
  <2>2. Cardinality(1 .. Len(q)) = IF 1 > Len(q) THEN 0 ELSE Len(q) - 1 + 1
    BY <2>1, FS_Interval
  <2>3. IsFiniteSet(P)
    BY <2>1, FS_Interval
  <2> QED  BY <2>1, <2>2, <2>3
<1> HIDE DEF f, P, T
<1>7. ExistsBijection(P, T)
  BY <1>3, <1>4, <1>5 DEF ExistsBijection, Bijection, Injection, Surjection, IsInjective
<1>8. Cardinality(T) = Cardinality(P)
  BY <1>6, <1>7, FS_Bijection
<1> QED  BY <1>1, <1>6, <1>8 DEF T

(* A file of that size needs as many clusters as it has.                   *)
LEMMA SizeCount ==
  /\ (0 + CLSZ - 1) \div CLSZ = 0
  /\ \A n \in Nat : \A size : n # 0 /\ size \in (n - 1) * CLSZ + 1 .. n * CLSZ =>
       (size + CLSZ - 1) \div CLSZ = n
<1>1. CLSZ \in Nat /\ CLSZ # 0
  BY Sizes
<1>2. (0 + CLSZ - 1) \div CLSZ = 0
  <2>1. CLSZ - 1 \in 0 .. CLSZ - 1 /\ 0 + CLSZ - 1 = CLSZ - 1
    BY <1>1
  <2>2. (CLSZ * 0 + (CLSZ - 1)) \div CLSZ = 0
    BY <2>1, PositionOf
  <2>3. CLSZ * 0 + (CLSZ - 1) = CLSZ - 1
    BY <1>1
  <2> QED  BY <2>1, <2>2, <2>3
<1>3. ASSUME NEW n \in Nat, NEW size, n # 0, size \in (n - 1) * CLSZ + 1 .. n * CLSZ
      PROVE  (size + CLSZ - 1) \div CLSZ = n
  <2> DEFINE a == n - 1
             b == CLSZ * a
  <2>1. a \in Nat /\ n = a + 1 /\ b \in Nat
    BY <1>1, <1>3
  <2>2. (n - 1) * CLSZ = b /\ n * CLSZ = b + CLSZ /\ CLSZ * n = b + CLSZ
    <3>1. CLSZ * (a + 1) = (CLSZ * a) + CLSZ
      BY <1>1, <2>1, OneMore
    <3>2. (n - 1) * CLSZ = CLSZ * a /\ n * CLSZ = CLSZ * n
      BY <1>1, <2>1
    <3> HIDE DEF a
    <3> QED  BY <2>1, <3>1, <3>2
  <2> HIDE DEF a, b
  <2>3. size \in b + 1 .. b + CLSZ
    BY <1>3, <2>2
  <2> DEFINE x == size - b - 1
  <2>4. x \in 0 .. CLSZ - 1 /\ size + CLSZ - 1 = (b + CLSZ) + x
    BY <1>1, <2>1, <2>3
  <2> HIDE DEF x
  <2>5. (CLSZ * n + x) \div CLSZ = n
    BY <2>4, PositionOf
  <2> QED  BY <2>2, <2>4, <2>5
<1> QED  BY <1>2, <1>3

(* What is known of an object's chain                                      *)
HeadOf(ch, tab, o) ==
  /\ o.path # << >>
  /\ o.e.sclust = 0 \/ o.e.sclust \in DOMAIN ch \ {dirbase}
  /\ IF "DIR" \in o.e.attr
     THEN o.e.sclust \in DOMAIN tab \ {dirbase} /\ tab[o.e.sclust][1].sclust = o.dir
     ELSE IF o.e.sclust = 0 THEN o.e.size = 0
     ELSE o.e.sclust \in DOMAIN ch /\ SizeFits(ch[o.e.sclust], o.e.size)

(* Every object has such a chain.                                          *)
LEMMA HeadIs ==
  ASSUME NEW ch, NEW tab, NEW os, Whole(ch, tab, os), NEW o \in os, o # Root
  PROVE  HeadOf(ch, tab, o)
<1>1. Chained(vol.fat, ch) /\ TreeForm(ch, tab) /\ dirbase \in DOMAIN tab
      /\ DOMAIN tab \subseteq DOMAIN ch /\ Healthy(vol, fp, ch, tab)
  BY DEF Whole, Healthy, Good, Tabular
<1>2. PICK d, g, i : ChildAt(ch, tab, os, d, g, i, o)
  BY ChildIs
<1>3. /\ g \in DOMAIN tab /\ i \in Shown(tab[g]) /\ d.e.sclust = IdOf(g)
      /\ o.e = tab[g][i] /\ o.dir = IdOf(g) /\ Len(o.path) = Len(d.path) + 1
      /\ Len(d.path) \in Nat
  BY <1>2 DEF ChildAt, StandOf
<1>4. EntryIsSound(ch, tab, g, tab[g][i])
  BY <1>1, <1>3, EntryFacts
<1>5. o.path # << >>
  <2>1. Len(o.path) # 0
    BY <1>3
  <2> QED  BY <2>1
<1> DEFINE e == tab[g][i]
<1>6. CASE "DIR" \in e.attr
  <2>1. e.sclust \in DOMAIN tab \ {dirbase} /\ tab[e.sclust][1].sclust = IdOf(g)
    BY <1>4, <1>6 DEF EntryIsSound
  <2> QED  BY <1>1, <1>3, <1>5, <1>6, <2>1 DEF HeadOf
<1>7. CASE "DIR" \notin e.attr /\ e.sclust = 0
  <2>1. e.size = 0
    BY <1>4, <1>7 DEF EntryIsSound
  <2> QED  BY <1>3, <1>5, <1>7, <2>1 DEF HeadOf
<1>8. CASE "DIR" \notin e.attr /\ e.sclust # 0
  <2>1. e.sclust \in DOMAIN ch \ DOMAIN tab /\ SizeFits(ch[e.sclust], e.size)
    BY <1>4, <1>8 DEF EntryIsSound, SizeFits
  <2> QED  BY <1>1, <1>3, <1>5, <1>8, <2>1 DEF HeadOf
<1> QED  BY <1>6, <1>7, <1>8

(* Objects with one chain are one.                                         *)
LEMMA HeadOnce ==
  ASSUME NEW ch, NEW tab, NEW os, Whole(ch, tab, os), NEW o \in os, NEW p \in os,
         o # Root, p # Root, o.e.sclust = p.e.sclust, o.e.sclust # 0
  PROVE  o = p
<1>1. Once(tab)
  BY DEF Whole, Healthy, TreeForm
<1>2. PICK d, g, i : ChildAt(ch, tab, os, d, g, i, o)
  BY ChildIs
<1>3. PICK e, h, k : ChildAt(ch, tab, os, e, h, k, p)
  BY ChildIs
<1>4. /\ g \in DOMAIN tab /\ i \in Shown(tab[g]) /\ tab[g][i] = o.e /\ o.place = Slotted(ch[g], i)
      /\ h \in DOMAIN tab /\ k \in Shown(tab[h]) /\ tab[h][k] = p.e /\ p.place = Slotted(ch[h], k)
  BY <1>2, <1>3 DEF ChildAt, StandOf
<1>5. tab[g][i].sclust = tab[h][k].sclust /\ tab[g][i].sclust # 0
  BY <1>4
<1>6. g = h /\ i = k
  BY <1>1, <1>4, <1>5 DEF Once
<1>7. o.place = p.place
  BY <1>4, <1>6
<1> QED  BY <1>7, PlacedOnce

(* The owners of clusters, and what they own                               *)
Owners(os) == (os \ {Root}) \cup {Top}
Owns(ch, c) ==
  \/ c = 0 /\ Links(vol, c) = {}
  \/ c \in DOMAIN ch /\ Links(vol, c) = ToSet(ch[c]) /\ Strand(vol.fat, c, ch[c])

(* What an owner owns is its chain.                                        *)
LEMMA OwnsIs ==
  ASSUME NEW ch, NEW tab, NEW os, Whole(ch, tab, os), NEW o \in Owners(os)
  PROVE  Owns(ch, o.e.sclust)
<1>1. Chained(vol.fat, ch) /\ vol.fat \in [Cluster -> LinkVal] /\ dirbase \in DOMAIN ch
  BY DEF Whole, Healthy, Good, Tabular, Vol
<1>2. o.e.sclust = 0 \/ o.e.sclust \in DOMAIN ch
  <2>1. CASE o = Top
    BY <1>1, <2>1, TopIs
  <2>2. CASE o # Top
    <3>1. o \in os /\ o # Root
      BY <2>2 DEF Owners
    <3> QED  BY <3>1, HeadIs DEF HeadOf
  <2> QED  BY <2>1, <2>2
<1>3. CASE o.e.sclust = 0
  BY <1>1, <1>3, NoChain DEF Owns
<1>4. CASE o.e.sclust \in DOMAIN ch
  <2> DEFINE c == o.e.sclust
  <2>1. c \in DOMAIN ch
    BY <1>4
  <2> HIDE DEF c
  <2>2. Links(vol, c) = ToSet(ch[c]) /\ Strand(vol.fat, c, ch[c])
    BY <1>1, <2>1, ChainOf, StrandOf
  <2> QED  BY <2>1, <2>2 DEF Owns, c
<1> QED  BY <1>2, <1>3, <1>4

(* Every cluster in use belongs to one owner ...                           *)
LEMMA AllOwned ==
  ASSUME NEW ch, NEW tab, NEW os, Whole(ch, tab, os),
         \A g \in DOMAIN tab : \A i \in Shown(tab[g]) : \E o \in os : IsObject(ch, tab, o, g, i)
  PROVE  UNION {Links(vol, o.e.sclust) : o \in Owners(os)} = Cluster \ Free(vol)
<1>1. /\ Healthy(vol, fp, ch, tab) /\ Chained(vol.fat, ch) /\ Owned(ch, tab)
      /\ dirbase \in DOMAIN ch
  BY DEF Whole, Healthy, Good, TreeForm, Tabular
<1>2. ASSUME NEW o \in Owners(os), NEW c \in Links(vol, o.e.sclust)
      PROVE  c \in Cluster \ Free(vol)
  <2> DEFINE h == o.e.sclust
  <2>1. Owns(ch, h)
    BY OwnsIs
  <2>2. c \in Links(vol, h)
    BY <1>2
  <2> HIDE DEF h
  <2>3. c \in ToSet(ch[h]) /\ Strand(vol.fat, h, ch[h])
    BY <2>1, <2>2 DEF Owns
  <2>4. PICK k \in 1 .. Len(ch[h]) : ch[h][k] = c
    BY <2>3 DEF Strand, ToSet
  <2> QED  BY <2>3, <2>4 DEF Strand, Free
<1>3. ASSUME NEW c \in Cluster \ Free(vol)
      PROVE  \E o \in Owners(os) : c \in Links(vol, o.e.sclust)
  <2>1. vol.fat[c] # 0
    BY <1>3 DEF Free
  <2>2. PICK h \in DOMAIN ch : \E k \in 1 .. Len(ch[h]) : ch[h][k] = c
    BY <1>1, <1>3, <2>1, SomePlace
  <2>3. Links(vol, h) = ToSet(ch[h]) /\ DOMAIN ch[h] = 1 .. Len(ch[h])
    BY <1>1, ChainOf, StrandOf DEF Strand
  <2>4. c \in Links(vol, h)
    BY <2>2, <2>3 DEF ToSet
  <2>5. CASE h = dirbase
    BY <2>4, <2>5, TopIs DEF Owners
  <2>6. CASE h # dirbase
    <3>1. PICK g \in DOMAIN tab : \E i \in Shown(tab[g]) : tab[g][i].sclust = h
      BY <1>1, <2>6 DEF Owned
    <3>2. PICK i \in Shown(tab[g]) : tab[g][i].sclust = h
      BY <3>1
    <3>3. PICK o \in os : IsObject(ch, tab, o, g, i)
      BY <3>2
    <3>4. Slotted(ch[g], i) # << 0, 0 >>
      BY <1>1, <3>2, RowNow
    <3>5. o # Root /\ o.e.sclust = h
      BY <3>2, <3>3, <3>4, RootIs DEF IsObject
    <3> QED  BY <2>4, <3>5 DEF Owners
  <2> QED  BY <2>5, <2>6
<1> QED  BY <1>2, <1>3

(* ... and to one only.                                                    *)
LEMMA OneOwner ==
  ASSUME NEW ch, NEW tab, NEW os, Whole(ch, tab, os), NEW o \in Owners(os), NEW p \in Owners(os),
         o # p
  PROVE  Links(vol, o.e.sclust) \cap Links(vol, p.e.sclust) = {}
<1>1. Chained(vol.fat, ch)
  BY DEF Whole, Healthy, Good
<1> DEFINE g == o.e.sclust
           h == p.e.sclust
<1>2. Owns(ch, g) /\ Owns(ch, h)
  BY OwnsIs
<1>3. ASSUME g = h, g # 0  PROVE FALSE
  <2>1. CASE o = Top
    <3>1. p \in os /\ p # Root /\ h = dirbase /\ h # 0
      BY <1>3, <2>1, TopIs DEF Owners
    <3> QED  BY <3>1, HeadIs DEF HeadOf
  <2>2. CASE p = Top
    <3>1. o \in os /\ o # Root /\ g = dirbase
      BY <1>3, <2>2, TopIs DEF Owners
    <3> QED  BY <1>3, <3>1, HeadIs DEF HeadOf
  <2>3. CASE o # Top /\ p # Top
    <3>1. o \in os /\ o # Root /\ p \in os /\ p # Root
      BY <2>3 DEF Owners
    <3> QED  BY <1>3, <3>1, HeadOnce
  <2> QED  BY <2>1, <2>2, <2>3
<1> HIDE DEF g, h
<1>4. ASSUME NEW c \in Links(vol, g), c \in Links(vol, h)  PROVE FALSE
  <2>1. /\ g \in DOMAIN ch /\ c \in ToSet(ch[g]) /\ Strand(vol.fat, g, ch[g])
        /\ h \in DOMAIN ch /\ c \in ToSet(ch[h]) /\ Strand(vol.fat, h, ch[h])
    BY <1>2, <1>4 DEF Owns
  <2>2. PICK j \in 1 .. Len(ch[g]) : ch[g][j] = c
    BY <2>1 DEF Strand, ToSet
  <2>3. PICK k \in 1 .. Len(ch[h]) : ch[h][k] = c
    BY <2>1 DEF Strand, ToSet
  <2>4. g = h
    BY <1>1, <2>1, <2>2, <2>3, OnePlace
  <2>5. g # 0
    BY <2>1, Sizes DEF Strand
  <2> QED  BY <1>3, <2>4, <2>5
<1>5. Links(vol, g) \cap Links(vol, h) = {}
  BY <1>4
<1> QED  BY <1>5 DEF g, h

(* No two owners have one path.                                            *)
LEMMA OnePath ==
  ASSUME NEW ch, NEW tab, NEW os, Whole(ch, tab, os), NEW o \in Owners(os), NEW p \in Owners(os),
         o # p
  PROVE  o.path # p.path
<1>1. CASE o = Top
  <2>1. p \in os /\ p # Root
    BY <1>1 DEF Owners
  <2>2. p.path # << >>
    BY <2>1, HeadIs DEF HeadOf
  <2> QED  BY <1>1, <2>2, TopIs
<1>2. CASE p = Top
  <2>1. o \in os /\ o # Root
    BY <1>2 DEF Owners
  <2>2. o.path # << >>
    BY <2>1, HeadIs DEF HeadOf
  <2> QED  BY <1>2, <2>2, TopIs
<1>3. CASE o # Top /\ p # Top
  <2>1. o \in os /\ p \in os
    BY <1>3 DEF Owners
  <2> QED  BY <2>1, PathOnce
<1> QED  BY <1>1, <1>2, <1>3

(* A directory begins with itself and its parent.                          *)
LEMMA DotsAre ==
  ASSUME NEW ch, NEW tab, Healthy(vol, fp, ch, tab), NEW h \in DOMAIN tab, h # dirbase
  PROVE  /\ EntryAt(vol, h, 0) = Entry(Dot, {"DIR"}, h, 0)
         /\ EntryAt(vol, h, 1) = Entry(DotDot, {"DIR"}, tab[h][1].sclust, 0)
<1>1. Good(vol, ch, tab, But(vol, fp)) /\ Chained(vol.fat, ch) /\ Tables(ch, tab)
  BY DEF Healthy, Good, TreeForm
<1>2. 0 \in DOMAIN tab[h] /\ 1 \in DOMAIN tab[h] /\ IdOf(h) = h
  BY <1>1, FirstRows DEF IdOf
<1>3. tab[h][0] = Entry(Dot, {"DIR"}, h, 0)
      /\ tab[h][1] = Entry(DotDot, {"DIR"}, tab[h][1].sclust, 0)
  BY <1>1 DEF Tables, TableForm
<1>4. ASSUME NEW i \in DOMAIN tab[h], "DIR" \in tab[h][i].attr
      PROVE  EntryAt(vol, h, i) = tab[h][i]
  <2>1. RowOf(vol, ch, tab, But(vol, fp), h, i)
    BY <1>1, RowFacts
  <2>2. /\ i \in Nat /\ i < Len(ch[h]) * CLSZ
        /\ IsLike(At(vol, Slotted(ch[h], i)), tab[h][i])
    BY <2>1 DEF RowOf
  <2>3. At(vol, Slotted(ch[h], i)) = tab[h][i]
    BY <1>4, <2>2 DEF IsLike
  <2>4. TableFound(vol, ch, tab, h, h)
    BY <1>1, <1>2, TableIs
  <2>5. EntryAt(vol, h, i) = At(vol, Slotted(ch[h], i))
    BY <2>2, <2>4 DEF TableFound
  <2> QED  BY <2>3, <2>5
<1>5. "DIR" \in tab[h][0].attr
  <2>1. tab[h][0].attr = {"DIR"}
    BY <1>3 DEF Entry
  <2> QED  BY <2>1
<1>6. "DIR" \in tab[h][1].attr
  <2>1. Entry(DotDot, {"DIR"}, tab[h][1].sclust, 0).attr = {"DIR"}
    BY DEF Entry
  <2>2. tab[h][1].attr = {"DIR"}
    BY <1>3, <2>1
  <2> QED  BY <2>2
<1> QED  BY <1>2, <1>3, <1>4, <1>5, <1>6

(* What VolumeIsSound says of an owner                                     *)
OwnerIsSound(o) ==
  /\ Links(vol, o.e.sclust) # {} => \E c \in Links(vol, o.e.sclust) : vol.fat[c] = EOC
  /\ IF "DIR" \notin o.e.attr
     THEN Cardinality(Links(vol, o.e.sclust)) = (o.e.size + CLSZ - 1) \div CLSZ
     ELSE /\ Links(vol, o.e.sclust) # {}
          /\ o.path # << >> =>
               /\ EntryAt(vol, o.e.sclust, 0) = Entry(Dot, {"DIR"}, o.e.sclust, 0)
               /\ EntryAt(vol, o.e.sclust, 1) = Entry(DotDot, {"DIR"}, o.dir, 0)

(* Every owner is as VolumeIsSound says.                                   *)
LEMMA OwnerSound ==
  ASSUME NEW ch, NEW tab, NEW os, Whole(ch, tab, os), NEW o \in Owners(os)
  PROVE  OwnerIsSound(o)
<1> DEFINE h == o.e.sclust
           has == Links(vol, h)
<1>1. Healthy(vol, fp, ch, tab) /\ Owns(ch, h)
  BY OwnsIs DEF Whole
<1>2. has # {} => \E c \in has : vol.fat[c] = EOC
  <2> HIDE DEF h
  <2>1. ASSUME has # {}  PROVE \E c \in has : vol.fat[c] = EOC
    <3>1. has = ToSet(ch[h]) /\ Strand(vol.fat, h, ch[h])
      BY <1>1, <2>1 DEF Owns
    <3>2. /\ DOMAIN ch[h] = 1 .. Len(ch[h]) /\ Len(ch[h]) \in 1 .. NCLST
          /\ vol.fat[ch[h][Len(ch[h])]] = EOC
      BY <3>1 DEF Strand, IsChain
    <3>3. Len(ch[h]) \in DOMAIN ch[h]
      BY <3>2, Sizes
    <3>4. ch[h][Len(ch[h])] \in has
      BY <3>1, <3>3 DEF ToSet
    <3> QED  BY <3>2, <3>4
  <2> QED  BY <2>1
<1>3. CASE "DIR" \notin o.e.attr
  <2>1. o \in os /\ o # Root
    BY <1>3, TopIs DEF Owners
  <2>2. IF h = 0 THEN o.e.size = 0 ELSE h \in DOMAIN ch /\ SizeFits(ch[h], o.e.size)
    BY <1>3, <2>1, HeadIs DEF HeadOf
  <2>3. CASE h = 0
    <3>1. has = {}
      BY <1>1, <2>3, Sizes DEF Owns, Strand
    <3>2. Cardinality(has) = 0
      BY <3>1, FS_EmptySet
    <3>3. (o.e.size + CLSZ - 1) \div CLSZ = 0
      BY <2>2, <2>3, SizeCount
    <3> QED  BY <1>2, <1>3, <3>2, <3>3 DEF OwnerIsSound
  <2>4. CASE h # 0
    <3> DEFINE size == o.e.size
    <3>1. has = ToSet(ch[h]) /\ Strand(vol.fat, h, ch[h]) /\ SizeFits(ch[h], size)
      BY <1>1, <2>2, <2>4 DEF Owns
    <3>2. Cardinality(has) = Len(ch[h]) /\ Len(ch[h]) \in Nat /\ Len(ch[h]) # 0
      BY <3>1, LinksCount
    <3>3. (size + CLSZ - 1) \div CLSZ = Len(ch[h])
      <4>1. size \in (Len(ch[h]) - 1) * CLSZ + 1 .. Len(ch[h]) * CLSZ
        BY <3>1 DEF SizeFits
      <4> HIDE DEF size, h
      <4> QED  BY <4>1, <3>2, SizeCount
    <3> QED  BY <1>2, <1>3, <3>2, <3>3 DEF OwnerIsSound
  <2> QED  BY <2>3, <2>4
<1>4. CASE "DIR" \in o.e.attr
  <2>1. h # 0 /\ (o.path # << >> => h \in DOMAIN tab \ {dirbase} /\ tab[h][1].sclust = o.dir)
    <3>1. CASE o = Top
      BY <3>1, TopIs, Sizes
    <3>2. CASE o # Top
      <4>1. o \in os /\ o # Root
        BY <3>2 DEF Owners
      <4>2. h \in DOMAIN tab \ {dirbase} /\ tab[h][1].sclust = o.dir
        BY <1>4, <4>1, HeadIs DEF HeadOf
      <4>3. h \in Cluster
        BY <1>1, <4>2, Heads DEF Healthy, Good, Tabular
      <4> QED  BY <4>2, <4>3, Sizes
    <3> QED  BY <3>1, <3>2
  <2>2. has # {}
    <3> HIDE DEF h
    <3>1. has = ToSet(ch[h]) /\ Strand(vol.fat, h, ch[h])
      BY <1>1, <2>1 DEF Owns
    <3>2. DOMAIN ch[h] = 1 .. Len(ch[h]) /\ Len(ch[h]) \in 1 .. NCLST
      BY <3>1 DEF Strand
    <3>3. Len(ch[h]) \in DOMAIN ch[h]
      BY <3>2, Sizes
    <3> QED  BY <3>1, <3>3 DEF ToSet
  <2>3. ASSUME o.path # << >>
        PROVE  /\ EntryAt(vol, h, 0) = Entry(Dot, {"DIR"}, h, 0)
               /\ EntryAt(vol, h, 1) = Entry(DotDot, {"DIR"}, o.dir, 0)
    <3>1. h \in DOMAIN tab /\ h # dirbase /\ tab[h][1].sclust = o.dir
      BY <2>1, <2>3
    <3> HIDE DEF h
    <3> QED  BY <1>1, <3>1, DotsAre
  <2> QED  BY <1>2, <1>4, <2>2, <2>3 DEF OwnerIsSound
<1> QED  BY <1>3, <1>4

(* The invariant of the proof, and what a reader finds of it.              *)
LEMMA InvIsSound ==
  ASSUME FatInv
  PROVE  VolumeIsSound
<1>1. PICK ch, tab : Healthy(vol, fp, ch, tab)
  BY DEF FatInv, Sound
<1>2. PICK w : Stages(NCLST, w) /\ Objects = w[NCLST] \ {Root}
  BY ObjectsAre
<1> DEFINE os == w[NCLST]
           owners == Objects \cup {[Root EXCEPT !.e.sclust = dirbase]}
           has == [o \in owners |-> Links(vol, o.e.sclust)]
<1>3. Whole(ch, tab, os)
  <2>1. NCLST \in 0 .. NCLST
    BY Sizes
  <2> QED  BY <1>1, <1>2, <2>1, StageFound DEF Whole
<1>4. \A g \in DOMAIN tab : \A i \in Shown(tab[g]) : \E o \in os : IsObject(ch, tab, o, g, i)
  BY <1>1, <1>2, RowsFound
<1>5. owners = Owners(os)
  BY <1>2 DEF Owners, Top
<1>6. TypeOK
  <2>1. Vol(vol) /\ FilForm(fp)
    BY <1>1 DEF Healthy, Good
  <2> QED  BY <2>1 DEF Vol, FilForm, TypeOK, LinkVal
<1>7. vol.mounted /\ vol.free_clst # Unknown => vol.free_clst = Cardinality(Free(vol))
  BY <1>1 DEF Healthy, Told, CountIsRight
<1> HIDE DEF os, owners
<1>8. UNION Range(has) = Cluster \ Free(vol)
  <2>1. UNION {Links(vol, o.e.sclust) : o \in Owners(os)} = Cluster \ Free(vol)
    BY <1>3, <1>4, AllOwned
  <2>2. Range(has) = {Links(vol, o.e.sclust) : o \in owners}
    BY DEF Range
  <2> QED  BY <1>5, <2>1, <2>2
<1>9. \A o \in owners : has[o] = Links(vol, o.e.sclust)
  OBVIOUS
<1> HIDE DEF has
<1>10. \A o, p \in owners : o # p => has[o] \cap has[p] = {} /\ o.path # p.path
  BY <1>3, <1>5, <1>9, OneOwner, OnePath
<1>11. ASSUME NEW o \in owners
       PROVE  /\ has[o] # {} => \E c \in has[o] : vol.fat[c] = EOC
              /\ IF "DIR" \notin o.e.attr
                 THEN Cardinality(has[o]) = (o.e.size + CLSZ - 1) \div CLSZ
                 ELSE /\ has[o] # {}
                      /\ o.path # << >> =>
                           /\ EntryAt(vol, o.e.sclust, 0) = Entry(Dot, {"DIR"}, o.e.sclust, 0)
                           /\ EntryAt(vol, o.e.sclust, 1) = Entry(DotDot, {"DIR"}, o.dir, 0)
  <2>1. OwnerIsSound(o) /\ has[o] = Links(vol, o.e.sclust)
    BY <1>3, <1>5, <1>9, OwnerSound
  <2> QED  BY <2>1 DEF OwnerIsSound
<1> QED  BY <1>6, <1>7, <1>8, <1>10, <1>11 DEF VolumeIsSound, owners, has

(* Between any two calls, whatever the sizes of the volume are, and        *)
(* whatever sound card and calls the application has: every cluster in use *)
(* belongs to one object, as many to a file as its size asks for; every    *)
(* directory knows itself and its parent and holds a name once; and a free *)
(* count that is known is right.                                           *)
THEOREM VolumeStaysSound == Spec => []VolumeIsSound
<1>1. FatInv => VolumeIsSound
  BY InvIsSound
<1> QED  BY <1>1, CardStaysSound, PTL

=============================================================================
