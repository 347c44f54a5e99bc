----------------------------- MODULE FatProofs -----------------------------
(***************************************************************************)
(* The FAT32 driver, proved for every number of clusters, entries and      *)
(* handles, every set of paths that go through directories, and every      *)
(* well-formed disk.                                                       *)
(***************************************************************************)
EXTENDS Fat, FiniteSetTheorems, SequenceTheorems, WellFoundedInduction, TLAPS

-----------------------------------------------------------------------------
(* Least elements, induction over an interval, and the existence of        *)
(* functions defined by recursion over one.  The library states the last   *)
(* two for predicates and operators; with sets and functions in their      *)
(* place they can be cited.                                                *)
LEMMA SmallestExists ==
    ASSUME NEW S \in SUBSET Nat, S # {}
    PROVE  \E x \in S : \A y \in S : x <= y
  <1> DEFINE R == OpToRel(<, Nat)
  <1>1. IsWellFoundedOn(R, Nat)
    BY NatLessThanWellFounded, Zenon
  <1>2. \A y, z \in Nat : y < z => <<y, z>> \in R
    BY Zenon DEF OpToRel
  <1> HIDE DEF R
  <1>3. PICK x \in S : \A y \in S : ~ (<<y, x>> \in R)
    BY <1>1, WFMin, Zenon
  <1>4. \A y \in S : ~(y < x)
    BY <1>2, <1>3, Zenon
  <1> QED BY <1>4

LEMMA LeastExists ==
    ASSUME NEW S \in SUBSET Nat, S # {}
    PROVE  Least(S) \in S /\ \A y \in S : Least(S) <= y
  BY SmallestExists DEF Least

LEMMA UpTo ==
    ASSUME NEW m \in Int, NEW n \in Int, NEW T,
           m \in T, \A k \in m + 1 .. n : k - 1 \in T => k \in T
    PROVE  m .. n \subseteq T
  <1> SUFFICES ASSUME NEW z \in m .. n, z \notin T PROVE FALSE
    OBVIOUS
  <1> DEFINE C == {j \in Nat : m + j <= n /\ m + j \notin T}
  <1>1. z - m \in C
    OBVIOUS
  <1> HIDE DEF C
  <1>2. C \in SUBSET Nat
    BY DEF C
  <1>3. PICK j \in C : \A i \in C : j <= i
    BY <1>1, <1>2, SmallestExists, Zenon
  <1>4. j \in Nat /\ m + j <= n /\ m + j \notin T /\ j # 0
    BY <1>3 DEF C
  <1>5. j - 1 \notin C
    BY <1>3, <1>4
  <1>6. m + (j - 1) \in T
    BY <1>4, <1>5 DEF C
  <1> QED BY <1>4, <1>6

StaysIn(step, m, n, S) ==
    \A k \in m + 1 .. n : \A y \in S[k - 1] : step[k][y] \in S[k]
IsIterated(f, m, n, S, x, step) ==
    /\ f = [k \in m .. n |-> f[k]] /\ f[m] = x
    /\ \A k \in m + 1 .. n : f[k] = step[k][f[k - 1]]
    /\ \A k \in m .. n : f[k] \in S[k]

LEMMA Iterates ==
    ASSUME NEW m \in Int, NEW n \in Int, m <= n, NEW S, NEW x \in S[m], NEW step,
           StaysIn(step, m, n, S)
    PROVE  \E f : IsIterated(f, m, n, S, x, step)
  <1> DEFINE Is(f, j) == /\ f = [k \in m .. j |-> IF k = m THEN x ELSE step[k][f[k - 1]]]
                         /\ \A k \in m .. j : f[k] \in S[k]
             T == {j \in m .. n : \E f : Is(f, j)}
  <1>1. m \in T
    <2> DEFINE f == [k \in m .. m |-> x]
    <2>1. Is(f, m)
      OBVIOUS
    <2> HIDE DEF f, Is
    <2>2. m \in m .. n
      OBVIOUS
    <2> QED BY <2>1, <2>2
  <1>2. ASSUME NEW j \in m + 1 .. n, j - 1 \in T PROVE j \in T
    <2>1. PICK f : Is(f, j - 1)
      BY <1>2
    <2> DEFINE g == [k \in m .. j |-> IF k = j THEN step[j][f[j - 1]] ELSE f[k]]
    <2>2. f[j - 1] \in S[j - 1]
      BY <2>1
    <2>3. \A k \in m .. j : g[k] \in S[k]
      BY <2>1, <2>2 DEF StaysIn
    <2>4. \A k \in m .. j : g[k] = IF k = m THEN x ELSE step[k][g[k - 1]]
      <3>1. \A k \in m .. j - 1 : f[k] = IF k = m THEN x ELSE step[k][f[k - 1]]
        BY <2>1
      <3>2. \A k \in m .. j - 1 : g[k] = f[k]
        OBVIOUS
      <3>3. g[j] = step[j][f[j - 1]]
        OBVIOUS
      <3> HIDE DEF g
      <3>4. ASSUME NEW k \in m .. j PROVE g[k] = IF k = m THEN x ELSE step[k][g[k - 1]]
        <4>1. CASE k = j
          BY <3>2, <3>3, <4>1
        <4>2. CASE k # j
          <5>1. k \in m .. j - 1 /\ (k # m => k - 1 \in m .. j - 1)
            BY <4>2
          <5> QED BY <3>1, <3>2, <5>1
        <4> QED BY <4>1, <4>2
      <3> QED BY <3>4
    <2>5. DOMAIN g = m .. j
      OBVIOUS
    <2>6. g = [k \in m .. j |-> g[k]]
      OBVIOUS
    <2> HIDE DEF g
    <2>7. g = [k \in m .. j |-> IF k = m THEN x ELSE step[k][g[k - 1]]]
      BY <2>4, <2>6
    <2>8. j \in m .. n
      OBVIOUS
    <2>9. Is(g, j)
      BY <2>3, <2>7
    <2> HIDE DEF Is
    <2> QED BY <2>8, <2>9
  <1> HIDE DEF T, Is
  <1>3. m .. n \subseteq T
    BY <1>1, <1>2, UpTo
  <1>4. n \in T
    BY <1>3
  <1>5. PICK f : Is(f, n)
    BY <1>4 DEF T
  <1>6. /\ f = [k \in m .. n |-> f[k]] /\ f[m] = x
        /\ \A k \in m + 1 .. n : f[k] = step[k][f[k - 1]]
        /\ \A k \in m .. n : f[k] \in S[k]
    BY <1>5, SMTT(30) DEF Is
  <1> QED BY <1>6 DEF IsIterated

LEMMA Divided ==
    ASSUME NEW a \in Nat, NEW m \in Nat \ {0}
    PROVE  /\ a \div m \in Nat /\ a % m \in 0 .. m - 1
           /\ \A q \in Nat : a < m * q => a \div m < q
  <1> DEFINE x == a \div m  r == a % m
  <1>1. x \in Int /\ r \in 0 .. m - 1 /\ a = m * x + r
    OBVIOUS
  <1> HIDE DEF x, r
  <1>2. x >= 0
    <2> SUFFICES ASSUME x <= -1 PROVE FALSE
      BY <1>1
    <2>1. m * x <= -m
      <3>1. m * (x + 1) = m * x + m /\ m * (x + 1) <= 0
        BY <1>1
      <3> QED BY <3>1, <1>1
    <2> QED BY <1>1, <2>1
  <1>3. ASSUME NEW q \in Nat, a < m * q PROVE x < q
    <2> SUFFICES ASSUME x >= q PROVE FALSE
      BY <1>1
    <2>1. m * x = m * q + m * (x - q) /\ m * (x - q) >= 0
      BY <1>1
    <2>2. m * x \in Int /\ m * q \in Int /\ m * (x - q) \in Int
      BY <1>1
    <2> QED BY <1>1, <1>3, <2>1, <2>2
  <1> QED BY <1>1, <1>2, <1>3 DEF x, r

-----------------------------------------------------------------------------
(* What there is in a disk.                                                *)
LEMMA Numbers ==
    /\ Clusters \subseteq Nat \ {0, 1} /\ IsFiniteSet(Clusters) /\ Root \in Clusters
    /\ DirentsPerCluster \in Nat \ {0, 1} /\ Slots \subseteq Nat
    /\ 0 \notin Clusters /\ Eoc \notin Clusters /\ Eoc # 0 /\ Root # 0 /\ Eoc = -1
    /\ Fds \subseteq Nat /\ 1 \in Slots /\ 2 \in Slots
    /\ NoPlace \notin Clusters \X Slots
  <1>1. /\ Clusters \subseteq Nat \ {0, 1} /\ IsFiniteSet(Clusters) /\ Root \in Clusters
        /\ DirentsPerCluster \in Nat \ {0, 1} /\ MaxFds \in Nat \ {0}
    BY FatAssumption
  <1>2. 0 \notin Clusters /\ Eoc \notin Clusters /\ Eoc # 0 /\ Root # 0 /\ Eoc = -1
    BY <1>1 DEF Eoc
  <1>3. Slots \subseteq Nat /\ Fds \subseteq Nat /\ 1 \in Slots /\ 2 \in Slots
    BY <1>1 DEF Slots, Fds
  <1>4. NoPlace \notin Clusters \X Slots
    BY <1>2 DEF NoPlace
  <1> QED BY <1>1, <1>2, <1>3, <1>4

LEMMA EmptyTypes ==
    /\ NoEntry \in EntryT /\ Blank \in [Slots -> EntryT]
    /\ ~InUse(NoEntry) /\ ~IsName(NoEntry) /\ NoEntry.long = "" /\ NoEntry.short = ""
    /\ \A k \in Slots : Blank[k] = NoEntry
  BY DEF NoEntry, EntryT, Names, Blank, InUse, IsName

(* Of the names that paths are made of, and of their 8.3 forms.            *)
LEMMA Usable ==
    ASSUME NEW name \in DOMAIN Short
    PROVE  /\ name \in Names /\ Short[name] \in DOMAIN Short
           /\ name \notin {"", Deleted, ".", ".."}
  BY FatAssumption DEF Names

-----------------------------------------------------------------------------
(* Calls.  Ends says what a call's own view of the disk is.  The copies of *)
(* the table may differ in the entries of S, and on the way in one more.   *)
CallT == [d : DiskT, log : Seq(DiskT)]
Ends(c) == c.d = IF c.log = <<>> THEN disk ELSE c.log[Len(c.log)]
Differ(d) == {x \in Clusters : d.fat[1][x] # d.fat[2][x]}
Near(d, S) == \E x : Differ(d) \subseteq S \union {x}
Copying(S) ==
    {c \in CallT : /\ Ends(c) /\ Differ(c.d) \subseteq S
                   /\ \A k \in 1 .. Len(c.log) : Near(c.log[k], S)}

(* The power may fail after any image of an ordered call.                  *)
Safe(d) == \E m : LaidOut(d, m)
Saves(c) == \A k \in 1 .. Len(c.log) : Safe(c.log[k])

LEMMA PutIs ==
    ASSUME NEW c, c.log \in Seq(DiskT), NEW d \in DiskT
    PROVE  /\ Put(c, d) \in CallT /\ Put(c, d).d = d /\ Ends(Put(c, d))
           /\ Put(c, d).log # <<>> /\ Len(Put(c, d).log) = Len(c.log) + 1
           /\ \A k \in 1 .. Len(c.log) : Put(c, d).log[k] = c.log[k]
           /\ Put(c, d).log[Len(c.log) + 1] = d
  <1>1. /\ Append(c.log, d) \in Seq(DiskT) /\ Len(Append(c.log, d)) = Len(c.log) + 1
        /\ \A k \in 1 .. Len(c.log) : Append(c.log, d)[k] = c.log[k]
        /\ Append(c.log, d)[Len(c.log) + 1] = d
    OBVIOUS
  <1>2. Append(c.log, d) # <<>>
    BY AppendProperties, ZenonT(30)
  <1>3. Put(c, d) = [d |-> d, log |-> Append(c.log, d)]
    BY DEF Put
  <1>4. Put(c, d) \in CallT /\ Put(c, d).d = d /\ Put(c, d).log = Append(c.log, d)
    BY <1>1, <1>3 DEF CallT
  <1>5. Ends(Put(c, d))
    BY <1>1, <1>2, <1>4 DEF Ends
  <1> QED BY <1>1, <1>2, <1>4, <1>5

(* A write of something else than the tables.                              *)
LEMMA PutCopies ==
    ASSUME NEW S, NEW c \in Copying(S), NEW d \in DiskT, Near(d, S)
    PROVE  /\ Put(c, d) \in CallT /\ Put(c, d).d = d /\ Ends(Put(c, d)) /\ Put(c, d).log # <<>>
           /\ \A k \in 1 .. Len(Put(c, d).log) : Near(Put(c, d).log[k], S)
           /\ Differ(d) \subseteq S => Put(c, d) \in Copying(S)
           /\ Saves(c) /\ Safe(d) => Saves(Put(c, d))
  <1> DEFINE r == Put(c, d)
  <1>1. c.log \in Seq(DiskT)
    BY DEF Copying, CallT
  <1>2. /\ r \in CallT /\ r.d = d /\ Ends(r) /\ r.log # <<>> /\ Len(r.log) = Len(c.log) + 1
        /\ \A k \in 1 .. Len(c.log) : r.log[k] = c.log[k]
        /\ r.log[Len(c.log) + 1] = d
    BY <1>1, PutIs, Zenon
  <1>3. Len(c.log) \in Nat
    BY <1>1
  <1> HIDE DEF r
  <1>4. \A k \in 1 .. Len(r.log) : k = Len(c.log) + 1 \/ k \in 1 .. Len(c.log)
    BY <1>2, <1>3
  <1>5. \A k \in 1 .. Len(c.log) : Near(c.log[k], S)
    BY DEF Copying
  <1>6. \A k \in 1 .. Len(r.log) : Near(r.log[k], S)
    BY <1>2, <1>4, <1>5, Zenon
  <1>7. Saves(c) /\ Safe(d) => Saves(r)
    BY <1>2, <1>4, Zenon DEF Saves
  <1> QED BY <1>2, <1>6, <1>7 DEF r, Copying

(* A layout speaks of the first copy of the table, and of the clusters     *)
(* that it names.                                                          *)
LEMMA Unrelated ==
    ASSUME NEW d, NEW d2, NEW m, LaidOut(d, m),
           \A x \in DOMAIN m : d2.fat[1][x] = d.fat[1][x] /\ d2.ent[x] = d.ent[x]
    PROVE  LaidOut(d2, m)
  <1>1. /\ m \in [DOMAIN m -> MarkT] /\ DOMAIN m \subseteq Clusters
        /\ Root \in DOMAIN m /\ m[Root] = RootMark
        /\ \A c \in DOMAIN m :
              /\ d2.fat[1][c] # 0
              /\ d2.fat[1][c] # Eoc => /\ d2.fat[1][c] \in DOMAIN m
                                      /\ m[d2.fat[1][c]] = NextMark(m[c])
    BY Zenon DEF LaidOut
  <1>2. ASSUME NEW p \in (DOMAIN m) \X Slots
        PROVE  LET e == At(d2, p)
               IN  /\ IsName(e) /\ e.start # 0 =>
                         /\ e.start \in DOMAIN m
                         /\ m[e.start] = [first |-> e.start, nth |-> 1, entry |-> p,
                                          depth |-> m[p[1]].depth + 1]
                   /\ e.short \in {".", ".."} => e.long = ""
    <2>1. At(d2, p) = At(d, p)
      BY DEF At
    <2> QED BY <2>1, Zenon DEF LaidOut
  <1> QED BY <1>1, <1>2, Zenon DEF LaidOut

IsSet(k, d, x, v, d2) == d2 = [d EXCEPT !.fat[k][x] = v]

TableIs(k, d, x, v, d2) ==
    /\ d2 \in DiskT /\ d2.ent = d.ent /\ d2.fat[k] = [d.fat[k] EXCEPT ![x] = v]
    /\ \A j \in 1 .. 2 : j # k => d2.fat[j] = d.fat[j]

LEMMA TableSet ==
    ASSUME NEW k \in 1 .. 2, NEW d \in DiskT, NEW x \in Clusters, NEW v \in Links, NEW d2,
           IsSet(k, d, x, v, d2)
    PROVE  TableIs(k, d, x, v, d2)
  <1> DEFINE E == [Clusters -> [Slots -> EntryT]]
  <1>1. DiskT = [fat : [1 .. 2 -> [Clusters -> Links]], ent : E]
    BY DEF DiskT
  <1> HIDE DEF E
  <1>2. d \in [fat : [1 .. 2 -> [Clusters -> Links]], ent : E]
    BY <1>1
  <1> QED BY <1>1, <1>2 DEF IsSet, TableIs

LEMMA EntrySet ==
    ASSUME NEW S, NEW c \in Copying(S), NEW x \in Clusters, NEW v \in Links,
           NEW r, r = fat_set_entry(c, x, v)
    PROVE  /\ r \in Copying(S) /\ r.log # <<>>
           /\ r.d.ent = c.d.ent /\ r.d.fat[1] = [c.d.fat[1] EXCEPT ![x] = v]
           /\ Saves(c) /\ Safe(r.d) => Saves(r)
  <1> DEFINE d1 == [c.d EXCEPT !.fat[1][x] = v]
             c1 == Put(c, d1)
             d2 == [c1.d EXCEPT !.fat[2][x] = v]
             f  == c.d.fat
  <1>1. r = Put(c1, d2)
    BY DEF fat_set_entry
  <1>2. c.d \in DiskT /\ Differ(c.d) \subseteq S
    BY DEF Copying, CallT
  <1>3. /\ d1 \in DiskT /\ d1.ent = c.d.ent
        /\ d1.fat[1] = [f[1] EXCEPT ![x] = v] /\ d1.fat[2] = f[2]
    <2>1. IsSet(1, c.d, x, v, d1)
      BY Zenon DEF IsSet
    <2> HIDE DEF d1
    <2>2. TableIs(1, c.d, x, v, d1)
      BY <1>2, <2>1, TableSet
    <2> QED BY <2>2 DEF TableIs
  <1> HIDE DEF d1
  <1>4. Differ(d1) \subseteq S \union {x}
    BY <1>2, <1>3 DEF Differ, DiskT
  <1>5. /\ c1.log \in Seq(DiskT) /\ c1.d = d1
        /\ \A k \in 1 .. Len(c1.log) : Near(c1.log[k], S)
        /\ Saves(c) /\ Safe(d1) => Saves(c1)
    <2>1. Near(d1, S)
      BY <1>4 DEF Near
    <2>2. /\ c1 \in CallT /\ c1.d = d1
          /\ \A k \in 1 .. Len(c1.log) : Near(c1.log[k], S)
          /\ Saves(c) /\ Safe(d1) => Saves(c1)
      BY <1>3, <2>1, PutCopies
    <2>3. c1.log \in Seq(DiskT)
      BY <2>2 DEF CallT
    <2> QED BY <2>2, <2>3
  <1> HIDE DEF c1
  <1>6. /\ d2 \in DiskT /\ d2.ent = c.d.ent /\ d2.fat[1] = d1.fat[1]
        /\ d2.fat[2] = [f[2] EXCEPT ![x] = v]
    <2>1. IsSet(2, d1, x, v, d2)
      BY <1>5, Zenon DEF IsSet
    <2> HIDE DEF d2
    <2>2. TableIs(2, d1, x, v, d2)
      BY <1>3, <2>1, TableSet
    <2> QED BY <1>3, <2>2 DEF TableIs
  <1> HIDE DEF d2
  <1>7. Differ(d2) \subseteq S
    <2>1. \A y \in Clusters : y # x => d2.fat[1][y] = f[1][y] /\ d2.fat[2][y] = f[2][y]
      BY <1>2, <1>3, <1>6 DEF DiskT
    <2>2. d2.fat[1][x] = v /\ d2.fat[2][x] = v
      BY <1>2, <1>3, <1>6 DEF DiskT
    <2> QED BY <1>2, <2>1, <2>2 DEF Differ
  <1>8. /\ r \in CallT /\ r.d = d2 /\ Ends(r) /\ r.log # <<>> /\ Len(r.log) = Len(c1.log) + 1
        /\ \A k \in 1 .. Len(c1.log) : r.log[k] = c1.log[k]
        /\ r.log[Len(c1.log) + 1] = d2
    BY <1>1, <1>5, <1>6, PutIs
  <1>9. Near(d2, S)
    BY <1>7 DEF Near
  <1>10. \A k \in 1 .. Len(r.log) : k = Len(c1.log) + 1 \/ k \in 1 .. Len(c1.log)
    <2>1. Len(c1.log) \in Nat
      BY <1>5
    <2> QED BY <1>8, <2>1
  <1>11. \A k \in 1 .. Len(r.log) : Near(r.log[k], S)
    BY <1>5, <1>8, <1>9, <1>10, Zenon
  <1>12. Saves(c) /\ Safe(r.d) => Saves(r)
    <2> SUFFICES ASSUME Saves(c), Safe(r.d) PROVE Saves(r)
      OBVIOUS
    <2>1. Safe(d1) /\ Safe(d2)
      <3>1. d1.fat[1] = d2.fat[1] /\ d1.ent = d2.ent
        BY <1>3, <1>6
      <3>2. PICK m : LaidOut(d2, m)
        BY <1>8 DEF Safe
      <3>3. LaidOut(d1, m)
        BY <3>1, <3>2, Unrelated
      <3> QED BY <3>2, <3>3 DEF Safe
    <2>2. Saves(c1)
      BY <1>5, <2>1
    <2> QED BY <1>8, <1>10, <2>1, <2>2, Zenon DEF Saves
  <1>13. r \in Copying(S)
    BY <1>7, <1>8, <1>11 DEF Copying
  <1>14. r.d.ent = c.d.ent /\ r.d.fat[1] = [f[1] EXCEPT ![x] = v]
    BY <1>3, <1>6, <1>8
  <1> QED BY <1>8, <1>12, <1>13, <1>14

(* A write to a directory's cluster, or to any other.                      *)
LEMMA Written ==
    ASSUME NEW S, NEW c \in Copying(S), NEW d \in DiskT, d.fat = c.d.fat,
           NEW r, r = Put(c, d)
    PROVE  r \in Copying(S) /\ r.d = d /\ r.log # <<>> /\ (Saves(c) /\ Safe(d) => Saves(r))
  <1>1. Differ(d) \subseteq S
    BY DEF Copying, Differ
  <1>2. Near(d, S)
    BY <1>1 DEF Near
  <1> QED BY <1>1, <1>2, PutCopies, Zenon

ClusterIs(d, x, w, d2) ==
    d2 \in DiskT /\ d2.fat = d.fat /\ d2.ent = [d.ent EXCEPT ![x] = w]
IsFilled(d, x, w, d2) == d2 = [d EXCEPT !.ent[x] = w]
IsEntered(d, x, k, e, d2) == d2 = [d EXCEPT !.ent[x][k] = e]

LEMMA ClusterFilled ==
    ASSUME NEW d \in DiskT, NEW x \in Clusters, NEW w \in [Slots -> EntryT], NEW d2,
           IsFilled(d, x, w, d2)
    PROVE  ClusterIs(d, x, w, d2)
  <1> DEFINE T == [1 .. 2 -> [Clusters -> Links]]
             B == [Slots -> EntryT]
  <1>1. DiskT = [fat : T, ent : [Clusters -> B]]
    BY DEF DiskT
  <1> HIDE DEF T, B
  <1>2. d \in [fat : T, ent : [Clusters -> B]] /\ w \in B
    BY <1>1 DEF B
  <1> QED BY <1>1, <1>2 DEF IsFilled, ClusterIs

LEMMA EntryWritten ==
    ASSUME NEW d \in DiskT, NEW x \in Clusters, NEW k \in Slots, NEW e \in EntryT, NEW d2,
           IsEntered(d, x, k, e, d2)
    PROVE  ClusterIs(d, x, [d.ent[x] EXCEPT ![k] = e], d2)
  <1> DEFINE T == [1 .. 2 -> [Clusters -> Links]]
  <1>1. DiskT = [fat : T, ent : [Clusters -> [Slots -> EntryT]]]
    BY DEF DiskT
  <1> HIDE DEF T
  <1>2. d \in [fat : T, ent : [Clusters -> [Slots -> EntryT]]]
    BY <1>1
  <1> QED BY <1>1, <1>2 DEF IsEntered, ClusterIs

(* A cluster is taken.  prev is 0 or an end mark if nothing is linked, and *)
(* then no layout changes.                                                 *)
IsAllocated(S, c, prev, got) ==
    /\ got.b = 0 => got.c = c
    /\ got.b # 0 =>
          /\ got.b \in Clusters /\ c.d.fat[1][got.b] = 0
          /\ got.c \in Copying(S) /\ got.c.log # <<>>
          /\ got.c.d.ent = [c.d.ent EXCEPT ![got.b] = Blank]
          /\ LET f == [c.d.fat[1] EXCEPT ![got.b] = Eoc]
             IN  got.c.d.fat[1] = IF prev \in Clusters THEN [f EXCEPT ![prev] = got.b] ELSE f
          /\ prev \notin Clusters =>
                \A m : LaidOut(c.d, m) => LaidOut(got.c.d, m) /\ (Saves(c) => Saves(got.c))

LEMMA Allocated ==
    ASSUME NEW S, NEW c \in Copying(S), NEW prev \in Links,
           NEW got, got = fat_alloc_cluster(c, prev)
    PROVE  IsAllocated(S, c, prev, got)
  <1> DEFINE free == {i \in Clusters : c.d.fat[1][i] = 0}
             i    == Least(free)
             c1   == fat_set_entry(c, i, Eoc)
             c2   == IF prev = 0 THEN c1 ELSE fat_set_entry(c1, prev, i)
             d3   == [c2.d EXCEPT !.ent[i] = Blank]
             f    == [c.d.fat[1] EXCEPT ![i] = Eoc]
  <1>1. got = IF free = {} THEN [c |-> c, b |-> 0] ELSE [c |-> Put(c2, d3), b |-> i]
    BY Zenon DEF fat_alloc_cluster
  <1>2. CASE free = {}
    <2>1. got.b = 0 /\ got.c = c
      BY <1>1, <1>2
    <2> QED BY <2>1, Zenon DEF IsAllocated
  <1>3. CASE free # {}
    <2>1. i \in Clusters /\ c.d.fat[1][i] = 0
      <3>1. free \in SUBSET Nat
        BY Numbers
      <3>2. i \in free
        BY <1>3, <3>1, LeastExists
      <3> QED BY <3>2
    <2> HIDE DEF i, c1, c2, d3
    <2>2. got.b = i /\ got.c = Put(c2, d3) /\ i # 0
      <3>1. got = [c |-> Put(c2, d3), b |-> i]
        BY <1>1, <1>3, Zenon
      <3> QED BY <2>1, <3>1, Numbers
    <2> HIDE DEF free
    <2> USE DEF c1, c2, d3
    <2>3. Eoc \in Links /\ i \in Links /\ Blank \in [Slots -> EntryT]
      BY <2>1, EmptyTypes, Zenon DEF Links
    <2>4. /\ c1 \in Copying(S) /\ c1.log # <<>> /\ c1.d.ent = c.d.ent /\ c1.d.fat[1] = f
          /\ Saves(c) /\ Safe(c1.d) => Saves(c1)
      BY <2>1, <2>3, EntrySet
    <2> HIDE DEF c1
    <2>5. /\ c2 \in Copying(S) /\ c2.log # <<>> /\ c2.d.ent = c.d.ent
          /\ c2.d.fat[1] = IF prev \in Clusters THEN [f EXCEPT ![prev] = i] ELSE f
          /\ prev \notin Clusters => c2 = c1
      <3>1. CASE prev \in Clusters
        <4> DEFINE r == fat_set_entry(c1, prev, i)
        <4>1. /\ r \in Copying(S) /\ r.log # <<>> /\ r.d.ent = c1.d.ent
              /\ r.d.fat[1] = [c1.d.fat[1] EXCEPT ![prev] = i]
          BY <2>3, <2>4, <3>1, EntrySet
        <4>2. c2 = r
          BY <3>1, Numbers
        <4> HIDE DEF r, c2, f
        <4> QED BY <2>4, <3>1, <4>1, <4>2
      <3>2. CASE prev \notin Clusters
        <4>1. c2 = c1
          BY <3>2 DEF fat_set_entry
        <4> HIDE DEF c2, f
        <4> QED BY <2>4, <3>2, <4>1
      <3> QED BY <3>1, <3>2
    <2> HIDE DEF c2
    <2>6. ClusterIs(c2.d, i, Blank, d3)
      <3>1. IsFilled(c2.d, i, Blank, d3)
        BY Zenon DEF IsFilled
      <3>2. c2.d \in DiskT
        BY <2>5 DEF Copying, CallT
      <3> HIDE DEF d3
      <3> QED BY <2>1, <2>3, <3>1, <3>2, ClusterFilled
    <2> HIDE DEF d3
    <2>7. d3 \in DiskT /\ d3.fat = c2.d.fat /\ d3.ent = [c.d.ent EXCEPT ![i] = Blank]
      BY <2>5, <2>6 DEF ClusterIs
    <2>8. /\ got.c \in Copying(S) /\ got.c.d = d3 /\ got.c.log # <<>>
          /\ Saves(c2) /\ Safe(d3) => Saves(got.c)
      BY <2>2, <2>5, <2>7, Written
    <2>9. ASSUME prev \notin Clusters, NEW m, LaidOut(c.d, m)
          PROVE  LaidOut(got.c.d, m) /\ (Saves(c) => Saves(got.c))
      <3>1. i \notin DOMAIN m /\ DOMAIN m \subseteq Clusters
        BY <2>1, <2>9, Zenon DEF LaidOut
      <3>2. c.d \in DiskT
        BY DEF Copying, CallT
      <3>3. \A x \in DOMAIN m : f[x] = c.d.fat[1][x] /\ d3.ent[x] = c.d.ent[x]
        BY <2>7, <3>1, <3>2 DEF DiskT
      <3> HIDE DEF f
      <3>4. LaidOut(c1.d, m)
        BY <2>4, <2>9, <3>3, Unrelated
      <3>5. LaidOut(d3, m)
        <4>1. \A x \in DOMAIN m : d3.fat[1][x] = c.d.fat[1][x]
          <5>1. d3.fat[1] = f
            BY <2>4, <2>5, <2>7, <2>9
          <5> QED BY <3>3, <5>1
        <4> QED BY <2>9, <3>3, <4>1, Unrelated
      <3> QED BY <2>4, <2>5, <2>8, <2>9, <3>4, <3>5 DEF Safe
    <2> HIDE DEF f
    <2>10. got.c.d.fat[1] = IF prev \in Clusters THEN [f EXCEPT ![prev] = got.b] ELSE f
      BY <2>2, <2>5, <2>7, <2>8
    <2> QED BY <2>1, <2>2, <2>7, <2>8, <2>9, <2>10 DEF f, IsAllocated
  <1> QED BY <1>2, <1>3

-----------------------------------------------------------------------------
(* Chains.  A chain ends before an entry of the table that is no cluster,  *)
(* unless it is longer than there are clusters.                            *)
Follows(ch, d, first) ==
    /\ ch \in Seq(Clusters) /\ Len(ch) <= Cardinality(Clusters) + 1
    /\ first \in Clusters => ch # <<>> /\ ch[1] = first
    /\ first \notin Clusters => ch = <<>>
    /\ \A n \in 2 .. Len(ch) : ch[n] = d.fat[1][ch[n - 1]]
    /\ ch # <<>> /\ Len(ch) <= Cardinality(Clusters) => d.fat[1][ch[Len(ch)]] \notin Clusters

LEMMA ChainIs ==
    ASSUME NEW d \in DiskT, NEW first \in Links
    PROVE  Follows(Chain(d, first), d, first)
  <1> DEFINE N == Cardinality(Clusters) + 1
             t == d.fat[1]
             Then(y) == IF y \in Clusters THEN t[y] ELSE Eoc
             S == [n \in 1 .. N |-> Links]
             step == [n \in 2 .. N |-> [y \in Links |-> Then(y)]]
             Is(at) == at = [n \in 1 .. N |-> IF n = 1 THEN first ELSE Then(at[n - 1])]
  <1>1. N \in Nat /\ 1 <= N /\ Cardinality(Clusters) \in Nat
    <2>1. Cardinality(Clusters) \in Nat
      BY Numbers, FS_CardinalityType
    <2> QED BY <2>1
  <1>2. t \in [Clusters -> Links]
    BY DEF DiskT
  <1>3. \A y \in Links : Then(y) \in Links
    BY <1>2 DEF Links
  <1>4. \E at : Is(at)
    <2>1. /\ 1 \in 1 .. N /\ \A n \in 1 .. N : S[n] = Links
          /\ \A n \in 2 .. N : \A y \in Links : step[n][y] = Then(y)
          /\ \A n \in 2 .. N : n \in 1 .. N /\ n - 1 \in 1 .. N /\ n \in 1 + 1 .. N
          /\ \A n \in 1 .. N : n # 1 => n \in 2 .. N
      BY <1>1
    <2> HIDE DEF S, step, N, Then, Is
    <2>2. StaysIn(step, 1, N, S)
      BY <1>3, <2>1 DEF StaysIn
    <2>3. PICK f : IsIterated(f, 1, N, S, first, step)
      BY <1>1, <2>1, <2>2, Iterates
    <2>4. ASSUME NEW n \in 1 .. N
          PROVE  f[n] = IF n = 1 THEN first ELSE Then(f[n - 1])
      <3>1. CASE n = 1
        BY <2>3, <3>1 DEF IsIterated
      <3>2. CASE n # 1
        <4>1. n \in 2 .. N /\ n - 1 \in 1 .. N /\ n \in 1 + 1 .. N
          BY <2>1, <3>2
        <4>2. f[n - 1] \in Links /\ f[n] = step[n][f[n - 1]]
          BY <2>1, <2>3, <4>1 DEF IsIterated
        <4> QED BY <2>1, <3>2, <4>1, <4>2
      <3> QED BY <3>1, <3>2
    <2>5. f = [n \in 1 .. N |-> f[n]]
      BY <2>3 DEF IsIterated
    <2>6. Is(f)
      BY <2>4, <2>5 DEF Is
    <2> QED BY <2>6
  <1> DEFINE at == CHOOSE f : Is(f)
             ch == [n \in {k \in DOMAIN at : at[k] \in Clusters} |-> at[n]]
  <1>5. Is(at)
    <2> HIDE DEF Is
    <2> QED BY <1>4
  <1>6. Chain(d, first) = ch
    BY DEF Chain
  <1> HIDE DEF at, S, step
  <1>7. DOMAIN at = 1 .. N /\ \A n \in 1 .. N : at[n] = IF n = 1 THEN first ELSE Then(at[n - 1])
    <2> HIDE DEF N, Then
    <2> QED BY <1>5
  <1>8. \A n \in 2 .. N : n - 1 \in 1 .. N /\ n \in 1 .. N /\ at[n] = Then(at[n - 1])
    <2> HIDE DEF Then
    <2> QED BY <1>1, <1>7
  <1> DEFINE Out == {n \in 1 .. N : at[n] \notin Clusters}
  <1>9. \E L \in 0 .. N : /\ \A n \in 1 .. L : at[n] \in Clusters
                          /\ \A n \in L + 1 .. N : at[n] \notin Clusters
    <2>1. CASE Out = {}
      <3>1. N \in 0 .. N /\ \A n \in 1 .. N : at[n] \in Clusters
        BY <1>1, <2>1
      <3>2. \A n \in N + 1 .. N : FALSE
        BY <1>1
      <3> QED BY <3>1, <3>2, Zenon
    <2>2. CASE Out # {}
      <3>1. PICK k \in Out : \A n \in Out : k <= n
        <4>1. Out \in SUBSET Nat
          BY <1>1
        <4> QED BY <2>2, <4>1, SmallestExists
      <3> DEFINE T == {n \in 1 .. N : at[n] \notin Clusters}
      <3>2. k \in T /\ k \in 1 .. N
        BY <3>1
      <3>3. \A n \in k + 1 .. N : n - 1 \in T => n \in T
        <4> SUFFICES ASSUME NEW n \in k + 1 .. N, n - 1 \in T PROVE n \in T
          OBVIOUS
        <4>1. n \in 2 .. N
          BY <3>2
        <4>2. at[n] = Eoc
          BY <1>8, <4>1
        <4> QED BY <1>1, <4>1, <4>2, Numbers
      <3>4. k .. N \subseteq T
        <4>1. k \in Int /\ N \in Int /\ k \in T
          BY <1>1, <3>2
        <4> HIDE DEF T, Out, N
        <4> QED BY <3>3, <4>1, UpTo
      <3>5. \A n \in 1 .. k - 1 : at[n] \in Clusters
        BY <1>1, <3>1
      <3>6. k - 1 \in 0 .. N /\ (k - 1) + 1 = k
        BY <1>1, <3>2
      <3> QED BY <3>4, <3>5, <3>6
    <2> QED BY <2>1, <2>2
  <1> HIDE DEF Out
  <1>10. PICK L \in 0 .. N : /\ \A n \in 1 .. L : at[n] \in Clusters
                             /\ \A n \in L + 1 .. N : at[n] \notin Clusters
    BY <1>9
  <1>11. {k \in DOMAIN at : at[k] \in Clusters} = 1 .. L
    BY <1>1, <1>7, <1>10
  <1>12. ch = [n \in 1 .. L |-> at[n]]
    BY <1>11
  <1> HIDE DEF ch
  <1>13. ch \in Seq(Clusters) /\ Len(ch) = L /\ \A n \in 1 .. L : ch[n] = at[n]
    BY <1>10, <1>12
  <1>14. L <= Cardinality(Clusters) + 1
    BY <1>1
  <1>15. at[1] = first
    <2>1. 1 \in 1 .. N
      BY <1>1
    <2> QED BY <1>7, <2>1
  <1>16. first \in Clusters => ch # <<>> /\ ch[1] = first
    <2> SUFFICES ASSUME first \in Clusters PROVE ch # <<>> /\ ch[1] = first
      OBVIOUS
    <2>1. L # 0
      <3> SUFFICES ASSUME L = 0 PROVE FALSE
        OBVIOUS
      <3>1. 1 \in L + 1 .. N
        BY <1>1
      <3> QED BY <1>10, <1>15, <3>1
    <2>2. 1 \in 1 .. L
      BY <1>1, <2>1
    <2> QED BY <1>13, <1>15, <2>1, <2>2
  <1>17. first \notin Clusters => ch = <<>>
    <2> SUFFICES ASSUME first \notin Clusters PROVE ch = <<>>
      OBVIOUS
    <2>1. L = 0
      <3> SUFFICES ASSUME L # 0 PROVE FALSE
        OBVIOUS
      <3>1. 1 \in 1 .. L
        BY <1>1
      <3> QED BY <1>10, <1>15, <3>1
    <2> QED BY <1>13, <2>1
  <1>18. \A n \in 2 .. L : ch[n] = t[ch[n - 1]]
    <2> SUFFICES ASSUME NEW n \in 2 .. L PROVE ch[n] = t[ch[n - 1]]
      OBVIOUS
    <2>1. n \in 2 .. N /\ n \in 1 .. L /\ n - 1 \in 1 .. L
      BY <1>1
    <2> QED BY <1>8, <1>10, <1>13, <2>1
  <1>19. ch # <<>> /\ L <= Cardinality(Clusters) => t[ch[L]] \notin Clusters
    <2> SUFFICES ASSUME ch # <<>>, L <= Cardinality(Clusters) PROVE t[ch[L]] \notin Clusters
      OBVIOUS
    <2>1. L # 0
      BY <1>13
    <2>2. L + 1 \in 2 .. N /\ L \in 1 .. L /\ L + 1 \in L + 1 .. N
      BY <1>1, <1>10, <2>1
    <2>3. at[L + 1] = t[at[L]]
      <3>1. at[L + 1] = Then(at[(L + 1) - 1]) /\ (L + 1) - 1 = L
        <4> HIDE DEF Then, N
        <4> QED BY <1>8, <2>2
      <3> QED BY <1>10, <2>2, <3>1
    <2> QED BY <1>10, <1>13, <2>2, <2>3
  <1> QED BY <1>6, <1>13, <1>14, <1>16, <1>17, <1>18, <1>19 DEF Follows
-----------------------------------------------------------------------------
(* Places of a directory, and what is found there.                         *)
Places0 == (Clusters \X Slots) \union {NoPlace}

LEMMA PlacesAre ==
    ASSUME NEW d \in DiskT, NEW dir \in Links
    PROVE  /\ DOMAIN Places(d, dir) \in SUBSET Nat
           /\ \A n \in DOMAIN Places(d, dir) :
                 /\ Places(d, dir)[n] \in ToSet(Chain(d, dir)) \X Slots
                 /\ Places(d, dir)[n] \in Clusters \X Slots
  <1> DEFINE ch == Chain(d, dir)
             E  == DirentsPerCluster
             ps == Places(d, dir)
  <1>1. ch \in Seq(Clusters)
    BY ChainIs DEF Follows
  <1> HIDE DEF ch
  <1>2. Len(ch) \in Nat /\ E \in Nat \ {0}
    BY <1>1, Numbers
  <1>3. ps = [n \in 1 .. E * Len(ch) |-> <<ch[((n - 1) \div E) + 1], ((n - 1) % E) + 1>>]
    BY Zenon DEF Places, ch
  <1> HIDE DEF ps
  <1>4. E * Len(ch) \in Nat
    BY <1>2
  <1>5. DOMAIN ps = 1 .. E * Len(ch)
    BY <1>3
  <1>6. ASSUME NEW n \in 1 .. E * Len(ch)
        PROVE  ps[n] \in ToSet(ch) \X Slots /\ ps[n] \in Clusters \X Slots
    <2> DEFINE a == n - 1
    <2>1. a \in Nat /\ a < E * Len(ch)
      BY <1>4
    <2>2. ps[n] = <<ch[(a \div E) + 1], (a % E) + 1>>
      BY <1>3
    <2> HIDE DEF a
    <2>3. a \div E \in Nat /\ a % E \in 0 .. E - 1 /\ a \div E < Len(ch)
      BY <1>2, <2>1, Divided
    <2>4. (a \div E) + 1 \in 1 .. Len(ch) /\ (a % E) + 1 \in Slots
      BY <1>2, <2>3 DEF Slots
    <2>5. ch[(a \div E) + 1] \in ToSet(ch) /\ ch[(a \div E) + 1] \in Clusters
      BY <1>1, <2>4 DEF ToSet
    <2> QED BY <2>2, <2>4, <2>5
  <1> QED BY <1>4, <1>5, <1>6 DEF ps, ch

(* The first place with one of some entries, and that there is none before *)
(* it.                                                                     *)
LEMMA FirstIs ==
    ASSUME NEW d \in DiskT, NEW dir \in Links, NEW W, NEW p, p = FirstPlace(d, dir, W)
    PROVE  \/ /\ p = NoPlace
              /\ \A n \in DOMAIN Places(d, dir) : At(d, Places(d, dir)[n]) \notin W
           \/ /\ p # NoPlace /\ p \in ToSet(Chain(d, dir)) \X Slots /\ p \in Clusters \X Slots
              /\ At(d, p) \in W
              /\ \E n \in DOMAIN Places(d, dir) :
                    /\ p = Places(d, dir)[n]
                    /\ \A k \in DOMAIN Places(d, dir) : At(d, Places(d, dir)[k]) \in W => n <= k
  <1> DEFINE ps   == Places(d, dir)
             fits == {n \in DOMAIN ps : At(d, ps[n]) \in W}
  <1>1. p = IF fits = {} THEN NoPlace ELSE ps[Least(fits)]
    BY Zenon DEF FirstPlace
  <1>2. /\ DOMAIN ps \in SUBSET Nat
        /\ \A n \in DOMAIN ps : ps[n] \in ToSet(Chain(d, dir)) \X Slots /\ ps[n] \in Clusters \X Slots
    BY PlacesAre, Zenon
  <1> HIDE DEF ps
  <1>3. CASE fits = {}
    <2>1. p = NoPlace /\ \A n \in DOMAIN ps : At(d, ps[n]) \notin W
      BY <1>1, <1>3
    <2> QED BY <2>1, Zenon DEF ps
  <1>4. CASE fits # {}
    <2>1. fits \in SUBSET Nat
      BY <1>2
    <2>2. Least(fits) \in fits /\ \A k \in fits : Least(fits) <= k
      BY <1>4, <2>1, LeastExists
    <2>3. PICK n \in fits : p = ps[n] /\ \A k \in fits : n <= k
      BY <1>1, <1>4, <2>2
    <2>4. /\ n \in DOMAIN ps /\ At(d, p) \in W
          /\ p \in ToSet(Chain(d, dir)) \X Slots /\ p \in Clusters \X Slots
          /\ \A k \in DOMAIN ps : At(d, ps[k]) \in W => n <= k
      BY <1>2, <2>3
    <2>5. p # NoPlace
      BY <2>4, Numbers, Zenon
    <2> QED BY <2>3, <2>4, <2>5, Zenon DEF ps
  <1> QED BY <1>3, <1>4

LEMMA FoundIs ==
    ASSUME NEW d \in DiskT, NEW dir \in Links, NEW name, NEW p, p = Find(d, dir, name),
           p # NoPlace
    PROVE  /\ p \in ToSet(Chain(d, dir)) \X Slots /\ p \in Clusters \X Slots
           /\ InUse(At(d, p)) /\ name \in {At(d, p).long, At(d, p).short}
  <1> DEFINE W == {e \in Entries(d, dir) : InUse(e) /\ name \in {e.long, e.short}}
  <1>1. p = FirstPlace(d, dir, W)
    BY DEF Find
  <1>2. \A e \in W : InUse(e) /\ name \in {e.long, e.short}
    OBVIOUS
  <1> HIDE DEF W
  <1>3. p \in ToSet(Chain(d, dir)) \X Slots /\ p \in Clusters \X Slots /\ At(d, p) \in W
    BY <1>1, FirstIs, Zenon
  <1> QED BY <1>2, <1>3, Zenon

LEMMA EntryType ==
    ASSUME NEW d \in DiskT, NEW p \in Clusters \X Slots
    PROVE  At(d, p) \in EntryT /\ At(d, p).start \in Clusters \union {0} /\ At(d, p).long \in Names
  <1>1. p[1] \in Clusters /\ p[2] \in Slots
    OBVIOUS
  <1>2. d.ent \in [Clusters -> [Slots -> EntryT]]
    BY DEF DiskT
  <1>3. At(d, p) \in EntryT
    BY <1>1, <1>2 DEF At
  <1> QED BY <1>3 DEF EntryT
(* The directories that a path goes through, found or not, on the way to   *)
(* the place of its last name.                                             *)
LEMMA ClusterAtIs ==
    ASSUME NEW d \in DiskT, NEW n \in Nat, NEW p \in Places0
    PROVE  /\ ClusterAt(d, n, p) = IF n = 0 THEN Root
                                   ELSE IF p = NoPlace THEN 0 ELSE At(d, p).start
           /\ ClusterAt(d, n, p) \in Clusters \union {0} /\ ClusterAt(d, n, p) \in Links
  <1>1. ClusterAt(d, n, p) = IF n = 0 THEN Root
                             ELSE IF p = NoPlace THEN 0 ELSE At(d, p).start
    <2>1. CASE n = 0
      BY <2>1 DEF ClusterAt
    <2>2. CASE n # 0 /\ p = NoPlace
      <3>1. n > 0
        BY <2>2
      <3> QED BY <2>2, <3>1, Zenon DEF ClusterAt
    <2>3. CASE n # 0 /\ p # NoPlace
      BY <2>3, Zenon DEF ClusterAt
    <2> QED BY <2>1, <2>2, <2>3
  <1>2. p # NoPlace => At(d, p).start \in Clusters \union {0}
    BY EntryType DEF Places0
  <1> QED BY <1>1, <1>2, Numbers DEF Links

LEMMA Walked ==
    ASSUME NEW d \in DiskT, NEW path, Len(path) \in Nat
    PROVE  /\ \A k \in 0 .. Len(path) : Walk(d, path)[k] \in Places0
           /\ Walk(d, path)[0] = NoPlace
           /\ \A k \in 1 .. Len(path) :
                 Walk(d, path)[k] = Find(d, ClusterAt(d, k - 1, Walk(d, path)[k - 1]), path[k])
  <1> DEFINE n == Len(path)
             Then(k, p) == Find(d, ClusterAt(d, k - 1, p), path[k])
             S == [k \in 0 .. n |-> Places0]
             step == [k \in 1 .. n |-> [p \in Places0 |-> Then(k, p)]]
             Is(at) == at = [k \in 0 .. n |-> IF k = 0 THEN NoPlace ELSE Then(k, at[k - 1])]
  <1>1. n \in Nat /\ NoPlace \in Places0
    BY DEF Places0
  <1>2. ASSUME NEW k \in 1 .. n, NEW p \in Places0 PROVE Then(k, p) \in Places0
    <2>1. ClusterAt(d, k - 1, p) \in Links
      <3>1. k - 1 \in Nat
        OBVIOUS
      <3> QED BY <3>1, ClusterAtIs
    <2> QED BY <2>1, FoundIs DEF Places0
  <1>3. \E at : Is(at)
    <2>1. NoPlace \in S[0]
      BY <1>1
    <2>2. /\ \A k \in 0 .. n : S[k] = Places0
          /\ \A k \in 1 .. n : \A p \in Places0 : step[k][p] = Then(k, p)
      OBVIOUS
    <2>3. \A k \in 0 + 1 .. n : k \in 1 .. n /\ k \in 0 .. n /\ k - 1 \in 0 .. n
      BY <1>1
    <2> HIDE DEF S, step, n, Then, Is
    <2>4. StaysIn(step, 0, n, S)
      BY <1>2, <2>2, <2>3 DEF StaysIn
    <2>5. PICK f : IsIterated(f, 0, n, S, NoPlace, step)
      BY <1>1, <2>1, <2>4, Iterates
    <2>6. ASSUME NEW k \in 0 .. n
          PROVE  f[k] = IF k = 0 THEN NoPlace ELSE Then(k, f[k - 1])
      <3>1. CASE k = 0
        BY <2>5, <3>1 DEF IsIterated
      <3>2. CASE k # 0
        <4>1. k \in 0 + 1 .. n /\ k \in 1 .. n /\ k - 1 \in 0 .. n
          BY <1>1, <3>2
        <4>2. f[k - 1] \in Places0 /\ f[k] = step[k][f[k - 1]]
          BY <2>2, <2>5, <4>1 DEF IsIterated
        <4> QED BY <2>2, <3>2, <4>1, <4>2
      <3> QED BY <3>1, <3>2
    <2>7. f = [k \in 0 .. n |-> f[k]]
      BY <2>5 DEF IsIterated
    <2>8. Is(f)
      BY <2>6, <2>7 DEF Is
    <2> QED BY <2>8
  <1> DEFINE G == CHOOSE at : Is(at)
  <1>4. Is(G)
    <2> HIDE DEF Is
    <2> QED BY <1>3
  <1>5. Walk(d, path) = G
    BY DEF Walk
  <1> HIDE DEF G, S, step
  <1>6. \A k \in 0 .. n : G[k] = IF k = 0 THEN NoPlace ELSE Then(k, G[k - 1])
    <2> HIDE DEF Then, n
    <2> QED BY <1>4
  <1> DEFINE T == {k \in 0 .. n : G[k] \in Places0}
  <1>7. 0 \in T
    BY <1>1, <1>6
  <1>8. \A k \in 0 + 1 .. n : k - 1 \in T => k \in T
    <2> SUFFICES ASSUME NEW k \in 0 + 1 .. n, k - 1 \in T PROVE k \in T
      OBVIOUS
    <2>1. k \in 1 .. n /\ k \in 0 .. n /\ k # 0
      BY <1>1
    <2>2. G[k] = Then(k, G[k - 1]) /\ G[k - 1] \in Places0
      <3> HIDE DEF Then
      <3> QED BY <1>6, <2>1
    <2> HIDE DEF Then
    <2> QED BY <1>2, <2>1, <2>2
  <1>9. 0 .. n \subseteq T
    <2>1. n \in Int
      BY <1>1
    <2> HIDE DEF T, n
    <2> QED BY <2>1, <1>7, <1>8, UpTo
  <1>10. \A k \in 0 .. n : G[k] \in Places0
    BY <1>9
  <1>11. \A k \in 1 .. n : G[k] = Then(k, G[k - 1])
    <2>1. \A k \in 1 .. n : k \in 0 .. n /\ k # 0
      BY <1>1
    <2> HIDE DEF Then
    <2> QED BY <1>6, <2>1
  <1>12. G[0] = NoPlace
    BY <1>6, <1>7
  <1> QED BY <1>5, <1>10, <1>11, <1>12

LEMMA LookupIs ==
    ASSUME NEW d \in DiskT, NEW path \in Seq(DOMAIN Short), path # <<>>
    PROVE  /\ fat_dir_cluster(d, path) \in Clusters \union {0} /\ fat_dir_cluster(d, path) \in Links
           /\ fat_lookup(d, path) = Find(d, fat_dir_cluster(d, path), Last(path))
           /\ Last(path) \in DOMAIN Short
           /\ fat_lookup(d, path) \in Places0
  <1> DEFINE n == Len(path)
  <1>1. n \in Nat /\ n # 0 /\ n \in 1 .. n /\ n - 1 \in 0 .. n /\ n \in 0 .. n /\ n - 1 \in Nat
    OBVIOUS
  <1>2. Last(path) = path[n] /\ path[n] \in DOMAIN Short
    BY <1>1 DEF Last
  <1>3. Walk(d, path)[n - 1] \in Places0 /\ Walk(d, path)[n] \in Places0
    BY <1>1, Walked
  <1>4. Walk(d, path)[n] = Find(d, ClusterAt(d, n - 1, Walk(d, path)[n - 1]), path[n])
    BY <1>1, Walked
  <1>5. ClusterAt(d, n - 1, Walk(d, path)[n - 1]) \in Clusters \union {0}
    BY <1>1, <1>3, ClusterAtIs
  <1> QED BY <1>2, <1>3, <1>4, <1>5 DEF fat_lookup, fat_dir_cluster, Links
-----------------------------------------------------------------------------
(* An entry is written, with the long name that is before the place.       *)
Named1(d, q, e) == [e EXCEPT !.long = At(d, q).long]
Writes(d, q, e, d2) ==
    ClusterIs(d, q[1], [d.ent[q[1]] EXCEPT ![q[2]] = Named1(d, q, e)], d2)

LEMMA WroteEntry ==
    ASSUME NEW S, NEW c \in Copying(S), NEW e \in EntryT, NEW q \in Clusters \X Slots,
           NEW r, r = Put(c, [c.d EXCEPT !.ent[q[1]][q[2]] = Named1(c.d, q, e)])
    PROVE  /\ r \in Copying(S) /\ r.log # <<>> /\ Writes(c.d, q, e, r.d)
           /\ Saves(c) /\ Safe(r.d) => Saves(r)
  <1> DEFINE w == Named1(c.d, q, e)
             d2 == [c.d EXCEPT !.ent[q[1]][q[2]] = w]
  <1>1. c.d \in DiskT /\ q[1] \in Clusters /\ q[2] \in Slots
    BY DEF Copying, CallT
  <1>2. w \in EntryT
    <2>1. At(c.d, q).long \in Names
      BY <1>1, EntryType
    <2> QED BY <2>1 DEF Named1, EntryT
  <1>3. IsEntered(c.d, q[1], q[2], w, d2)
    BY Zenon DEF IsEntered
  <1>4. r = Put(c, d2)
    BY Zenon
  <1> HIDE DEF w, d2
  <1>5. ClusterIs(c.d, q[1], [c.d.ent[q[1]] EXCEPT ![q[2]] = w], d2)
    BY <1>1, <1>2, <1>3, EntryWritten
  <1>6. d2 \in DiskT /\ d2.fat = c.d.fat
    BY <1>5 DEF ClusterIs
  <1>7. r \in Copying(S) /\ r.d = d2 /\ r.log # <<>> /\ (Saves(c) /\ Safe(d2) => Saves(r))
    BY <1>4, <1>6, Written
  <1> QED BY <1>5, <1>7 DEF Writes, w

Enters(S, c, dir, e, new, p, got) ==
    /\ new.c \in Copying(S) /\ (c.log # <<>> => new.c.log # <<>>)
    /\ \/ new.ok = FALSE /\ new.c = c
       \/ /\ new.ok = TRUE /\ p # NoPlace
          /\ Writes(c.d, p, e, new.c.d) /\ (Saves(c) /\ Safe(new.c.d) => Saves(new.c))
       \/ /\ new.ok = TRUE /\ p = NoPlace /\ dir # 0
          /\ got.b # 0 /\ Writes(got.c.d, <<got.b, 1>>, e, new.c.d)

LEMMA EnteredIs ==
    ASSUME NEW S, NEW c \in Copying(S), NEW dir \in Clusters \union {0}, NEW e \in EntryT,
           NEW new, new = Entered(c, dir, e), NEW p, p = FreeEntry(c.d, dir),
           NEW got, got = fat_alloc_cluster(c, Last(Chain(c.d, dir)))
    PROVE  Enters(S, c, dir, e, new, p, got)
  <1> DEFINE Write(x, q) ==
                 Put(x, [x.d EXCEPT !.ent[q[1]][q[2]] = [e EXCEPT !.long = At(x.d, q).long]])
  <1>1. new = CASE p # NoPlace -> [c |-> Write(c, p), ok |-> TRUE]
                [] p = NoPlace /\ dir = 0 -> [c |-> c, ok |-> FALSE]
                [] OTHER -> IF got.b = 0 THEN [c |-> got.c, ok |-> FALSE]
                            ELSE [c |-> Write(got.c, <<got.b, 1>>), ok |-> TRUE]
    BY Zenon DEF Entered
  <1>2. \A x, q : Write(x, q) = Put(x, [x.d EXCEPT !.ent[q[1]][q[2]] = Named1(x.d, q, e)])
    BY Zenon DEF Named1
  <1> HIDE DEF Write
  <1>3. c.d \in DiskT /\ dir \in Links
    BY DEF Copying, CallT, Links
  <1>4. CASE p # NoPlace
    <2>1. new.c = Write(c, p) /\ new.ok = TRUE
      <3>1. new = [c |-> Write(c, p), ok |-> TRUE]
        BY <1>1, <1>4, Zenon
      <3> QED BY <3>1
    <2>2. p \in Clusters \X Slots
      <3> DEFINE W == {x \in Entries(c.d, dir) : ~InUse(x)}
      <3>1. p = FirstPlace(c.d, dir, W)
        BY DEF FreeEntry
      <3> HIDE DEF W
      <3> QED BY <1>3, <1>4, <3>1, FirstIs, Zenon
    <2>3. /\ new.c \in Copying(S) /\ new.c.log # <<>> /\ Writes(c.d, p, e, new.c.d)
          /\ Saves(c) /\ Safe(new.c.d) => Saves(new.c)
      <3> DEFINE r == Put(c, [c.d EXCEPT !.ent[p[1]][p[2]] = Named1(c.d, p, e)])
      <3>1. new.c = r
        BY <1>2, <2>1, Zenon
      <3> HIDE DEF Write
      <3>2. /\ r \in Copying(S) /\ r.log # <<>> /\ Writes(c.d, p, e, r.d)
            /\ Saves(c) /\ Safe(r.d) => Saves(r)
        BY <2>2, WroteEntry
      <3> HIDE DEF r
      <3> QED BY <3>1, <3>2
    <2> QED BY <1>4, <2>1, <2>3 DEF Enters
  <1>5. CASE p = NoPlace /\ dir = 0
    <2>1. new = [c |-> c, ok |-> FALSE]
      BY <1>1, <1>5, Zenon
    <2> QED BY <2>1 DEF Enters
  <1>6. CASE p = NoPlace /\ dir # 0
    <2>1. new = IF got.b = 0 THEN [c |-> got.c, ok |-> FALSE]
                ELSE [c |-> Write(got.c, <<got.b, 1>>), ok |-> TRUE]
      BY <1>1, <1>6, Zenon
    <2>2. Last(Chain(c.d, dir)) \in Links
      <3>1. Chain(c.d, dir) \in Seq(Clusters) /\ Chain(c.d, dir) # <<>>
        BY <1>3, <1>6, ChainIs DEF Follows
      <3>2. Len(Chain(c.d, dir)) \in 1 .. Len(Chain(c.d, dir))
        BY <3>1
      <3> QED BY <3>1, <3>2 DEF Last, Links
    <2>3. /\ got.b = 0 => got.c = c
          /\ got.b # 0 => got.b \in Clusters /\ got.c \in Copying(S)
      <3> DEFINE l == Last(Chain(c.d, dir))
      <3>1. l \in Links /\ got = fat_alloc_cluster(c, l)
        BY <2>2
      <3> HIDE DEF l
      <3>2. IsAllocated(S, c, l, got)
        BY <3>1, Allocated
      <3> QED BY <3>2, Zenon DEF IsAllocated
    <2>4. CASE got.b = 0
      BY <2>1, <2>3, <2>4 DEF Enters
    <2>5. CASE got.b # 0
      <3>1. new.c = Write(got.c, <<got.b, 1>>) /\ new.ok = TRUE
        BY <2>1, <2>5
      <3> DEFINE q == <<got.b, 1>>
      <3>2. q \in Clusters \X Slots
        BY <2>3, <2>5, Numbers
      <3> HIDE DEF q
      <3>3. new.c \in Copying(S) /\ new.c.log # <<>> /\ Writes(got.c.d, q, e, new.c.d)
        <4> DEFINE x == got.c
                   r == Put(x, [x.d EXCEPT !.ent[q[1]][q[2]] = Named1(x.d, q, e)])
        <4>1. new.c = r
          BY <1>2, <3>1, Zenon DEF q
        <4>2. x \in Copying(S)
          BY <2>3, <2>5
        <4> HIDE DEF x
        <4>3. r \in Copying(S) /\ r.log # <<>> /\ Writes(x.d, q, e, r.d)
          BY <3>2, <4>2, WroteEntry
        <4> HIDE DEF r
        <4> QED BY <4>1, <4>3 DEF x
      <3> QED BY <1>6, <2>5, <3>1, <3>3 DEF q, Enters
    <2> QED BY <2>4, <2>5
  <1> QED BY <1>4, <1>5, <1>6
-----------------------------------------------------------------------------
(* Steps that stay in a set, one after the other.                          *)
Inside(step, n, F) == \A k \in 1 .. n : \A y \in F : step[k][y] \in F
Runs(f, step, n, F, x) ==
    /\ f = [k \in 0 .. n |-> f[k]] /\ f[0] = x
    /\ \A k \in 1 .. n : f[k - 1] \in F /\ f[k] = step[k][f[k - 1]]

LEMMA Existing ==
    ASSUME NEW n \in Nat, NEW F, NEW x \in F, NEW step, Inside(step, n, F)
    PROVE  \E f : Runs(f, step, n, F, x)
  <1> DEFINE S == [k \in 0 .. n |-> F]
  <1>1. /\ \A k \in 0 .. n : S[k] = F
        /\ \A k \in 0 + 1 .. n : k \in 1 .. n /\ k \in 0 .. n /\ k - 1 \in 0 .. n
        /\ \A k \in 1 .. n : k \in 0 + 1 .. n
        /\ 0 \in 0 .. n /\ 0 <= n /\ n \in Int /\ 0 \in Int
    OBVIOUS
  <1> HIDE DEF S
  <1>2. StaysIn(step, 0, n, S)
    BY <1>1 DEF StaysIn, Inside
  <1>3. x \in S[0]
    BY <1>1
  <1>4. PICK f : IsIterated(f, 0, n, S, x, step)
    BY <1>1, <1>2, <1>3, Iterates
  <1>5. f = [k \in 0 .. n |-> f[k]] /\ f[0] = x
    BY <1>4 DEF IsIterated
  <1>6. ASSUME NEW k \in 1 .. n PROVE f[k - 1] \in F /\ f[k] = step[k][f[k - 1]]
    <2>1. k \in 0 + 1 .. n /\ k \in 0 .. n /\ k - 1 \in 0 .. n
      BY <1>1
    <2>2. f[k] = step[k][f[k - 1]] /\ f[k - 1] \in S[k - 1]
      BY <1>4, <2>1, Zenon DEF IsIterated
    <2> QED BY <1>1, <2>1, <2>2
  <1> QED BY <1>5, <1>6 DEF Runs

LEMMA Staying ==
    ASSUME NEW n \in Nat, NEW F, NEW G, G[0] \in F,
           \A k \in 1 .. n : G[k - 1] \in F => G[k] \in F
    PROVE  G[n] \in F
  <1> DEFINE T == {k \in 0 .. n : G[k] \in F}
  <1>1. 0 \in T
    OBVIOUS
  <1>2. \A k \in 0 + 1 .. n : k - 1 \in T => k \in T
    OBVIOUS
  <1>3. 0 .. n \subseteq T
    <2>1. n \in Int /\ 0 \in Int
      OBVIOUS
    <2> HIDE DEF T
    <2> QED BY <1>1, <1>2, <2>1, UpTo
  <1>4. n \in 0 .. n
    OBVIOUS
  <1> QED BY <1>3, <1>4

(* A chain is given back: its entries are written, and nothing else.       *)
Freed(c, S, chain) ==
    {y \in Copying(S) : /\ y.d.ent = c.d.ent
                        /\ \A x \in Clusters \ ToSet(chain) : y.d.fat[1][x] = c.d.fat[1][x]}

LEMMA ChainFreed ==
    ASSUME NEW S, NEW c \in Copying(S), NEW first \in Links
    PROVE  fat_free_chain(c, first) \in Freed(c, S, Chain(c.d, first))
  <1> DEFINE ch == Chain(c.d, first)
             n  == Len(ch)
             F  == Freed(c, S, ch)
             Then(k, y) == fat_set_entry(y, ch[k], 0)
             step == [k \in 1 .. n |-> [y \in F |-> Then(k, y)]]
             Is(after) == after = [k \in 0 .. n |-> IF k = 0 THEN c ELSE Then(k, after[k - 1])]
  <1>1. ch \in Seq(Clusters)
    <2>1. c.d \in DiskT
      BY DEF Copying, CallT
    <2> QED BY <2>1, ChainIs DEF Follows
  <1>2. n \in Nat /\ c \in F
    BY <1>1 DEF Freed
  <1>3. ASSUME NEW k \in 1 .. n, NEW y \in F PROVE Then(k, y) \in F
    <2> DEFINE x == ch[k]
    <2>1. x \in Clusters /\ x \in ToSet(ch)
      BY <1>1 DEF ToSet
    <2>2. y \in Copying(S) /\ y.d \in DiskT
      BY DEF Freed, Copying, CallT
    <2> HIDE DEF x, ch
    <2> DEFINE r == fat_set_entry(y, x, 0)
    <2>3. r \in Copying(S) /\ r.d.ent = y.d.ent /\ r.d.fat[1] = [y.d.fat[1] EXCEPT ![x] = 0]
      <3>1. 0 \in Links
        BY DEF Links
      <3> QED BY <2>1, <2>2, <3>1, EntrySet
    <2>4. Then(k, y) = r
      BY DEF x
    <2> HIDE DEF r
    <2>5. \A z \in Clusters \ ToSet(ch) : r.d.fat[1][z] = y.d.fat[1][z]
      BY <2>1, <2>2, <2>3 DEF DiskT
    <2>6. r \in F
      BY <2>3, <2>5 DEF Freed
    <2> QED BY <2>4, <2>6
  <1> HIDE DEF ch, F
  <1>4. \E after : Is(after)
    <2>1. \A k \in 1 .. n : \A y \in F : step[k][y] = Then(k, y)
      OBVIOUS
    <2> HIDE DEF step, n, Then, Is
    <2>2. Inside(step, n, F)
      BY <1>3, <2>1 DEF Inside
    <2>3. PICK f : Runs(f, step, n, F, c)
      BY <1>2, <2>2, Existing
    <2>4. /\ f = [k \in 0 .. n |-> f[k]] /\ f[0] = c
          /\ \A k \in 1 .. n : f[k - 1] \in F /\ f[k] = step[k][f[k - 1]]
      BY <2>3 DEF Runs
    <2>5. \A k \in 0 .. n : f[k] = IF k = 0 THEN c ELSE Then(k, f[k - 1])
      <3>1. \A k \in 0 .. n : k # 0 => k \in 1 .. n
        BY <1>2
      <3> QED BY <2>1, <2>4, <3>1
    <2>6. Is(f)
      BY <2>4, <2>5 DEF Is
    <2> QED BY <2>6
  <1> DEFINE G == CHOOSE after : Is(after)
  <1>5. Is(G)
    <2> HIDE DEF Is
    <2> QED BY <1>4
  <1>6. fat_free_chain(c, first) = G[n]
    BY DEF fat_free_chain, ch
  <1> HIDE DEF G, n, Then, step
  <1>7. G[0] = c /\ \A k \in 1 .. n : G[k] = Then(k, G[k - 1])
    BY <1>2, <1>5
  <1>8. G[n] \in F
    BY <1>2, <1>3, <1>7, Staying
  <1> QED BY <1>6, <1>8 DEF F, ch
(* Clusters are read, or written, through one handle.                      *)
ReadOn(x, n) ==
    LET after[k \in 0 .. n] == IF k = 0 THEN x ELSE ReadCluster(after[k - 1])
    IN  after[n]

LEMMA ReadEach ==
    ASSUME NEW F, NEW x \in F, \A f \in F : ReadCluster(f) \in F, NEW n \in Nat
    PROVE  ReadOn(x, n) \in F
  <1> DEFINE step == [k \in 1 .. n |-> [y \in F |-> ReadCluster(y)]]
             Is(after) == after = [k \in 0 .. n |-> IF k = 0 THEN x
                                                    ELSE ReadCluster(after[k - 1])]
  <1>1. \E after : Is(after)
    <2>1. \A k \in 1 .. n : \A y \in F : step[k][y] = ReadCluster(y)
      OBVIOUS
    <2> HIDE DEF step, Is
    <2>2. Inside(step, n, F)
      BY <2>1 DEF Inside
    <2>3. PICK f : Runs(f, step, n, F, x)
      BY <2>2, Existing
    <2>4. /\ f = [k \in 0 .. n |-> f[k]] /\ f[0] = x
          /\ \A k \in 1 .. n : f[k - 1] \in F /\ f[k] = step[k][f[k - 1]]
      BY <2>3 DEF Runs
    <2>5. \A k \in 0 .. n : f[k] = IF k = 0 THEN x ELSE ReadCluster(f[k - 1])
      <3>1. \A k \in 0 .. n : k # 0 => k \in 1 .. n
        OBVIOUS
      <3> QED BY <2>1, <2>4, <3>1
    <2>6. Is(f)
      BY <2>4, <2>5 DEF Is
    <2> QED BY <2>6
  <1> DEFINE G == CHOOSE after : Is(after)
  <1>2. Is(G)
    <2> HIDE DEF Is
    <2> QED BY <1>1
  <1>3. ReadOn(x, n) = G[n]
    BY DEF ReadOn
  <1> HIDE DEF G, step
  <1>4. G[0] = x /\ \A k \in 1 .. n : G[k] = ReadCluster(G[k - 1])
    BY <1>2
  <1>5. G[n] \in F
    BY <1>4, Staying
  <1> QED BY <1>3, <1>5

WriteOn(x, n, v) ==
    LET after[k \in 0 .. n] == IF k = 0 THEN x ELSE WriteCluster(after[k - 1], v)
    IN  after[n]

LEMMA WriteEach ==
    ASSUME NEW v, NEW F, NEW x \in F, \A f \in F : WriteCluster(f, v) \in F, NEW n \in Nat
    PROVE  WriteOn(x, n, v) \in F
  <1> DEFINE step == [k \in 1 .. n |-> [y \in F |-> WriteCluster(y, v)]]
             Is(after) == after = [k \in 0 .. n |-> IF k = 0 THEN x
                                                    ELSE WriteCluster(after[k - 1], v)]
  <1>1. \E after : Is(after)
    <2>1. \A k \in 1 .. n : \A y \in F : step[k][y] = WriteCluster(y, v)
      OBVIOUS
    <2> HIDE DEF step, Is
    <2>2. Inside(step, n, F)
      BY <2>1 DEF Inside
    <2>3. PICK f : Runs(f, step, n, F, x)
      BY <2>2, Existing
    <2>4. /\ f = [k \in 0 .. n |-> f[k]] /\ f[0] = x
          /\ \A k \in 1 .. n : f[k - 1] \in F /\ f[k] = step[k][f[k - 1]]
      BY <2>3 DEF Runs
    <2>5. \A k \in 0 .. n : f[k] = IF k = 0 THEN x ELSE WriteCluster(f[k - 1], v)
      <3>1. \A k \in 0 .. n : k # 0 => k \in 1 .. n
        OBVIOUS
      <3> QED BY <2>1, <2>4, <3>1
    <2>6. Is(f)
      BY <2>4, <2>5 DEF Is
    <2> QED BY <2>6
  <1> DEFINE G == CHOOSE after : Is(after)
  <1>2. Is(G)
    <2> HIDE DEF Is
    <2> QED BY <1>1
  <1>3. WriteOn(x, n, v) = G[n]
    BY DEF WriteOn
  <1> HIDE DEF G, step
  <1>4. G[0] = x /\ \A k \in 1 .. n : G[k] = WriteCluster(G[k - 1], v)
    BY <1>2
  <1>5. G[n] \in F
    BY <1>4, Staying
  <1> QED BY <1>3, <1>5
-----------------------------------------------------------------------------
(* The invariant.  The copies of the table differ in at most `cuts'        *)
(* entries once the call is over; a layout of the disk as it will be then  *)
(* holds every cluster a handle is at; and while the power may fail        *)
(* without harm every image on the way has a layout.                       *)
FdT ==
    [used : BOOLEAN, start : Clusters \union {0}, cur : Links, position : Nat, size : Nat,
     dir : BOOLEAN]
Typed ==
    /\ disk \in DiskT /\ pending \in Seq(DiskT) /\ safe \in BOOLEAN
    /\ fat_fds \in [Fds -> FdT] /\ cuts \in Nat
Final == IF pending = <<>> THEN disk ELSE pending[Len(pending)]
Few(S) == S \in SUBSET Clusters /\ Cardinality(S) <= cuts /\ Near(disk, S)
Copied ==
    \E S : Few(S) /\ Differ(Final) \subseteq S /\ \A k \in 1 .. Len(pending) : Near(pending[k], S)
CInv == Typed /\ Copied

MayHold(m, f) ==
    f.cur \in Clusters => /\ f.used /\ f.cur \in DOMAIN m
                          /\ m[f.cur].first = f.start /\ f.start # Root
Holds(m, fds) == \A fd \in Fds : MayHold(m, fds[fd])
Saved == safe => Safe(disk) /\ \A k \in 1 .. Len(pending) : Safe(pending[k])
Settled == \E m : LaidOut(Final, m) /\ Holds(m, fat_fds)
LInv == Saved /\ Settled

LEMMA AtRest ==
    ASSUME CInv, Idle
    PROVE  /\ \E S : Few(S) /\ Start \in Copying(S)
           /\ Final = disk /\ Start.d = disk /\ Saves(Start)
  <1>1. Final = disk
    BY DEF Idle, Final
  <1>2. PICK S : Few(S) /\ Differ(Final) \subseteq S
    BY DEF CInv, Copied
  <1>3. Start.d = disk /\ Start.log = <<>>
    BY DEF Start
  <1>4. Start \in CallT
    BY DEF Start, CallT, CInv, Typed
  <1>5. Ends(Start)
    BY <1>3 DEF Ends
  <1>6. Start \in Copying(S)
    BY <1>1, <1>2, <1>3, <1>4, <1>5 DEF Copying
  <1>7. Saves(Start)
    BY <1>3 DEF Saves
  <1> QED BY <1>1, <1>2, <1>3, <1>6, <1>7

(* A call begins.                                                          *)
LEMMA Called ==
    ASSUME CInv, NEW S, Few(S), NEW c \in Copying(S), NEW ordered \in BOOLEAN, NEW gone,
           Doing(ordered, c, gone), fat_fds' \in [Fds -> FdT]
    PROVE  /\ CInv'
           /\ LInv /\ (ordered => Saves(c)) /\ (\E m : LaidOut(c.d, m) /\ Holds(m, fat_fds'))
                => LInv'
  <1>1. /\ pending = <<>> /\ pending' = c.log /\ safe' = (ordered \/ c.log = <<>>)
        /\ disk' = disk /\ cuts' = cuts
    BY DEF Doing, Idle
  <1>2. c \in CallT /\ Ends(c) /\ Differ(c.d) \subseteq S /\ \A k \in 1 .. Len(c.log) : Near(c.log[k], S)
    BY DEF Copying
  <1>3. Final' = c.d
    BY <1>1, <1>2 DEF Final, Ends
  <1>4. Typed'
    BY <1>1, <1>2 DEF CInv, Typed, CallT
  <1>5. Few(S)'
    BY <1>1 DEF Few
  <1>6. Copied'
    BY <1>1, <1>2, <1>3, <1>5 DEF Copied
  <1>7. ASSUME LInv, ordered => Saves(c), NEW m, LaidOut(c.d, m), Holds(m, fat_fds')
        PROVE  LInv'
    <2>1. Settled'
      BY <1>3, <1>7 DEF Settled
    <2>2. Safe(disk)
      <3>1. Final = disk
        BY <1>1 DEF Final
      <3> QED BY <1>7, <3>1 DEF LInv, Settled, Safe
    <2>3. safe' => \A k \in 1 .. Len(c.log) : Safe(c.log[k])
      BY <1>1, <1>7 DEF Saves
    <2>4. Saved'
      BY <1>1, <2>2, <2>3 DEF Saved
    <2> QED BY <2>1, <2>4 DEF LInv
  <1> QED BY <1>4, <1>6, <1>7 DEF CInv

(* Only handles change.                                                    *)
LEMMA OnlyHandles ==
    ASSUME CInv, UNCHANGED <<disk, pending, safe, cuts>>, fat_fds' \in [Fds -> FdT]
    PROVE  /\ CInv'
           /\ LInv /\ (\E m : LaidOut(Final, m) /\ Holds(m, fat_fds')) => LInv'
  <1>1. Final' = Final
    BY DEF Final
  <1>2. Typed'
    BY DEF CInv, Typed
  <1>3. Copied'
    <2>1. PICK S : Few(S) /\ Differ(Final) \subseteq S /\ \A k \in 1 .. Len(pending) : Near(pending[k], S)
      BY DEF CInv, Copied
    <2>2. Few(S)'
      BY <2>1 DEF Few
    <2> QED BY <1>1, <2>1, <2>2 DEF Copied
  <1>4. LInv => Saved'
    BY DEF LInv, Saved
  <1>5. (\E m : LaidOut(Final, m) /\ Holds(m, fat_fds')) => Settled'
    BY <1>1 DEF Settled
  <1> QED BY <1>2, <1>3, <1>4, <1>5 DEF CInv, LInv

LEMMA KeepsDiskWrite ==
    ASSUME CInv, DiskWrite
    PROVE  CInv' /\ (LInv => LInv')
  <1> DEFINE n == Len(pending)
  <1>1. pending \in Seq(DiskT) /\ pending # <<>>
    BY DEF CInv, Typed, DiskWrite
  <1>2. /\ n \in Nat \ {0} /\ disk' = pending[1] /\ pending[1] \in DiskT
        /\ pending' = Tail(pending) /\ pending' \in Seq(DiskT) /\ Len(pending') = n - 1
        /\ \A k \in 1 .. n - 1 : pending'[k] = pending[k + 1] /\ k + 1 \in 1 .. n
        /\ UNCHANGED <<fat_fds, cuts>>
        /\ safe' = (safe \/ pending' = <<>>)
    BY <1>1 DEF DiskWrite
  <1>3. Final' = Final
    <2>1. CASE n = 1
      <3>1. pending' = <<>>
        BY <1>2, <2>1
      <3> QED BY <1>1, <1>2, <2>1, <3>1 DEF Final
    <2>2. CASE n # 1
      <3>1. pending' # <<>> /\ n - 1 \in 1 .. n - 1
        <4>1. Len(pending') # 0 /\ n - 1 \in 1 .. n - 1
          <5> HIDE DEF n
          <5> QED BY <1>2, <2>2
        <4> QED BY <4>1
      <3>2. pending'[n - 1] = pending[n]
        BY <1>2, <3>1
      <3> QED BY <1>1, <1>2, <3>1, <3>2 DEF Final
    <2> QED BY <2>1, <2>2
  <1>4. Typed'
    BY <1>2 DEF CInv, Typed
  <1>5. 1 \in 1 .. n
    BY <1>2
  <1>6. Copied'
    <2>1. PICK S : Few(S) /\ Differ(Final) \subseteq S /\ \A k \in 1 .. n : Near(pending[k], S)
      BY DEF CInv, Copied
    <2>2. Few(S)'
      BY <1>2, <1>5, <2>1 DEF Few
    <2>3. \A k \in 1 .. Len(pending') : Near(pending'[k], S)
      BY <1>2, <2>1
    <2> QED BY <1>3, <2>1, <2>2, <2>3 DEF Copied
  <1>7. ASSUME LInv PROVE LInv'
    <2>1. Settled'
      <3>1. PICK m : LaidOut(Final, m) /\ Holds(m, fat_fds)
        BY <1>7 DEF LInv, Settled
      <3>2. Holds(m, fat_fds')
        BY <1>2, <3>1
      <3> QED BY <1>3, <3>1, <3>2 DEF Settled
    <2>2. ASSUME safe PROVE Saved'
      <3>1. \A k \in 1 .. n : Safe(pending[k])
        BY <1>7, <2>2 DEF LInv, Saved
      <3>2. Safe(disk') /\ \A k \in 1 .. Len(pending') : Safe(pending'[k])
        BY <1>2, <1>5, <3>1
      <3> QED BY <3>2 DEF Saved
    <2>3. ASSUME pending' = <<>> PROVE Saved'
      <3>1. Final' = disk' /\ \A k \in 1 .. Len(pending') : FALSE
        BY <2>3 DEF Final
      <3>2. Safe(disk')
        BY <1>3, <1>7, <3>1 DEF LInv, Settled, Safe
      <3> QED BY <3>1, <3>2 DEF Saved
    <2>4. Saved'
      BY <1>2, <2>2, <2>3 DEF Saved
    <2> QED BY <2>1, <2>4 DEF LInv
  <1> QED BY <1>4, <1>6, <1>7 DEF CInv
LEMMA ClosedHolds ==
    /\ Closed \in FdT /\ [fd \in Fds |-> Closed] \in [Fds -> FdT]
    /\ \A m : MayHold(m, Closed) /\ Holds(m, [fd \in Fds |-> Closed])
  <1>1. Closed \in FdT
    BY DEF Closed, FdT, Links
  <1>2. Closed.cur \notin Clusters
    BY Numbers DEF Closed
  <1>3. \A m : MayHold(m, Closed)
    BY <1>2 DEF MayHold
  <1>4. \A m : Holds(m, [fd \in Fds |-> Closed])
    BY <1>3 DEF Holds
  <1> QED BY <1>1, <1>3, <1>4

LEMMA OneMore ==
    ASSUME NEW S \in SUBSET Clusters, NEW x
    PROVE  \E T \in SUBSET Clusters :
              /\ \A R \in SUBSET Clusters : R \subseteq S \union {x} => R \subseteq T
              /\ Cardinality(T) <= Cardinality(S) + 1 /\ IsFiniteSet(T)
  <1>1. IsFiniteSet(S)
    BY Numbers, FS_Subset
  <1>2. Cardinality(S) \in Nat
    BY <1>1, FS_CardinalityType
  <1>3. CASE x \in Clusters
    <2>1. /\ IsFiniteSet(S \union {x})
          /\ Cardinality(S \union {x}) = IF x \in S THEN Cardinality(S) ELSE Cardinality(S) + 1
      BY <1>1, FS_AddElement
    <2>2. Cardinality(S \union {x}) <= Cardinality(S) + 1
      BY <1>2, <2>1
    <2>3. S \union {x} \in SUBSET Clusters
      BY <1>3
    <2> QED BY <2>1, <2>2, <2>3
  <1>4. CASE x \notin Clusters
    <2>1. \A R \in SUBSET Clusters : R \subseteq S \union {x} => R \subseteq S
      BY <1>4
    <2>2. Cardinality(S) <= Cardinality(S) + 1
      BY <1>2
    <2> QED BY <1>1, <2>1, <2>2
  <1> QED BY <1>3, <1>4

LEMMA KeepsPowerCut ==
    ASSUME CInv, PowerCut
    PROVE  CInv' /\ (CutAnywhere = FALSE /\ LInv => LInv')
  <1>1. /\ UNCHANGED disk /\ pending' = <<>> /\ safe' = TRUE /\ cuts' = cuts + 1
        /\ fat_fds' = [fd \in Fds |-> Closed] /\ (CutAnywhere = FALSE => safe = TRUE)
    <2>1. CutAnywhere = FALSE => (CutAnywhere \/ safe => safe = TRUE)
      BY DEF CInv, Typed
    <2> QED BY <2>1 DEF PowerCut
  <1>2. Final' = disk
    BY <1>1 DEF Final
  <1>3. Typed'
    <2>1. pending' \in Seq(DiskT) /\ safe' \in BOOLEAN
      BY <1>1
    <2>2. disk' \in DiskT /\ cuts' \in Nat
      BY <1>1 DEF CInv, Typed
    <2> QED BY <1>1, <2>1, <2>2, ClosedHolds DEF Typed
  <1>4. Copied'
    <2>1. PICK S : Few(S)
      BY DEF CInv, Copied
    <2>2. PICK x : Differ(disk) \subseteq S \union {x}
      BY <2>1 DEF Few, Near
    <2>3. S \in SUBSET Clusters /\ Cardinality(S) <= cuts
      BY <2>1 DEF Few
    <2>4. PICK T \in SUBSET Clusters :
             /\ \A R \in SUBSET Clusters : R \subseteq S \union {x} => R \subseteq T
             /\ Cardinality(T) <= Cardinality(S) + 1 /\ IsFiniteSet(T)
      BY <2>3, OneMore
    <2>5. Differ(disk) \subseteq T
      BY <2>2, <2>4 DEF Differ
    <2>6. Cardinality(T) <= cuts'
      <3>1. Cardinality(S) \in Nat /\ Cardinality(T) \in Nat /\ cuts \in Nat
        <4>1. IsFiniteSet(S)
          BY <2>3, Numbers, FS_Subset
        <4> QED BY <2>4, <4>1, FS_CardinalityType DEF CInv, Typed
      <3> QED BY <1>1, <2>3, <2>4, <3>1
    <2>7. Few(T)'
      <3>1. Near(disk', T)
        BY <1>1, <2>5 DEF Near
      <3> QED BY <2>4, <2>6, <3>1 DEF Few
    <2>8. \A k \in 1 .. Len(pending') : FALSE
      BY <1>1
    <2> QED BY <1>2, <2>5, <2>7, <2>8 DEF Copied
  <1>5. ASSUME CutAnywhere = FALSE, LInv PROVE LInv'
    <2>1. Safe(disk)
      BY <1>1, <1>5 DEF LInv, Saved
    <2>2. PICK m : LaidOut(disk, m)
      BY <2>1 DEF Safe
    <2>3. Settled'
      BY <1>1, <1>2, <2>2, ClosedHolds DEF Settled
    <2>4. Saved'
      <3>1. \A k \in 1 .. Len(pending') : FALSE
        BY <1>1
      <3> QED BY <1>1, <2>1, <3>1 DEF Saved
    <2> QED BY <2>3, <2>4 DEF LInv
  <1>6. CInv'
    BY <1>3, <1>4 DEF CInv
  <1> QED BY <1>5, <1>6, Zenon

LEMMA InitInv ==
    ASSUME Init
    PROVE  CInv /\ ((\A d \in Images : Safe(d)) => LInv)
  <1>1. disk \in Images /\ pending = <<>> /\ safe = TRUE /\ cuts = 0 /\ fat_fds = [fd \in Fds |-> Closed]
    BY DEF Init
  <1>2. disk \in DiskT /\ disk.fat[1] = disk.fat[2]
    <2>1. \A d \in Images : d \in DiskT /\ d.fat[1] = d.fat[2]
      BY FatAssumption, Zenon
    <2> QED BY <1>1, <2>1
  <1>3. Final = disk /\ \A k \in 1 .. Len(pending) : FALSE
    BY <1>1 DEF Final
  <1>4. Typed
    <2>1. pending \in Seq(DiskT)
      BY <1>1
    <2> QED BY <1>1, <1>2, <2>1, ClosedHolds DEF Typed
  <1>5. Copied
    <2>1. Differ(disk) = {}
      BY <1>2 DEF Differ
    <2>2. Few({})
      <3>1. Cardinality({}) = 0
        BY FS_EmptySet
      <3> QED BY <1>1, <2>1, <3>1 DEF Few, Near
    <2> QED BY <1>3, <2>1, <2>2 DEF Copied
  <1>6. ASSUME \A d \in Images : Safe(d) PROVE LInv
    <2>1. PICK m : LaidOut(disk, m)
      BY <1>1, <1>6 DEF Safe
    <2>2. Settled
      BY <1>1, <1>3, <2>1, ClosedHolds DEF Settled
    <2>3. Saved
      BY <1>3, <2>1 DEF Saved, Safe
    <2> QED BY <2>2, <2>3 DEF LInv
  <1> QED BY <1>4, <1>5, <1>6 DEF CInv

LEMMA CopiesFew ==
    ASSUME CInv
    PROVE  CopiesAgree
  <1>1. PICK S : Few(S) /\ Differ(Final) \subseteq S
    BY DEF CInv, Copied
  <1>2. PICK x : Differ(disk) \subseteq S \union {x}
    BY <1>1 DEF Few, Near
  <1>3. S \in SUBSET Clusters /\ Cardinality(S) <= cuts /\ IsFiniteSet(S)
    BY <1>1, Numbers, FS_Subset DEF Few
  <1>4. Cardinality(S) \in Nat /\ cuts \in Nat
    BY <1>3, FS_CardinalityType DEF CInv, Typed
  <1>5. CASE Idle
    <2>1. Differ(disk) \subseteq S
      BY <1>1, <1>5 DEF Idle, Final
    <2>2. Cardinality(Differ(disk)) <= Cardinality(S) /\ IsFiniteSet(Differ(disk))
      BY <1>3, <2>1, FS_Subset
    <2>3. Cardinality(Differ(disk)) \in Nat
      BY <2>2, FS_CardinalityType
    <2>4. Cardinality(Differ(disk)) <= cuts + 0
      BY <1>3, <1>4, <2>2, <2>3
    <2> QED BY <1>5, <2>4 DEF CopiesAgree, Differ
  <1>6. CASE ~Idle
    <2>1. PICK T \in SUBSET Clusters :
             /\ \A R \in SUBSET Clusters : R \subseteq S \union {x} => R \subseteq T
             /\ Cardinality(T) <= Cardinality(S) + 1 /\ IsFiniteSet(T)
      BY <1>3, OneMore
    <2>2. Differ(disk) \subseteq T
      BY <1>2, <2>1 DEF Differ
    <2>3. Cardinality(Differ(disk)) <= Cardinality(T) /\ IsFiniteSet(Differ(disk))
      BY <2>1, <2>2, FS_Subset
    <2>4. Cardinality(Differ(disk)) \in Nat /\ Cardinality(T) \in Nat
      BY <2>1, <2>3, FS_CardinalityType
    <2>5. Cardinality(Differ(disk)) <= cuts + 1
      BY <1>3, <1>4, <2>1, <2>3, <2>4
    <2> QED BY <1>6, <2>5 DEF CopiesAgree, Differ
  <1> QED BY <1>5, <1>6
-----------------------------------------------------------------------------
(* What a layout says of a chain, of a directory and of a path.            *)
Heads(m, first) == first \in DOMAIN m /\ m[first].first = first /\ m[first].nth = 1
Dir(m, first)   == first = 0 \/ Heads(m, first)
Within(d, m, first) ==
    \A n \in 1 .. Len(Chain(d, first)) :
       LET x == Chain(d, first)[n]
       IN  /\ x \in DOMAIN m /\ m[x].first = first /\ m[x].nth = n
           /\ m[x].entry = m[first].entry /\ m[x].depth = m[first].depth

LEMMA Marked ==
    ASSUME NEW d, NEW m, LaidOut(d, m)
    PROVE  /\ DOMAIN m \subseteq Clusters /\ Heads(m, Root)
           /\ m[Root].entry = NoPlace /\ m[Root].depth = 0
           /\ \A x \in DOMAIN m :
                 /\ m[x] \in MarkT /\ x \in Clusters /\ d.fat[1][x] # 0
                 /\ d.fat[1][x] # Eoc =>
                      /\ d.fat[1][x] \in DOMAIN m
                      /\ m[d.fat[1][x]].first = m[x].first /\ m[d.fat[1][x]].nth = m[x].nth + 1
                      /\ m[d.fat[1][x]].entry = m[x].entry /\ m[d.fat[1][x]].depth = m[x].depth
  <1>1. /\ m \in [DOMAIN m -> MarkT] /\ DOMAIN m \subseteq Clusters
        /\ Root \in DOMAIN m /\ m[Root] = RootMark
        /\ \A x \in DOMAIN m :
              /\ d.fat[1][x] # 0
              /\ d.fat[1][x] # Eoc => /\ d.fat[1][x] \in DOMAIN m
                                      /\ m[d.fat[1][x]] = NextMark(m[x])
    BY Zenon DEF LaidOut
  <1>2. Heads(m, Root) /\ m[Root].entry = NoPlace /\ m[Root].depth = 0
    BY <1>1 DEF Heads, RootMark
  <1>3. ASSUME NEW x \in DOMAIN m
        PROVE  /\ m[x] \in MarkT /\ x \in Clusters /\ d.fat[1][x] # 0
               /\ d.fat[1][x] # Eoc =>
                    /\ d.fat[1][x] \in DOMAIN m
                    /\ m[d.fat[1][x]].first = m[x].first /\ m[d.fat[1][x]].nth = m[x].nth + 1
                    /\ m[d.fat[1][x]].entry = m[x].entry /\ m[d.fat[1][x]].depth = m[x].depth
    <2> DEFINE y == d.fat[1][x]
    <2>1. m[x] \in MarkT /\ x \in Clusters /\ y # 0 /\ (y # Eoc => y \in DOMAIN m /\ m[y] = NextMark(m[x]))
      BY <1>1
    <2> HIDE DEF y
    <2>2. y # Eoc => /\ m[y].first = m[x].first /\ m[y].nth = m[x].nth + 1
                     /\ m[y].entry = m[x].entry /\ m[y].depth = m[x].depth
      BY <2>1 DEF NextMark
    <2> QED BY <2>1, <2>2 DEF y
  <1> QED BY <1>1, <1>2, <1>3, Zenon

LeadsTo(m, p, e) ==
    /\ IsName(e) /\ e.start # 0 =>
          Heads(m, e.start) /\ m[e.start].entry = p /\ m[e.start].depth = m[p[1]].depth + 1
    /\ e.short \in {".", ".."} => e.long = ""

LEMMA Leads ==
    ASSUME NEW d, NEW m, LaidOut(d, m), NEW p \in (DOMAIN m) \X Slots
    PROVE  LeadsTo(m, p, At(d, p))
  <1> DEFINE e == At(d, p)
  <1>1. /\ IsName(e) /\ e.start # 0 =>
              /\ e.start \in DOMAIN m
              /\ m[e.start] = [first |-> e.start, nth |-> 1, entry |-> p,
                               depth |-> m[p[1]].depth + 1]
        /\ e.short \in {".", ".."} => e.long = ""
    BY Zenon DEF LaidOut
  <1> HIDE DEF e
  <1>2. ASSUME IsName(e), e.start # 0
        PROVE  /\ Heads(m, e.start) /\ m[e.start].entry = p
               /\ m[e.start].depth = m[p[1]].depth + 1
    <2> DEFINE k == m[p[1]].depth + 1
    <2>1. /\ e.start \in DOMAIN m
          /\ m[e.start] = [first |-> e.start, nth |-> 1, entry |-> p, depth |-> k]
      BY <1>1, <1>2, Zenon
    <2> HIDE DEF k
    <2>2. Heads(m, e.start) /\ m[e.start].entry = p /\ m[e.start].depth = k
      BY <2>1 DEF Heads
    <2> QED BY <2>2 DEF k
  <1> QED BY <1>1, <1>2, Zenon DEF e, LeadsTo

LEMMA ChainLaid ==
    ASSUME NEW d \in DiskT, NEW m, LaidOut(d, m), NEW first, Heads(m, first)
    PROVE  /\ Within(d, m, first) /\ Follows(Chain(d, first), d, first)
           /\ Chain(d, first) # <<>> /\ Len(Chain(d, first)) <= Cardinality(Clusters)
           /\ d.fat[1][Last(Chain(d, first))] = Eoc /\ Last(Chain(d, first)) \in DOMAIN m
           /\ ToSet(Chain(d, first)) \subseteq DOMAIN m
  <1> DEFINE ch == Chain(d, first)
             N  == Len(ch)
             t  == d.fat[1]
             In(n) == /\ ch[n] \in DOMAIN m /\ m[ch[n]].first = first /\ m[ch[n]].nth = n
                      /\ m[ch[n]].entry = m[first].entry /\ m[ch[n]].depth = m[first].depth
             T  == {n \in 1 .. N : In(n)}
  <1>1. first \in Clusters /\ first \in Links
    BY Marked DEF Heads, Links
  <1>2. Follows(ch, d, first)
    BY <1>1, ChainIs
  <1> HIDE DEF ch, N
  <1>3. /\ ch \in Seq(Clusters) /\ ch # <<>> /\ ch[1] = first /\ N <= Cardinality(Clusters) + 1
        /\ \A n \in 2 .. N : ch[n] = t[ch[n - 1]]
        /\ N <= Cardinality(Clusters) => t[ch[N]] \notin Clusters
    BY <1>1, <1>2 DEF Follows, N
  <1>4. N \in Nat /\ 1 \in 1 .. N /\ N \in 1 .. N /\ N \in Int
    BY <1>3 DEF N
  <1>5. \A n \in 1 .. N : ch[n] \in Clusters
    BY <1>3 DEF N
  <1>6. 1 \in T
    BY <1>3, <1>4 DEF Heads
  <1>7. ASSUME NEW n \in 1 + 1 .. N, n - 1 \in T PROVE n \in T
    <2>1. n \in 2 .. N /\ n \in 1 .. N
      BY <1>4
    <2>2. In(n - 1) /\ ch[n] = t[ch[n - 1]] /\ ch[n] \in Clusters
      BY <1>3, <1>5, <1>7, <2>1
    <2> DEFINE x == ch[n - 1]
    <2>3. t[x] # Eoc
      BY <2>2, Numbers
    <2>4. /\ t[x] \in DOMAIN m
          /\ m[t[x]].first = m[x].first /\ m[t[x]].nth = m[x].nth + 1
          /\ m[t[x]].entry = m[x].entry /\ m[t[x]].depth = m[x].depth
      <3>1. x \in DOMAIN m
        BY <2>2
      <3> HIDE DEF x
      <3> QED BY <2>3, <3>1, Marked
    <2>5. In(n)
      <3>1. m[x].nth = n - 1 /\ (n - 1) + 1 = n
        BY <2>1, <2>2
      <3> QED BY <2>2, <2>4, <3>1
    <2> QED BY <2>1, <2>5
  <1>8. \A n \in 1 .. N : In(n)
    <2> HIDE DEF T
    <2>1. 1 .. N \subseteq T
      BY <1>4, <1>6, <1>7, UpTo
    <2> QED BY <2>1 DEF T
  <1>9. N <= Cardinality(Clusters)
    <2> SUFFICES ASSUME ~(N <= Cardinality(Clusters)) PROVE FALSE
      OBVIOUS
    <2>1. Cardinality(Clusters) \in Nat /\ IsFiniteSet(Clusters)
      BY Numbers, FS_CardinalityType
    <2>2. IsFiniteSet(1 .. N) /\ Cardinality(1 .. N) = N
      <3>1. IsFiniteSet(1 .. N) /\ Cardinality(1 .. N) = IF 1 > N THEN 0 ELSE N - 1 + 1
        BY <1>4, FS_Interval
      <3> QED BY <1>4, <3>1
    <2>3. Cardinality(Clusters) < Cardinality(1 .. N)
      BY <1>4, <2>1, <2>2
    <2> DEFINE f == [n \in 1 .. N |-> ch[n]]
    <2>4. f \in [1 .. N -> Clusters]
      BY <1>5
    <2>5. \A n \in 1 .. N : f[n] = ch[n]
      OBVIOUS
    <2> HIDE DEF f
    <2>6. \E x, y \in 1 .. N : x # y /\ f[x] = f[y]
      BY <2>1, <2>2, <2>3, <2>4, FS_PigeonHole
    <2>7. \A x, y \in 1 .. N : ch[x] = ch[y] => x = y
      <3>1. \A x \in 1 .. N : m[ch[x]].nth = x
        BY <1>8
      <3> QED BY <3>1, Zenon
    <2> QED BY <2>5, <2>6, <2>7
  <1>10. t[ch[N]] = Eoc
    <2>1. t[ch[N]] \notin Clusters /\ ch[N] \in DOMAIN m
      BY <1>3, <1>4, <1>8, <1>9
    <2> DEFINE x == ch[N]
    <2>2. t[x] # Eoc => t[x] \in Clusters
      BY <2>1, Marked, Zenon
    <2> QED BY <2>1, <2>2
  <1>11. Within(d, m, first)
    BY <1>8 DEF Within, ch, N
  <1>12. ToSet(ch) \subseteq DOMAIN m
    BY <1>3, <1>8 DEF ToSet, N
  <1>13. Last(ch) = ch[N]
    BY DEF Last, N
  <1> QED BY <1>2, <1>3, <1>4, <1>8, <1>9, <1>10, <1>11, <1>12, <1>13 DEF ch, N

(* A chain, and what is in a directory, do not depend on anything else.    *)
AgreeOn(d, d2, C) == \A x \in C : d2.fat[1][x] = d.fat[1][x] /\ d2.ent[x] = d.ent[x]

LEMMA SameChain ==
    ASSUME NEW d \in DiskT, NEW d2 \in DiskT, NEW m, LaidOut(d, m), NEW first, Dir(m, first),
           AgreeOn(d, d2, ToSet(Chain(d, first)))
    PROVE  Chain(d2, first) = Chain(d, first)
  <1> DEFINE a == Chain(d, first)
             b == Chain(d2, first)
  <1>1. CASE first = 0
    <2>1. first \in Links /\ first \notin Clusters
      BY <1>1, Numbers DEF Links
    <2>2. Follows(a, d, first) /\ Follows(b, d2, first)
      BY <2>1, ChainIs
    <2> HIDE DEF a, b
    <2>3. a = <<>> /\ b = <<>>
      BY <2>1, <2>2 DEF Follows
    <2> QED BY <2>3 DEF a, b
  <1>2. CASE Heads(m, first)
    <2> DEFINE K == Cardinality(Clusters)
    <2>1. first \in Clusters /\ first \in Links
      BY <1>2, Marked DEF Heads, Links
    <2>2. Follows(b, d2, first) /\ Follows(a, d, first) /\ Len(a) <= K
      BY <1>2, <2>1, ChainIs, ChainLaid
    <2>3. \A x \in ToSet(a) : d2.fat[1][x] = d.fat[1][x]
      BY DEF AgreeOn
    <2>4. K \in Nat
      BY Numbers, FS_CardinalityType
    <2> HIDE DEF a, b, K
    <2>5. /\ a \in Seq(Clusters) /\ a # <<>> /\ a[1] = first
          /\ \A n \in 2 .. Len(a) : a[n] = d.fat[1][a[n - 1]]
          /\ d.fat[1][a[Len(a)]] \notin Clusters
      BY <2>1, <2>2 DEF Follows, K
    <2>6. /\ b \in Seq(Clusters) /\ b # <<>> /\ b[1] = first /\ Len(b) <= K + 1
          /\ \A n \in 2 .. Len(b) : b[n] = d2.fat[1][b[n - 1]]
          /\ Len(b) <= K => d2.fat[1][b[Len(b)]] \notin Clusters
      BY <2>1, <2>2 DEF Follows, K
    <2>7. /\ Len(a) \in Nat /\ Len(b) \in Nat /\ 1 \in 1 .. Len(a) /\ 1 \in 1 .. Len(b)
          /\ \A n \in 1 .. Len(a) : a[n] \in ToSet(a)
          /\ \A n \in 1 .. Len(a) : a[n] \in Clusters
          /\ \A n \in 1 .. Len(b) : b[n] \in Clusters
      BY <2>5, <2>6 DEF ToSet
    <2> DEFINE L == IF Len(a) <= Len(b) THEN Len(a) ELSE Len(b)
               T == {n \in 1 .. L : a[n] = b[n]}
    <2>8. L \in Int /\ 1 \in 1 .. L /\ L \in 1 .. L /\ L <= Len(a) /\ L <= Len(b)
      BY <2>7
    <2> HIDE DEF L
    <2>9. 1 \in T
      BY <2>5, <2>6, <2>8
    <2>10. ASSUME NEW n \in 1 + 1 .. L, n - 1 \in T PROVE n \in T
      <3>1. /\ n \in 2 .. Len(a) /\ n \in 2 .. Len(b) /\ n - 1 \in 1 .. Len(a) /\ n \in 1 .. L
            /\ a[n - 1] = b[n - 1]
        BY <2>7, <2>8, <2>10
      <3>2. a[n] = d.fat[1][a[n - 1]] /\ b[n] = d2.fat[1][a[n - 1]] /\ a[n - 1] \in ToSet(a)
        BY <2>5, <2>6, <2>7, <3>1
      <3>3. a[n] = b[n]
        BY <2>3, <3>2
      <3> QED BY <3>1, <3>3
    <2>11. \A n \in 1 .. L : a[n] = b[n]
      <3> HIDE DEF T
      <3>1. 1 .. L \subseteq T
        BY <2>8, <2>9, <2>10, UpTo
      <3> QED BY <3>1 DEF T
    <2>12. d2.fat[1][a[Len(a)]] \notin Clusters
      BY <2>3, <2>5, <2>7
    <2>13. Len(a) = Len(b)
      <3>1. ASSUME Len(a) < Len(b) PROVE FALSE
        <4>1. L = Len(a) /\ L + 1 \in 2 .. Len(b) /\ L + 1 \in 1 .. Len(b) /\ (L + 1) - 1 = L
          BY <2>7, <2>8, <3>1 DEF L
        <4>2. b[L + 1] = d2.fat[1][b[L]] /\ b[L] = a[L] /\ b[L + 1] \in Clusters
          BY <2>6, <2>7, <2>8, <2>11, <4>1
        <4> QED BY <2>12, <4>1, <4>2
      <3>2. ASSUME Len(b) < Len(a) PROVE FALSE
        <4>1. L = Len(b) /\ L + 1 \in 2 .. Len(a) /\ L + 1 \in 1 .. Len(a) /\ (L + 1) - 1 = L
          BY <2>7, <2>8, <3>2 DEF L
        <4>2. /\ a[L + 1] = d.fat[1][a[L]] /\ b[L] = a[L] /\ a[L + 1] \in Clusters
              /\ a[L] \in ToSet(a)
          BY <2>5, <2>7, <2>8, <2>11, <4>1
        <4>3. d2.fat[1][b[L]] \in Clusters
          BY <2>3, <4>2
        <4>4. Len(b) <= K
          BY <2>2, <2>4, <2>7, <3>2
        <4> QED BY <2>6, <4>1, <4>3, <4>4
      <3> QED BY <2>7, <3>1, <3>2
    <2>14. a = b
      <3>1. L = Len(a)
        BY <2>13 DEF L
      <3>2. \A n \in 1 .. Len(a) : a[n] = b[n]
        BY <2>11, <3>1
      <3> QED BY <2>5, <2>6, <2>13, <3>2, SeqEqual
    <2> QED BY <2>14 DEF a, b
  <1> QED BY <1>1, <1>2 DEF Dir
LEMMA SamePlaces ==
    ASSUME NEW d \in DiskT, NEW d2 \in DiskT, NEW m, LaidOut(d, m), NEW first, Dir(m, first),
           AgreeOn(d, d2, ToSet(Chain(d, first)))
    PROVE  /\ Places(d2, first) = Places(d, first) /\ Entries(d2, first) = Entries(d, first)
           /\ \A n \in DOMAIN Places(d, first) :
                 At(d2, Places(d, first)[n]) = At(d, Places(d, first)[n])
           /\ \A W : FirstPlace(d2, first, W) = FirstPlace(d, first, W)
           /\ \A name : Find(d2, first, name) = Find(d, first, name)
           /\ FreeEntry(d2, first) = FreeEntry(d, first)
  <1> DEFINE ps == Places(d, first)
  <1>1. Chain(d2, first) = Chain(d, first)
    BY SameChain
  <1>2. Places(d2, first) = ps
    BY <1>1, Zenon DEF Places
  <1>3. first \in Links
    BY Marked DEF Dir, Heads, Links
  <1>4. \A n \in DOMAIN ps : ps[n] \in ToSet(Chain(d, first)) \X Slots
    BY <1>3, PlacesAre, Zenon
  <1>5. \A n \in DOMAIN ps : At(d2, ps[n]) = At(d, ps[n])
    <2> SUFFICES ASSUME NEW n \in DOMAIN ps PROVE At(d2, ps[n]) = At(d, ps[n])
      OBVIOUS
    <2> DEFINE p == ps[n]
    <2>1. p \in ToSet(Chain(d, first)) \X Slots
      BY <1>4
    <2> HIDE DEF p, ps
    <2>2. p[1] \in ToSet(Chain(d, first))
      BY <2>1
    <2>3. At(d2, p) = At(d, p)
      BY <2>2 DEF At, AgreeOn
    <2> QED BY <2>3 DEF p
  <1> HIDE DEF ps
  <1>6. Entries(d2, first) = Entries(d, first)
    <2>1. \A p \in ToSet(ps) : At(d2, p) = At(d, p)
      BY <1>5 DEF ToSet
    <2>2. {At(d2, p) : p \in ToSet(ps)} = {At(d, p) : p \in ToSet(ps)}
      BY <2>1
    <2> QED BY <1>2, <2>2, Zenon DEF Entries, ps
  <1>7. ASSUME NEW W PROVE FirstPlace(d2, first, W) = FirstPlace(d, first, W)
    <2> DEFINE A(x) == {n \in DOMAIN ps : At(x, ps[n]) \in W}
    <2>1. A(d2) = A(d)
      BY <1>5
    <2>2. /\ FirstPlace(d2, first, W) = IF A(d2) = {} THEN NoPlace ELSE ps[Least(A(d2))]
          /\ FirstPlace(d, first, W) = IF A(d) = {} THEN NoPlace ELSE ps[Least(A(d))]
      BY <1>2, Zenon DEF FirstPlace, ps
    <2> HIDE DEF A
    <2> QED BY <2>1, <2>2
  <1>8. \A name : Find(d2, first, name) = Find(d, first, name)
    BY <1>6, <1>7, Zenon DEF Find
  <1>9. FreeEntry(d2, first) = FreeEntry(d, first)
    BY <1>6, <1>7, Zenon DEF FreeEntry
  <1> QED BY <1>2, <1>5, <1>6, <1>7, <1>8, <1>9 DEF ps

LEMMA PlaceLaid ==
    ASSUME NEW d \in DiskT, NEW m, LaidOut(d, m), NEW first, Dir(m, first),
           NEW p \in ToSet(Chain(d, first)) \X Slots
    PROVE  /\ Heads(m, first) /\ p \in (DOMAIN m) \X Slots /\ p \in Clusters \X Slots
           /\ m[p[1]].first = first /\ m[p[1]].depth = m[first].depth
           /\ m[p[1]].entry = m[first].entry
  <1>1. p[1] \in ToSet(Chain(d, first)) /\ p[2] \in Slots /\ p = <<p[1], p[2]>>
    OBVIOUS
  <1>2. Heads(m, first)
    <2>1. CASE first = 0
      <3>1. first \in Links /\ first \notin Clusters
        BY <2>1, Numbers DEF Links
      <3>2. Chain(d, first) = <<>>
        BY <3>1, ChainIs DEF Follows
      <3> QED BY <1>1, <3>2 DEF ToSet
    <2> QED BY <2>1 DEF Dir
  <1>3. Within(d, m, first) /\ Follows(Chain(d, first), d, first)
    BY <1>2, ChainLaid
  <1> DEFINE ch == Chain(d, first)
  <1> HIDE DEF ch
  <1>4. ch \in Seq(Clusters)
    BY <1>3 DEF Follows, ch
  <1>5. PICK n \in 1 .. Len(ch) : p[1] = ch[n]
    BY <1>1, <1>4 DEF ToSet, ch
  <1>6. /\ p[1] \in DOMAIN m /\ m[p[1]].first = first /\ m[p[1]].depth = m[first].depth
        /\ m[p[1]].entry = m[first].entry
    BY <1>3, <1>5, Zenon DEF Within, ch
  <1>7. p[1] \in Clusters
    BY <1>6, Marked
  <1> QED BY <1>1, <1>2, <1>6, <1>7

(* What a path's name is found to be is an entry of its own.               *)
LEMMA FoundLaid ==
    ASSUME NEW d \in DiskT, NEW m, LaidOut(d, m), NEW dir, Dir(m, dir),
           NEW name \in DOMAIN Short, NEW p, p = Find(d, dir, name), p # NoPlace
    PROVE  /\ Heads(m, dir) /\ p \in (DOMAIN m) \X Slots /\ p \in Clusters \X Slots
           /\ m[p[1]].first = dir /\ m[p[1]].depth = m[dir].depth
           /\ IsName(At(d, p)) /\ At(d, p) \in EntryT /\ Dir(m, At(d, p).start)
           /\ At(d, p).start # 0 => /\ m[At(d, p).start].entry = p
                                    /\ m[At(d, p).start].depth = m[dir].depth + 1
  <1>1. dir \in Links
    BY Marked DEF Dir, Heads, Links
  <1>2. /\ p \in ToSet(Chain(d, dir)) \X Slots
        /\ InUse(At(d, p)) /\ name \in {At(d, p).long, At(d, p).short}
    BY <1>1, FoundIs
  <1>3. /\ Heads(m, dir) /\ p \in (DOMAIN m) \X Slots /\ p \in Clusters \X Slots
        /\ m[p[1]].first = dir /\ m[p[1]].depth = m[dir].depth
    BY <1>2, PlaceLaid
  <1> DEFINE e == At(d, p)
  <1>4. LeadsTo(m, p, e)
    BY <1>3, Leads
  <1>5. IsName(e)
    <2>1. name \notin {"", Deleted, ".", ".."}
      BY Usable, Zenon
    <2> HIDE DEF e
    <2>2. e.short \notin {".", ".."}
      <3>1. e.short \in {".", ".."} => e.long = ""
        BY <1>4, Zenon DEF LeadsTo
      <3>2. name = e.long \/ name = e.short
        BY <1>2 DEF e
      <3>3. name # "" /\ name # "." /\ name # ".."
        BY <2>1, Zenon
      <3> QED BY <3>1, <3>2, <3>3, Zenon
    <2> QED BY <1>2, <2>2 DEF IsName, e
  <1>6. e.start # 0 =>
           Heads(m, e.start) /\ m[e.start].entry = p /\ m[e.start].depth = m[p[1]].depth + 1
    <2> HIDE DEF e
    <2> QED BY <1>4, <1>5, Zenon DEF LeadsTo
  <1>7. At(d, p) \in EntryT
    BY <1>3, EntryType
  <1> QED BY <1>3, <1>5, <1>6, <1>7 DEF Dir

(* The directories of a path lie as deep as it is long.                    *)
DirAt(d, path, k) == ClusterAt(d, k, Walk(d, path)[k])

LEMMA WalkLaid ==
    ASSUME NEW d \in DiskT, NEW m, LaidOut(d, m), NEW path \in Seq(DOMAIN Short)
    PROVE  \A k \in 0 .. Len(path) :
              /\ Dir(m, DirAt(d, path, k))
              /\ DirAt(d, path, k) # 0 => m[DirAt(d, path, k)].depth = k
  <1> DEFINE n == Len(path)
             Fine(k) == /\ Dir(m, DirAt(d, path, k))
                        /\ DirAt(d, path, k) # 0 => m[DirAt(d, path, k)].depth = k
             T == {k \in 0 .. n : Fine(k)}
  <1>1. n \in Nat /\ n \in Int /\ 0 \in 0 .. n
    OBVIOUS
  <1>2. /\ \A k \in 0 .. n : Walk(d, path)[k] \in Places0
        /\ \A k \in 1 .. n : Walk(d, path)[k] = Find(d, DirAt(d, path, k - 1), path[k])
    BY <1>1, Walked DEF DirAt
  <1>3. 0 \in T
    <2>1. DirAt(d, path, 0) = Root
      BY <1>1, <1>2, ClusterAtIs DEF DirAt
    <2> QED BY <1>1, <2>1, Marked DEF Dir
  <1>4. ASSUME NEW k \in 0 + 1 .. n, k - 1 \in T PROVE k \in T
    <2>1. k \in 1 .. n /\ k \in 0 .. n /\ k \in Nat /\ k # 0
      BY <1>1
    <2> DEFINE dir == DirAt(d, path, k - 1)
               p   == Walk(d, path)[k]
    <2>2. /\ Dir(m, dir) /\ (dir # 0 => m[dir].depth = k - 1)
          /\ p = Find(d, dir, path[k]) /\ path[k] \in DOMAIN Short /\ p \in Places0
      BY <1>2, <1>4, <2>1
    <2>3. DirAt(d, path, k) = IF p = NoPlace THEN 0 ELSE At(d, p).start
      BY <2>1, <2>2, ClusterAtIs DEF DirAt
    <2> HIDE DEF dir, p
    <2>4. CASE p = NoPlace
      <3>1. DirAt(d, path, k) = 0
        BY <2>3, <2>4
      <3> QED BY <2>1, <3>1 DEF Dir
    <2>5. CASE p # NoPlace
      <3>1. /\ Heads(m, dir) /\ Dir(m, At(d, p).start)
            /\ At(d, p).start # 0 => m[At(d, p).start].depth = m[dir].depth + 1
        BY <2>2, <2>5, FoundLaid
      <3>2. m[dir].depth = k - 1
        <4>1. dir # 0
          BY <3>1, Marked, Numbers DEF Heads
        <4> QED BY <2>2, <4>1
      <3>3. (k - 1) + 1 = k
        BY <2>1
      <3>4. DirAt(d, path, k) = At(d, p).start
        BY <2>3, <2>5
      <3> QED BY <2>1, <3>1, <3>2, <3>3, <3>4
    <2> QED BY <2>4, <2>5
  <1>5. 0 .. n \subseteq T
    <2> HIDE DEF T, n
    <2> QED BY <1>1, <1>3, <1>4, UpTo
  <1> QED BY <1>5

LEMMA WalkSame ==
    ASSUME NEW d \in DiskT, NEW d2 \in DiskT, NEW m, LaidOut(d, m),
           NEW path \in Seq(DOMAIN Short), path # <<>>,
           AgreeOn(d, d2, {x \in DOMAIN m : m[x].depth < Len(path)})
    PROVE  fat_dir_cluster(d2, path) = fat_dir_cluster(d, path)
  <1> DEFINE n == Len(path)
             L == {x \in DOMAIN m : m[x].depth < n}
             T == {k \in 0 .. n - 1 : DirAt(d2, path, k) = DirAt(d, path, k)}
  <1>1. n \in Nat /\ n # 0 /\ n - 1 \in Int /\ 0 \in 0 .. n - 1 /\ n - 1 \in 0 .. n - 1
    OBVIOUS
  <1>2. /\ \A k \in 0 .. n : Walk(d, path)[k] \in Places0 /\ Walk(d2, path)[k] \in Places0
        /\ \A k \in 1 .. n : /\ Walk(d, path)[k] = Find(d, DirAt(d, path, k - 1), path[k])
                             /\ Walk(d2, path)[k] = Find(d2, DirAt(d2, path, k - 1), path[k])
    BY <1>1, Walked DEF DirAt
  <1>3. 0 \in T
    <2>1. DirAt(d, path, 0) = Root /\ DirAt(d2, path, 0) = Root
      <3>1. 0 \in 0 .. n
        BY <1>1
      <3> QED BY <1>2, <3>1, ClusterAtIs DEF DirAt
    <2> QED BY <1>1, <2>1
  <1>4. ASSUME NEW k \in 0 + 1 .. n - 1, k - 1 \in T PROVE k \in T
    <2>1. /\ k \in 1 .. n /\ k \in 0 .. n /\ k \in Nat /\ k # 0 /\ k - 1 \in 0 .. n
          /\ k \in 0 .. n - 1 /\ k - 1 < n /\ k - 1 \in Nat
      BY <1>1
    <2> DEFINE dir == DirAt(d, path, k - 1)
               p   == Walk(d, path)[k]
               p2  == Walk(d2, path)[k]
    <2>2. /\ Dir(m, dir) /\ (dir # 0 => m[dir].depth = k - 1)
      BY <2>1, WalkLaid
    <2>3. /\ p = Find(d, dir, path[k]) /\ p2 = Find(d2, dir, path[k])
          /\ p \in Places0 /\ p2 \in Places0 /\ path[k] \in DOMAIN Short
      BY <1>2, <1>4, <2>1
    <2>4. /\ DirAt(d, path, k) = IF p = NoPlace THEN 0 ELSE At(d, p).start
          /\ DirAt(d2, path, k) = IF p2 = NoPlace THEN 0 ELSE At(d2, p2).start
      BY <2>1, <2>3, ClusterAtIs DEF DirAt
    <2> HIDE DEF dir, p, p2, T
    <2>5. AgreeOn(d, d2, ToSet(Chain(d, dir)))
      <3> SUFFICES ASSUME NEW x \in ToSet(Chain(d, dir)) PROVE x \in L
        BY DEF AgreeOn
      <3> DEFINE q == <<x, 1>>
      <3>1. q \in ToSet(Chain(d, dir)) \X Slots /\ q[1] = x
        BY Numbers
      <3> HIDE DEF q
      <3>2. Heads(m, dir) /\ q \in (DOMAIN m) \X Slots /\ m[q[1]].depth = m[dir].depth
        BY <2>2, <3>1, PlaceLaid
      <3>3. dir # 0
        BY <3>2, Marked, Numbers DEF Heads
      <3>4. x \in DOMAIN m /\ m[x].depth = k - 1
        BY <2>2, <3>1, <3>2, <3>3
      <3> QED BY <2>1, <3>4
    <2>6. p2 = p
      BY <2>2, <2>3, <2>5, SamePlaces
    <2>7. CASE p = NoPlace
      BY <2>1, <2>4, <2>6, <2>7 DEF T
    <2>8. CASE p # NoPlace
      <3>1. dir \in Links
        BY <2>2, Marked DEF Dir, Heads, Links
      <3>2. p \in ToSet(Chain(d, dir)) \X Slots
        BY <2>3, <2>8, <3>1, FoundIs
      <3>3. p[1] \in ToSet(Chain(d, dir))
        BY <3>2
      <3>4. At(d2, p) = At(d, p)
        BY <2>5, <3>3 DEF AgreeOn, At
      <3> QED BY <2>1, <2>4, <2>6, <2>8, <3>4 DEF T
    <2> QED BY <2>7, <2>8
  <1>5. 0 .. n - 1 \subseteq T
    <2> DEFINE K == n - 1
    <2>1. K \in Int /\ 0 \in Int
      BY <1>1
    <2>2. \A k \in 0 + 1 .. K : k - 1 \in T => k \in T
      BY <1>4
    <2> HIDE DEF T, K
    <2> QED BY <1>3, <2>1, <2>2, UpTo DEF K
  <1>6. DirAt(d2, path, n - 1) = DirAt(d, path, n - 1)
    BY <1>1, <1>5
  <1> QED BY <1>6 DEF fat_dir_cluster, DirAt
-----------------------------------------------------------------------------
(* A layout keeps chains apart.                                            *)
LEMMA EntriesLaid ==
    ASSUME NEW d \in DiskT, NEW m, LaidOut(d, m), NEW dir, Dir(m, dir), NEW p \in EntriesOf(d, dir)
    PROVE  /\ p \in (DOMAIN m) \X Slots /\ p # NoPlace /\ IsName(At(d, p))
           /\ Dir(m, At(d, p).start) /\ (At(d, p).start # 0 => m[At(d, p).start].entry = p)
  <1>1. dir \in Links
    BY Marked DEF Dir, Heads, Links
  <1>2. p \in ToSet(Places(d, dir)) /\ IsName(At(d, p))
    BY DEF EntriesOf
  <1>3. p \in ToSet(Chain(d, dir)) \X Slots
    <2>1. PICK n \in DOMAIN Places(d, dir) : p = Places(d, dir)[n]
      BY <1>2 DEF ToSet
    <2> QED BY <1>1, <2>1, PlacesAre, Zenon
  <1>4. p \in (DOMAIN m) \X Slots /\ p \in Clusters \X Slots
    BY <1>3, PlaceLaid
  <1> DEFINE e == At(d, p)
  <1>5. LeadsTo(m, p, e)
    BY <1>4, Leads
  <1> HIDE DEF e
  <1>6. Dir(m, e.start) /\ (e.start # 0 => m[e.start].entry = p)
    <2>1. IsName(e)
      BY <1>2 DEF e
    <2>2. e.start # 0 => Heads(m, e.start) /\ m[e.start].entry = p
      BY <1>5, <2>1, Zenon DEF LeadsTo
    <2> QED BY <2>2 DEF Dir
  <1>7. p # NoPlace
    BY <1>4, Numbers, Zenon
  <1> QED BY <1>2, <1>4, <1>6, <1>7 DEF e

FirstOf(d, p) == IF p = NoPlace THEN Root ELSE At(d, p).start

LEMMA OwnersLaid ==
    ASSUME NEW d \in DiskT, NEW m, LaidOut(d, m), NEW p \in Owners(d)
    PROVE  /\ Owned(d, p) = Chain(d, FirstOf(d, p)) /\ Dir(m, FirstOf(d, p))
           /\ FirstOf(d, p) # 0 => m[FirstOf(d, p)].entry = p
  <1>1. Owned(d, p) = Chain(d, FirstOf(d, p))
    BY DEF Owned, FirstOf
  <1>2. Dir(m, Root)
    BY Marked DEF Dir
  <1>3. CASE p = NoPlace
    BY <1>1, <1>2, <1>3, Marked DEF FirstOf
  <1>4. ASSUME p \in EntriesOf(d, Root) PROVE p # NoPlace /\ Dir(m, FirstOf(d, p))
                                    /\ (FirstOf(d, p) # 0 => m[FirstOf(d, p)].entry = p)
    BY <1>2, <1>4, EntriesLaid DEF FirstOf
  <1>5. ASSUME NEW t \in EntriesOf(d, Root), p \in EntriesOf(d, At(d, t).start)
        PROVE  p # NoPlace /\ Dir(m, FirstOf(d, p)) /\ (FirstOf(d, p) # 0 => m[FirstOf(d, p)].entry = p)
    <2>1. Dir(m, At(d, t).start)
      BY <1>2, EntriesLaid
    <2> DEFINE s == At(d, t).start
    <2>2. Dir(m, s) /\ p \in EntriesOf(d, s)
      BY <1>5, <2>1
    <2> HIDE DEF s
    <2> QED BY <2>2, EntriesLaid DEF FirstOf
  <1>6. p = NoPlace \/ p \in EntriesOf(d, Root)
        \/ \E t \in EntriesOf(d, Root) : p \in EntriesOf(d, At(d, t).start)
    BY Zenon DEF Owners, Named
  <1> QED BY <1>1, <1>3, <1>4, <1>5, <1>6

LEMMA OwnedLaid ==
    ASSUME NEW d \in DiskT, NEW m, LaidOut(d, m), NEW p \in Owners(d)
    PROVE  /\ \A i, j \in DOMAIN Owned(d, p) : Owned(d, p)[i] = Owned(d, p)[j] => i = j
           /\ Owned(d, p) # <<>> => d.fat[1][Last(Owned(d, p))] = Eoc
           /\ \A x \in ToSet(Owned(d, p)) :
                 x \in DOMAIN m /\ m[x].entry = p /\ m[x].first = FirstOf(d, p)
  <1> DEFINE f  == FirstOf(d, p)
             ch == Owned(d, p)
  <1>1. ch = Chain(d, f) /\ Dir(m, f) /\ (f # 0 => m[f].entry = p)
    BY OwnersLaid
  <1> HIDE DEF f, ch
  <1>2. CASE f = 0
    <2>1. f \in Links /\ f \notin Clusters
      BY <1>2, Numbers DEF Links
    <2>2. ch = <<>>
      BY <1>1, <2>1, ChainIs DEF Follows
    <2>3. DOMAIN ch = {} /\ ToSet(ch) = {}
      BY <2>2 DEF ToSet
    <2> QED BY <2>2, <2>3 DEF ch
  <1>3. CASE f # 0
    <2>1. Heads(m, f)
      BY <1>1, <1>3 DEF Dir
    <2>2. /\ Within(d, m, f) /\ Follows(ch, d, f) /\ d.fat[1][Last(ch)] = Eoc
      BY <1>1, <2>1, ChainLaid
    <2>3. ch \in Seq(Clusters) /\ DOMAIN ch = 1 .. Len(ch)
      BY <2>2 DEF Follows
    <2>4. \A n \in 1 .. Len(ch) : /\ ch[n] \in DOMAIN m /\ m[ch[n]].first = f
                                  /\ m[ch[n]].nth = n /\ m[ch[n]].entry = m[f].entry
      BY <1>1, <2>2 DEF Within
    <2>5. \A i, j \in DOMAIN ch : ch[i] = ch[j] => i = j
      <3>1. \A n \in DOMAIN ch : m[ch[n]].nth = n
        BY <2>3, <2>4
      <3> QED BY <3>1, Zenon
    <2>6. \A x \in ToSet(ch) : x \in DOMAIN m /\ m[x].entry = p /\ m[x].first = f
      BY <1>1, <1>3, <2>3, <2>4 DEF ToSet
    <2> QED BY <2>2, <2>5, <2>6 DEF ch, f
  <1> QED BY <1>2, <1>3

LEMMA SafeApart ==
    ASSUME CInv, LInv
    PROVE  ChainsApart
  <1> SUFFICES ASSUME safe PROVE
         \A p \in Owners(disk) :
            /\ \A i, j \in DOMAIN Owned(disk, p) : Owned(disk, p)[i] = Owned(disk, p)[j] => i = j
            /\ Owned(disk, p) # <<>> => disk.fat[1][Last(Owned(disk, p))] = Eoc
            /\ \A q \in Owners(disk) \ {p} :
                  ToSet(Owned(disk, p)) \cap ToSet(Owned(disk, q)) = {}
    BY DEF ChainsApart
  <1>1. PICK m : LaidOut(disk, m)
    BY DEF LInv, Saved, Safe
  <1>2. disk \in DiskT
    BY DEF CInv, Typed
  <1> DEFINE d == disk
  <1>3. d \in DiskT /\ LaidOut(d, m)
    BY <1>1, <1>2
  <1> HIDE DEF d
  <1>4. ASSUME NEW p \in Owners(d), NEW q \in Owners(d) \ {p}
        PROVE  ToSet(Owned(d, p)) \cap ToSet(Owned(d, q)) = {}
    <2>1. /\ \A x \in ToSet(Owned(d, p)) : m[x].entry = p
          /\ \A x \in ToSet(Owned(d, q)) : m[x].entry = q
      BY <1>3, OwnedLaid
    <2> QED BY <2>1
  <1>5. ASSUME NEW p \in Owners(d)
        PROVE  /\ \A i, j \in DOMAIN Owned(d, p) : Owned(d, p)[i] = Owned(d, p)[j] => i = j
               /\ Owned(d, p) # <<>> => d.fat[1][Last(Owned(d, p))] = Eoc
    BY <1>3, OwnedLaid
  <1> QED BY <1>4, <1>5, Zenon DEF d

LEMMA HandlesStay ==
    ASSUME CInv, LInv
    PROVE  HandlesStayInFile
  <1> SUFFICES ASSUME NEW fd \in Fds, fat_fds[fd].cur \in Clusters, Idle
               PROVE  /\ disk.fat[1][fat_fds[fd].cur] # 0
                      /\ \A p \in Owners(disk) : fat_fds[fd].cur \in ToSet(Owned(disk, p)) =>
                            p # NoPlace /\ At(disk, p).start = fat_fds[fd].start
    BY Zenon DEF HandlesStayInFile
  <1>1. Final = disk
    BY DEF Idle, Final
  <1>2. PICK m : LaidOut(disk, m) /\ Holds(m, fat_fds)
    BY <1>1 DEF LInv, Settled
  <1> DEFINE d == disk
             x == fat_fds[fd].cur
             s == fat_fds[fd].start
  <1>3. d \in DiskT /\ LaidOut(d, m)
    BY <1>2 DEF CInv, Typed
  <1>4. x \in DOMAIN m /\ m[x].first = s /\ s # Root
    BY <1>2 DEF Holds, MayHold
  <1> HIDE DEF d, x, s
  <1>5. d.fat[1][x] # 0
    BY <1>3, <1>4, Marked
  <1>6. ASSUME NEW p \in Owners(d), x \in ToSet(Owned(d, p))
        PROVE  p # NoPlace /\ At(d, p).start = s
    <2>1. m[x].first = FirstOf(d, p)
      BY <1>3, <1>6, OwnedLaid
    <2> QED BY <1>4, <2>1 DEF FirstOf
  <1> QED BY <1>5, <1>6, Zenon DEF d, x, s
-----------------------------------------------------------------------------
(* How a layout changes.                                                   *)
Links1(d, m) ==
    \A x \in DOMAIN m :
       /\ d.fat[1][x] # 0
       /\ d.fat[1][x] # Eoc => d.fat[1][x] \in DOMAIN m /\ m[d.fat[1][x]] = NextMark(m[x])

LEMMA Lays ==
    ASSUME NEW d, NEW D \in SUBSET Clusters, NEW m \in [D -> MarkT], Root \in D, m[Root] = RootMark,
           Links1(d, m), \A p \in D \X Slots : LeadsTo(m, p, At(d, p))
    PROVE  LaidOut(d, m)
  <1>1. DOMAIN m = D /\ m \in [DOMAIN m -> MarkT]
    OBVIOUS
  <1>2. ASSUME NEW p \in (DOMAIN m) \X Slots
        PROVE  LET e == At(d, p)
               IN  /\ IsName(e) /\ e.start # 0 =>
                         /\ e.start \in DOMAIN m
                         /\ m[e.start] = [first |-> e.start, nth |-> 1, entry |-> p,
                                          depth |-> m[p[1]].depth + 1]
                   /\ e.short \in {".", ".."} => e.long = ""
    <2> DEFINE e == At(d, p)
               k == m[p[1]].depth + 1
    <2>1. LeadsTo(m, p, e)
      BY <1>1
    <2> HIDE DEF e, k
    <2>2. e.short \in {".", ".."} => e.long = ""
      BY <2>1, Zenon DEF LeadsTo
    <2>3. ASSUME IsName(e), e.start # 0
          PROVE  /\ e.start \in DOMAIN m
                 /\ m[e.start] = [first |-> e.start, nth |-> 1, entry |-> p, depth |-> k]
      <3>1. Heads(m, e.start) /\ m[e.start].entry = p /\ m[e.start].depth = k
        BY <2>1, <2>3, Zenon DEF LeadsTo, k
      <3> DEFINE r == m[e.start]
      <3>2. r \in MarkT /\ r.first = e.start /\ r.nth = 1 /\ r.entry = p /\ r.depth = k
        BY <1>1, <3>1 DEF Heads
      <3> HIDE DEF r
      <3>3. r = [first |-> e.start, nth |-> 1, entry |-> p, depth |-> k]
        BY <3>2 DEF MarkT
      <3> QED BY <3>1, <3>3 DEF Heads, r
    <2> QED BY <2>2, <2>3, Zenon DEF e, k
  <1> QED BY <1>1, <1>2, Zenon DEF LaidOut, Links1

LEMMA LaysBack ==
    ASSUME NEW d, NEW m, LaidOut(d, m)
    PROVE  /\ m \in [DOMAIN m -> MarkT] /\ DOMAIN m \in SUBSET Clusters
           /\ Root \in DOMAIN m /\ m[Root] = RootMark /\ Links1(d, m)
           /\ \A p \in (DOMAIN m) \X Slots : LeadsTo(m, p, At(d, p))
  <1>1. \A p \in (DOMAIN m) \X Slots : LeadsTo(m, p, At(d, p))
    BY Leads
  <1>2. /\ m \in [DOMAIN m -> MarkT] /\ DOMAIN m \subseteq Clusters
        /\ Root \in DOMAIN m /\ m[Root] = RootMark /\ Links1(d, m)
    BY Zenon DEF LaidOut, Links1
  <1> QED BY <1>1, <1>2

Extends(m2, m) == \A x \in DOMAIN m : x \in DOMAIN m2 /\ m2[x] = m[x]
Plus(m, b, mark) == [x \in (DOMAIN m) \union {b} |-> IF x = b THEN mark ELSE m[x]]
Orphan(d, b) ==
    /\ d.fat[1][b] = Eoc
    /\ \A k \in Slots : ~IsName(At(d, <<b, k>>)) /\ At(d, <<b, k>>).long = ""

IsPlus(m2, m, b, mark) ==
    /\ DOMAIN m2 = (DOMAIN m) \union {b} /\ m2 \in [(DOMAIN m) \union {b} -> MarkT]
    /\ m2[b] = mark /\ (\A x \in DOMAIN m : m2[x] = m[x]) /\ Extends(m2, m)

LEMMA PlusIs ==
    ASSUME NEW m, NEW D, m \in [D -> MarkT], NEW b, b \notin D, NEW mark \in MarkT
    PROVE  IsPlus(Plus(m, b, mark), m, b, mark)
  BY DEF Plus, Extends, IsPlus

(* An entry that led nowhere, in more marks.                               *)
LEMMA LeadsMore ==
    ASSUME NEW m, NEW m2, Extends(m2, m), NEW p \in (DOMAIN m) \X Slots, NEW e, LeadsTo(m, p, e)
    PROVE  LeadsTo(m2, p, e)
  <1>1. p[1] \in DOMAIN m /\ m2[p[1]] = m[p[1]]
    BY DEF Extends
  <1>2. e.short \in {".", ".."} => e.long = ""
    BY Zenon DEF LeadsTo
  <1>3. ASSUME IsName(e), e.start # 0
        PROVE  Heads(m2, e.start) /\ m2[e.start].entry = p /\ m2[e.start].depth = m2[p[1]].depth + 1
    <2> DEFINE s == e.start
               k == m[p[1]].depth + 1
    <2>1. Heads(m, s) /\ m[s].entry = p /\ m[s].depth = k
      BY <1>3, Zenon DEF LeadsTo
    <2> HIDE DEF s, k
    <2>2. Heads(m2, s) /\ m2[s].entry = p /\ m2[s].depth = k
      BY <2>1 DEF Heads, Extends
    <2> QED BY <1>1, <2>2 DEF s, k
  <1> QED BY <1>2, <1>3, Zenon DEF LeadsTo

(* The entries of a cluster that no name lies in.                          *)
LEMMA LeadsNot ==
    ASSUME NEW d, NEW m, NEW b, Orphan(d, b), NEW p, NEW k \in Slots, p = <<b, k>>
    PROVE  LeadsTo(m, p, At(d, p))
  <1>1. ~IsName(At(d, p)) /\ At(d, p).long = ""
    <2>1. ~IsName(At(d, <<b, k>>)) /\ At(d, <<b, k>>).long = ""
      BY Zenon DEF Orphan
    <2> QED BY <2>1, Zenon
  <1> QED BY <1>1, Zenon DEF LeadsTo

LEMMA NewEntry ==
    ASSUME NEW d, NEW d2, NEW m, LaidOut(d, m),
           NEW b \in Clusters, b \notin DOMAIN m, Orphan(d2, b), NEW q \in (DOMAIN m) \X Slots,
           \A x \in DOMAIN m : d2.fat[1][x] = d.fat[1][x],
           \A p \in (DOMAIN m) \X Slots : p # q => At(d2, p) = At(d, p),
           At(d2, q).start = b, At(d2, q).short \notin {".", ".."}
    PROVE  \E m2 : LaidOut(d2, m2) /\ Extends(m2, m) /\ Heads(m2, b)
  <1> DEFINE mark == [first |-> b, nth |-> 1, entry |-> q, depth |-> m[q[1]].depth + 1]
             m2   == Plus(m, b, mark)
             D    == (DOMAIN m) \union {b}
  <1>1. /\ m \in [DOMAIN m -> MarkT] /\ DOMAIN m \in SUBSET Clusters
        /\ Root \in DOMAIN m /\ m[Root] = RootMark /\ Links1(d, m)
        /\ \A p \in (DOMAIN m) \X Slots : LeadsTo(m, p, At(d, p))
    BY LaysBack
  <1>2. q[1] \in DOMAIN m /\ m[q[1]] \in MarkT /\ q \in Clusters \X Slots
    BY <1>1
  <1>3. mark \in MarkT
    BY <1>2 DEF MarkT
  <1>4. mark.first = b /\ mark.nth = 1 /\ mark.entry = q /\ mark.depth = m[q[1]].depth + 1
    OBVIOUS
  <1> HIDE DEF mark
  <1>5. /\ DOMAIN m2 = D /\ m2 \in [D -> MarkT]
        /\ m2[b] = mark /\ (\A x \in DOMAIN m : m2[x] = m[x]) /\ Extends(m2, m)
    <2>1. IsPlus(m2, m, b, mark)
      BY <1>1, <1>3, PlusIs
    <2> QED BY <2>1, Zenon DEF IsPlus
  <1> HIDE DEF m2
  <1>6. Heads(m2, b)
    BY <1>4, <1>5 DEF Heads
  <1>7. Links1(d2, m2)
    <2> SUFFICES ASSUME NEW x \in D
                 PROVE  /\ d2.fat[1][x] # 0
                        /\ d2.fat[1][x] # Eoc => /\ d2.fat[1][x] \in D
                                                /\ m2[d2.fat[1][x]] = NextMark(m2[x])
      BY <1>5 DEF Links1
    <2>1. CASE x = b
      <3>1. d2.fat[1][b] = Eoc
        BY Zenon DEF Orphan
      <3> QED BY <2>1, <3>1, Numbers
    <2>2. CASE x \in DOMAIN m
      <3> DEFINE y == d.fat[1][x]
      <3>1. d2.fat[1][x] = y /\ y # 0 /\ (y # Eoc => y \in DOMAIN m /\ m[y] = NextMark(m[x]))
        BY <1>1, <2>2 DEF Links1
      <3> HIDE DEF y
      <3> QED BY <1>5, <2>2, <3>1
    <2> QED BY <2>1, <2>2
  <1>8. ASSUME NEW p \in D \X Slots PROVE LeadsTo(m2, p, At(d2, p))
    <2>1. CASE p = q
      <3> DEFINE e == At(d2, q)
      <3>1. e.start = b /\ e.short \notin {".", ".."}
        OBVIOUS
      <3> HIDE DEF e
      <3>2. m2[b].entry = q /\ m2[b].depth = m2[q[1]].depth + 1
        BY <1>2, <1>4, <1>5
      <3>3. LeadsTo(m2, q, e)
        BY <1>6, <3>1, <3>2, Zenon DEF LeadsTo
      <3> QED BY <2>1, <3>3 DEF e
    <2>2. CASE p # q /\ p \in (DOMAIN m) \X Slots
      <3>1. At(d2, p) = At(d, p) /\ LeadsTo(m, p, At(d, p))
        BY <1>1, <2>2
      <3> DEFINE e == At(d, p)
      <3>2. LeadsTo(m, p, e)
        BY <3>1
      <3> HIDE DEF e
      <3>3. LeadsTo(m2, p, e)
        BY <1>5, <2>2, <3>2, LeadsMore
      <3> QED BY <3>1, <3>3 DEF e
    <2>3. CASE p[1] = b
      <3>1. p[2] \in Slots /\ p = <<b, p[2]>>
        BY <2>3
      <3> QED BY <3>1, LeadsNot
    <2>4. p \in (DOMAIN m) \X Slots \/ p[1] = b
      OBVIOUS
    <2> QED BY <2>1, <2>2, <2>3, <2>4
  <1>9. D \in SUBSET Clusters /\ Root \in D /\ m2[Root] = RootMark
    BY <1>1, <1>5
  <1>10. LaidOut(d2, m2)
    <2> HIDE DEF D
    <2> QED BY <1>5, <1>7, <1>8, <1>9, Lays
  <1> QED BY <1>5, <1>6, <1>10

(* A cluster is linked to the last one of a chain.                         *)
Linked(d, m, l, b, d2) ==
    /\ b \in Clusters /\ b \notin DOMAIN m /\ Orphan(d2, b)
    /\ l \in DOMAIN m /\ d2.fat[1][l] = b
    /\ \A x \in DOMAIN m : x # l => d2.fat[1][x] = d.fat[1][x]
    /\ \A p \in (DOMAIN m) \X Slots : At(d2, p) = At(d, p)

AddsTo(m2, m, b) == Extends(m2, m) /\ DOMAIN m2 = (DOMAIN m) \union {b}

LEMMA Grown ==
    ASSUME NEW d, NEW d2, NEW m, LaidOut(d, m), NEW b, NEW l, Linked(d, m, l, b, d2)
    PROVE  \E m2 : LaidOut(d2, m2) /\ AddsTo(m2, m, b)
  <1> DEFINE mark == NextMark(m[l])
             m2   == Plus(m, b, mark)
             D    == (DOMAIN m) \union {b}
  <1>1. /\ m \in [DOMAIN m -> MarkT] /\ DOMAIN m \in SUBSET Clusters
        /\ Root \in DOMAIN m /\ m[Root] = RootMark /\ Links1(d, m)
        /\ \A p \in (DOMAIN m) \X Slots : LeadsTo(m, p, At(d, p))
    BY LaysBack
  <1>0. /\ b \in Clusters /\ b \notin DOMAIN m /\ Orphan(d2, b)
        /\ l \in DOMAIN m /\ d2.fat[1][l] = b
        /\ \A x \in DOMAIN m : x # l => d2.fat[1][x] = d.fat[1][x]
        /\ \A p \in (DOMAIN m) \X Slots : At(d2, p) = At(d, p)
    BY Zenon DEF Linked
  <1>2. mark \in MarkT
    <2>1. m[l] \in MarkT
      BY <1>0, <1>1
    <2> QED BY <2>1 DEF MarkT, NextMark
  <1> HIDE DEF mark
  <1>3. /\ DOMAIN m2 = D /\ m2 \in [D -> MarkT]
        /\ m2[b] = mark /\ (\A x \in DOMAIN m : m2[x] = m[x]) /\ Extends(m2, m)
    <2>1. IsPlus(m2, m, b, mark)
      BY <1>0, <1>1, <1>2, PlusIs
    <2> QED BY <2>1, Zenon DEF IsPlus
  <1> HIDE DEF m2
  <1>4. Links1(d2, m2)
    <2> SUFFICES ASSUME NEW x \in D
                 PROVE  /\ d2.fat[1][x] # 0
                        /\ d2.fat[1][x] # Eoc => /\ d2.fat[1][x] \in D
                                                /\ m2[d2.fat[1][x]] = NextMark(m2[x])
      BY <1>3 DEF Links1
    <2>1. CASE x = b
      <3>1. d2.fat[1][b] = Eoc
        BY <1>0, Zenon DEF Orphan
      <3> QED BY <2>1, <3>1, Numbers
    <2>2. CASE x \in DOMAIN m /\ x # l
      <3> DEFINE y == d.fat[1][x]
      <3>1. d2.fat[1][x] = y /\ y # 0 /\ (y # Eoc => y \in DOMAIN m /\ m[y] = NextMark(m[x]))
        BY <1>0, <1>1, <2>2 DEF Links1
      <3> HIDE DEF y
      <3> QED BY <1>0, <1>3, <2>2, <3>1
    <2>3. CASE x = l
      <3>1. b # 0 /\ b \in D /\ m2[b] = NextMark(m2[l])
        BY <1>0, <1>3, Numbers DEF mark
      <3> QED BY <1>0, <2>3, <3>1
    <2> QED BY <2>1, <2>2, <2>3
  <1>5. ASSUME NEW p \in D \X Slots PROVE LeadsTo(m2, p, At(d2, p))
    <2>1. CASE p \in (DOMAIN m) \X Slots
      <3> DEFINE e == At(d, p)
      <3>1. At(d2, p) = e /\ LeadsTo(m, p, e)
        BY <1>0, <1>1, <2>1
      <3> HIDE DEF e
      <3>2. LeadsTo(m2, p, e)
        BY <1>3, <2>1, <3>1, LeadsMore
      <3> QED BY <3>1, <3>2
    <2>2. CASE p[1] = b
      <3>1. p[2] \in Slots /\ p = <<b, p[2]>>
        BY <2>2
      <3> QED BY <1>0, <3>1, LeadsNot
    <2>3. p \in (DOMAIN m) \X Slots \/ p[1] = b
      OBVIOUS
    <2> QED BY <2>1, <2>2, <2>3
  <1>6. D \in SUBSET Clusters /\ Root \in D /\ m2[Root] = RootMark
    BY <1>0, <1>1, <1>3
  <1>7. LaidOut(d2, m2)
    <2> HIDE DEF D
    <2> QED BY <1>3, <1>4, <1>5, <1>6, Lays
  <1> QED BY <1>3, <1>7 DEF AddsTo

(* A chain and its entry go.                                               *)
Drops(d, m, q, s, d2) ==
    /\ s # 0 => m[s].entry = q
    /\ \A x \in DOMAIN m : m[x].first # s => d2.fat[1][x] = d.fat[1][x]
    /\ \A p \in (DOMAIN m) \X Slots : p # q => At(d2, p) = At(d, p)
    /\ At(d2, q).short = Deleted

LEMMA Dropped ==
    ASSUME NEW d, NEW d2, NEW m, LaidOut(d, m), NEW q \in (DOMAIN m) \X Slots,
           NEW s, s # Root, Drops(d, m, q, s, d2)
    PROVE  \E m2 : /\ LaidOut(d2, m2)
                   /\ \A x \in DOMAIN m : m[x].first # s => x \in DOMAIN m2 /\ m2[x] = m[x]
  <1>0. /\ s # 0 => m[s].entry = q
        /\ \A x \in DOMAIN m : m[x].first # s => d2.fat[1][x] = d.fat[1][x]
        /\ \A p \in (DOMAIN m) \X Slots : p # q => At(d2, p) = At(d, p)
        /\ At(d2, q).short = Deleted
    BY Zenon DEF Drops
  <1> USE <1>0
  <1> DEFINE D  == {x \in DOMAIN m : m[x].first # s}
             m2 == [x \in D |-> m[x]]
  <1>1. /\ m \in [DOMAIN m -> MarkT] /\ DOMAIN m \in SUBSET Clusters
        /\ Root \in DOMAIN m /\ m[Root] = RootMark /\ Links1(d, m)
        /\ \A p \in (DOMAIN m) \X Slots : LeadsTo(m, p, At(d, p))
    BY LaysBack
  <1>2. D \in SUBSET Clusters /\ m2 \in [D -> MarkT] /\ DOMAIN m2 = D /\ \A x \in D : m2[x] = m[x]
    BY <1>1
  <1>3. Root \in D /\ m2[Root] = RootMark
    <2>1. m[Root].first = Root
      BY <1>1 DEF RootMark
    <2> QED BY <1>1, <2>1
  <1>4. \A x \in D : x \in DOMAIN m /\ m[x].first # s
    OBVIOUS
  <1>5. \A x \in DOMAIN m : m[x].first # s => x \in D
    OBVIOUS
  <1> HIDE DEF D, m2
  <1>6. Links1(d2, m2)
    <2> SUFFICES ASSUME NEW x \in D
                 PROVE  /\ d2.fat[1][x] # 0
                        /\ d2.fat[1][x] # Eoc => /\ d2.fat[1][x] \in D
                                                /\ m2[d2.fat[1][x]] = NextMark(m2[x])
      BY <1>2 DEF Links1
    <2> DEFINE y == d.fat[1][x]
    <2>1. d2.fat[1][x] = y /\ y # 0 /\ (y # Eoc => y \in DOMAIN m /\ m[y] = NextMark(m[x]))
      BY <1>1, <1>4 DEF Links1
    <2> HIDE DEF y
    <2>2. y # Eoc => y \in D
      <3>1. m[y] = NextMark(m[x]) => m[y].first = m[x].first
        BY DEF NextMark
      <3> QED BY <1>4, <1>5, <2>1, <3>1
    <2> QED BY <1>2, <2>1, <2>2
  <1>7. ASSUME NEW p \in D \X Slots PROVE LeadsTo(m2, p, At(d2, p))
    <2>1. p \in (DOMAIN m) \X Slots /\ p[1] \in D
      BY <1>4
    <2>2. CASE p = q
      <3> DEFINE e == At(d2, q)
      <3>1. e.short = Deleted
        OBVIOUS
      <3> HIDE DEF e
      <3>2. ~IsName(e) /\ e.short \notin {".", ".."}
        BY <3>1 DEF IsName, InUse, Deleted
      <3>3. LeadsTo(m2, q, e)
        BY <3>2, Zenon DEF LeadsTo
      <3> QED BY <2>2, <3>3 DEF e
    <2>3. CASE p # q
      <3> DEFINE e == At(d, p)
      <3>1. At(d2, p) = e /\ LeadsTo(m, p, e)
        BY <1>1, <2>1, <2>3
      <3> HIDE DEF e
      <3>2. e.short \in {".", ".."} => e.long = ""
        BY <3>1, Zenon DEF LeadsTo
      <3>3. ASSUME IsName(e), e.start # 0
            PROVE  /\ Heads(m2, e.start) /\ m2[e.start].entry = p
                   /\ m2[e.start].depth = m2[p[1]].depth + 1
        <4> DEFINE z == e.start
                   k == m[p[1]].depth + 1
        <4>1. Heads(m, z) /\ m[z].entry = p /\ m[z].depth = k
          BY <3>1, <3>3, Zenon DEF LeadsTo
        <4>2. z # s
          BY <2>3, <3>3, <4>1
        <4> HIDE DEF z, k
        <4>3. z \in D
          BY <1>5, <4>1, <4>2 DEF Heads
        <4>4. Heads(m2, z) /\ m2[z].entry = p /\ m2[z].depth = k
          BY <1>2, <4>1, <4>3 DEF Heads
        <4>5. m2[p[1]] = m[p[1]]
          BY <1>2, <2>1
        <4> QED BY <4>4, <4>5 DEF z, k
      <3>4. LeadsTo(m2, p, e)
        BY <3>2, <3>3, Zenon DEF LeadsTo
      <3> QED BY <3>1, <3>4
    <2> QED BY <2>2, <2>3
  <1>8. LaidOut(d2, m2)
    BY <1>2, <1>3, <1>6, <1>7, Lays
  <1> QED BY <1>2, <1>5, <1>8
LEMMA OrphanSame ==
    ASSUME NEW d, NEW d2, NEW b, Orphan(d, b), d2.fat[1][b] = d.fat[1][b],
           \A k \in Slots : At(d2, <<b, k>>) = At(d, <<b, k>>)
    PROVE  Orphan(d2, b)
  <1>1. d2.fat[1][b] = Eoc
    BY Zenon DEF Orphan
  <1>2. \A k \in Slots : ~IsName(At(d2, <<b, k>>)) /\ At(d2, <<b, k>>).long = ""
    BY Zenon DEF Orphan
  <1> QED BY <1>1, <1>2, Zenon DEF Orphan

LEMMA WroteAt ==
    ASSUME NEW d \in DiskT, NEW q \in Clusters \X Slots, NEW e \in EntryT, NEW d2,
           Writes(d, q, e, d2)
    PROVE  /\ d2 \in DiskT /\ d2.fat = d.fat
           /\ At(d2, q).start = e.start /\ At(d2, q).short = e.short
           /\ \A p \in Clusters \X Slots : p # q => At(d2, p) = At(d, p)
           /\ \A x \in Clusters : x # q[1] => d2.ent[x] = d.ent[x]
  <1> DEFINE w == Named1(d, q, e)
  <1>1. /\ d2 \in DiskT /\ d2.fat = d.fat
        /\ d2.ent = [d.ent EXCEPT ![q[1]] = [d.ent[q[1]] EXCEPT ![q[2]] = w]]
    BY Zenon DEF Writes, ClusterIs
  <1>2. w.start = e.start /\ w.short = e.short
    BY DEF Named1, EntryT
  <1>3. d.ent \in [Clusters -> [Slots -> EntryT]] /\ q[1] \in Clusters /\ q[2] \in Slots
    BY DEF DiskT
  <1> HIDE DEF w
  <1>4. At(d2, q) = w
    BY <1>1, <1>3 DEF At
  <1>5. \A x \in Clusters : x # q[1] => d2.ent[x] = d.ent[x]
    BY <1>1, <1>3
  <1>6. ASSUME NEW p \in Clusters \X Slots, p # q PROVE At(d2, p) = At(d, p)
    <2>1. p[1] \in Clusters /\ p[2] \in Slots /\ (p[1] = q[1] => p[2] # q[2])
      BY <1>6
    <2>2. d2.ent[p[1]][p[2]] = d.ent[p[1]][p[2]]
      BY <1>1, <1>3, <2>1
    <2> QED BY <2>2 DEF At
  <1> QED BY <1>1, <1>2, <1>4, <1>5, <1>6

LaidMore(d, m, b) == \E m2 : LaidOut(d, m2) /\ Extends(m2, m) /\ Heads(m2, b)
EntersLaid(S, c, m, dir, b, new) ==
    /\ new.c \in Copying(S) /\ (c.log # <<>> => new.c.log # <<>>)
    /\ new.ok = FALSE => new.c = c
    /\ new.ok # FALSE => new.ok = TRUE /\ LaidMore(new.c.d, m, b)
    /\ Saves(c) /\ (dir = 0 \/ FreeEntry(c.d, dir) # NoPlace) => Saves(new.c)

(* A cluster that nothing leads to gets its name, in a directory that may  *)
(* have to grow.                                                           *)
LEMMA EnteredKeeps ==
    ASSUME NEW S, NEW c \in Copying(S), NEW m, LaidOut(c.d, m), NEW dir, Dir(m, dir),
           NEW b \in Clusters, b \notin DOMAIN m, Orphan(c.d, b),
           NEW e \in EntryT, e.start = b, e.short \notin {".", ".."},
           NEW new, new = Entered(c, dir, e)
    PROVE  EntersLaid(S, c, m, dir, b, new)
  <1> SUFFICES /\ new.c \in Copying(S) /\ (c.log # <<>> => new.c.log # <<>>)
               /\ new.ok = FALSE => new.c = c
               /\ new.ok # FALSE => new.ok = TRUE /\ LaidMore(new.c.d, m, b)
               /\ Saves(c) /\ (dir = 0 \/ FreeEntry(c.d, dir) # NoPlace) => Saves(new.c)
    BY Zenon DEF EntersLaid
  <1> USE DEF LaidMore
  <1> DEFINE d   == c.d
             q   == FreeEntry(d, dir)
             l   == Last(Chain(d, dir))
             got == fat_alloc_cluster(c, l)
             d2  == new.c.d
  <1>1. d \in DiskT /\ LaidOut(d, m) /\ Orphan(d, b)
    BY DEF Copying, CallT
  <1>2. dir \in Clusters \union {0} /\ dir \in Links
    BY <1>1, Marked DEF Dir, Heads, Links
  <1>3. /\ new.c \in Copying(S) /\ (c.log # <<>> => new.c.log # <<>>)
        /\ \/ new.ok = FALSE /\ new.c = c
           \/ /\ new.ok = TRUE /\ q # NoPlace
              /\ Writes(d, q, e, d2) /\ (Saves(c) /\ Safe(d2) => Saves(new.c))
           \/ /\ new.ok = TRUE /\ q = NoPlace /\ dir # 0
              /\ got.b # 0 /\ Writes(got.c.d, <<got.b, 1>>, e, d2)
    <2>1. Enters(S, c, dir, e, new, q, got)
      BY <1>2, EnteredIs
    <2> QED BY <2>1, Zenon DEF Enters
  <1> HIDE DEF d, q, l, got, d2
  <1>4. CASE new.ok = FALSE /\ new.c = c
    BY <1>3, <1>4
  <1>5. CASE /\ new.ok = TRUE /\ q # NoPlace
             /\ Writes(d, q, e, d2) /\ (Saves(c) /\ Safe(d2) => Saves(new.c))
    <2>1. q \in ToSet(Chain(d, dir)) \X Slots
      <3> DEFINE W == {x \in Entries(d, dir) : ~InUse(x)}
      <3>1. q = FirstPlace(d, dir, W)
        BY DEF FreeEntry, q
      <3> HIDE DEF W
      <3> QED BY <1>1, <1>2, <1>5, <3>1, FirstIs, Zenon
    <2>2. q \in (DOMAIN m) \X Slots /\ q \in Clusters \X Slots
      BY <1>1, <2>1, PlaceLaid
    <2>3. /\ d2 \in DiskT /\ d2.fat = d.fat
          /\ At(d2, q).start = e.start /\ At(d2, q).short = e.short
          /\ \A p \in Clusters \X Slots : p # q => At(d2, p) = At(d, p)
      BY <1>1, <1>5, <2>2, WroteAt
    <2>4. DOMAIN m \subseteq Clusters
      BY <1>1, Marked
    <2>5. \A k \in Slots : At(d2, <<b, k>>) = At(d, <<b, k>>)
      <3> SUFFICES ASSUME NEW k \in Slots PROVE At(d2, <<b, k>>) = At(d, <<b, k>>)
        OBVIOUS
      <3>1. <<b, k>> \in Clusters \X Slots /\ <<b, k>> # q
        <4>1. q[1] \in DOMAIN m
          BY <2>2
        <4> QED BY <4>1
      <3> QED BY <2>3, <3>1
    <2>6. Orphan(d2, b)
      BY <1>1, <2>3, <2>5, OrphanSame
    <2>7. \A p \in (DOMAIN m) \X Slots : p # q => At(d2, p) = At(d, p)
      BY <2>3, <2>4
    <2>8. \A x \in DOMAIN m : d2.fat[1][x] = d.fat[1][x]
      BY <2>3
    <2>9. At(d2, q).start = b /\ At(d2, q).short \notin {".", ".."}
      BY <2>3
    <2>10. \E m2 : LaidOut(d2, m2) /\ Extends(m2, m) /\ Heads(m2, b)
      BY <1>1, <2>2, <2>6, <2>7, <2>8, <2>9, NewEntry
    <2>11. Safe(d2)
      BY <2>10 DEF Safe
    <2> QED BY <1>3, <1>5, <2>10, <2>11 DEF d2
  <1>6. CASE /\ new.ok = TRUE /\ q = NoPlace /\ dir # 0
             /\ got.b # 0 /\ Writes(got.c.d, <<got.b, 1>>, e, d2)
    <2> DEFINE a == got.b
               g == got.c.d
               p == <<a, 1>>
    <2>1. Heads(m, dir)
      BY <1>6 DEF Dir
    <2>2. l \in DOMAIN m /\ d.fat[1][l] = Eoc /\ l \in Clusters /\ l \in Links
      <3>1. l \in DOMAIN m /\ d.fat[1][l] = Eoc
        BY <1>1, <2>1, ChainLaid DEF l
      <3> QED BY <1>1, <3>1, Marked DEF Links
    <2>3. IsAllocated(S, c, l, got)
      BY <2>2, Allocated DEF got
    <2>4. /\ a \in Clusters /\ d.fat[1][a] = 0 /\ got.c \in Copying(S)
          /\ g.ent = [d.ent EXCEPT ![a] = Blank]
          /\ g.fat[1] = [[d.fat[1] EXCEPT ![a] = Eoc] EXCEPT ![l] = a]
      BY <1>6, <2>2, <2>3 DEF IsAllocated, d
    <2>5. g \in DiskT
      BY <2>4 DEF Copying, CallT
    <2> HIDE DEF a, g
    <2>6. /\ a \notin DOMAIN m /\ DOMAIN m \subseteq Clusters /\ a # b /\ l # a /\ l # b
      <3>1. d.fat[1][b] = Eoc /\ Eoc # 0
        BY <1>1, Numbers, Zenon DEF Orphan
      <3>2. \A x \in DOMAIN m : d.fat[1][x] # 0
        BY <1>1, Marked
      <3>3. DOMAIN m \subseteq Clusters
        BY <1>1, Marked
      <3> QED BY <2>2, <2>4, <3>1, <3>2, <3>3
    <2>7. d.fat[1] \in [Clusters -> Links] /\ d.ent \in [Clusters -> [Slots -> EntryT]]
      BY <1>1 DEF DiskT
    <2>8. /\ g.fat[1][l] = a /\ g.fat[1][a] = Eoc /\ g.fat[1][b] = d.fat[1][b]
          /\ \A x \in DOMAIN m : x # l => g.fat[1][x] = d.fat[1][x]
      BY <2>2, <2>4, <2>6, <2>7
    <2>9. /\ \A k \in Slots : At(g, <<a, k>>) = NoEntry
          /\ \A x \in Clusters : x # a => g.ent[x] = d.ent[x]
      <3>1. g.ent[a] = Blank /\ \A x \in Clusters : x # a => g.ent[x] = d.ent[x]
        BY <2>4, <2>7
      <3>2. \A k \in Slots : Blank[k] = NoEntry
        BY EmptyTypes, Zenon
      <3> QED BY <3>1, <3>2 DEF At
    <2>10. Orphan(g, a)
      <3>1. ~IsName(NoEntry) /\ NoEntry.long = ""
        BY EmptyTypes, Zenon
      <3>2. \A k \in Slots : ~IsName(At(g, <<a, k>>)) /\ At(g, <<a, k>>).long = ""
        BY <2>9, <3>1, Zenon
      <3> QED BY <2>8, <3>2, Zenon DEF Orphan
    <2>11. Orphan(g, b)
      <3>1. \A k \in Slots : At(g, <<b, k>>) = At(d, <<b, k>>)
        BY <2>6, <2>9 DEF At
      <3> QED BY <1>1, <2>8, <3>1, OrphanSame
    <2>12. \A x \in (DOMAIN m) \X Slots : At(g, x) = At(d, x)
      BY <2>6, <2>9 DEF At
    <2>13. PICK m1 : LaidOut(g, m1) /\ Extends(m1, m) /\ DOMAIN m1 = (DOMAIN m) \union {a}
      <3>1. a \in Clusters /\ a \notin DOMAIN m /\ l \in DOMAIN m /\ g.fat[1][l] = a
        BY <2>2, <2>4, <2>6, <2>8
      <3>2. \A x \in DOMAIN m : x # l => g.fat[1][x] = d.fat[1][x]
        BY <2>8
      <3>3. Linked(d, m, l, a, g)
        BY <2>10, <2>12, <3>1, <3>2, Zenon DEF Linked
      <3>4. \E m1 : LaidOut(g, m1) /\ AddsTo(m1, m, a)
        BY <1>1, <3>3, Grown
      <3> QED BY <3>4 DEF AddsTo
    <2>14. p \in (DOMAIN m1) \X Slots /\ p \in Clusters \X Slots
      BY <2>4, <2>13, Numbers
    <2>15. p[1] = a /\ Writes(g, p, e, d2)
      BY <1>6 DEF a, g
    <2> HIDE DEF p
    <2>16. /\ d2 \in DiskT /\ d2.fat = g.fat
           /\ At(d2, p).start = b /\ At(d2, p).short \notin {".", ".."}
           /\ \A x \in Clusters \X Slots : x # p => At(d2, x) = At(g, x)
      BY <2>5, <2>14, <2>15, WroteAt
    <2>17. Orphan(d2, b)
      <3>1. \A k \in Slots : <<b, k>> \in Clusters \X Slots /\ <<b, k>> # p
        BY <2>6, <2>15
      <3>2. \A k \in Slots : At(d2, <<b, k>>) = At(g, <<b, k>>)
        BY <2>16, <3>1
      <3> QED BY <2>11, <2>16, <3>2, OrphanSame
    <2>18. /\ b \notin DOMAIN m1 /\ \A x \in DOMAIN m1 : d2.fat[1][x] = g.fat[1][x]
           /\ \A x \in (DOMAIN m1) \X Slots : x # p => At(d2, x) = At(g, x)
      <3>1. DOMAIN m1 \subseteq Clusters
        BY <2>4, <2>6, <2>13
      <3> QED BY <2>6, <2>13, <2>16, <3>1
    <2>19. PICK m2 : LaidOut(d2, m2) /\ Extends(m2, m1) /\ Heads(m2, b)
      BY <2>13, <2>14, <2>16, <2>17, <2>18, NewEntry
    <2>20. Extends(m2, m)
      BY <2>13, <2>19 DEF Extends
    <2> QED BY <1>3, <1>6, <2>19, <2>20 DEF d2, d, q
  <1> QED BY <1>3, <1>4, <1>5, <1>6
-----------------------------------------------------------------------------
(* The driver's functions, one by one.                                     *)
IsPath(path) == path \in Seq(DOMAIN Short) /\ path # <<>>

LEMMA Paths == \A path \in FilePaths \union DirPaths : IsPath(path)
  <1>1. FilePaths \union DirPaths \subseteq Seq(DOMAIN Short) \ {<<>>}
    BY FatAssumption, Zenon
  <1> QED BY <1>1 DEF IsPath

PathLeads(m, path, dir, p, e) ==
    /\ Dir(m, dir) /\ (dir # 0 => m[dir].depth = Len(path) - 1)
    /\ p # NoPlace =>
          /\ Heads(m, dir) /\ p \in (DOMAIN m) \X Slots /\ p \in Clusters \X Slots
          /\ IsName(e) /\ e \in EntryT /\ Dir(m, e.start)
          /\ e.start # 0 => m[e.start].entry = p /\ m[e.start].depth = Len(path) /\ e.start # Root

LEMMA PathLaid ==
    ASSUME NEW d \in DiskT, NEW m, LaidOut(d, m), NEW path, IsPath(path),
           NEW p, p = fat_lookup(d, path)
    PROVE  PathLeads(m, path, fat_dir_cluster(d, path), p, At(d, p))
  <1> DEFINE n   == Len(path)
             dir == fat_dir_cluster(d, path)
             e   == At(d, p)
  <1>1. path \in Seq(DOMAIN Short) /\ path # <<>>
    BY DEF IsPath
  <1>2. n \in Nat /\ n - 1 \in 0 .. n /\ (n - 1) + 1 = n
    BY <1>1
  <1>3. dir = DirAt(d, path, n - 1)
    BY DEF fat_dir_cluster, DirAt
  <1>4. Dir(m, dir) /\ (dir # 0 => m[dir].depth = n - 1)
    BY <1>1, <1>2, <1>3, WalkLaid
  <1>5. p = Find(d, dir, Last(path)) /\ Last(path) \in DOMAIN Short
    BY <1>1, LookupIs
  <1> HIDE DEF dir, n, e
  <1>6. ASSUME p # NoPlace
        PROVE  /\ Heads(m, dir) /\ p \in (DOMAIN m) \X Slots /\ p \in Clusters \X Slots
               /\ IsName(e) /\ e \in EntryT /\ Dir(m, e.start)
               /\ e.start # 0 => m[e.start].entry = p /\ m[e.start].depth = n /\ e.start # Root
    <2>1. /\ Heads(m, dir) /\ p \in (DOMAIN m) \X Slots /\ p \in Clusters \X Slots
          /\ IsName(e) /\ e \in EntryT /\ Dir(m, e.start)
          /\ e.start # 0 => m[e.start].entry = p /\ m[e.start].depth = m[dir].depth + 1
      BY <1>4, <1>5, <1>6, FoundLaid DEF e
    <2>2. dir # 0
      BY <2>1, Marked, Numbers DEF Heads
    <2>3. m[Root].entry = NoPlace
      BY Marked
    <2> QED BY <1>2, <1>4, <1>6, <2>1, <2>2, <2>3
  <1> QED BY <1>4, <1>6, Zenon DEF PathLeads, dir, n, e

LEMMA PathTyped ==
    ASSUME NEW d \in DiskT, NEW path, IsPath(path), NEW p, p = fat_lookup(d, path)
    PROVE  /\ fat_dir_cluster(d, path) \in Clusters \union {0} /\ fat_dir_cluster(d, path) \in Links
           /\ p = Find(d, fat_dir_cluster(d, path), Last(path)) /\ Last(path) \in DOMAIN Short
           /\ p # NoPlace => p \in Clusters \X Slots /\ At(d, p) \in EntryT
  <1>1. path \in Seq(DOMAIN Short) /\ path # <<>>
    BY DEF IsPath
  <1>2. /\ fat_dir_cluster(d, path) \in Clusters \union {0} /\ fat_dir_cluster(d, path) \in Links
        /\ p = Find(d, fat_dir_cluster(d, path), Last(path)) /\ Last(path) \in DOMAIN Short
        /\ p \in Places0
    BY <1>1, LookupIs
  <1>3. p # NoPlace => p \in Clusters \X Slots
    BY <1>2 DEF Places0
  <1> QED BY <1>2, <1>3, EntryType

LEMMA OpenedIs ==
    ASSUME CInv, NEW e, e.start \in Clusters \union {0}, e.size \in Nat,
           e.dir \in BOOLEAN
    PROVE  /\ Opened(e) \in [Fds -> FdT]
           /\ \A m : Holds(m, fat_fds) /\ (e.start # 0 => Heads(m, e.start) /\ e.start # Root)
                        => Holds(m, Opened(e))
  <1> DEFINE free == {fd \in Fds : ~fat_fds[fd].used}
             new  == [used |-> TRUE, start |-> e.start, cur |-> e.start,
                      position |-> 0, size |-> e.size, dir |-> e.dir]
             k    == Least(free)
  <1>1. fat_fds \in [Fds -> FdT]
    BY DEF CInv, Typed
  <1>2. Opened(e) = IF free = {} THEN fat_fds ELSE [fat_fds EXCEPT ![k] = new]
    BY Zenon DEF Opened
  <1>3. new \in FdT
    BY DEF FdT, Links
  <1>4. new.used = TRUE /\ new.start = e.start /\ new.cur = e.start
    OBVIOUS
  <1> HIDE DEF new
  <1>5. CASE free = {}
    BY <1>1, <1>2, <1>5
  <1>6. CASE free # {}
    <2>1. k \in Fds
      <3>1. free \in SUBSET Nat
        BY Numbers
      <3>2. k \in free
        BY <1>6, <3>1, LeastExists
      <3> QED BY <3>2
    <2>2. Opened(e) = [fat_fds EXCEPT ![k] = new]
      BY <1>2, <1>6
    <2> HIDE DEF k, free
    <2>3. Opened(e) \in [Fds -> FdT]
      BY <1>1, <1>3, <2>2
    <2>4. ASSUME NEW m, Holds(m, fat_fds), e.start # 0 => Heads(m, e.start) /\ e.start # Root
          PROVE  Holds(m, Opened(e))
      <3>1. MayHold(m, new)
        BY <1>4, <2>4, Numbers DEF MayHold, Heads
      <3>2. \A fd \in Fds : Opened(e)[fd] = new \/ Opened(e)[fd] = fat_fds[fd]
        BY <1>1, <2>2
      <3> QED BY <2>4, <3>1, <3>2, Zenon DEF Holds
    <2> QED BY <2>3, <2>4
  <1> QED BY <1>5, <1>6

LEMMA KeepsOpenExisting ==
    ASSUME CInv, NEW path, IsPath(path), OpenExisting(path)
    PROVE  CInv' /\ (LInv => LInv')
  <1> DEFINE d == disk
             p == fat_lookup(d, path)
             e == At(d, p)
  <1>1. /\ Idle /\ p # NoPlace /\ fat_fds' = Opened(e) /\ UNCHANGED <<disk, pending, safe, cuts>>
    BY DEF OpenExisting
  <1>2. d \in DiskT /\ Final = d
    BY <1>1, AtRest DEF CInv, Typed
  <1> HIDE DEF d
  <1>3. e \in EntryT
    BY <1>1, <1>2, PathTyped
  <1> HIDE DEF e, p
  <1>4. e.start \in Clusters \union {0} /\ e.size \in Nat /\ e.dir \in BOOLEAN
    BY <1>3 DEF EntryT
  <1>5. /\ fat_fds' \in [Fds -> FdT]
        /\ \A m : Holds(m, fat_fds) /\ (e.start # 0 => Heads(m, e.start) /\ e.start # Root)
                     => Holds(m, fat_fds')
    BY <1>1, <1>4, OpenedIs, Zenon
  <1>6. ASSUME LInv PROVE \E m : LaidOut(Final, m) /\ Holds(m, fat_fds')
    <2>1. PICK m : LaidOut(d, m) /\ Holds(m, fat_fds)
      BY <1>2, <1>6 DEF LInv, Settled
    <2>2. PathLeads(m, path, fat_dir_cluster(d, path), p, e)
      BY <1>2, <2>1, PathLaid DEF p, e
    <2>3. e.start # 0 => Heads(m, e.start) /\ e.start # Root
      <3>1. Dir(m, e.start) /\ (e.start # 0 => e.start # Root)
        BY <1>1, <2>2, Zenon DEF PathLeads
      <3> QED BY <3>1 DEF Dir
    <2> QED BY <1>2, <1>5, <2>1, <2>3
  <1> QED BY <1>1, <1>5, <1>6, OnlyHandles

LEMMA KeepsClose ==
    ASSUME CInv, NEW fd \in Fds, fat_close(fd)
    PROVE  CInv' /\ (LInv => LInv')
  <1>1. /\ fat_fds' = [fat_fds EXCEPT ![fd] = Closed] /\ UNCHANGED <<disk, pending, safe, cuts>>
    BY DEF fat_close
  <1>2. fat_fds \in [Fds -> FdT]
    BY DEF CInv, Typed
  <1>3. fat_fds' \in [Fds -> FdT]
    BY <1>1, <1>2, ClosedHolds
  <1>4. ASSUME NEW m, Holds(m, fat_fds) PROVE Holds(m, fat_fds')
    <2>1. \A x \in Fds : fat_fds'[x] = Closed \/ fat_fds'[x] = fat_fds[x]
      BY <1>1, <1>2
    <2> QED BY <1>4, <2>1, ClosedHolds, Zenon DEF Holds
  <1>5. LInv => \E m : LaidOut(Final, m) /\ Holds(m, fat_fds')
    BY <1>4 DEF LInv, Settled
  <1> QED BY <1>1, <1>3, <1>5, OnlyHandles

IsMoved(f, v, g) == g = [f EXCEPT !.position = @ + 1, !.cur = v]
LEMMA Moved ==
    ASSUME NEW f \in FdT, NEW v \in Links, NEW g, IsMoved(f, v, g)
    PROVE  /\ g \in FdT /\ g.start = f.start /\ g.used = f.used /\ g.cur = v
           /\ g.position = f.position + 1 /\ g.size = f.size
  <1>1. f = [used |-> f.used, start |-> f.start, cur |-> f.cur, position |-> f.position,
             size |-> f.size, dir |-> f.dir]
    BY DEF FdT
  <1>2. g = [used |-> f.used, start |-> f.start, cur |-> v, position |-> f.position + 1,
             size |-> f.size, dir |-> f.dir]
    BY <1>1 DEF IsMoved
  <1> QED BY <1>2 DEF FdT

(* What is at a handle stays in the set that each step keeps it in.        *)
LEMMA KeepsRead ==
    ASSUME CInv, NEW fd \in Fds, NEW n \in Counts, fat_read(fd, n)
    PROVE  CInv' /\ (LInv => LInv')
  <1> DEFINE x == fat_fds[fd]
             y == ReadOn(x, n)
             d == disk
             t == d.fat[1]
  <1>1. /\ Idle /\ x.used /\ fat_fds' = [fat_fds EXCEPT ![fd] = y]
        /\ UNCHANGED <<disk, pending, safe, cuts>>
    BY Zenon DEF fat_read, ReadOn
  <1>2. fat_fds \in [Fds -> FdT] /\ x \in FdT /\ d \in DiskT /\ t \in [Clusters -> Links] /\ Final = d
    BY <1>1, AtRest DEF CInv, Typed, DiskT
  <1>3. n \in Nat
    <2>1. Counts \subseteq Nat \ {0}
      BY FatAssumption, Zenon
    <2> QED BY <2>1
  <1>4. \A f : ReadCluster(f) =
                  IF f.position >= f.size \/ f.cur \notin Clusters THEN f
                  ELSE [f EXCEPT !.position = @ + 1, !.cur = t[@]]
    BY DEF ReadCluster
  <1> HIDE DEF x, y, d, t
  <1>5. ASSUME NEW f \in FdT
        PROVE  /\ ReadCluster(f) \in FdT /\ ReadCluster(f).start = f.start
               /\ ReadCluster(f).used = f.used
               /\ ReadCluster(f).cur = f.cur \/ /\ f.cur \in Clusters
                                                /\ ReadCluster(f).cur = t[f.cur]
    <2>1. CASE f.position >= f.size \/ f.cur \notin Clusters
      <3>1. ReadCluster(f) = f
        BY <1>4, <2>1, Zenon
      <3> QED BY <3>1
    <2>2. CASE ~(f.position >= f.size \/ f.cur \notin Clusters)
      <3>1. ReadCluster(f) = [f EXCEPT !.position = @ + 1, !.cur = t[f.cur]]
        BY <1>4, <2>2, Zenon
      <3>2. f.cur \in Clusters /\ t[f.cur] \in Links
        BY <1>2, <2>2
      <3> DEFINE v == t[f.cur]
                 g == ReadCluster(f)
      <3>3. f \in FdT /\ v \in Links /\ IsMoved(f, v, g)
        BY <3>1, <3>2 DEF IsMoved
      <3> HIDE DEF v, g
      <3>4. g \in FdT /\ g.start = f.start /\ g.used = f.used /\ g.cur = v
        BY <3>3, Moved
      <3> QED BY <3>2, <3>4 DEF v, g
    <2> QED BY <2>1, <2>2
  <1>6. y \in FdT
    <2>1. \A f \in FdT : ReadCluster(f) \in FdT
      BY <1>5
    <2> QED BY <1>2, <1>3, <2>1, ReadEach DEF y
  <1>7. fat_fds' \in [Fds -> FdT]
    BY <1>1, <1>2, <1>6
  <1>8. ASSUME LInv PROVE \E m : LaidOut(Final, m) /\ Holds(m, fat_fds')
    <2>1. PICK m : LaidOut(d, m) /\ Holds(m, fat_fds)
      BY <1>2, <1>8 DEF LInv, Settled
    <2> DEFINE F == {f \in FdT : MayHold(m, f)}
    <2>2. x \in F
      BY <1>2, <2>1 DEF Holds, x
    <2>3. ASSUME NEW f \in F PROVE ReadCluster(f) \in F
      <3> DEFINE g == ReadCluster(f)
      <3>1. /\ g \in FdT /\ g.start = f.start /\ g.used = f.used
            /\ g.cur = f.cur \/ (f.cur \in Clusters /\ g.cur = t[f.cur])
        BY <1>5
      <3>2. f.cur \in Clusters => /\ f.used /\ f.cur \in DOMAIN m
                                  /\ m[f.cur].first = f.start /\ f.start # Root
        BY DEF MayHold
      <3> HIDE DEF g
      <3>3. ASSUME g.cur \in Clusters
            PROVE  g.used /\ g.cur \in DOMAIN m /\ m[g.cur].first = g.start /\ g.start # Root
        <4>1. CASE g.cur = f.cur
          BY <3>1, <3>2, <3>3, <4>1
        <4>2. CASE f.cur \in Clusters /\ g.cur = t[f.cur]
          <5> DEFINE c == f.cur
          <5>1. c \in DOMAIN m /\ t[c] \in Clusters
            BY <3>2, <3>3, <4>2
          <5> HIDE DEF c
          <5>2. t[c] # Eoc
            BY <5>1, Numbers
          <5>3. t[c] \in DOMAIN m /\ m[t[c]].first = m[c].first
            BY <2>1, <5>1, <5>2, Marked DEF t
          <5> QED BY <3>1, <3>2, <4>2, <5>3 DEF c
        <4> QED BY <3>1, <4>1, <4>2
      <3>4. MayHold(m, g)
        BY <3>3 DEF MayHold
      <3> QED BY <3>1, <3>4 DEF g
    <2>4. y \in F
      <3> HIDE DEF F
      <3> QED BY <1>3, <2>2, <2>3, ReadEach DEF y
    <2>5. \A k \in Fds : fat_fds'[k] = y \/ fat_fds'[k] = fat_fds[k]
      BY <1>1, <1>2
    <2>6. Holds(m, fat_fds')
      BY <2>1, <2>4, <2>5 DEF Holds
    <2> QED BY <1>2, <2>1, <2>6
  <1> QED BY <1>1, <1>7, <1>8, OnlyHandles
(* A new cluster.                                                          *)
Fresh(S, c, d, m, b) ==
    /\ c \in Copying(S) /\ LaidOut(c.d, m) /\ Saves(c)
    /\ b \in Clusters /\ b \notin DOMAIN m /\ b # Root /\ Orphan(c.d, b)
    /\ AgreeOn(d, c.d, DOMAIN m)

LEMMA TookOne ==
    ASSUME CInv, Idle, NEW S, Start \in Copying(S),
           NEW got, got = fat_alloc_cluster(Start, 0), got.b # 0
    PROVE  /\ got.b \in Clusters /\ got.c \in Copying(S) /\ got.c.log # <<>>
           /\ got.c.d.ent[got.b] = Blank
           /\ \A m : LaidOut(disk, m) => Fresh(S, got.c, disk, m, got.b)
  <1> DEFINE s == Start
             d == disk
             b == got.b
             c == got.c
  <1>1. s.d = d /\ Saves(s) /\ d \in DiskT
    BY AtRest DEF CInv, Typed
  <1>2. 0 \in Links /\ 0 \notin Clusters
    BY Numbers DEF Links
  <1> HIDE DEF s, d
  <1>3. IsAllocated(S, s, 0, got)
    BY <1>2, Allocated DEF s
  <1>4. /\ b \in Clusters /\ d.fat[1][b] = 0 /\ c \in Copying(S) /\ c.log # <<>>
        /\ c.d.ent = [d.ent EXCEPT ![b] = Blank]
        /\ c.d.fat[1] = [d.fat[1] EXCEPT ![b] = Eoc]
        /\ \A m : LaidOut(d, m) => LaidOut(c.d, m) /\ (Saves(s) => Saves(c))
    BY <1>1, <1>2, <1>3, Zenon DEF IsAllocated
  <1> HIDE DEF b, c
  <1>5. d.ent \in [Clusters -> [Slots -> EntryT]] /\ d.fat[1] \in [Clusters -> Links]
    BY <1>1 DEF DiskT
  <1>6. /\ c.d.ent[b] = Blank /\ c.d.fat[1][b] = Eoc
        /\ \A x \in Clusters : x # b => c.d.ent[x] = d.ent[x] /\ c.d.fat[1][x] = d.fat[1][x]
    BY <1>4, <1>5
  <1>7. Orphan(c.d, b)
    <2>1. ASSUME NEW k \in Slots PROVE ~IsName(At(c.d, <<b, k>>)) /\ At(c.d, <<b, k>>).long = ""
      <3> DEFINE y == At(c.d, <<b, k>>)
      <3>1. y = Blank[k]
        BY <1>6 DEF At
      <3> HIDE DEF y
      <3>2. y = NoEntry
        BY <3>1, EmptyTypes, Zenon
      <3>3. ~IsName(y) /\ y.long = ""
        BY <3>2, EmptyTypes, Zenon
      <3> QED BY <3>3, Zenon DEF y
    <2> QED BY <1>6, <2>1, Zenon DEF Orphan
  <1>8. ASSUME NEW m, LaidOut(d, m) PROVE Fresh(S, c, d, m, b)
    <2>1. DOMAIN m \subseteq Clusters /\ b \notin DOMAIN m /\ Root \in DOMAIN m
      BY <1>4, <1>8, Marked DEF Heads
    <2>2. AgreeOn(d, c.d, DOMAIN m)
      BY <1>6, <2>1 DEF AgreeOn
    <2> QED BY <1>1, <1>4, <1>7, <1>8, <2>1, <2>2 DEF Fresh
  <1> QED BY <1>4, <1>6, <1>8 DEF b, c, d

(* It gets a name.                                                         *)
LEMMA NamedOne ==
    ASSUME NEW S, NEW c, NEW d \in DiskT, NEW m, LaidOut(d, m), NEW b, Fresh(S, c, d, m, b),
           NEW dir, Dir(m, dir), NEW e \in EntryT, e.start = b, e.short \notin {".", ".."},
           NEW new, new = Entered(c, dir, e)
    PROVE  /\ ~Grows(d, dir) => Saves(new.c)
           /\ \E m2 : LaidOut(new.c.d, m2) /\ Extends(m2, m) /\ (new.ok => Heads(m2, b))
  <1>1. /\ c \in Copying(S) /\ LaidOut(c.d, m) /\ Saves(c) /\ b \in Clusters /\ b \notin DOMAIN m
        /\ Orphan(c.d, b) /\ AgreeOn(d, c.d, DOMAIN m)
    BY Zenon DEF Fresh
  <1>2. FreeEntry(c.d, dir) = FreeEntry(d, dir)
    <2>1. c.d \in DiskT
      BY <1>1 DEF Copying, CallT
    <2>2. ToSet(Chain(d, dir)) \subseteq DOMAIN m
      <3>1. CASE dir = 0
        <4>1. Chain(d, dir) = <<>>
          BY <3>1, ChainIs, Numbers DEF Follows, Links
        <4> QED BY <4>1 DEF ToSet
      <3>2. CASE dir # 0
        BY <3>2, ChainLaid DEF Dir
      <3> QED BY <3>1, <3>2
    <2>3. AgreeOn(d, c.d, ToSet(Chain(d, dir)))
      BY <1>1, <2>2 DEF AgreeOn
    <2> QED BY <2>1, <2>3, SamePlaces
  <1>3. /\ new.ok = FALSE => new.c = c
        /\ new.ok # FALSE => new.ok = TRUE /\ LaidMore(new.c.d, m, b)
        /\ Saves(c) /\ (dir = 0 \/ FreeEntry(c.d, dir) # NoPlace) => Saves(new.c)
    <2>1. EntersLaid(S, c, m, dir, b, new)
      BY <1>1, EnteredKeeps
    <2> QED BY <2>1, Zenon DEF EntersLaid
  <1>4. ~Grows(d, dir) => Saves(new.c)
    BY <1>1, <1>2, <1>3 DEF Grows
  <1>5. CASE new.ok = FALSE
    <2>1. Extends(m, m) /\ LaidOut(new.c.d, m)
      BY <1>1, <1>3, <1>5 DEF Extends
    <2> QED BY <1>4, <1>5, <2>1
  <1>6. CASE new.ok # FALSE
    BY <1>3, <1>4, <1>6 DEF LaidMore
  <1> QED BY <1>5, <1>6
LEMMA HeldMore ==
    ASSUME NEW m, NEW m2, Extends(m2, m), NEW fds, Holds(m, fds)
    PROVE  Holds(m2, fds)
  <1>1. ASSUME NEW fd \in Fds PROVE MayHold(m2, fds[fd])
    <2>1. MayHold(m, fds[fd])
      BY Zenon DEF Holds
    <2> QED BY <2>1 DEF MayHold, Extends
  <1> QED BY <1>1, Zenon DEF Holds

(* The new entry, of a file or of a directory.                             *)
IsFileEntry(x, name, first, e) == e = [x EXCEPT !.short = name, !.start = first]
IsDirEntry(x, name, first, e)  == e = [x EXCEPT !.short = name, !.start = first, !.dir = TRUE]
LEMMA EntryIs ==
    ASSUME NEW x \in EntryT, NEW name \in Names, NEW first \in Clusters \union {0}, NEW e,
           IsFileEntry(x, name, first, e) \/ IsDirEntry(x, name, first, e)
    PROVE  /\ e \in EntryT /\ e.start = first /\ e.short = name /\ e.long = x.long
           /\ e.size \in Nat /\ e.dir \in BOOLEAN
  <1>1. x = [short |-> x.short, long |-> x.long, start |-> x.start, size |-> x.size, dir |-> x.dir]
    BY DEF EntryT
  <1>2. \E k \in BOOLEAN :
           e = [short |-> name, long |-> x.long, start |-> first, size |-> x.size, dir |-> k]
    <2>1. x.dir \in BOOLEAN
      BY DEF EntryT
    <2>2. CASE IsFileEntry(x, name, first, e)
      BY <1>1, <2>1, <2>2 DEF IsFileEntry
    <2>3. CASE IsDirEntry(x, name, first, e)
      BY <1>1, <2>3 DEF IsDirEntry
    <2> QED BY <2>2, <2>3
  <1>3. x.long \in Names /\ x.size \in Nat
    BY DEF EntryT
  <1> QED BY <1>2, <1>3 DEF EntryT

LEMMA KeepsOpenNew ==
    ASSUME CInv, NEW path, IsPath(path), OpenNew(path)
    PROVE  CInv' /\ (LInv => LInv')
  <1> DEFINE d == disk
             dir == fat_dir_cluster(d, path)
             got == fat_alloc_cluster(Start, 0)
             b == got.b
             name == Short[Last(path)]
             e == [NoEntry EXCEPT !.short = name, !.start = b]
             c == got.c
             new == Entered(c, dir, e)
             gone == IF new.ok THEN {} ELSE {b}
             ordered == ~Grows(d, dir)
  <1>1. /\ b # 0 /\ Doing(ordered, new.c, gone)
        /\ fat_fds' = IF new.ok THEN Opened(e) ELSE fat_fds
    BY Zenon DEF OpenNew
  <1>2. Idle
    BY <1>1 DEF Doing
  <1>3. PICK S : Few(S) /\ Start \in Copying(S)
    BY <1>2, AtRest
  <1>4. d \in DiskT /\ Final = d /\ fat_fds \in [Fds -> FdT]
    BY <1>2, AtRest DEF CInv, Typed
  <1>5. /\ b \in Clusters /\ c \in Copying(S)
        /\ \A m : LaidOut(d, m) => Fresh(S, c, d, m, b)
    BY <1>1, <1>2, <1>3, TookOne
  <1>6. dir \in Clusters \union {0} /\ Last(path) \in DOMAIN Short
    BY <1>4, PathTyped
  <1>7. name \in Names /\ name \notin {".", ".."}
    BY <1>6, Usable, Zenon
  <1> HIDE DEF b, c, d, got, dir, name
  <1>8. /\ e \in EntryT /\ e.start = b /\ e.short \notin {".", ".."} /\ e.size \in Nat
        /\ e.dir \in BOOLEAN
    <2>1. NoEntry \in EntryT
      BY EmptyTypes, Zenon
    <2>2. IsFileEntry(NoEntry, name, b, e)
      BY DEF IsFileEntry
    <2> HIDE DEF e
    <2> QED BY <1>5, <1>7, <2>1, <2>2, EntryIs
  <1>9. /\ Opened(e) \in [Fds -> FdT]
        /\ \A m : Holds(m, fat_fds) /\ (b # 0 => Heads(m, b) /\ b # Root) => Holds(m, Opened(e))
    BY <1>5, <1>8, OpenedIs
  <1> HIDE DEF e
  <1>10. new.c \in Copying(S)
    <2> DEFINE p == FreeEntry(c.d, dir)
               g == fat_alloc_cluster(c, Last(Chain(c.d, dir)))
    <2>1. Enters(S, c, dir, e, new, p, g)
      BY <1>5, <1>6, <1>8, EnteredIs
    <2> QED BY <2>1, Zenon DEF Enters
  <1>11. ordered \in BOOLEAN
    BY DEF Grows
  <1>12. fat_fds' \in [Fds -> FdT]
    BY <1>1, <1>4, <1>9
  <1>13. ASSUME LInv
         PROVE  (ordered => Saves(new.c)) /\ \E m : LaidOut(new.c.d, m) /\ Holds(m, fat_fds')
    <2>1. PICK m : LaidOut(d, m) /\ Holds(m, fat_fds)
      BY <1>4, <1>13 DEF LInv, Settled
    <2>2. Fresh(S, c, d, m, b) /\ b # Root
      BY <1>5, <2>1 DEF Fresh
    <2>3. Dir(m, dir)
      <3> DEFINE p == fat_lookup(d, path)
      <3>1. PathLeads(m, path, dir, p, At(d, p))
        BY <1>4, <2>1, PathLaid DEF dir
      <3> QED BY <3>1, Zenon DEF PathLeads
    <2> HIDE DEF new
    <2>4. /\ ordered => Saves(new.c)
          /\ \E m2 : LaidOut(new.c.d, m2) /\ Extends(m2, m) /\ (new.ok => Heads(m2, b))
      BY <1>4, <1>8, <2>1, <2>2, <2>3, NamedOne DEF new
    <2>5. PICK m2 : LaidOut(new.c.d, m2) /\ Extends(m2, m) /\ (new.ok => Heads(m2, b))
      BY <2>4
    <2>6. Holds(m2, fat_fds)
      BY <2>1, <2>5, HeldMore
    <2>7. Holds(m2, fat_fds')
      BY <1>1, <1>9, <2>2, <2>5, <2>6
    <2> QED BY <2>4, <2>5, <2>7
  <1> HIDE DEF new, ordered, gone
  <1> QED BY <1>1, <1>3, <1>10, <1>11, <1>12, <1>13, Called
(* The entries that a new directory starts with.                           *)
IsDots(x, y, w) == w = [Blank EXCEPT ![1] = x, ![2] = y]
NoNames(w) == w \in [Slots -> EntryT] /\ \A k \in Slots : ~IsName(w[k]) /\ w[k].long = ""

IsDot(name) == name \in {".", ".."}

LEMMA DotNames ==
    ASSUME NEW name, IsDot(name)
    PROVE  name \in Names /\ \A e : e.short = name => ~IsName(e)
  <1>1. name \in Names
    BY Zenon DEF IsDot, Names
  <1>2. \A e : e.short = name => ~IsName(e)
    BY Zenon DEF IsDot, IsName
  <1> QED BY <1>1, <1>2

LEMMA Dots ==
    ASSUME NEW b \in Clusters \union {0}, NEW dir \in Clusters \union {0}, NEW x, NEW y, NEW w,
           NEW n1, NEW n2, IsDot(n1), IsDot(n2),
           IsDirEntry(NoEntry, n1, b, x), IsDirEntry(NoEntry, n2, dir, y), IsDots(x, y, w)
    PROVE  NoNames(w)
  <1>1. NoEntry \in EntryT /\ Blank \in [Slots -> EntryT] /\ NoEntry.long = ""
    BY EmptyTypes, Zenon
  <1>2. n1 \in Names /\ n2 \in Names
    BY DotNames
  <1> DEFINE z == NoEntry
             v == Blank
             u == [v EXCEPT ![1] = x]
  <1>3. /\ z \in EntryT /\ v \in [Slots -> EntryT]
        /\ IsDirEntry(z, n1, b, x) /\ IsDirEntry(z, n2, dir, y) /\ w = [u EXCEPT ![2] = y]
    BY <1>1, Zenon DEF IsDots
  <1> HIDE DEF z, v
  <1>4. x \in EntryT /\ x.short = n1 /\ x.long = z.long
    BY <1>2, <1>3, EntryIs
  <1>5. y \in EntryT /\ y.short = n2 /\ y.long = z.long
    <2>1. z \in EntryT /\ n2 \in Names /\ IsDirEntry(z, n2, dir, y)
      BY <1>2, <1>3
    <2> QED BY <2>1, EntryIs
  <1>6. u \in [Slots -> EntryT] /\ \A k \in Slots : u[k] = x \/ u[k] = v[k]
    BY <1>3, <1>4
  <1> HIDE DEF u
  <1>7. w \in [Slots -> EntryT] /\ \A k \in Slots : w[k] = y \/ w[k] = u[k]
    BY <1>3, <1>5, <1>6
  <1>8. ASSUME NEW k \in Slots PROVE ~IsName(w[k]) /\ w[k].long = ""
    <2>1. w[k] = x \/ w[k] = y \/ w[k] = v[k]
      BY <1>6, <1>7
    <2>2. ~IsName(x) /\ ~IsName(y)
      BY <1>4, <1>5, DotNames, Zenon
    <2>3. CASE w[k] = v[k]
      <3>1. w[k] = NoEntry
        BY <2>3, EmptyTypes, Zenon DEF v
      <3> QED BY <3>1, EmptyTypes, Zenon
    <2>4. z.long = ""
      BY <1>1, Zenon DEF z
    <2> QED BY <1>4, <1>5, <2>1, <2>2, <2>3, <2>4, Zenon
  <1> QED BY <1>7, <1>8, Zenon DEF NoNames

LEMMA FilledOne ==
    ASSUME NEW S, NEW c \in Copying(S), NEW b \in Clusters, NEW w, NoNames(w),
           NEW r, r = Put(c, [c.d EXCEPT !.ent[b] = w])
    PROVE  /\ r \in Copying(S) /\ r.log # <<>>
           /\ \A d, m : Fresh(S, c, d, m, b) => Fresh(S, r, d, m, b)
  <1> DEFINE d1 == c.d
             d2 == [d1 EXCEPT !.ent[b] = w]
  <1>1. d1 \in DiskT /\ w \in [Slots -> EntryT] /\ IsFilled(d1, b, w, d2)
    <2>1. d1 \in DiskT
      BY DEF Copying, CallT
    <2> HIDE DEF d1
    <2>2. IsFilled(d1, b, w, d2)
      BY Zenon DEF IsFilled
    <2> QED BY <2>1, <2>2, Zenon DEF NoNames
  <1>2. r = Put(c, d2)
    OBVIOUS
  <1> HIDE DEF d2, d1
  <1>3. ClusterIs(d1, b, w, d2)
    BY <1>1, ClusterFilled
  <1>4. d2 \in DiskT /\ d2.fat = d1.fat /\ d2.ent = [d1.ent EXCEPT ![b] = w]
    BY <1>3, Zenon DEF ClusterIs
  <1>5. r \in Copying(S) /\ r.d = d2 /\ r.log # <<>> /\ (Saves(c) /\ Safe(d2) => Saves(r))
    BY <1>2, <1>4, Written DEF d1
  <1>6. d1.ent \in [Clusters -> [Slots -> EntryT]]
    BY <1>1 DEF DiskT
  <1>7. d2.ent[b] = w /\ \A x \in Clusters : x # b => d2.ent[x] = d1.ent[x]
    BY <1>4, <1>6
  <1>8. ASSUME NEW d, NEW m, Fresh(S, c, d, m, b) PROVE Fresh(S, r, d, m, b)
    <2>1. /\ LaidOut(d1, m) /\ Saves(c) /\ b \notin DOMAIN m /\ b # Root /\ Orphan(d1, b)
          /\ AgreeOn(d, d1, DOMAIN m)
      BY <1>8, Zenon DEF Fresh, d1
    <2>2. \A x \in DOMAIN m : d2.fat[1][x] = d1.fat[1][x] /\ d2.ent[x] = d1.ent[x]
      <3>1. DOMAIN m \subseteq Clusters
        BY <2>1, Marked
      <3> QED BY <1>4, <1>7, <2>1, <3>1
    <2>3. LaidOut(d2, m)
      BY <2>1, <2>2, Unrelated
    <2>4. AgreeOn(d, d2, DOMAIN m)
      BY <2>1, <2>2 DEF AgreeOn
    <2>5. Orphan(d2, b)
      <3>1. d2.fat[1][b] = Eoc
        <4>1. d1.fat[1][b] = Eoc
          BY <2>1, Zenon DEF Orphan
        <4> QED BY <1>4, <4>1
      <3>2. ASSUME NEW k \in Slots PROVE ~IsName(At(d2, <<b, k>>)) /\ At(d2, <<b, k>>).long = ""
        <4>1. At(d2, <<b, k>>) = w[k]
          BY <1>7 DEF At
        <4> QED BY <4>1, Zenon DEF NoNames
      <3> QED BY <3>1, <3>2, Zenon DEF Orphan
    <2> QED BY <1>5, <2>1, <2>3, <2>4, <2>5 DEF Fresh, Safe
  <1> QED BY <1>5, <1>8
DirEntry(name, first) == [NoEntry EXCEPT !.short = name, !.start = first, !.dir = TRUE]
DotEntries(b, dir)    == [Blank EXCEPT ![1] = DirEntry(".", b), ![2] = DirEntry("..", dir)]

LEMMA DotsAre ==
    ASSUME NEW b \in Clusters \union {0}, NEW dir \in Clusters \union {0}
    PROVE  NoNames(DotEntries(b, dir))
  <1> DEFINE n1 == "."
             n2 == ".."
             x == DirEntry(n1, b)
             y == DirEntry(n2, dir)
             w == DotEntries(b, dir)
  <1>1. IsDot(n1) /\ IsDot(n2)
    BY Zenon DEF IsDot
  <1>2. IsDirEntry(NoEntry, n1, b, x) /\ IsDirEntry(NoEntry, n2, dir, y)
    BY Zenon DEF IsDirEntry, DirEntry
  <1>3. IsDots(x, y, w)
    BY Zenon DEF IsDots, DotEntries
  <1> HIDE DEF n1, n2, x, y, w
  <1>4. NoNames(w)
    BY <1>1, <1>2, <1>3, Dots
  <1> QED BY <1>4, Zenon DEF w

LEMMA KeepsMkdir ==
    ASSUME CInv, NEW path, IsPath(path), fat_mkdir(path)
    PROVE  CInv' /\ (LInv => LInv')
  <1> DEFINE d == disk
             dir == fat_dir_cluster(d, path)
             got == fat_alloc_cluster(Start, 0)
             b == got.b
             name == Short[Last(path)]
             w == DotEntries(b, dir)
             e == DirEntry(name, b)
             c == Put(got.c, [got.c.d EXCEPT !.ent[b] = w])
             new == Entered(c, dir, e)
             gone == IF new.ok THEN {} ELSE {b}
             ordered == ~Grows(d, dir)
  <1>1. /\ b # 0 /\ Doing(ordered, new.c, gone) /\ fat_fds' = fat_fds
    BY Zenon DEF fat_mkdir, DotEntries, DirEntry
  <1>2. Idle
    BY <1>1 DEF Doing
  <1>3. PICK S : Few(S) /\ Start \in Copying(S)
    BY <1>2, AtRest
  <1>4. d \in DiskT /\ Final = d /\ fat_fds \in [Fds -> FdT]
    BY <1>2, AtRest DEF CInv, Typed
  <1> DEFINE c0 == got.c
  <1>5. /\ b \in Clusters /\ c0 \in Copying(S)
        /\ \A m : LaidOut(d, m) => Fresh(S, c0, d, m, b)
    BY <1>1, <1>2, <1>3, TookOne
  <1>6. dir \in Clusters \union {0} /\ Last(path) \in DOMAIN Short
    BY <1>4, PathTyped
  <1>7. name \in Names /\ name \notin {".", ".."}
    BY <1>6, Usable, Zenon
  <1>8. NoNames(w)
    <2> HIDE DEF b, dir
    <2> QED BY <1>5, <1>6, DotsAre
  <1>9. c = Put(c0, [c0.d EXCEPT !.ent[b] = w])
    OBVIOUS
  <1> HIDE DEF b, c, c0, d, got, dir, name, w
  <1>10. /\ c \in Copying(S)
         /\ \A m : LaidOut(d, m) => Fresh(S, c, d, m, b)
    BY <1>5, <1>8, <1>9, FilledOne
  <1>11. e \in EntryT /\ e.start = b /\ e.short \notin {".", ".."} /\ e.size \in Nat
    <2>1. NoEntry \in EntryT
      BY EmptyTypes, Zenon
    <2>2. IsDirEntry(NoEntry, name, b, e)
      BY DEF IsDirEntry, DirEntry
    <2> HIDE DEF e
    <2> QED BY <1>5, <1>7, <2>1, <2>2, EntryIs
  <1> HIDE DEF e
  <1>12. new.c \in Copying(S)
    <2> DEFINE p == FreeEntry(c.d, dir)
               g == fat_alloc_cluster(c, Last(Chain(c.d, dir)))
    <2>1. Enters(S, c, dir, e, new, p, g)
      BY <1>6, <1>10, <1>11, EnteredIs
    <2> QED BY <2>1, Zenon DEF Enters
  <1>13. ordered \in BOOLEAN
    BY DEF Grows
  <1>14. fat_fds' \in [Fds -> FdT]
    BY <1>1, <1>4
  <1>15. ASSUME LInv
         PROVE  (ordered => Saves(new.c)) /\ \E m : LaidOut(new.c.d, m) /\ Holds(m, fat_fds')
    <2>1. PICK m : LaidOut(d, m) /\ Holds(m, fat_fds)
      BY <1>4, <1>15 DEF LInv, Settled
    <2>2. Fresh(S, c, d, m, b)
      BY <1>10, <2>1
    <2>3. Dir(m, dir)
      <3> DEFINE p == fat_lookup(d, path)
      <3>1. PathLeads(m, path, dir, p, At(d, p))
        BY <1>4, <2>1, PathLaid DEF dir
      <3> QED BY <3>1, Zenon DEF PathLeads
    <2> HIDE DEF new
    <2>4. /\ ordered => Saves(new.c)
          /\ \E m2 : LaidOut(new.c.d, m2) /\ Extends(m2, m) /\ (new.ok => Heads(m2, b))
      BY <1>4, <1>11, <2>1, <2>2, <2>3, NamedOne DEF new
    <2>5. PICK m2 : LaidOut(new.c.d, m2) /\ Extends(m2, m)
      BY <2>4
    <2>6. Holds(m2, fat_fds)
      BY <2>1, <2>5, HeldMore
    <2> QED BY <1>1, <2>4, <2>5, <2>6
  <1> HIDE DEF new, ordered, gone
  <1> QED BY <1>1, <1>3, <1>12, <1>13, <1>14, <1>15, Called
(* A cluster is written: the handle moves on, or a cluster is taken that   *)
(* nothing leads to.                                                       *)
IsWritten(f, v, g) ==
    g = [f EXCEPT !.position = @ + 1, !.cur = v,
                  !.size = IF f.position + 1 > @ THEN f.position + 1 ELSE @]

LEMMA WrittenIs ==
    ASSUME NEW f \in FdT, NEW v \in Links, NEW g, IsWritten(f, v, g)
    PROVE  /\ g \in FdT /\ g.start = f.start /\ g.used = f.used /\ g.cur = v
           /\ g.dir = f.dir
  <1>1. f = [used |-> f.used, start |-> f.start, cur |-> f.cur, position |-> f.position,
             size |-> f.size, dir |-> f.dir]
    BY DEF FdT
  <1> DEFINE size == IF f.position + 1 > f.size THEN f.position + 1 ELSE f.size
  <1>2. g = [used |-> f.used, start |-> f.start, cur |-> v, position |-> f.position + 1,
             size |-> size, dir |-> f.dir]
    BY <1>1 DEF IsWritten
  <1>3. /\ size \in Nat /\ f.position + 1 \in Nat /\ f.used \in BOOLEAN
        /\ f.start \in Clusters \union {0} /\ f.dir \in BOOLEAN
    BY DEF FdT
  <1> HIDE DEF size
  <1> QED BY <1>2, <1>3 DEF FdT

IsStarted(f, b, g) == g = [f EXCEPT !.start = IF @ = 0 THEN b ELSE @]
LEMMA StartedIs ==
    ASSUME NEW f \in FdT, NEW b \in Clusters, NEW g, IsStarted(f, b, g)
    PROVE  g \in FdT /\ g.position = f.position /\ g.size = f.size /\ g.dir = f.dir
  <1> DEFINE start == IF f.start = 0 THEN b ELSE f.start
  <1>1. f = [used |-> f.used, start |-> f.start, cur |-> f.cur, position |-> f.position,
             size |-> f.size, dir |-> f.dir]
    BY DEF FdT
  <1>2. g = [used |-> f.used, start |-> start, cur |-> f.cur, position |-> f.position,
             size |-> f.size, dir |-> f.dir]
    BY <1>1 DEF IsStarted
  <1>3. /\ start \in Clusters \union {0} /\ f.used \in BOOLEAN /\ f.cur \in Links
        /\ f.dir \in BOOLEAN
    BY DEF FdT
  <1> HIDE DEF start
  <1> QED BY <1>2, <1>3 DEF FdT

WriteT(S) == [c : Copying(S), f : FdT, full : BOOLEAN, gone : SUBSET Clusters]
Laid(m, w) == LaidOut(w.c.d, m) /\ Saves(w.c) /\ MayHold(m, w.f) /\ ~w.f.dir

LEMMA HeldNext ==
    ASSUME NEW d, NEW m, LaidOut(d, m), NEW f, NEW g, MayHold(m, f), f.cur \in Clusters,
           g.start = f.start, g.used = f.used, g.cur = d.fat[1][f.cur]
    PROVE  MayHold(m, g)
  <1> DEFINE x == f.cur
             y == g.cur
  <1>1. f.used /\ x \in DOMAIN m /\ m[x].first = f.start /\ f.start # Root
    BY DEF MayHold
  <1> HIDE DEF x, y
  <1>2. ASSUME y \in Clusters PROVE y \in DOMAIN m /\ m[y].first = g.start
    <2>1. y = d.fat[1][x] /\ y # Eoc
      BY <1>2, Numbers DEF x, y
    <2> QED BY <1>1, <2>1, Marked
  <1> QED BY <1>1, <1>2 DEF MayHold, y

(* A directory's cluster is overwritten, a file's is left out.             *)
Fill(c, dir, cluster, v) == IF dir THEN Put(c, [c.d EXCEPT !.ent[cluster] = v]) ELSE c

LEMMA FillIs ==
    ASSUME NEW S, NEW c \in Copying(S), NEW dir \in BOOLEAN, NEW x \in Clusters, NEW v \in Values
    PROVE  Fill(c, dir, x, v) \in Copying(S) /\ (~dir => Fill(c, dir, x, v) = c)
  <1>1. CASE dir
    <2> DEFINE d == c.d
               d2 == [d EXCEPT !.ent[x] = v]
               r == Put(c, d2)
    <2>1. d \in DiskT /\ v \in [Slots -> EntryT] /\ IsFilled(d, x, v, d2)
      <3>1. Values \subseteq [Slots -> EntryT]
        BY FatAssumption, Zenon
      <3> QED BY <3>1 DEF Copying, CallT, IsFilled
    <2>2. r = Put(c, d2) /\ r = Fill(c, dir, x, v)
      BY <1>1 DEF Fill
    <2> HIDE DEF d, d2, r
    <2>3. ClusterIs(d, x, v, d2)
      BY <2>1, ClusterFilled
    <2>5. d2 \in DiskT /\ d2.fat = c.d.fat
      BY <2>3 DEF ClusterIs, d
    <2>4. r \in Copying(S)
      BY <2>2, <2>5, Written
    <2> QED BY <1>1, <2>2, <2>4
  <1>2. CASE ~dir
    BY <1>2 DEF Fill
  <1> QED BY <1>1, <1>2

LEMMA WroteCluster ==
    ASSUME NEW v0 \in Values, NEW S, NEW w \in WriteT(S), NEW r, r = WriteCluster(w, v0)
    PROVE  r \in WriteT(S) /\ \A m : Laid(m, w) => Laid(m, r)
  <1> DEFINE f == w.f
             c == w.c
             prev == IF f.start = 0 THEN 0 ELSE f.cur
             got == fat_alloc_cluster(c, prev)
             b == got.b
             c2 == got.c
             f1 == [f EXCEPT !.start = IF @ = 0 THEN b ELSE @]
  <1>1. CASE w.full
    <2>1. r = w
      BY <1>1 DEF WriteCluster
    <2> QED BY <2>1
  <1>2. CASE ~w.full /\ f.cur \in Clusters
    <2> DEFINE v == c.d.fat[1][f.cur]
               g == r.f
               y == Fill(c, f.dir, f.cur, v0)
    <2>1. r = [w EXCEPT !.c = y, !.f = [f EXCEPT !.position = @ + 1, !.cur = v,
                  !.size = IF f.position + 1 > @ THEN f.position + 1 ELSE @]]
      BY <1>2, Zenon DEF WriteCluster, Fill
    <2>2. f \in FdT /\ c \in Copying(S) /\ w.gone \in SUBSET Clusters
      BY DEF WriteT
    <2>8. y \in Copying(S) /\ (~f.dir => y = c)
      <3>1. f.dir \in BOOLEAN
        BY <2>2 DEF FdT
      <3> HIDE DEF c, f, y
      <3> QED BY <1>2, <2>2, <3>1, FillIs DEF f, y
    <2> HIDE DEF y
    <2>3. v \in Links
      BY <1>2, <2>2 DEF Copying, CallT, DiskT
    <2>4. IsWritten(f, v, g) /\ r.c = y /\ r.full = w.full /\ r.gone = w.gone
          /\ r = [c |-> r.c, f |-> r.f, full |-> r.full, gone |-> r.gone]
      BY <2>1 DEF IsWritten, WriteT
    <2> HIDE DEF f, c, v, g
    <2>5. g \in FdT /\ g.start = f.start /\ g.used = f.used /\ g.cur = v /\ g.dir = f.dir
      BY <2>2, <2>3, <2>4, WrittenIs
    <2>6. r \in WriteT(S)
      BY <1>2, <2>2, <2>4, <2>5, <2>8 DEF WriteT, g
    <2>7. ASSUME NEW m, Laid(m, w) PROVE Laid(m, r)
      <3>1. LaidOut(c.d, m) /\ Saves(c) /\ MayHold(m, f) /\ ~f.dir
        BY <2>7 DEF Laid, c, f
      <3>2. MayHold(m, g)
        BY <1>2, <2>5, <3>1, HeldNext DEF v
      <3> QED BY <2>4, <2>5, <2>8, <3>1, <3>2 DEF Laid, g
    <2> QED BY <2>6, <2>7
  <1>3. CASE ~w.full /\ f.cur \notin Clusters
    <2>1. r = IF b = 0 THEN [w EXCEPT !.full = TRUE]
              ELSE [c |-> Fill(c2, f.dir, b, v0), full |-> FALSE, gone |-> w.gone \union {b},
                    f |-> [f1 EXCEPT !.position = @ + 1, !.cur = c2.d.fat[1][b],
                              !.size = IF f.position + 1 > @ THEN f.position + 1 ELSE @]]
      BY <1>3, Zenon DEF WriteCluster, Fill
    <2>2. f \in FdT /\ c \in Copying(S) /\ w.gone \in SUBSET Clusters
      BY DEF WriteT
    <2>3. prev \in Links /\ prev \notin Clusters
      BY <1>3, <2>2, Numbers DEF FdT, Links
    <2>4. CASE b = 0
      <3>1. r = [w EXCEPT !.full = TRUE]
        BY <2>1, <2>4, Zenon
      <3>2. r \in WriteT(S) /\ r.c = w.c /\ r.f = w.f
        BY <3>1 DEF WriteT
      <3> QED BY <3>2 DEF Laid
    <2>5. CASE b # 0
      <3> DEFINE v == c2.d.fat[1][b]
                 g == r.f
                 y == Fill(c2, f.dir, b, v0)
      <3>1. r = [c |-> y, full |-> FALSE, gone |-> w.gone \union {b},
                 f |-> [f1 EXCEPT !.position = @ + 1, !.cur = v,
                              !.size = IF f.position + 1 > @ THEN f.position + 1 ELSE @]]
        BY <2>1, <2>5, Zenon
      <3>2. IsStarted(f, b, f1)
        BY Zenon DEF IsStarted
      <3> HIDE DEF f1, v, y
      <3>3. /\ g = [f1 EXCEPT !.position = @ + 1, !.cur = v,
                              !.size = IF f.position + 1 > @ THEN f.position + 1 ELSE @]
            /\ r.c = y /\ r.full = FALSE /\ r.gone = w.gone \union {b}
            /\ r = [c |-> r.c, full |-> r.full, gone |-> r.gone, f |-> r.f]
        BY <3>1
      <3> HIDE DEF f, c, prev, g
      <3>4. IsAllocated(S, c, prev, got)
        BY <2>2, <2>3, Allocated
      <3>5. /\ b \in Clusters /\ c2 \in Copying(S)
            /\ c2.d.fat[1] = [c.d.fat[1] EXCEPT ![b] = Eoc]
            /\ \A m : LaidOut(c.d, m) => LaidOut(c2.d, m) /\ (Saves(c) => Saves(c2))
        BY <2>3, <2>5, <3>4, Zenon DEF IsAllocated
      <3> HIDE DEF b, c2
      <3>12. y \in Copying(S) /\ (~f.dir => y = c2)
        <4>1. f.dir \in BOOLEAN
          BY <2>2 DEF FdT
        <4> QED BY <3>5, <4>1, FillIs DEF y
      <3>6. v = Eoc
        <4>1. c.d.fat[1] \in [Clusters -> Links]
          BY <2>2 DEF Copying, CallT, DiskT
        <4> QED BY <3>5, <4>1 DEF v
      <3>7. f1 \in FdT /\ f1.position = f.position /\ f1.size = f.size /\ f1.dir = f.dir
        BY <2>2, <3>2, <3>5, StartedIs
      <3>8. IsWritten(f1, v, g)
        BY <3>3, <3>7 DEF IsWritten
      <3>9. g \in FdT /\ g.cur = Eoc /\ g.dir = f.dir
        BY <3>6, <3>7, <3>8, WrittenIs DEF Links
      <3>10. r \in WriteT(S)
        BY <2>2, <3>3, <3>5, <3>9, <3>12 DEF WriteT, g
      <3>11. ASSUME NEW m, Laid(m, w) PROVE Laid(m, r)
        <4>1. LaidOut(c.d, m) /\ Saves(c) /\ ~f.dir
          BY <3>11 DEF Laid, c, f
        <4>2. MayHold(m, g)
          BY <3>9, Numbers DEF MayHold
        <4> QED BY <3>3, <3>5, <3>9, <3>12, <4>1, <4>2 DEF Laid, g
      <3> QED BY <3>10, <3>11
    <2> QED BY <2>4, <2>5
  <1> QED BY <1>1, <1>2, <1>3
LEMMA KeepsWrite ==
    ASSUME CInv, NEW fd \in Fds, NEW n \in Counts, NEW v \in Values,
           fat_write(fd, n, v)
    PROVE  CInv' /\ (WriteDirs = FALSE /\ LInv => LInv')
  <1> DEFINE x == [c |-> Start, f |-> fat_fds[fd], full |-> FALSE, gone |-> {}]
             y == WriteOn(x, n, v)
             d == disk
  <1>1. /\ fat_fds[fd].used /\ Doing(TRUE, y.c, y.gone)
        /\ fat_fds' = [fat_fds EXCEPT ![fd] = y.f]
        /\ WriteDirs \/ ~fat_fds[fd].dir
    BY Zenon DEF fat_write, WriteOn
  <1>2. Idle
    BY <1>1 DEF Doing
  <1>3. PICK S : Few(S) /\ Start \in Copying(S)
    BY <1>2, AtRest
  <1>4. /\ d \in DiskT /\ Final = d /\ Start.d = d /\ Saves(Start)
        /\ fat_fds \in [Fds -> FdT] /\ fat_fds[fd] \in FdT
    BY <1>2, AtRest DEF CInv, Typed
  <1>5. n \in Nat
    <2>1. Counts \subseteq Nat \ {0}
      BY FatAssumption, Zenon
    <2> QED BY <2>1
  <1>6. x \in WriteT(S) /\ x.c = Start /\ x.f = fat_fds[fd]
    BY <1>3, <1>4 DEF WriteT
  <1> HIDE DEF x, d
  <1>7. y \in WriteT(S)
    <2> DEFINE F == WriteT(S)
    <2>1. \A w \in F : WriteCluster(w, v) \in F
      BY WroteCluster
    <2> HIDE DEF F
    <2> QED BY <1>5, <1>6, <2>1, WriteEach DEF F
  <1>8. y.c \in Copying(S) /\ y.f \in FdT
    BY <1>7 DEF WriteT
  <1>9. ASSUME WriteDirs = FALSE, LInv
        PROVE  Saves(y.c) /\ \E m : LaidOut(y.c.d, m) /\ Holds(m, fat_fds')
    <2>1. PICK m : LaidOut(d, m) /\ Holds(m, fat_fds)
      BY <1>4, <1>9 DEF LInv, Settled
    <2> DEFINE F == {w \in WriteT(S) : Laid(m, w)}
    <2>2. Laid(m, x)
      <3>1. MayHold(m, fat_fds[fd])
        BY <2>1 DEF Holds
      <3> QED BY <1>1, <1>4, <1>6, <1>9, <2>1, <3>1 DEF Laid
    <2>3. \A w \in F : WriteCluster(w, v) \in F
      BY WroteCluster
    <2>4. x \in F
      BY <1>6, <2>2
    <2>5. y \in F
      <3> HIDE DEF F
      <3> QED BY <1>5, <2>3, <2>4, WriteEach
    <2>6. LaidOut(y.c.d, m) /\ Saves(y.c) /\ MayHold(m, y.f)
      BY <2>5 DEF Laid
    <2> HIDE DEF y
    <2>7. \A k \in Fds : fat_fds'[k] = y.f \/ fat_fds'[k] = fat_fds[k]
      BY <1>1, <1>4
    <2>8. Holds(m, fat_fds')
      BY <2>1, <2>6, <2>7 DEF Holds
    <2> QED BY <2>6, <2>8
  <1> HIDE DEF y
  <1>10. fat_fds' \in [Fds -> FdT]
    BY <1>1, <1>4, <1>8
  <1> QED BY <1>1, <1>3, <1>8, <1>9, <1>10, Called
(* An entry is deleted.                                                    *)
IsDeleted(d, x, k, d2) == d2 = [d EXCEPT !.ent[x][k].short = Deleted]

LEMMA DeletedIs ==
    ASSUME NEW d \in DiskT, NEW q \in Clusters \X Slots, NEW d2, IsDeleted(d, q[1], q[2], d2)
    PROVE  /\ d2 \in DiskT /\ d2.fat = d.fat /\ At(d2, q).short = Deleted
           /\ \A p \in Clusters \X Slots : p # q => At(d2, p) = At(d, p)
  <1> DEFINE x == q[1]
             k == q[2]
             a == d.ent
             e == a[x][k]
             e2 == [e EXCEPT !.short = Deleted]
             row == [a[x] EXCEPT ![k] = e2]
  <1>1. /\ x \in Clusters /\ k \in Slots /\ d.fat \in [1 .. 2 -> [Clusters -> Links]]
        /\ a \in [Clusters -> [Slots -> EntryT]] /\ d = [fat |-> d.fat, ent |-> a]
    BY DEF DiskT
  <1>2. Deleted \in Names
    BY Zenon DEF Names
  <1>3. e2 \in EntryT /\ e2.short = Deleted
    <2>1. e \in EntryT
      BY <1>1
    <2> HIDE DEF e
    <2> QED BY <1>2, <2>1 DEF EntryT
  <1>4. d2 = [d EXCEPT !.ent = [a EXCEPT ![x] = row]]
    BY <1>1 DEF IsDeleted
  <1> HIDE DEF e, e2, x, k
  <1>5. row \in [Slots -> EntryT] /\ row[k] = e2 /\ \A j \in Slots : j # k => row[j] = a[x][j]
    BY <1>1, <1>3
  <1> HIDE DEF a, row
  <1>6. d2.fat = d.fat /\ d2.ent = [a EXCEPT ![x] = row] /\ d2 = [fat |-> d2.fat, ent |-> d2.ent]
    BY <1>1, <1>4
  <1>7. d2 \in DiskT
    BY <1>1, <1>5, <1>6 DEF DiskT
  <1>8. At(d2, q).short = Deleted
    BY <1>1, <1>3, <1>5, <1>6 DEF At, x, k
  <1>9. ASSUME NEW p \in Clusters \X Slots, p # q PROVE At(d2, p) = At(d, p)
    <2>1. p[1] \in Clusters /\ p[2] \in Slots /\ (p[1] = x => p[2] # k)
      BY <1>9 DEF x, k
    <2>2. d2.ent[p[1]][p[2]] = a[p[1]][p[2]]
      BY <1>1, <1>5, <1>6, <2>1
    <2> QED BY <2>2 DEF At, a
  <1> QED BY <1>6, <1>7, <1>8, <1>9

LEMMA DeletedOne ==
    ASSUME NEW S, NEW c \in Copying(S), NEW q \in Clusters \X Slots,
           NEW r, r = Put(c, [c.d EXCEPT !.ent[q[1]][q[2]].short = Deleted])
    PROVE  /\ r \in Copying(S) /\ IsDeleted(c.d, q[1], q[2], r.d)
  <1> DEFINE d1 == c.d
             d2 == [d1 EXCEPT !.ent[q[1]][q[2]].short = Deleted]
  <1>1. d1 \in DiskT
    BY DEF Copying, CallT
  <1>2. r = Put(c, d2) /\ IsDeleted(d1, q[1], q[2], d2)
    BY DEF IsDeleted
  <1> HIDE DEF d1, d2
  <1>3. d2 \in DiskT /\ d2.fat = d1.fat
    BY <1>1, <1>2, DeletedIs
  <1>4. r \in Copying(S) /\ r.d = d2
    BY <1>2, <1>3, Written DEF d1
  <1> QED BY <1>2, <1>4 DEF d1

(* The first place of some entries is the first of fewer, if its own is    *)
(* among them.                                                             *)
LEMMA SameFirst ==
    ASSUME NEW d \in DiskT, NEW dir \in Links, NEW W, NEW V \in SUBSET W,
           NEW p, p = FirstPlace(d, dir, W), p # NoPlace, At(d, p) \in V
    PROVE  FirstPlace(d, dir, V) = p
  <1> DEFINE q == FirstPlace(d, dir, V)
             places == Places(d, dir)
  <1>1. PICK n \in DOMAIN places :
           p = places[n] /\ \A k \in DOMAIN places : At(d, places[k]) \in W => n <= k
    BY FirstIs
  <1>2. \/ q = NoPlace /\ \A k \in DOMAIN places : At(d, places[k]) \notin V
        \/ /\ At(d, q) \in V
           /\ \E n2 \in DOMAIN places :
                 q = places[n2] /\ \A k \in DOMAIN places : At(d, places[k]) \in V => n2 <= k
    BY FirstIs
  <1>3. DOMAIN places \in SUBSET Nat
    BY PlacesAre
  <1> HIDE DEF q, places
  <1>4. PICK n2 \in DOMAIN places :
           /\ q = places[n2] /\ At(d, q) \in V
           /\ \A k \in DOMAIN places : At(d, places[k]) \in V => n2 <= k
    BY <1>1, <1>2
  <1>5. n2 <= n /\ n <= n2
    BY <1>1, <1>4
  <1>6. n = n2
    BY <1>3, <1>5
  <1> QED BY <1>1, <1>4, <1>6 DEF q
Removing == RemoveOpen = FALSE /\ RemoveLong = FALSE

(* What a remove frees is the chain of one name, below the directory that  *)
(* its path goes through: so the path still leads there, and what the      *)
(* second search finds is what the first found.                            *)
LEMMA FreedApart ==
    ASSUME NEW d \in DiskT, NEW d1 \in DiskT, NEW m, LaidOut(d, m), NEW path, IsPath(path),
           NEW s \in Links, Dir(m, s), s # 0 => m[s].depth = Len(path),
           d1.ent = d.ent, \A x \in Clusters \ ToSet(Chain(d, s)) : d1.fat[1][x] = d.fat[1][x]
    PROVE  /\ \A x \in DOMAIN m : m[x].first # s \/ m[x].depth # Len(path)
                                     => d1.fat[1][x] = d.fat[1][x] /\ d1.ent[x] = d.ent[x]
           /\ fat_dir_cluster(d1, path) = fat_dir_cluster(d, path)
  <1>1. DOMAIN m \subseteq Clusters
    BY Marked
  <1>2. ASSUME NEW x \in ToSet(Chain(d, s)) PROVE m[x].first = s /\ m[x].depth = Len(path)
    <2>1. Chain(d, s) # <<>>
      BY <1>2 DEF ToSet
    <2>2. s # 0
      <3>1. Follows(Chain(d, s), d, s)
        BY ChainIs
      <3> QED BY <2>1, <3>1, Numbers DEF Follows
    <2>3. Heads(m, s)
      BY <2>2 DEF Dir
    <2>4. Within(d, m, s) /\ Chain(d, s) \in Seq(Clusters)
      BY <2>3, ChainLaid DEF Follows
    <2>5. PICK n \in 1 .. Len(Chain(d, s)) : x = Chain(d, s)[n]
      BY <1>2, <2>4 DEF ToSet
    <2>6. m[x].first = s /\ m[x].depth = m[s].depth
      BY <2>4, <2>5 DEF Within
    <2> QED BY <2>2, <2>6
  <1>3. \A x \in DOMAIN m : m[x].first # s \/ m[x].depth # Len(path)
                               => d1.fat[1][x] = d.fat[1][x] /\ d1.ent[x] = d.ent[x]
    BY <1>1, <1>2
  <1>4. AgreeOn(d, d1, {x \in DOMAIN m : m[x].depth < Len(path)})
    <2>1. Len(path) \in Nat
      BY DEF IsPath
    <2>2. \A x \in DOMAIN m : m[x].depth \in Nat
      BY Marked DEF MarkT
    <2> QED BY <1>3, <2>1, <2>2 DEF AgreeOn
  <1>5. fat_dir_cluster(d1, path) = fat_dir_cluster(d, path)
    BY <1>4, WalkSame DEF IsPath
  <1> QED BY <1>3, <1>5

LEMMA FoundAgain ==
    ASSUME NEW d \in DiskT, NEW d1 \in DiskT, NEW m, LaidOut(d, m), NEW dir, Dir(m, dir),
           NEW name \in DOMAIN Short, NEW p, p = Find(d, dir, name), p # NoPlace,
           At(d, p).short = name, AgreeOn(d, d1, ToSet(Chain(d, dir)))
    PROVE  FirstPlace(d1, dir, {x \in Entries(d1, dir) : x.short = name}) = p
  <1> DEFINE W == {e \in Entries(d, dir) : InUse(e) /\ name \in {e.long, e.short}}
             V == {x \in Entries(d, dir) : x.short = name}
  <1>1. dir \in Links
    BY Marked DEF Dir, Heads, Links
  <1>2. /\ Entries(d1, dir) = Entries(d, dir)
        /\ \A U : FirstPlace(d1, dir, U) = FirstPlace(d, dir, U)
    BY SamePlaces
  <1>3. V \in SUBSET W
    <2>1. name \notin {"", Deleted}
      BY Usable, Zenon
    <2> QED BY <2>1, Zenon DEF InUse
  <1>4. p = FirstPlace(d, dir, W)
    BY DEF Find
  <1>5. At(d, p) \in V
    <2> HIDE DEF W, V
    <2>1. At(d, p) \in W
      BY <1>1, <1>4, FirstIs
    <2> QED BY <2>1, Zenon DEF W, V
  <1>6. FirstPlace(d, dir, V) = p
    <2> HIDE DEF W, V
    <2> QED BY <1>1, <1>3, <1>4, <1>5, SameFirst
  <1> QED BY <1>2, <1>6
LEMMA KeepsRemove ==
    ASSUME CInv, NEW path, IsPath(path), fat_remove(path)
    PROVE  CInv' /\ (Removing /\ LInv => LInv')
  <1> DEFINE d == disk
             p == fat_lookup(d, path)
             e == At(d, p)
             s == e.start
             c1 == fat_free_chain(Start, s)
             d1 == c1.d
             dir == fat_dir_cluster(d1, path)
             name == Last(path)
             q == FirstPlace(d1, dir, {x \in Entries(d1, dir) : x.short = name})
             c2 == Put(c1, [c1.d EXCEPT !.ent[q[1]][q[2]].short = Deleted])
             c == IF q = NoPlace THEN c1 ELSE c2
             ordered == FALSE
             gone == IF e.dir THEN UNION {ClustersOf(d, x) : x \in EntriesOf(d, s)} ELSE {}
  <1>1. /\ p # NoPlace /\ (RemoveOpen \/ ~IsOpen(s)) /\ (RemoveLong \/ e.short = name)
        /\ Doing(ordered, c, gone) /\ fat_fds' = fat_fds
    BY Zenon DEF fat_remove
  <1>2. Idle
    BY <1>1, Zenon DEF Doing
  <1>3. PICK S : Few(S) /\ Start \in Copying(S)
    BY <1>2, AtRest
  <1>4. d \in DiskT /\ Final = d /\ Start.d = d /\ fat_fds \in [Fds -> FdT]
    BY <1>2, AtRest DEF CInv, Typed
  <1> HIDE DEF d, c, gone, ordered
  <1>5. p \in Clusters \X Slots /\ e \in EntryT /\ name \in DOMAIN Short
    BY <1>1, <1>4, PathTyped
  <1> HIDE DEF p, e
  <1>6. s \in Links
    BY <1>5 DEF EntryT, Links
  <1> HIDE DEF s
  <1>7. /\ c1 \in Copying(S) /\ d1.ent = d.ent
        /\ \A x \in Clusters \ ToSet(Chain(d, s)) : d1.fat[1][x] = d.fat[1][x]
    <2>1. c1 \in Freed(Start, S, Chain(Start.d, s))
      BY <1>3, <1>6, ChainFreed
    <2> QED BY <1>4, <2>1 DEF Freed
  <1>8. d1 \in DiskT
    BY <1>7 DEF Copying, CallT
  <1> HIDE DEF c1, d1
  <1>9. dir \in Links
    BY <1>8, PathTyped
  <1>10. q = NoPlace \/ q \in Clusters \X Slots
    <2> HIDE DEF dir
    <2> QED BY <1>8, <1>9, FirstIs
  <1> HIDE DEF q, dir, c2
  <1>11. q # NoPlace => c2 \in Copying(S) /\ IsDeleted(d1, q[1], q[2], c2.d)
    BY <1>7, <1>10, DeletedOne DEF c2, d1
  <1>12. c \in Copying(S)
    BY <1>7, <1>11 DEF c
  <1>13. fat_fds' \in [Fds -> FdT]
    BY <1>1, <1>4
  <1>14. ASSUME Removing, LInv PROVE \E m : LaidOut(c.d, m) /\ Holds(m, fat_fds')
    <2>1. PICK m : LaidOut(d, m) /\ Holds(m, fat_fds)
      BY <1>4, <1>14 DEF LInv, Settled
    <2>2. ~IsOpen(s) /\ e.short = name
      BY <1>1, <1>14, Zenon DEF Removing
    <2> DEFINE dir0 == fat_dir_cluster(d, path)
    <2>3. PathLeads(m, path, dir0, p, e)
      BY <1>4, <2>1, PathLaid DEF p, e
    <2>4. /\ Dir(m, dir0) /\ dir0 # 0 /\ Heads(m, dir0) /\ m[dir0].depth = Len(path) - 1
          /\ p \in (DOMAIN m) \X Slots /\ Dir(m, s)
          /\ s # 0 => m[s].entry = p /\ m[s].depth = Len(path) /\ s # Root
      <3>1. /\ Dir(m, dir0) /\ (dir0 # 0 => m[dir0].depth = Len(path) - 1) /\ Heads(m, dir0)
            /\ p \in (DOMAIN m) \X Slots /\ Dir(m, s)
            /\ s # 0 => m[s].entry = p /\ m[s].depth = Len(path) /\ s # Root
        BY <1>1, <2>3, Zenon DEF PathLeads, s
      <3>2. dir0 # 0
        BY <2>1, <3>1, Marked, Numbers DEF Heads
      <3> QED BY <3>1, <3>2
    <2>5. /\ \A x \in DOMAIN m : m[x].first # s \/ m[x].depth # Len(path)
                                     => d1.fat[1][x] = d.fat[1][x] /\ d1.ent[x] = d.ent[x]
          /\ dir = dir0
      BY <1>4, <1>6, <1>7, <1>8, <2>1, <2>4, FreedApart DEF dir
    <2> HIDE DEF dir0
    <2>6. AgreeOn(d, d1, ToSet(Chain(d, dir0)))
      <3>1. ASSUME NEW x \in ToSet(Chain(d, dir0))
            PROVE  x \in DOMAIN m /\ m[x].depth = Len(path) - 1
        <4>1. Within(d, m, dir0) /\ Chain(d, dir0) \in Seq(Clusters)
          BY <1>4, <2>1, <2>4, ChainLaid DEF Follows
        <4>2. PICK n \in 1 .. Len(Chain(d, dir0)) : x = Chain(d, dir0)[n]
          BY <3>1, <4>1 DEF ToSet
        <4> QED BY <2>4, <4>1, <4>2 DEF Within
      <3>2. Len(path) - 1 # Len(path)
        BY DEF IsPath
      <3> QED BY <2>5, <3>1, <3>2 DEF AgreeOn
    <2>7. p = Find(d, dir0, name)
      BY <1>4, PathTyped DEF p, dir0
    <2>8. q = p
      <3>1. FirstPlace(d1, dir0, {x \in Entries(d1, dir0) : x.short = name}) = p
        BY <1>1, <1>4, <1>5, <1>8, <2>1, <2>2, <2>4, <2>6, <2>7, FoundAgain DEF e
      <3> QED BY <2>5, <3>1, Zenon DEF q
    <2>9. c = c2 /\ IsDeleted(d1, p[1], p[2], c2.d)
      BY <1>1, <1>11, <2>8 DEF c
    <2> DEFINE d2 == c2.d
    <2>10. /\ d2.fat = d1.fat /\ At(d2, p).short = Deleted
           /\ \A x \in Clusters \X Slots : x # p => At(d2, x) = At(d1, x)
      BY <1>5, <1>8, <2>9, DeletedIs
    <2> HIDE DEF d2
    <2>11. PICK m2 : /\ LaidOut(d2, m2)
                     /\ \A x \in DOMAIN m : m[x].first # s => x \in DOMAIN m2 /\ m2[x] = m[x]
      <3>1. s # Root
        BY <2>4, Numbers
      <3>2. \A x \in DOMAIN m : m[x].first # s => d2.fat[1][x] = d.fat[1][x]
        BY <2>5, <2>10
      <3>3. \A x \in (DOMAIN m) \X Slots : x # p => At(d2, x) = At(d, x)
        <4>1. DOMAIN m \subseteq Clusters
          BY <2>1, Marked
        <4> QED BY <1>7, <2>10, <4>1 DEF At
      <3>4. Drops(d, m, p, s, d2)
        BY <2>4, <2>10, <3>2, <3>3, Zenon DEF Drops
      <3> QED BY <2>1, <2>4, <3>1, <3>4, Dropped
    <2>12. Holds(m2, fat_fds)
      <3>1. ASSUME NEW fd \in Fds PROVE MayHold(m2, fat_fds[fd])
        <4> DEFINE f == fat_fds[fd]
        <4>1. MayHold(m, f) /\ (f.used => f.start # s)
          BY <2>1, <2>2 DEF Holds, IsOpen
        <4> HIDE DEF f
        <4>2. MayHold(m2, f)
          BY <2>11, <4>1 DEF MayHold
        <4> QED BY <4>2 DEF f
      <3> QED BY <3>1 DEF Holds
    <2> QED BY <1>1, <2>9, <2>11, <2>12 DEF d2
  <1>15. ordered \in BOOLEAN /\ ~ordered
    BY DEF ordered
  <1> QED BY <1>1, <1>3, <1>12, <1>13, <1>14, <1>15, Called
-----------------------------------------------------------------------------
(* Every step, and the theorems.  Programs that are kind only read         *)
(* directories, and remove files by their short names and not while they   *)
(* are open; and the power does not fail during a remove or while a        *)
(* directory grows.                                                        *)
Kind == WriteDirs = FALSE /\ Removing /\ CutAnywhere = FALSE

LEMMA NextInv ==
    ASSUME CInv, [Next]_vars
    PROVE  CInv' /\ (Kind /\ LInv => LInv')
  <1>0. \A paths : ThroughDirs(paths) \subseteq paths
    BY DEF ThroughDirs
  <1>1. CASE \E path \in ThroughDirs(FilePaths \union DirPaths) : OpenExisting(path)
    BY <1>0, <1>1, Paths, KeepsOpenExisting
  <1>9. CASE \E path \in ThroughDirs(FilePaths) : OpenNew(path)
    BY <1>0, <1>9, Paths, KeepsOpenNew
  <1>2. CASE \E path \in ThroughDirs(DirPaths) : fat_mkdir(path)
    BY <1>0, <1>2, Paths, KeepsMkdir
  <1>3. CASE \E path \in ThroughDirs(FilePaths \union DirPaths) : fat_remove(path)
    BY <1>0, <1>3, Paths, KeepsRemove DEF Kind
  <1>4. CASE \E fd \in Fds : fat_close(fd)
    BY <1>4, KeepsClose
  <1>5. CASE \E fd \in Fds, n \in Counts : fat_read(fd, n)
    BY <1>5, KeepsRead
  <1>10. CASE \E fd \in Fds, n \in Counts, v \in Values : fat_write(fd, n, v)
    BY <1>10, KeepsWrite DEF Kind
  <1>6. CASE DiskWrite
    BY <1>6, KeepsDiskWrite
  <1>7. CASE PowerCut
    BY <1>7, KeepsPowerCut, Zenon DEF Kind
  <1>8. CASE UNCHANGED vars
    <2>1. UNCHANGED <<disk, pending, safe, cuts>> /\ fat_fds' = fat_fds
      BY <1>8 DEF vars
    <2>2. fat_fds' \in [Fds -> FdT]
      BY <2>1 DEF CInv, Typed
    <2>3. LInv => \E m : LaidOut(Final, m) /\ Holds(m, fat_fds')
      BY <2>1 DEF LInv, Settled
    <2> QED BY <2>1, <2>2, <2>3, OnlyHandles
  <1> QED BY <1>1, <1>2, <1>3, <1>4, <1>5, <1>6, <1>7, <1>8, <1>9, <1>10
    DEF Next

(* The first part of the inductive invariant: whatever calls are made and  *)
(* wherever the power fails, the disk and every image on its way have the  *)
(* form that the driver reads and writes, and the table's copies differ in *)
(* few entries.                                                            *)
THEOREM DisksAreTyped == Spec => []CInv
  <1>1. Init => CInv
    BY InitInv
  <1>2. CInv /\ [Next]_vars => CInv'
    BY NextInv, Zenon
  <1> QED BY <1>1, <1>2, PTL DEF Spec

(* The second, for kind programs: the disk as it will be after the call is *)
(* laid out, with every handle at a cluster of its own file or directory,  *)
(* and so is each image after which the power may fail.                    *)
THEOREM DisksAreLaidOut ==
    ASSUME Kind, \A d \in Images : Safe(d)
    PROVE  Spec => []LInv
  <1>1. Init => CInv /\ LInv
    BY InitInv, Zenon
  <1>2. CInv /\ LInv /\ [Next]_vars => CInv' /\ LInv'
    BY NextInv, Zenon
  <1> QED BY <1>1, <1>2, PTL DEF Spec

(* However many clusters, calls and power cuts there are, and whatever is  *)
(* removed when: the two copies of the table differ in no more entries     *)
(* than there were power failures, and in one more while a call writes.    *)
THEOREM CopiesDifferLittle == Spec => []CopiesAgree
  <1>1. CInv => CopiesAgree
    BY CopiesFew
  <1> QED BY <1>1, DisksAreTyped, PTL

(* From a disk that is well laid out, and as long as directories are only  *)
(* read, files are removed by their short names and not while they are     *)
(* open, and the power does not fail during a remove or while a directory  *)
(* grows: at every power cut, however often it fails, all names lead to    *)
(* whole chains of their own.                                              *)
THEOREM NoClusterIsShared ==
    ASSUME Kind, \A d \in Images : Safe(d)
    PROVE  Spec => []ChainsApart
  <1>1. CInv /\ LInv => ChainsApart
    BY SafeApart
  <1> QED BY <1>1, DisksAreTyped, DisksAreLaidOut, PTL

(* And no handle, of a file or of a directory, is ever at a cluster that   *)
(* is free or in the chain of another, however files were created, written *)
(* and removed since it was opened (fat_write_fn, fat_remove_fn).          *)
THEOREM NoHandleStrays ==
    ASSUME Kind, \A d \in Images : Safe(d)
    PROVE  Spec => []HandlesStayInFile
  <1>1. CInv /\ LInv => HandlesStayInFile
    BY HandlesStay
  <1> QED BY <1>1, DisksAreTyped, DisksAreLaidOut, PTL
=============================================================================
