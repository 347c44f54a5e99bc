----------------------------- MODULE TxfsProofs -----------------------------
(***************************************************************************)
(* The native file system, proved for every size of disk, of pointer       *)
(* blocks and of directory blocks, and for every set of paths.             *)
(***************************************************************************)
EXTENDS Txfs, SequenceTheorems, WellFoundedInduction, TLAPS
-----------------------------------------------------------------------------
(* Least elements, induction over an interval, and the existence of        *)
(* functions defined by recursion over one.  The library states the last   *)
(* two for predicates and operators; with sets and functions in their      *)
(* place they can be cited.                                                *)
LEMMA SmallestExists ==
    ASSUME NEW S \in SUBSET Nat, S # {}
    PROVE  \E x \in S : \A y \in S : x <= y
  <1> DEFINE R == OpToRel(<, Nat)
  <1>1. IsWellFoundedOn(R, Nat)
    BY NatLessThanWellFounded, Zenon
  <1>2. \A y, z \in Nat : y < z => <<y, z>> \in R
    BY Zenon DEF OpToRel
  <1> HIDE DEF R
  <1>3. PICK x \in S : \A y \in S : ~ (<<y, x>> \in R)
    BY <1>1, WFMin, Zenon
  <1>4. \A y \in S : ~(y < x)
    BY <1>2, <1>3, Zenon
  <1> QED BY <1>4

LEMMA LeastExists ==
    ASSUME NEW S \in SUBSET Nat, S # {}
    PROVE  Least(S) \in S /\ \A y \in S : Least(S) <= y
  BY SmallestExists DEF Least

LEMMA UpTo ==
    ASSUME NEW m \in Int, NEW n \in Int, NEW T,
           m \in T, \A k \in m + 1 .. n : k - 1 \in T => k \in T
    PROVE  m .. n \subseteq T
  <1> SUFFICES ASSUME NEW z \in m .. n, z \notin T PROVE FALSE
    OBVIOUS
  <1> DEFINE C == {j \in Nat : m + j <= n /\ m + j \notin T}
  <1>1. z - m \in C
    OBVIOUS
  <1> HIDE DEF C
  <1>2. C \in SUBSET Nat
    BY DEF C
  <1>3. PICK j \in C : \A i \in C : j <= i
    BY <1>1, <1>2, SmallestExists, Zenon
  <1>4. j \in Nat /\ m + j <= n /\ m + j \notin T /\ j # 0
    BY <1>3 DEF C
  <1>5. j - 1 \notin C
    BY <1>3, <1>4
  <1>6. m + (j - 1) \in T
    BY <1>4, <1>5 DEF C
  <1> QED BY <1>4, <1>6

StaysIn(step, m, n, S) ==
    \A k \in m + 1 .. n : \A y \in S[k - 1] : step[k][y] \in S[k]
IsIterated(f, m, n, S, x, step) ==
    /\ f = [k \in m .. n |-> f[k]] /\ f[m] = x
    /\ \A k \in m + 1 .. n : f[k] = step[k][f[k - 1]]
    /\ \A k \in m .. n : f[k] \in S[k]

LEMMA Iterates ==
    ASSUME NEW m \in Int, NEW n \in Int, m <= n, NEW S, NEW x \in S[m], NEW step,
           StaysIn(step, m, n, S)
    PROVE  \E f : IsIterated(f, m, n, S, x, step)
  <1> DEFINE Is(f, j) == /\ f = [k \in m .. j |-> IF k = m THEN x ELSE step[k][f[k - 1]]]
                         /\ \A k \in m .. j : f[k] \in S[k]
             T == {j \in m .. n : \E f : Is(f, j)}
  <1>1. m \in T
    <2> DEFINE f == [k \in m .. m |-> x]
    <2>1. Is(f, m)
      OBVIOUS
    <2> HIDE DEF f, Is
    <2>2. m \in m .. n
      OBVIOUS
    <2> QED BY <2>1, <2>2
  <1>2. ASSUME NEW j \in m + 1 .. n, j - 1 \in T PROVE j \in T
    <2>1. PICK f : Is(f, j - 1)
      BY <1>2
    <2> DEFINE g == [k \in m .. j |-> IF k = j THEN step[j][f[j - 1]] ELSE f[k]]
    <2>2. f[j - 1] \in S[j - 1]
      BY <2>1
    <2>3. \A k \in m .. j : g[k] \in S[k]
      BY <2>1, <2>2 DEF StaysIn
    <2>4. \A k \in m .. j : g[k] = IF k = m THEN x ELSE step[k][g[k - 1]]
      <3>1. \A k \in m .. j - 1 : f[k] = IF k = m THEN x ELSE step[k][f[k - 1]]
        BY <2>1
      <3>2. \A k \in m .. j - 1 : g[k] = f[k]
        OBVIOUS
      <3>3. g[j] = step[j][f[j - 1]]
        OBVIOUS
      <3> HIDE DEF g
      <3>4. ASSUME NEW k \in m .. j PROVE g[k] = IF k = m THEN x ELSE step[k][g[k - 1]]
        <4>1. CASE k = j
          BY <3>2, <3>3, <4>1
        <4>2. CASE k # j
          <5>1. k \in m .. j - 1 /\ (k # m => k - 1 \in m .. j - 1)
            BY <4>2
          <5> QED BY <3>1, <3>2, <5>1
        <4> QED BY <4>1, <4>2
      <3> QED BY <3>4
    <2>5. DOMAIN g = m .. j
      OBVIOUS
    <2>6. g = [k \in m .. j |-> g[k]]
      OBVIOUS
    <2> HIDE DEF g
    <2>7. g = [k \in m .. j |-> IF k = m THEN x ELSE step[k][g[k - 1]]]
      BY <2>4, <2>6
    <2>8. j \in m .. n
      OBVIOUS
    <2>9. Is(g, j)
      BY <2>3, <2>7
    <2> HIDE DEF Is
    <2> QED BY <2>8, <2>9
  <1> HIDE DEF T, Is
  <1>3. m .. n \subseteq T
    BY <1>1, <1>2, UpTo
  <1>4. n \in T
    BY <1>3
  <1>5. PICK f : Is(f, n)
    BY <1>4 DEF T
  <1>6. /\ f = [k \in m .. n |-> f[k]] /\ f[m] = x
        /\ \A k \in m + 1 .. n : f[k] = step[k][f[k - 1]]
        /\ \A k \in m .. n : f[k] \in S[k]
    BY <1>5, SMTT(30) DEF Is
  <1> QED BY <1>6 DEF IsIterated
-----------------------------------------------------------------------------
(* What a disk, a block and an inode are made of.                          *)
Ptrs   == 0 .. PtrsPerBlock - 1
Ents   == 0 .. DirentsPerBlock - 1
Links  == 0 .. TotalBlocks
Types  == {"none", "file", "dir"}
InodeT == [type : Types, size : Nat, ptr : [Fields -> Links]]
EntryT == [inode : Inodes, name : STRING \union {""}]
BlockT == [ptr : [Ptrs -> Links], ent : [Ents -> EntryT], val : Values \union {0}]
DiskT  == [free_blocks : Int, free_inodes : Int, ibitmap : SUBSET Inodes,
           bbitmap : SUBSET Blocks, inode : [Inodes -> InodeT], block : [Blocks -> BlockT]]
CallT  == [d : DiskT, log : Seq(DiskT)]

LEMMA Sizes ==
    /\ MaxInodes \in Nat \ {0} /\ TotalBlocks \in Nat \ {0} /\ DirectBlocks \in Nat \ {0}
    /\ PtrsPerBlock \in Nat \ {0} /\ DirentsPerBlock \in Nat \ {0} /\ MaxFds \in Nat \ {0}
  BY TxfsAssumption

LEMMA Numbers ==
    /\ 0 \in Inodes /\ Inodes \subseteq Nat /\ Blocks \subseteq Nat /\ Fields \subseteq Nat
    /\ Links \subseteq Nat /\ Blocks \subseteq Links /\ 0 \in Links /\ 0 \notin Blocks
    /\ \A b \in Links : b # 0 => b \in Blocks
    /\ Fds \subseteq Nat /\ DirectBlocks \in Fields
  BY Sizes DEF Inodes, Blocks, Fields, Links, Fds

LEMMA EmptyTypes ==
    /\ NoInode \in InodeT /\ NoEntry \in EntryT /\ Zero \in BlockT
    /\ \A type \in Types : NewInode(type) \in InodeT /\ NewInode(type).type = type
    /\ \A type \in Types, s \in Fields : NewInode(type).ptr[s] = None
    /\ \A k \in Ptrs : Zero.ptr[k] = None
    /\ \A k \in Ents : Zero.ent[k] = NoEntry
  <1>1. NoEntry \in EntryT
    BY Numbers DEF NoEntry, EntryT, None
  <1>2. NoInode \in InodeT
    BY Numbers DEF NoInode, InodeT, Types, None
  <1>3. Zero \in BlockT
    <2>1. /\ [k \in Ptrs |-> None] \in [Ptrs -> Links]
          /\ [k \in Ents |-> NoEntry] \in [Ents -> EntryT]
          /\ 0 \in Values \union {0}
      BY <1>1, Numbers DEF None
    <2>2. Zero = [ptr |-> [k \in Ptrs |-> None], ent |-> [k \in Ents |-> NoEntry], val |-> 0]
      BY DEF Zero, Ptrs, Ents
    <2> QED BY <2>1, <2>2 DEF BlockT
  <1>4. \A type \in Types : NewInode(type) \in InodeT /\ NewInode(type).type = type
    BY <1>2 DEF NewInode, InodeT
  <1>5. \A type \in Types, s \in Fields : NewInode(type).ptr[s] = None
    BY DEF NewInode, NoInode
  <1> QED BY <1>1, <1>2, <1>3, <1>4, <1>5 DEF Zero, Ptrs, Ents

(* One more write of a call.                                               *)
Ends(c)  == c.d = IF c.log = <<>> THEN disk ELSE c.log[Len(c.log)]

LEMMA PutIs ==
    ASSUME NEW c \in CallT, NEW d \in DiskT
    PROVE  /\ Put(c, d) \in CallT /\ Put(c, d).d = d /\ Ends(Put(c, d))
           /\ Put(c, d).log # <<>>
           /\ DOMAIN Put(c, d).log = 1 .. Len(c.log) + 1
           /\ \A k \in 1 .. Len(c.log) : Put(c, d).log[k] = c.log[k]
           /\ Put(c, d).log[Len(c.log) + 1] = d
  <1>1. c.log \in Seq(DiskT)
    BY DEF CallT
  <1>2. /\ Append(c.log, d) \in Seq(DiskT) /\ Len(Append(c.log, d)) = Len(c.log) + 1
        /\ \A k \in 1 .. Len(c.log) : Append(c.log, d)[k] = c.log[k]
        /\ Append(c.log, d)[Len(c.log) + 1] = d
    BY <1>1
  <1>3. Len(c.log) \in Nat /\ DOMAIN Append(c.log, d) = 1 .. Len(c.log) + 1
    BY <1>1, <1>2
  <1>4. Append(c.log, d) # <<>>
    BY <1>1, AppendProperties, ZenonT(30)
  <1>5. Put(c, d) = [d |-> d, log |-> Append(c.log, d)]
    BY DEF Put
  <1>6. Put(c, d) \in CallT /\ Put(c, d).d = d /\ Put(c, d).log = Append(c.log, d)
    BY <1>2, <1>5 DEF CallT
  <1>7. Ends(Put(c, d))
    BY <1>2, <1>4, <1>6 DEF Ends
  <1> QED BY <1>2, <1>3, <1>4, <1>6, <1>7

LEMMA SetInodeIs ==
    ASSUME NEW c \in CallT, NEW i \in Inodes, NEW inode \in InodeT
    PROVE  LET d == [c.d EXCEPT !.inode[i] = inode]
           IN  /\ SetInode(c, i, inode) = Put(c, d) /\ d \in DiskT
               /\ d.inode = [c.d.inode EXCEPT ![i] = inode]
               /\ d.block = c.d.block /\ d.ibitmap = c.d.ibitmap /\ d.bbitmap = c.d.bbitmap
  <1>1. c.d \in DiskT
    BY DEF CallT
  <1> QED BY <1>1 DEF SetInode, DiskT
-----------------------------------------------------------------------------
(* A route leads through a field of the inode and up to three pointer      *)
(* blocks.                                                                 *)
Leads(r) ==
    /\ r \in Seq(Nat) /\ Len(r) \in 1 .. 4
    /\ r[1] \in Fields
    /\ \A k \in 2 .. Len(r) : r[k] \in Ptrs

LEMMA Divided ==
    ASSUME NEW a \in Nat, NEW m \in Nat \ {0}
    PROVE  /\ a \div m \in Nat /\ a % m \in 0 .. m - 1
           /\ \A q \in Nat : a < m * q => a \div m < q
  <1> DEFINE x == a \div m  r == a % m
  <1>1. x \in Int /\ r \in 0 .. m - 1 /\ a = m * x + r
    OBVIOUS
  <1> HIDE DEF x, r
  <1>2. x >= 0
    <2> SUFFICES ASSUME x <= -1 PROVE FALSE
      BY <1>1
    <2>1. m * x <= -m
      <3>1. m * (x + 1) = m * x + m /\ m * (x + 1) <= 0
        BY <1>1
      <3> QED BY <3>1, <1>1
    <2> QED BY <1>1, <2>1
  <1>3. ASSUME NEW q \in Nat, a < m * q PROVE x < q
    <2> SUFFICES ASSUME x >= q PROVE FALSE
      BY <1>1
    <2>1. m * x = m * q + m * (x - q) /\ m * (x - q) >= 0
      BY <1>1
    <2>2. m * x \in Int /\ m * q \in Int /\ m * (x - q) \in Int
      BY <1>1
    <2> QED BY <1>1, <1>3, <2>1, <2>2
  <1> QED BY <1>1, <1>2, <1>3 DEF x, r

LEMMA RouteLeads ==
    ASSUME NEW idx \in Nat
    PROVE  Route(idx) = <<>> \/ Leads(Route(idx))
  <1> DEFINE P  == PtrsPerBlock
             i1 == idx - DirectBlocks
             i2 == i1 - P
             i3 == i2 - P * P
             PP == P * P
             PPP == PP * P
             r2 == <<DirectBlocks, i1>>
             r3 == <<DirectBlocks + 1, i2 \div P, i2 % P>>
             r4 == <<DirectBlocks + 2, i3 \div PP, (i3 \div P) % P, i3 % P>>
  <1>1. /\ P \in Nat \ {0} /\ PP \in Nat \ {0} /\ i1 \in Int /\ i2 \in Int /\ i3 \in Int
        /\ PPP \in Nat /\ i2 < PP <=> i3 < 0
    BY Sizes
  <1>2. Route(idx) = CASE i1 < 0 -> <<idx>>
                       [] i1 >= 0 /\ i2 < 0 -> r2
                       [] i2 >= 0 /\ i3 < 0 -> r3
                       [] i3 >= 0 /\ i3 < PPP -> r4
                       [] OTHER -> <<>>
    BY Zenon DEF Route
  <1>3. i1 < 0 => Leads(<<idx>>)
    <2>1. i1 < 0 => idx \in Fields
      BY Sizes DEF Fields
    <2> QED BY <2>1 DEF Leads
  <1>4. i1 >= 0 /\ i2 < 0 => Leads(r2)
    <2>1. DirectBlocks \in Fields /\ DirectBlocks \in Nat
      BY Sizes DEF Fields
    <2>2. i1 >= 0 /\ i2 < 0 => i1 \in Ptrs /\ i1 \in Nat
      BY Sizes DEF Ptrs
    <2> HIDE DEF i1, i2
    <2> QED BY <2>1, <2>2 DEF Leads
  <1> HIDE DEF P, PP, PPP, i1
  <1>5. i2 >= 0 /\ i3 < 0 => Leads(r3)
    <2> HIDE DEF i2, i3
    <2> SUFFICES ASSUME i2 >= 0, i3 < 0 PROVE Leads(r3)
      OBVIOUS
    <2>1. DirectBlocks + 1 \in Fields /\ DirectBlocks + 1 \in Nat /\ Ptrs \subseteq Nat
      BY Sizes DEF Fields, Ptrs
    <2>2. i2 \in Nat /\ i2 < P * P
      BY <1>1 DEF PP
    <2>3. i2 \div P \in Nat /\ i2 \div P < P /\ i2 % P \in 0 .. P - 1
      BY <1>1, <2>2, Divided
    <2>4. i2 \div P \in Ptrs /\ i2 % P \in Ptrs
      BY <1>1, <2>3 DEF Ptrs, P
    <2> DEFINE x == i2 \div P  y == i2 % P
    <2> HIDE DEF x, y
    <2>5. x \in Ptrs /\ y \in Ptrs
      BY <2>4 DEF x, y
    <2>6. Leads(<<DirectBlocks + 1, x, y>>)
      BY <2>1, <2>5 DEF Leads
    <2> QED BY <2>6 DEF x, y
  <1>6. i3 >= 0 /\ i3 < PPP => Leads(r4)
    <2> HIDE DEF i2, i3
    <2> SUFFICES ASSUME i3 >= 0, i3 < PPP PROVE Leads(r4)
      OBVIOUS
    <2>1. DirectBlocks + 2 \in Fields /\ DirectBlocks + 2 \in Nat /\ Ptrs \subseteq Nat
      BY Sizes DEF Fields, Ptrs
    <2>2. i3 \in Nat /\ i3 < PP * P
      BY <1>1 DEF PPP
    <2>3. i3 \div PP \in Nat /\ i3 \div PP < P
      BY <1>1, <2>2, Divided
    <2>4. i3 \div P \in Nat /\ i3 % P \in 0 .. P - 1
      BY <1>1, <2>2, Divided
    <2>5. (i3 \div P) % P \in 0 .. P - 1
      BY <1>1, <2>4, Divided
    <2> DEFINE x == i3 \div PP  y == (i3 \div P) % P  z == i3 % P
    <2>6. x \in Ptrs /\ y \in Ptrs /\ z \in Ptrs
      BY <1>1, <2>3, <2>4, <2>5 DEF Ptrs, P
    <2> HIDE DEF x, y, z
    <2>7. Leads(<<DirectBlocks + 2, x, y, z>>)
      BY <2>1, <2>6 DEF Leads
    <2> QED BY <2>7 DEF x, y, z
  <1> HIDE DEF i2, i3, r2, r3, r4
  <1> QED BY <1>2, <1>3, <1>4, <1>5, <1>6
(* Different positions have different routes.                              *)
LEMMA DividedOnce ==
    ASSUME NEW a \in Nat, NEW b \in Nat, NEW m \in Nat \ {0},
           a \div m = b \div m, a % m = b % m
    PROVE  a = b
  <1>1. a = m * (a \div m) + (a % m) /\ b = m * (b \div m) + (b % m)
    OBVIOUS
  <1> QED BY <1>1

LEMMA Remains ==
    ASSUME NEW x \in Nat, NEW n \in Nat \ {0}
    PROVE  x - n * (x \div n) \in 0 .. n - 1
  <1> DEFINE p == x \div n  q == x % n
  <1>1. p \in Int /\ q \in 0 .. n - 1 /\ x = n * p + q
    OBVIOUS
  <1> HIDE DEF p, q
  <1>2. n * p \in Int
    BY <1>1
  <1>3. x - n * p \in 0 .. n - 1
    BY <1>1, <1>2
  <1> QED BY <1>3 DEF p

LEMMA DividedTwice ==
    ASSUME NEW a \in Nat, NEW b \in Nat, NEW m \in Nat \ {0}, NEW mm, mm = m * m,
           a \div mm = b \div mm, (a \div m) % m = (b \div m) % m, a % m = b % m
    PROVE  a = b
  <1> DEFINE A == a \div m  B == b \div m  u == A \div m  v == B \div m  w == a \div mm
             y == A % m  z == a % m
  <1>1. mm \in Nat \ {0}
    BY SMT
  <1>2. A \in Nat /\ B \in Nat
    BY Divided
  <1>3. u \in Nat /\ v \in Nat /\ y \in 0 .. m - 1 /\ z \in 0 .. m - 1 /\ w \in Nat
    <2> HIDE DEF A, B, w
    <2>1. w \in Nat
      BY <1>1, Divided DEF w
    <2>2. z \in 0 .. m - 1
      BY Divided
    <2> QED BY <1>2, <2>1, <2>2, Divided
  <1>4. a = m * A + z /\ b = m * B + z
    OBVIOUS
  <1>5. A = m * u + y /\ B = m * v + y
    <2> HIDE DEF A, B
    <2>1. A = m * u + (A % m) /\ B = m * v + (B % m)
      BY <1>2
    <2>2. A % m = B % m
      BY DEF A, B
    <2> QED BY <2>1, <2>2
  <1>6. /\ a - mm * w \in 0 .. mm - 1 /\ b - mm * w \in 0 .. mm - 1
    <2> HIDE DEF w
    <2>1. a - mm * (a \div mm) \in 0 .. mm - 1 /\ b - mm * (b \div mm) \in 0 .. mm - 1
      BY <1>1, Remains
    <2> QED BY <2>1 DEF w
  <1> HIDE DEF A, B, u, v, w, y, z
  <1>7. a - b = mm * (u - v)
    <2>1. a = m * (m * u + y) + z /\ b = m * (m * v + y) + z
      BY <1>4, <1>5
    <2>2. /\ m * (m * u + y) = mm * u + m * y
          /\ m * (m * v + y) = mm * v + m * y
      BY <1>3
    <2>3. mm * u \in Int /\ mm * v \in Int /\ m * y \in Int /\ mm * (u - v) = mm * u - mm * v
      BY <1>1, <1>3
    <2> QED BY <1>3, <2>1, <2>2, <2>3
  <1>8. a - b < mm /\ b - a < mm
    <2>1. mm * w \in Int
      BY <1>1, <1>3
    <2> QED BY <1>1, <1>6, <2>1
  <1>9. u = v
    <2>1. ASSUME u - v >= 1 PROVE FALSE
      <3>1. mm * (u - v) >= mm
        BY <1>1, <1>3, <2>1
      <3> QED BY <1>7, <1>8, <3>1, <1>1, <1>3
    <2>2. ASSUME u - v <= -1 PROVE FALSE
      <3>1. mm * (u - v) <= -mm
        <4>1. mm * (v - u) >= mm
          BY <1>1, <1>3, <2>2
        <4>2. mm * (u - v) = -(mm * (v - u)) /\ mm * (v - u) \in Int
          BY <1>1, <1>3
        <4> QED BY <1>1, <4>1, <4>2
      <3> QED BY <1>7, <1>8, <3>1, <1>1, <1>3
    <2> QED BY <1>3, <2>1, <2>2
  <1> QED BY <1>3, <1>4, <1>5, <1>9

LEMMA RouteOnce ==
    ASSUME NEW a \in Nat, NEW b \in Nat, Route(a) = Route(b), Route(a) # <<>>
    PROVE  a = b
  <1> DEFINE P  == PtrsPerBlock
             PP == P * P
             PPP == PP * P
             A == a - DirectBlocks - P
             B == b - DirectBlocks - P
             One(x) == x - DirectBlocks < 0
             Two(x) == x - DirectBlocks >= 0 /\ x - DirectBlocks - P < 0
             Three(x) == x - DirectBlocks - P >= 0 /\ x - DirectBlocks - P - P * P < 0
             Four(x) == /\ x - DirectBlocks - P - P * P >= 0
                        /\ x - DirectBlocks - P - P * P < P * P * P
             r1(x) == <<x>>
             r2(x) == <<DirectBlocks, x - DirectBlocks>>
             r3(x) == LET y == x - DirectBlocks - P IN <<DirectBlocks + 1, y \div P, y % P>>
             r4(x) == LET y == x - DirectBlocks - P - P * P
                      IN  <<DirectBlocks + 2, y \div (P * P), (y \div P) % P, y % P>>
  <1>1. \A x : Route(x) = CASE One(x) -> r1(x) [] Two(x) -> r2(x) [] Three(x) -> r3(x)
                            [] Four(x) -> r4(x) [] OTHER -> <<>>
    BY Zenon DEF Route
  <1>2. \A x \in Nat :
           /\ One(x) \/ Two(x) \/ Three(x) \/ Four(x) \/ Route(x) = <<>>
           /\ One(x) => ~Two(x) /\ ~Three(x) /\ ~Four(x)
           /\ Two(x) => ~Three(x) /\ ~Four(x)
           /\ Three(x) => ~Four(x)
    <2>1. \A x \in Nat :
             /\ One(x) => ~Two(x) /\ ~Three(x) /\ ~Four(x)
             /\ Two(x) => ~Three(x) /\ ~Four(x)
             /\ Three(x) => ~Four(x)
      <3>1. P \in Nat \ {0} /\ DirectBlocks \in Nat /\ PP \in Nat
        BY Sizes
      <3> HIDE DEF P
      <3> QED BY <3>1
    <2> HIDE DEF One, Two, Three, Four, r1, r2, r3, r4
    <2> QED BY <1>1, <2>1
  <1>3. \A x \in Nat :
           /\ One(x) => Route(x) = r1(x)
           /\ Two(x) => Route(x) = r2(x)
           /\ Three(x) => Route(x) = r3(x)
           /\ Four(x) => Route(x) = r4(x)
    <2> HIDE DEF One, Two, Three, Four, r1, r2, r3, r4
    <2> QED BY <1>1, <1>2
  <1>4. \A x \in Nat :
           /\ One(x) => Len(Route(x)) = 1
           /\ Two(x) => Len(Route(x)) = 2
           /\ Three(x) => Len(Route(x)) = 3
           /\ Four(x) => Len(Route(x)) = 4
    <2>1. \A x : Len(r1(x)) = 1 /\ Len(r2(x)) = 2 /\ Len(r3(x)) = 3 /\ Len(r4(x)) = 4
      OBVIOUS
    <2> HIDE DEF One, Two, Three, Four, r1, r2, r3, r4
    <2> QED BY <1>3, <2>1, Zenon
  <1>5. P \in Nat \ {0} /\ DirectBlocks \in Nat /\ PP \in Nat \ {0}
    BY Sizes
  <1>6. CASE One(a)
    <2>1. One(b)
      <3> HIDE DEF One, Two, Three, Four, r1, r2, r3, r4
      <3> DEFINE n == Len(Route(b))
      <3>1. n = 1
        <4>1. Len(Route(a)) = 1
          BY <1>4, <1>6, Zenon
        <4> QED BY <4>1
      <3>2. One(b) \/ Two(b) \/ Three(b) \/ Four(b)
        BY <1>2, Zenon
      <3>3. /\ One(b) => n = 1
            /\ Two(b) => n = 2
            /\ Three(b) => n = 3
            /\ Four(b) => n = 4
        BY <1>4, Zenon
      <3> HIDE DEF n
      <3> QED BY <3>1, <3>2, <3>3
    <2>2. r1(a) = r1(b)
      <3> HIDE DEF One, r1
      <3> QED BY <1>3, <1>6, <2>1
    <2> QED BY <2>2
  <1>7. CASE Two(a)
    <2>1. Two(b)
      <3> HIDE DEF One, Two, Three, Four, r1, r2, r3, r4
      <3> DEFINE n == Len(Route(b))
      <3>1. n = 2
        <4>1. Len(Route(a)) = 2
          BY <1>4, <1>7, Zenon
        <4> QED BY <4>1
      <3>2. One(b) \/ Two(b) \/ Three(b) \/ Four(b)
        BY <1>2, Zenon
      <3>3. /\ One(b) => n = 1
            /\ Two(b) => n = 2
            /\ Three(b) => n = 3
            /\ Four(b) => n = 4
        BY <1>4, Zenon
      <3> HIDE DEF n
      <3> QED BY <3>1, <3>2, <3>3
    <2>2. r2(a) = r2(b)
      <3> HIDE DEF Two, r2
      <3> QED BY <1>3, <1>7, <2>1
    <2>3. a - DirectBlocks = b - DirectBlocks
      BY <2>2
    <2> QED BY <1>5, <2>3
  <1>8. CASE Three(a)
    <2>1. Three(b)
      <3> HIDE DEF One, Two, Three, Four, r1, r2, r3, r4
      <3> DEFINE n == Len(Route(b))
      <3>1. n = 3
        <4>1. Len(Route(a)) = 3
          BY <1>4, <1>8, Zenon
        <4> QED BY <4>1
      <3>2. One(b) \/ Two(b) \/ Three(b) \/ Four(b)
        BY <1>2, Zenon
      <3>3. /\ One(b) => n = 1
            /\ Two(b) => n = 2
            /\ Three(b) => n = 3
            /\ Four(b) => n = 4
        BY <1>4, Zenon
      <3> HIDE DEF n
      <3> QED BY <3>1, <3>2, <3>3
    <2>2. r3(a) = r3(b)
      <3> HIDE DEF Three, r3
      <3> QED BY <1>3, <1>8, <2>1
    <2>3. A \div P = B \div P /\ A % P = B % P
      <3> HIDE DEF P
      <3> QED BY <2>2
    <2>4. A \in Nat /\ B \in Nat
      BY <1>5, <1>8, <2>1
    <2> HIDE DEF A, B, P
    <2>5. A = B
      BY <1>5, <2>3, <2>4, DividedOnce
    <2> QED BY <1>5, <2>5 DEF A, B
  <1>9. CASE Four(a)
    <2>1. Four(b)
      <3> HIDE DEF One, Two, Three, Four, r1, r2, r3, r4
      <3> QED BY <1>2, <1>4, <1>9
    <2>2. r4(a) = r4(b)
      <3> HIDE DEF Four, r4
      <3> QED BY <1>3, <1>9, <2>1
    <2> DEFINE C == A - PP  D == B - PP
    <2>3. C \div PP = D \div PP /\ (C \div P) % P = (D \div P) % P /\ C % P = D % P
      <3> HIDE DEF P
      <3> QED BY <2>2
    <2>4. C \in Nat /\ D \in Nat /\ PP = P * P
      BY <1>5, <1>9, <2>1
    <2> HIDE DEF C, D, P, PP
    <2>5. C = D
      BY <1>5, <2>3, <2>4, DividedTwice
    <2> QED BY <1>5, <2>5 DEF A, B, C, D
  <1>10. One(a) \/ Two(a) \/ Three(a) \/ Four(a)
    BY <1>2
  <1> QED BY <1>6, <1>7, <1>8, <1>9, <1>10
-----------------------------------------------------------------------------
(* What is reached from the root or through a handle: own says of each     *)
(* block that is, where the only pointer to it lies; named of each inode   *)
(* that has a name, where the only entry for it lies.  A version is an     *)
(* inode's number with the pointers that some copy of it holds.  Blocks    *)
(* and inodes outside own and named may be marked and hold anything: they  *)
(* have just been taken, or were left behind.  What programs call files    *)
(* is all that a file can be called.                                       *)
Held(v, own) ==
    \A s \in Fields : v[2][s] # None =>
        v[2][s] \in DOMAIN own /\ own[v[2][s]] = <<"inode", v[1], s>>
Tree(d, own, named) ==
    /\ \A b \in DOMAIN own, k \in Ptrs : d.block[b].ptr[k] # None =>
          /\ d.block[b].ptr[k] \in DOMAIN own
          /\ own[d.block[b].ptr[k]] = <<"block", b, k>>
    /\ \A b \in DOMAIN own, k \in Ents : d.block[b].ent[k].inode # None =>
          /\ d.block[b].ent[k].inode \in DOMAIN named
          /\ named[d.block[b].ent[k].inode] = <<b, k>>
Marked(d, own, named) ==
    /\ 0 \in DOMAIN named /\ DOMAIN named \subseteq d.ibitmap
    /\ DOMAIN own \subseteq d.bbitmap
    /\ \A i \in DOMAIN named : d.inode[i].type # "none"
FileNames == {Last(path) : path \in FilePaths}
Apart(d, own) ==
    /\ d.inode[0].type = "dir"
    /\ \A b \in DOMAIN own, k \in Ents :
          d.block[b].ent[k].inode # None /\ d.inode[d.block[b].ent[k].inode].type = "file" =>
              d.block[b].ent[k].name \in FileNames
Sound(d, versions, own, named) ==
    /\ Marked(d, own, named)
    /\ Tree(d, own, named)
    /\ Apart(d, own)
    /\ \A i \in DOMAIN named : Held(<<i, d.inode[i].ptr>>, own)
    /\ \A v \in versions : Held(v, own)
Safe(d) == \E own, named : Sound(d, {}, own, named)

LEMMA FewerVersions ==
    ASSUME NEW d, NEW H, NEW own, NEW named, Sound(d, H, own, named), NEW H2 \in SUBSET H
    PROVE  Sound(d, H2, own, named)
  BY DEF Sound

(* The bitmaps grow, blocks that nothing leads to are written.             *)
LEMMA OtherWrites ==
    ASSUME NEW d, NEW H, NEW own, NEW named, Sound(d, H, own, named), NEW d2,
           d.ibitmap \subseteq d2.ibitmap, d.bbitmap \subseteq d2.bbitmap,
           \A i \in DOMAIN named : d2.inode[i] = d.inode[i],
           \A b \in DOMAIN own : d2.block[b] = d.block[b]
    PROVE  Sound(d2, H, own, named)
  <1>1. Marked(d2, own, named)
    BY DEF Sound, Marked
  <1>2. Tree(d2, own, named)
    <2>1. Tree(d, own, named)
      BY DEF Sound
    <2> QED BY <2>1 DEF Tree
  <1>3. Apart(d2, own)
    BY DEF Sound, Marked, Tree, Apart
  <1> QED BY <1>1, <1>2, <1>3 DEF Sound

(* An inode is written: as one of its versions, or one without a name.     *)
LEMMA InodeWrite ==
    ASSUME NEW d \in DiskT, NEW H, NEW own, NEW named, Sound(d, H, own, named),
           NEW i \in Inodes, NEW inode \in InodeT, inode.type # "none",
           i \in DOMAIN named => Held(<<i, inode.ptr>>, own) /\ inode.type = d.inode[i].type,
           NEW d2, d2.inode = [d.inode EXCEPT ![i] = inode],
           d2.block = d.block, d2.ibitmap = d.ibitmap, d2.bbitmap = d.bbitmap
    PROVE  Sound(d2, H, own, named)
  <1>1. \A j \in DOMAIN named : d2.inode[j] = IF j = i THEN inode ELSE d.inode[j]
    BY DEF DiskT, Sound, Marked
  <1>2. Marked(d2, own, named)
    BY <1>1 DEF Sound, Marked
  <1>3. Tree(d2, own, named)
    BY DEF Sound, Tree
  <1>4. Apart(d2, own)
    <2>1. \A j \in DOMAIN named : d2.inode[j].type = d.inode[j].type
      BY <1>1
    <2> QED BY <2>1 DEF Sound, Marked, Tree, Apart
  <1> QED BY <1>1, <1>2, <1>3, <1>4 DEF Sound

(* The contents of a block are written: no pointers and no entries.        *)
Empty(content) ==
    /\ \A k \in Ptrs : content.ptr[k] = None
    /\ \A k \in Ents : content.ent[k].inode = None

LEMMA DataWrite ==
    ASSUME NEW d \in DiskT, NEW H, NEW own, NEW named, Sound(d, H, own, named),
           NEW b \in Blocks, NEW content, Empty(content),
           NEW d2, d2.block = [d.block EXCEPT ![b] = content],
           d2.inode = d.inode, d2.ibitmap = d.ibitmap, d2.bbitmap = d.bbitmap
    PROVE  Sound(d2, H, own, named)
  <1>1. \A x \in DOMAIN own : x \in Blocks
    BY DEF Sound, Marked, DiskT
  <1>2. \A x \in DOMAIN own : d2.block[x] = IF x = b THEN content ELSE d.block[x]
    BY <1>1 DEF DiskT
  <1>3. Marked(d2, own, named)
    BY DEF Sound, Marked
  <1>4. Tree(d2, own, named)
    <2>1. Tree(d, own, named)
      BY DEF Sound
    <2>2. ASSUME NEW x \in DOMAIN own, NEW k \in Ptrs, d2.block[x].ptr[k] # None
          PROVE  d2.block[x] = d.block[x]
      BY <1>2, <2>2 DEF Empty
    <2>3. ASSUME NEW x \in DOMAIN own, NEW k \in Ents, d2.block[x].ent[k].inode # None
          PROVE  d2.block[x] = d.block[x]
      BY <1>2, <2>3 DEF Empty
    <2> QED BY <2>1, <2>2, <2>3 DEF Tree
  <1>5. Apart(d2, own)
    <2>1. \A x \in DOMAIN own, k \in Ents :
             d2.block[x].ent[k].inode # None => d2.block[x] = d.block[x]
      BY <1>2 DEF Empty
    <2> QED BY <2>1 DEF Sound, Apart
  <1> QED BY <1>3, <1>4, <1>5 DEF Sound

(* A block b gets an owner: it is taken, empty, and nothing led to it.     *)
Owned(own, b, place) == [x \in DOMAIN own \union {b} |-> IF x = b THEN place ELSE own[x]]

LEMMA NewOwner ==
    ASSUME NEW d \in DiskT, NEW H, NEW own, NEW named, Sound(d, H, own, named),
           NEW b \in d.bbitmap, b \notin DOMAIN own, Empty(d.block[b]), NEW place
    PROVE  Sound(d, H, Owned(own, b, place), named)
  <1> DEFINE o == Owned(own, b, place)
  <1>1. /\ DOMAIN o = DOMAIN own \union {b} /\ o[b] = place
        /\ \A x \in DOMAIN own : o[x] = own[x]
    BY DEF Owned
  <1> HIDE DEF o
  <1>2. Marked(d, o, named)
    BY <1>1 DEF Sound, Marked
  <1>3. Tree(d, o, named)
    BY <1>1 DEF Sound, Tree, Empty
  <1>4. \A v : Held(v, own) => Held(v, o)
    BY <1>1 DEF Held
  <1>5. Apart(d, o)
    BY <1>1 DEF Sound, Apart, Empty
  <1>6. Sound(d, H, o, named)
    BY <1>2, <1>3, <1>4, <1>5 DEF Sound
  <1> QED BY <1>6 DEF o

(* It is linked to by a pointer block,                                     *)
LinkedBy(d, d2, at, slot, b) ==
    /\ d2.block = [d.block EXCEPT ![at] = [d.block[at] EXCEPT !.ptr[slot] = b]]
    /\ d2.inode = d.inode /\ d2.ibitmap = d.ibitmap /\ d2.bbitmap = d.bbitmap

LEMMA BlockLink ==
    ASSUME NEW d \in DiskT, NEW H, NEW own, NEW named, Sound(d, H, own, named),
           NEW at \in Blocks, NEW slot \in Ptrs,
           NEW b \in d.bbitmap, b \notin DOMAIN own, Empty(d.block[b]),
           NEW d2, LinkedBy(d, d2, at, slot, b)
    PROVE  \E o : Sound(d2, H, o, named)
  <1> USE DEF LinkedBy
  <1>0. \A x \in Blocks : d.block[x] \in BlockT
    BY DEF DiskT
  <1>1. CASE at \notin DOMAIN own
    <2>1. \A x \in DOMAIN own : x \in Blocks
      BY DEF Sound, Marked, DiskT
    <2>2. \A x \in DOMAIN own : d2.block[x] = d.block[x]
      BY <1>1, <2>1 DEF DiskT
    <2>3. Sound(d2, H, own, named)
      BY <2>2, OtherWrites
    <2> QED BY <2>3
  <1>2. CASE at \in DOMAIN own
    <2> DEFINE o == Owned(own, b, <<"block", at, slot>>)
    <2>1. Sound(d, H, o, named)
      BY NewOwner
    <2>2. /\ DOMAIN o = DOMAIN own \union {b} /\ o[b] = <<"block", at, slot>>
          /\ \A x \in DOMAIN own : o[x] = own[x]
      BY DEF Owned
    <2> HIDE DEF o
    <2>3. \A x \in DOMAIN o : x \in Blocks
      BY <2>1 DEF Sound, Marked, DiskT
    <2>4. /\ \A x \in DOMAIN o : d2.block[x].ent = d.block[x].ent
          /\ \A x \in DOMAIN o, k \in Ptrs :
                d2.block[x].ptr[k] = IF x = at /\ k = slot THEN b ELSE d.block[x].ptr[k]
      BY <1>0, <2>3 DEF DiskT, BlockT
    <2>5. Marked(d2, o, named)
      BY <2>1 DEF Sound, Marked
    <2>6. Tree(d2, o, named)
      <3>1. Tree(d, o, named)
        BY <2>1, Zenon DEF Sound
      <3>2. b \in DOMAIN o /\ o[b] = <<"block", at, slot>>
        BY <2>2, Zenon
      <3>3. ASSUME NEW x \in DOMAIN o, NEW k \in Ptrs, d2.block[x].ptr[k] # None
            PROVE  /\ d2.block[x].ptr[k] \in DOMAIN o
                   /\ o[d2.block[x].ptr[k]] = <<"block", x, k>>
        <4> DEFINE y == d2.block[x].ptr[k]
        <4>1. CASE x = at /\ k = slot
          <5>1. y = b
            BY <2>4, <4>1
          <5> QED BY <3>2, <4>1, <5>1
        <4>2. CASE ~(x = at /\ k = slot)
          <5>1. y = d.block[x].ptr[k]
            BY <2>4, <4>2
          <5> HIDE DEF y
          <5>2. y \in DOMAIN o /\ o[y] = <<"block", x, k>>
            BY <3>1, <3>3, <5>1 DEF Tree, y
          <5> QED BY <5>2 DEF y
        <4> QED BY <4>1, <4>2
      <3>4. ASSUME NEW x \in DOMAIN o, NEW k \in Ents, d2.block[x].ent[k].inode # None
            PROVE  /\ d2.block[x].ent[k].inode \in DOMAIN named
                   /\ named[d2.block[x].ent[k].inode] = <<x, k>>
        <4>1. d2.block[x].ent[k] = d.block[x].ent[k]
          BY <2>4
        <4> QED BY <3>1, <3>4, <4>1 DEF Tree
      <3> QED BY <3>3, <3>4 DEF Tree
    <2>7. Apart(d2, o)
      BY <2>1, <2>4 DEF Sound, Apart
    <2>8. Sound(d2, H, o, named)
      BY <2>1, <2>5, <2>6, <2>7 DEF Sound
    <2> QED BY <2>8
  <1> QED BY <1>1, <1>2

(* or by an inode in memory.                                               *)
LEMMA InodeLink ==
    ASSUME NEW d \in DiskT, NEW H, NEW own, NEW named, NEW i, NEW ptr \in [Fields -> Links],
           Sound(d, H \union {<<i, ptr>>}, own, named), NEW slot \in Fields,
           NEW b \in d.bbitmap, b \notin DOMAIN own, Empty(d.block[b])
    PROVE  \E o : Sound(d, H \union {<<i, [ptr EXCEPT ![slot] = b]>>}, o, named)
  <1> DEFINE o == Owned(own, b, <<"inode", i, slot>>)
             p == [ptr EXCEPT ![slot] = b]
  <1>1. Sound(d, H \union {<<i, ptr>>}, o, named)
    BY NewOwner
  <1>2. o[b] = <<"inode", i, slot>> /\ b \in DOMAIN o
    BY DEF Owned
  <1>3. \A s \in Fields : p[s] = IF s = slot THEN b ELSE ptr[s]
    OBVIOUS
  <1> HIDE DEF o, p
  <1>4. Held(<<i, ptr>>, o)
    BY <1>1 DEF Sound
  <1>5. Held(<<i, p>>, o)
    BY <1>2, <1>3, <1>4 DEF Held
  <1>6. Sound(d, H \union {<<i, p>>}, o, named)
    BY <1>1, <1>5 DEF Sound
  <1> QED BY <1>6 DEF p

(* An inode without pointers gets a name, in a place of a block.           *)
Fresh(child, d, named) ==
    /\ child \in d.ibitmap /\ child \notin DOMAIN named
    /\ d.inode[child].type # "none"
    /\ \A s \in Fields : d.inode[child].ptr[s] = None
IsNamed(content, k, child, before) ==
    /\ content.ptr = before.ptr /\ content.val = before.val
    /\ content.ent[k].inode = child
    /\ \A j \in Ents : j # k => content.ent[j] = before.ent[j]

NamedBy(d, d2, b, k, child, content) ==
    /\ IsNamed(content, k, child, d.block[b])
    /\ d.inode[child].type = "file" => content.ent[k].name \in FileNames
    /\ d2.block = [d.block EXCEPT ![b] = content] /\ d2.inode = d.inode
    /\ d2.ibitmap = d.ibitmap /\ d2.bbitmap = d.bbitmap

LEMMA NewName ==
    ASSUME NEW d \in DiskT, NEW H, NEW own, NEW named, Sound(d, H, own, named),
           NEW b \in Blocks, NEW k \in Ents, NEW child, Fresh(child, d, named),
           NEW content, NEW d2, NamedBy(d, d2, b, k, child, content)
    PROVE  \E n : Sound(d2, H, own, n)
  <1> USE DEF NamedBy
  <1> DEFINE n == Owned(named, child, <<b, k>>)
  <1>1. /\ DOMAIN n = DOMAIN named \union {child} /\ n[child] = <<b, k>>
        /\ \A i \in DOMAIN named : n[i] = named[i]
    BY DEF Owned, Fresh
  <1> HIDE DEF n
  <1>2. \A x \in DOMAIN own : x \in Blocks
    BY DEF Sound, Marked, DiskT
  <1>3. \A x \in Blocks : d.block[x] \in BlockT
    BY DEF DiskT
  <1>4. /\ \A x \in DOMAIN own : d2.block[x].ptr = d.block[x].ptr
        /\ \A x \in DOMAIN own, j \in Ents :
              d2.block[x].ent[j] = IF x = b /\ j = k THEN content.ent[k] ELSE d.block[x].ent[j]
    BY <1>2, <1>3 DEF DiskT, BlockT, IsNamed
  <1>5. Marked(d2, own, n)
    BY <1>1 DEF Sound, Marked, Fresh
  <1>6. Tree(d2, own, n)
    <2>1. Tree(d, own, named)
      BY DEF Sound
    <2>2. ASSUME NEW x \in DOMAIN own, NEW j \in Ents, d2.block[x].ent[j].inode # None
          PROVE  /\ d2.block[x].ent[j].inode \in DOMAIN n
                 /\ n[d2.block[x].ent[j].inode] = <<x, j>>
      <3> DEFINE e == d2.block[x].ent[j].inode
      <3>1. CASE x = b /\ j = k
        <4>1. e = child
          BY <1>4, <3>1 DEF IsNamed
        <4> QED BY <1>1, <3>1, <4>1
      <3>2. CASE ~(x = b /\ j = k)
        <4>1. e = d.block[x].ent[j].inode
          BY <1>4, <3>2
        <4> HIDE DEF e
        <4>2. e \in DOMAIN named /\ named[e] = <<x, j>>
          BY <2>1, <2>2, <4>1 DEF Tree, e
        <4>3. e \in DOMAIN n /\ n[e] = <<x, j>>
          BY <1>1, <4>2
        <4> QED BY <4>3 DEF e
      <3> QED BY <3>1, <3>2
    <2>3. ASSUME NEW x \in DOMAIN own, NEW j \in Ptrs, d2.block[x].ptr[j] # None
          PROVE  /\ d2.block[x].ptr[j] \in DOMAIN own
                 /\ own[d2.block[x].ptr[j]] = <<"block", x, j>>
      <3>1. d2.block[x].ptr[j] = d.block[x].ptr[j]
        BY <1>4
      <3> QED BY <2>1, <2>3, <3>1 DEF Tree
    <2> QED BY <2>2, <2>3 DEF Tree
  <1>7. \A i \in DOMAIN n : Held(<<i, d2.inode[i].ptr>>, own)
    BY <1>1 DEF Sound, Held, Fresh
  <1>8. Apart(d2, own)
    <2>1. \A x \in DOMAIN own, j \in Ents :
             \/ d2.block[x].ent[j] = d.block[x].ent[j]
             \/ d2.block[x].ent[j] = content.ent[k]
      BY <1>4
    <2> QED BY <2>1 DEF Sound, Apart, IsNamed
  <1>9. Sound(d2, H, own, n)
    BY <1>5, <1>6, <1>7, <1>8 DEF Sound
  <1> QED BY <1>9
-----------------------------------------------------------------------------
(* Finding a block for a read: every block on the way has an owner.        *)
IsWay(at, d, inode, route) ==
    /\ At(d, inode, route) = at[Len(route)]
    /\ at[1] = inode.ptr[route[1]]
    /\ \A k \in 1 .. Len(route) : at[k] \in Links
    /\ \A k \in 2 .. Len(route) :
          at[k] = IF at[k - 1] = None THEN None ELSE d.block[at[k - 1]].ptr[route[k]]

LEMMA WayExists ==
    ASSUME NEW d \in DiskT, NEW inode \in InodeT, NEW route, Leads(route)
    PROVE  \E at : IsWay(at, d, inode, route)
  <1> DEFINE n == Len(route)
             Then(k, y) == IF y = None THEN None ELSE d.block[y].ptr[route[k]]
             S == [k \in 1 .. n |-> Links]
             x == inode.ptr[route[1]]
             step == [k \in 2 .. n |-> [y \in Links |-> Then(k, y)]]
             Is(at) == at = [k \in 1 .. n |-> IF k = 1 THEN x ELSE Then(k, at[k - 1])]
  <1>1. /\ n \in 1 .. 4 /\ route[1] \in Fields /\ route # <<>>
        /\ \A k \in 2 .. n : route[k] \in Ptrs
    BY DEF Leads
  <1>2. x \in Links
    BY <1>1 DEF InodeT
  <1>3. ASSUME NEW k \in 2 .. n, NEW y \in Links PROVE Then(k, y) \in Links
    <2>1. CASE y = None
      BY <2>1, Numbers DEF None
    <2>2. CASE y # None
      <3>1. y \in Blocks
        BY <2>2, Numbers DEF None
      <3>2. d.block[y] \in BlockT
        BY <3>1 DEF DiskT
      <3> QED BY <1>1, <2>2, <3>2 DEF BlockT
    <2> QED BY <2>1, <2>2
  <1>4. \E at : Is(at)
    <2>1. x \in S[1]
      BY <1>1, <1>2
    <2>2. /\ \A k \in 1 .. n : S[k] = Links
          /\ \A k \in 2 .. n : \A y \in Links : step[k][y] = Then(k, y)
      OBVIOUS
    <2> HIDE DEF S, step, n, x, Then
    <2>3. \A k \in 1 + 1 .. n : k \in 2 .. n /\ k \in 1 .. n /\ k - 1 \in 1 .. n
      BY <1>1
    <2>4. StaysIn(step, 1, n, S)
      BY <1>3, <2>2, <2>3 DEF StaysIn
    <2>5. PICK f : IsIterated(f, 1, n, S, x, step)
      BY <1>1, <2>1, <2>4, Iterates
    <2>6. ASSUME NEW k \in 1 .. n
          PROVE  f[k] = IF k = 1 THEN x ELSE Then(k, f[k - 1])
      <3>1. CASE k = 1
        BY <2>5, <3>1 DEF IsIterated
      <3>2. CASE k # 1
        <4>1. k \in 1 + 1 .. n /\ k \in 2 .. n /\ k - 1 \in 1 .. n
          BY <1>1, <3>2
        <4>2. f[k - 1] \in Links /\ f[k] = step[k][f[k - 1]]
          BY <2>2, <2>5, <4>1 DEF IsIterated
        <4> QED BY <2>2, <3>2, <4>1, <4>2
      <3> QED BY <3>1, <3>2
    <2>7. f = [k \in 1 .. n |-> f[k]]
      BY <2>5 DEF IsIterated
    <2>8. Is(f)
      BY <2>6, <2>7
    <2> QED BY <2>8
  <1> DEFINE F == CHOOSE at : Is(at)
  <1>5. Is(F)
    <2> HIDE DEF Is
    <2> QED BY <1>4
  <1>6. At(d, inode, route) = F[n]
    BY <1>1 DEF At
  <1> HIDE DEF F
  <1>7. F[1] = x /\ \A k \in 2 .. n : k - 1 \in 1 .. n /\ k \in 1 .. n /\ F[k] = Then(k, F[k - 1])
    <2> HIDE DEF Then, x, n
    <2> QED BY <1>1, <1>5
  <1> DEFINE T == {k \in 1 .. n : F[k] \in Links}
  <1>8. 1 \in T
    BY <1>1, <1>2, <1>7
  <1>9. ASSUME NEW k \in 1 + 1 .. n, k - 1 \in T PROVE k \in T
    <2>1. k \in 2 .. n /\ F[k - 1] \in Links
      BY <1>1, <1>9
    <2> HIDE DEF Then
    <2> QED BY <1>3, <1>7, <2>1
  <1> HIDE DEF T
  <1>10. 1 .. n \subseteq T
    BY <1>1, <1>8, <1>9, UpTo
  <1>11. \A k \in 1 .. n : F[k] \in Links
    BY <1>10 DEF T
  <1>12. IsWay(F, d, inode, route)
    BY <1>6, <1>7, <1>11 DEF IsWay
  <1> QED BY <1>12

(* A way through what is sound: each block owned by the one before it.     *)
LEMMA WayOwned ==
    ASSUME NEW d \in DiskT, NEW H, NEW own, NEW named, Sound(d, H, own, named),
           NEW i, NEW inode \in InodeT, Held(<<i, inode.ptr>>, own),
           NEW route, Leads(route), NEW at, IsWay(at, d, inode, route),
           NEW k \in 1 .. Len(route), at[k] # None
    PROVE  /\ at[k] \in DOMAIN own
           /\ k = 1 => own[at[k]] = <<"inode", i, route[1]>>
           /\ k # 1 => /\ k - 1 \in 1 .. Len(route) /\ at[k - 1] # None
                       /\ own[at[k]] = <<"block", at[k - 1], route[k]>>
  <1> DEFINE n == Len(route)
  <1>1. n \in 1 .. 4
    BY DEF Leads
  <1>2. at[1] # None => at[1] \in DOMAIN own /\ own[at[1]] = <<"inode", i, route[1]>>
    BY DEF IsWay, Held, Leads
  <1>3. ASSUME NEW j \in 2 .. n, at[j] # None, at[j - 1] \in DOMAIN own
        PROVE  at[j] \in DOMAIN own /\ own[at[j]] = <<"block", at[j - 1], route[j]>>
    <2>1. at[j - 1] # None /\ at[j] = d.block[at[j - 1]].ptr[route[j]]
      BY <1>3 DEF IsWay
    <2>2. route[j] \in Ptrs
      BY DEF Leads
    <2> QED BY <1>3, <2>1, <2>2 DEF Sound, Tree
  <1>4. \A j \in 2 .. n : at[j] # None => at[j - 1] # None
    BY DEF IsWay
  <1> DEFINE T == {j \in 1 .. n : at[j] # None => at[j] \in DOMAIN own}
  <1>5. 1 \in T
    BY <1>1, <1>2
  <1>6. ASSUME NEW j \in 1 + 1 .. n, j - 1 \in T PROVE j \in T
    <2>1. j \in 2 .. n /\ j \in 1 .. n
      BY <1>1
    <2>2. at[j] # None => at[j - 1] \in DOMAIN own
      BY <1>4, <1>6, <2>1
    <2> QED BY <1>3, <2>1, <2>2
  <1>7. 1 .. n \subseteq T
    <2> HIDE DEF T, n
    <2> QED BY <1>1, <1>5, <1>6, UpTo
  <1>8. \A j \in 1 .. n : at[j] # None => at[j] \in DOMAIN own
    BY <1>7 DEF T
  <1>9. k # 1 => k \in 2 .. n /\ k - 1 \in 1 .. n
    BY <1>1
  <1>10. k # 1 => at[k - 1] # None
    BY <1>4, <1>9
  <1>11. k # 1 => own[at[k]] = <<"block", at[k - 1], route[k]>>
    <2> SUFFICES ASSUME k # 1 PROVE own[at[k]] = <<"block", at[k - 1], route[k]>>
      OBVIOUS
    <2>1. k \in 2 .. n /\ at[k - 1] \in DOMAIN own
      BY <1>8, <1>9, <1>10
    <2> QED BY <1>3, <2>1
  <1> QED BY <1>2, <1>8, <1>9, <1>10, <1>11

LEMMA AtOwned ==
    ASSUME NEW d \in DiskT, NEW H, NEW own, NEW named, Sound(d, H, own, named),
           NEW i, NEW inode \in InodeT, Held(<<i, inode.ptr>>, own),
           NEW route, route = <<>> \/ Leads(route)
    PROVE  /\ At(d, inode, route) \in Links
           /\ At(d, inode, route) # None => At(d, inode, route) \in DOMAIN own
  <1>1. CASE route = <<>>
    BY <1>1, Numbers DEF At, None
  <1>2. CASE Leads(route)
    <2>1. PICK at : IsWay(at, d, inode, route)
      BY <1>2, WayExists
    <2> DEFINE n == Len(route)
    <2>2. n \in 1 .. n
      BY <1>2 DEF Leads
    <2>3. at[n] # None => at[n] \in DOMAIN own
      BY <1>2, <2>1, <2>2, WayOwned
    <2> QED BY <2>1, <2>2, <2>3 DEF IsWay
  <1> QED BY <1>1, <1>2

(* An entry of a directory that has a name leads to an inode that has one. *)
LEMMA EntryNamed ==
    ASSUME NEW d \in DiskT, NEW H, NEW own, NEW named, Sound(d, H, own, named),
           NEW i, NEW dir \in InodeT, Held(<<i, dir.ptr>>, own), NEW k \in Nat,
           NEW b, b = BlockOf(d, dir, k \div DirentsPerBlock),
           NEW e, e = Entry(d, dir, k)
    PROVE  /\ b \in Links /\ k % DirentsPerBlock \in Ents /\ e.inode \in Inodes
           /\ e.inode # None =>
                 /\ b \in DOMAIN own /\ b \in Blocks
                 /\ e = d.block[b].ent[k % DirentsPerBlock]
                 /\ e.inode \in DOMAIN named
                 /\ named[e.inode] = <<b, k % DirentsPerBlock>>
  <1> DEFINE q == k \div DirentsPerBlock  r == k % DirentsPerBlock
  <1>1. q \in Nat /\ r \in Ents
    <2>1. q \in Nat /\ r \in 0 .. DirentsPerBlock - 1
      BY Sizes, Divided
    <2> HIDE DEF q, r
    <2> QED BY <2>1 DEF Ents
  <1>2. Route(q) = <<>> \/ Leads(Route(q))
    BY <1>1, RouteLeads
  <1>3. b = At(d, dir, Route(q))
    BY DEF BlockOf
  <1>4. e = IF b = None THEN NoEntry ELSE d.block[b].ent[r]
    BY DEF Entry
  <1> HIDE DEF q, r
  <1>5. b \in Links /\ (b # None => b \in DOMAIN own)
    BY <1>2, <1>3, AtOwned
  <1>6. CASE b = None
    <2>1. e = NoEntry
      BY <1>4, <1>6
    <2>2. NoEntry.inode = None
      BY DEF NoEntry
    <2>3. e.inode \in Inodes
      BY <2>1, <2>2, Numbers DEF None
    <2> QED BY <1>1, <1>5, <2>1, <2>2, <2>3, Zenon DEF r
  <1>7. CASE b # None
    <2>1. b \in Blocks
      BY <1>5, <1>7, Numbers DEF None
    <2>2. d.block[b] \in BlockT
      BY <2>1 DEF DiskT
    <2>3. e = d.block[b].ent[r] /\ e \in EntryT
      BY <1>1, <1>4, <1>7, <2>2 DEF BlockT
    <2>4. e.inode \in Inodes
      BY <2>3 DEF EntryT
    <2>5. e.inode # None => e.inode \in DOMAIN named /\ named[e.inode] = <<b, r>>
      BY <1>1, <1>5, <1>7, <2>3 DEF Sound, Tree
    <2> QED BY <1>1, <1>5, <1>7, <2>1, <2>3, <2>4, <2>5 DEF r
  <1> QED BY <1>6, <1>7

LEMMA Looked ==
    ASSUME NEW d \in DiskT, NEW H, NEW own, NEW named, Sound(d, H, own, named),
           NEW i, NEW dir \in InodeT, Held(<<i, dir.ptr>>, own), NEW name
    PROVE  /\ txfs_dir_lookup(d, dir, name) \in DOMAIN named \union {NotFound}
           /\ Matches(d, dir, name) # {} =>
                 LET k == Least(Matches(d, dir, name))
                 IN  /\ k \in Nat /\ Entry(d, dir, k).inode # None
                     /\ txfs_dir_lookup(d, dir, name) = Entry(d, dir, k).inode
  <1> DEFINE M == Matches(d, dir, name)
  <1>1. M \in SUBSET Nat
    BY DEF Matches, InodeT
  <1>2. \A k \in M : Entry(d, dir, k).inode # None
    BY DEF Matches
  <1>3. txfs_dir_lookup(d, dir, name) = IF M = {} THEN NotFound ELSE Entry(d, dir, Least(M)).inode
    BY Zenon DEF txfs_dir_lookup
  <1> HIDE DEF M
  <1>4. CASE M = {}
    BY <1>3, <1>4 DEF M
  <1>5. CASE M # {}
    <2>1. Least(M) \in M /\ Least(M) \in Nat
      BY <1>1, <1>5, LeastExists
    <2>2. Entry(d, dir, Least(M)).inode # None
      BY <1>2, <2>1
    <2> DEFINE k == Least(M)
    <2>3. Entry(d, dir, k).inode \in DOMAIN named
      <3> HIDE DEF k
      <3> QED BY <2>1, <2>2, EntryNamed DEF k
    <2> QED BY <1>3, <1>5, <2>1, <2>2, <2>3, Zenon DEF M
  <1> QED BY <1>4, <1>5

(* The names of a path lead to inodes that have a name.                    *)
LEMMA Walked ==
    ASSUME NEW d \in DiskT, NEW H, NEW own, NEW named, Sound(d, H, own, named),
           NEW path, Len(path) \in Nat
    PROVE  /\ \A k \in 0 .. Len(path) : Walk(d, path)[k] \in DOMAIN named \union {NotFound}
           /\ Walk(d, path)[0] = 0
           /\ \A k \in 1 .. Len(path) :
                 LET j == Walk(d, path)[k - 1]
                 IN  Walk(d, path)[k] =
                        IF j = NotFound \/ d.inode[j].type # "dir" THEN NotFound
                        ELSE txfs_dir_lookup(d, d.inode[j], path[k])
  <1> DEFINE n == Len(path)
             L == DOMAIN named \union {NotFound}
             Then(k, j) == IF j = NotFound \/ d.inode[j].type # "dir" THEN NotFound
                           ELSE txfs_dir_lookup(d, d.inode[j], path[k])
             S == [k \in 0 .. n |-> L]
             step == [k \in 1 .. n |-> [j \in L |-> Then(k, j)]]
             Body(k, i) ==
                CASE k = 0 -> 0
                  [] k > 0 /\ (i = NotFound \/ d.inode[i].type # "dir") -> NotFound
                  [] OTHER -> txfs_dir_lookup(d, d.inode[i], path[k])
             Is(at) == at = [k \in 0 .. n |-> Body(k, at[k - 1])]
  <1>1. n \in Nat /\ 0 \in L
    BY DEF Sound, Marked
  <1>2. ASSUME NEW k, NEW j \in L PROVE Then(k, j) \in L
    <2>1. CASE j = NotFound \/ d.inode[j].type # "dir"
      BY <2>1
    <2>2. CASE ~(j = NotFound \/ d.inode[j].type # "dir")
      <3>1. j \in DOMAIN named /\ j \in Inodes
        BY <2>2 DEF Sound, Marked, DiskT
      <3>2. d.inode[j] \in InodeT /\ Held(<<j, d.inode[j].ptr>>, own)
        BY <3>1 DEF DiskT, Sound
      <3>3. txfs_dir_lookup(d, d.inode[j], path[k]) \in L
        BY <3>2, Looked
      <3> QED BY <2>2, <3>3
    <2> QED BY <2>1, <2>2
  <1>3. ASSUME NEW k \in 0 .. n, NEW i
        PROVE  Body(k, i) = IF k = 0 THEN 0 ELSE Then(k, i)
    <2>1. k = 0 <=> ~(k > 0)
      BY <1>1
    <2>2. CASE k = 0
      BY <2>1, <2>2, Zenon
    <2>3. CASE k # 0 /\ (i = NotFound \/ d.inode[i].type # "dir")
      BY <2>1, <2>3, Zenon
    <2>4. CASE k # 0 /\ ~(i = NotFound \/ d.inode[i].type # "dir")
      BY <2>1, <2>4, Zenon
    <2> QED BY <2>2, <2>3, <2>4
  <1>4. \E at : Is(at)
    <2>1. 0 \in S[0]
      BY <1>1
    <2>2. /\ \A k \in 0 .. n : S[k] = L
          /\ \A k \in 1 .. n : \A j \in L : step[k][j] = Then(k, j)
      OBVIOUS
    <2>3. \A k \in 0 + 1 .. n : k \in 1 .. n /\ k \in 0 .. n /\ k - 1 \in 0 .. n
      BY <1>1
    <2> HIDE DEF S, step, n, L, Then
    <2>4. StaysIn(step, 0, n, S)
      BY <1>2, <2>2, <2>3 DEF StaysIn
    <2>5. PICK f : IsIterated(f, 0, n, S, 0, step)
      BY <1>1, <2>1, <2>4, Iterates
    <2>6. ASSUME NEW k \in 0 .. n
          PROVE  f[k] = IF k = 0 THEN 0 ELSE Then(k, f[k - 1])
      <3>1. CASE k = 0
        BY <2>5, <3>1 DEF IsIterated
      <3>2. CASE k # 0
        <4>1. k \in 0 + 1 .. n /\ k \in 1 .. n /\ k - 1 \in 0 .. n
          BY <1>1, <3>2
        <4>2. f[k - 1] \in L /\ f[k] = step[k][f[k - 1]]
          BY <2>2, <2>5, <4>1 DEF IsIterated
        <4> QED BY <2>2, <3>2, <4>1, <4>2
      <3> QED BY <3>1, <3>2
    <2>7. f = [k \in 0 .. n |-> f[k]]
      BY <2>5 DEF IsIterated
    <2> HIDE DEF Body
    <2>8. \A k \in 0 .. n : f[k] = Body(k, f[k - 1])
      BY <1>3, <2>6
    <2>9. Is(f)
      BY <2>7, <2>8
    <2> QED BY <2>9
  <1> DEFINE F == CHOOSE at : Is(at)
  <1>5. Is(F)
    <2> HIDE DEF Is
    <2> QED BY <1>4
  <1>6. Walk(d, path) = F
    BY DEF Walk
  <1> HIDE DEF F, Body
  <1>7. \A k \in 0 .. n : F[k] = IF k = 0 THEN 0 ELSE Then(k, F[k - 1])
    <2> HIDE DEF Then
    <2>1. \A k \in 0 .. n : F[k] = Body(k, F[k - 1])
      BY <1>5
    <2> QED BY <1>3, <2>1
  <1> HIDE DEF Is, S, step
  <1> DEFINE T == {k \in 0 .. n : F[k] \in L}
  <1>8. 0 \in T
    <2>1. 0 \in 0 .. n
      BY <1>1
    <2> QED BY <1>1, <1>7, <2>1
  <1>9. ASSUME NEW k \in 0 + 1 .. n, k - 1 \in T PROVE k \in T
    <2>1. k \in 0 .. n /\ k # 0 /\ F[k - 1] \in L
      BY <1>1, <1>9
    <2> HIDE DEF Then, L
    <2>2. F[k] = Then(k, F[k - 1])
      BY <1>7, <2>1
    <2> QED BY <1>2, <2>1, <2>2
  <1>10. 0 .. n \subseteq T
    <2> HIDE DEF T, n
    <2> QED BY <1>1, <1>8, <1>9, UpTo
  <1>11. \A k \in 0 .. n : F[k] \in L
    BY <1>10
  <1>12. F[0] = 0 /\ \A k \in 1 .. n : F[k] = Then(k, F[k - 1])
    <2> HIDE DEF Then
    <2>1. 0 \in 0 .. n /\ \A k \in 1 .. n : k \in 0 .. n /\ k # 0
      BY <1>1
    <2> QED BY <1>7, <2>1
  <1> QED BY <1>6, <1>11, <1>12, Zenon
-----------------------------------------------------------------------------
(* What a safe disk is good for.                                           *)
LEMMA NamedStay ==
    ASSUME NEW d \in DiskT, NEW H, NEW own, NEW named, Sound(d, H, own, named),
           NEW I \in SUBSET DOMAIN named
    PROVE  Named(d, I) \subseteq DOMAIN named
  <1>1. ASSUME NEW i \in Dirs(d, I), NEW k \in 0 .. d.inode[i].size - 1
        PROVE  Entry(d, d.inode[i], k).inode \in DOMAIN named
    <2> DEFINE e == Entry(d, d.inode[i], k)
               b == BlockOf(d, d.inode[i], k \div DirentsPerBlock)
    <2>1. i \in DOMAIN named /\ i \in Inodes
      BY DEF Dirs, Sound, Marked, DiskT
    <2>2. d.inode[i] \in InodeT /\ Held(<<i, d.inode[i].ptr>>, own)
      BY <2>1 DEF DiskT, Sound
    <2>3. k \in Nat
      BY <2>2 DEF InodeT
    <2>4. e.inode # None => e.inode \in DOMAIN named
      <3>1. e = Entry(d, d.inode[i], k) /\ b = BlockOf(d, d.inode[i], k \div DirentsPerBlock)
        OBVIOUS
      <3> HIDE DEF e, b
      <3> QED BY <2>2, <2>3, <3>1, EntryNamed
    <2>5. None \in DOMAIN named
      BY DEF Sound, Marked, None
    <2> HIDE DEF e
    <2>6. e.inode \in DOMAIN named
      BY <2>4, <2>5
    <2> QED BY <2>6 DEF e
  <1> QED BY <1>1 DEF Named

LEMMA ReachableNamed ==
    ASSUME NEW d \in DiskT, NEW H, NEW own, NEW named, Sound(d, H, own, named)
    PROVE  Reachable(d) \subseteq DOMAIN named
  <1>1. {0} \subseteq DOMAIN named
    BY DEF Sound, Marked
  <1>2. Named(d, {0}) \subseteq DOMAIN named
    BY <1>1, NamedStay
  <1> QED BY <1>2, NamedStay DEF Reachable

LEMMA RoutesLead ==
    ASSUME NEW r \in Routes
    PROVE  Leads(r)
  <1>0. PICK s \in Fields :
           \E n \in 0 .. Depth(s) : \E q \in [1 .. n -> 0 .. PtrsPerBlock - 1] : r = <<s>> \o q
    <2>1. PICK s \in Fields :
             r \in UNION {{<<s>> \o q : q \in [1 .. n -> 0 .. PtrsPerBlock - 1]} :
                              n \in 0 .. Depth(s)}
      BY Zenon DEF Routes
    <2> QED BY <2>1, Zenon
  <1>10. PICK n \in 0 .. Depth(s) : \E q \in [1 .. n -> 0 .. PtrsPerBlock - 1] : r = <<s>> \o q
    BY <1>0
  <1>1. PICK q \in [1 .. n -> 0 .. PtrsPerBlock - 1] : r = <<s>> \o q
    BY <1>10
  <1>2. Depth(s) \in 0 .. 3 /\ s \in Nat
    BY Sizes DEF Depth, Fields
  <1>3. n \in 0 .. 3
    BY <1>2
  <1>4. \A k \in 0 .. PtrsPerBlock - 1 : k \in Ptrs /\ k \in Nat
    BY Sizes DEF Ptrs
  <1>5. q \in Seq(Nat) /\ Len(q) = n /\ \A k \in 1 .. n : q[k] \in Ptrs
    <2>1. n \in Nat /\ q \in [1 .. n -> Nat] /\ \A k \in 1 .. n : q[k] \in Ptrs
      <3>1. \A k \in 1 .. n : q[k] \in 0 .. PtrsPerBlock - 1
        BY <1>1
      <3>2. \A k \in 1 .. n : q[k] \in Ptrs /\ q[k] \in Nat
        BY <1>4, <3>1
      <3> QED BY <1>1, <1>3, <3>2
    <2>2. q \in Seq(Nat)
      BY <2>1
    <2> QED BY <2>1, <2>2
  <1>6. <<s>> \in Seq(Nat) /\ Len(<<s>>) = 1 /\ <<s>>[1] = s
    BY <1>2
  <1>7. r \in Seq(Nat) /\ Len(r) = 1 + n /\ r[1] = s
        /\ \A k \in 2 .. 1 + n : r[k] = q[k - 1]
    BY <1>1, <1>3, <1>5, <1>6
  <1>8. \A k \in 2 .. 1 + n : k - 1 \in 1 .. n
    BY <1>3
  <1> QED BY <1>3, <1>5, <1>7, <1>8 DEF Leads

(* Two ways that meet are the same.                                        *)
IsWayFrom(at, d, own, i, inode, route) ==
    /\ inode \in InodeT /\ Held(<<i, inode.ptr>>, own)
    /\ Leads(route) /\ IsWay(at, d, inode, route)

LEMMA WaysMeet ==
    ASSUME NEW d \in DiskT, NEW H, NEW own, NEW named, Sound(d, H, own, named),
           NEW at, NEW i, NEW x, NEW q, IsWayFrom(at, d, own, i, x, q),
           NEW bt, NEW j, NEW y, NEW r, IsWayFrom(bt, d, own, j, y, r),
           NEW m \in 1 .. Len(q), NEW n \in 1 .. Len(r), at[m] # None, at[m] = bt[n]
    PROVE  m = n /\ i = j /\ \A k \in 1 .. m : q[k] = r[k]
  <1> DEFINE Same(mm, nn) == mm = nn /\ i = j /\ \A k \in 1 .. mm : q[k] = r[k]
             N == Len(q)
             T == {mm \in 1 .. N :
                      \A nn \in 1 .. Len(r) : at[mm] # None /\ at[mm] = bt[nn] => Same(mm, nn)}
  <1>1. N \in 1 .. 4 /\ Len(r) \in 1 .. 4
    BY DEF IsWayFrom, Leads
  <1>0. 1 \in 1 .. N /\ 1 \in 1 .. Len(r)
    BY <1>1
  <1>2. \A k \in 1 .. Len(q) : at[k] # None =>
           /\ k = 1 => own[at[k]] = <<"inode", i, q[1]>>
           /\ k # 1 => /\ k - 1 \in 1 .. Len(q) /\ at[k - 1] # None
                       /\ own[at[k]] = <<"block", at[k - 1], q[k]>>
    <2> TAKE k \in 1 .. Len(q)
    <2> HAVE at[k] # None
    <2> QED BY WayOwned DEF IsWayFrom
  <1>3. \A k \in 1 .. Len(r) : bt[k] # None =>
           /\ k = 1 => own[bt[k]] = <<"inode", j, r[1]>>
           /\ k # 1 => /\ k - 1 \in 1 .. Len(r) /\ bt[k - 1] # None
                       /\ own[bt[k]] = <<"block", bt[k - 1], r[k]>>
    <2> TAKE k \in 1 .. Len(r)
    <2> HAVE bt[k] # None
    <2> QED BY WayOwned DEF IsWayFrom
  <1>4. 1 \in T
    <2> SUFFICES ASSUME NEW nn \in 1 .. Len(r), at[1] # None, at[1] = bt[nn]
                 PROVE  Same(1, nn)
      BY <1>1
    <2>1. own[at[1]] = <<"inode", i, q[1]>>
      BY <1>0, <1>2
    <2>2. nn = 1 /\ own[bt[1]] = <<"inode", j, r[1]>>
      BY <1>0, <1>3, <2>1
    <2> QED BY <2>1, <2>2
  <1>5. ASSUME NEW mm \in 1 + 1 .. N, mm - 1 \in T PROVE mm \in T
    <2>0. mm \in 1 .. N /\ mm # 1
      BY <1>1
    <2> SUFFICES ASSUME NEW nn \in 1 .. Len(r), at[mm] # None, at[mm] = bt[nn]
                 PROVE  Same(mm, nn)
      BY <2>0
    <2>1. at[mm - 1] # None /\ own[at[mm]] = <<"block", at[mm - 1], q[mm]>>
      BY <1>2, <2>0
    <2>2. nn # 1
      BY <1>3, <2>1
    <2>3. /\ nn - 1 \in 1 .. Len(r) /\ bt[nn - 1] # None
          /\ own[bt[nn]] = <<"block", bt[nn - 1], r[nn]>>
      BY <1>3, <2>2
    <2>4. at[mm - 1] = bt[nn - 1] /\ q[mm] = r[nn]
      BY <2>1, <2>3
    <2>5. Same(mm - 1, nn - 1)
      BY <1>5, <2>1, <2>3, <2>4
    <2>6. mm = nn /\ i = j
      BY <1>1, <2>0, <2>5
    <2>7. \A k \in 1 .. mm : k = mm \/ k \in 1 .. mm - 1
      BY <1>1, <2>0
    <2> QED BY <2>4, <2>5, <2>6, <2>7
  <1>6. 1 .. N \subseteq T
    <2> HIDE DEF T, N
    <2> QED BY <1>0, <1>1, <1>4, <1>5, UpTo
  <1>7. Same(m, n)
    BY <1>6
  <1> QED BY <1>7

LEMMA SafeMarks ==
    ASSUME NEW d \in DiskT, Safe(d)
    PROVE  /\ \A i \in Reachable(d) : i \in d.ibitmap /\ d.inode[i].type # "none"
           /\ \A r \in References(d) : Target(d, r) \in d.bbitmap
  <1>1. PICK own, named : Sound(d, {}, own, named)
    BY DEF Safe
  <1>2. Reachable(d) \subseteq DOMAIN named
    BY <1>1, ReachableNamed
  <1>3. \A i \in DOMAIN named : /\ i \in d.ibitmap /\ i \in Inodes
                                /\ d.inode[i].type # "none" /\ d.inode[i] \in InodeT
                                /\ Held(<<i, d.inode[i].ptr>>, own)
    BY <1>1 DEF Sound, Marked, DiskT
  <1>4. ASSUME NEW r \in References(d) PROVE Target(d, r) \in d.bbitmap
    <2>1. /\ r[1] \in DOMAIN named /\ r[2] \in Routes
          /\ Target(d, r) # None /\ Target(d, r) = At(d, d.inode[r[1]], r[2])
      BY <1>2 DEF References, Target
    <2>2. d.inode[r[1]] \in InodeT /\ Held(<<r[1], d.inode[r[1]].ptr>>, own)
      BY <1>3, <2>1
    <2>3. Leads(r[2])
      BY <2>1, RoutesLead
    <2>4. Target(d, r) \in DOMAIN own
      BY <1>1, <2>1, <2>2, <2>3, AtOwned
    <2> QED BY <1>1, <2>4 DEF Sound, Marked
  <1> QED BY <1>2, <1>3, <1>4

LEMMA SafeOwns ==
    ASSUME NEW d \in DiskT, Safe(d),
           NEW q \in References(d), NEW r \in References(d), Target(d, q) = Target(d, r)
    PROVE  q = r
  <1>1. PICK own, named : Sound(d, {}, own, named)
    BY DEF Safe
  <1>2. Reachable(d) \subseteq DOMAIN named
    BY <1>1, ReachableNamed
  <1>3. ASSUME NEW p \in References(d)
        PROVE  /\ p = <<p[1], p[2]>> /\ Leads(p[2]) /\ Target(d, p) # None
               /\ d.inode[p[1]] \in InodeT /\ Held(<<p[1], d.inode[p[1]].ptr>>, own)
               /\ \E at : IsWay(at, d, d.inode[p[1]], p[2]) /\ Target(d, p) = at[Len(p[2])]
    <2>1. /\ p \in Reachable(d) \X Routes /\ Target(d, p) # None
          /\ Target(d, p) = At(d, d.inode[p[1]], p[2])
      BY DEF References, Target
    <2>2. p = <<p[1], p[2]>> /\ p[1] \in DOMAIN named /\ p[2] \in Routes
      BY <1>2, <2>1
    <2>3. p[1] \in Inodes
      BY <1>1, <2>2 DEF Sound, Marked, DiskT
    <2>4. d.inode[p[1]] \in InodeT /\ Held(<<p[1], d.inode[p[1]].ptr>>, own)
      BY <1>1, <2>2, <2>3 DEF DiskT, Sound
    <2>5. Leads(p[2])
      BY <2>2, RoutesLead
    <2>6. PICK at : IsWay(at, d, d.inode[p[1]], p[2])
      BY <2>4, <2>5, WayExists
    <2> QED BY <2>1, <2>2, <2>4, <2>5, <2>6 DEF IsWay
  <1>4. PICK at : IsWay(at, d, d.inode[q[1]], q[2]) /\ Target(d, q) = at[Len(q[2])]
    BY <1>3
  <1>5. PICK bt : IsWay(bt, d, d.inode[r[1]], r[2]) /\ Target(d, r) = bt[Len(r[2])]
    BY <1>3
  <1>6. /\ Leads(q[2]) /\ d.inode[q[1]] \in InodeT /\ Held(<<q[1], d.inode[q[1]].ptr>>, own)
        /\ Leads(r[2]) /\ d.inode[r[1]] \in InodeT /\ Held(<<r[1], d.inode[r[1]].ptr>>, own)
        /\ Target(d, q) # None
    BY <1>3
  <1> DEFINE m == Len(q[2])  n == Len(r[2])
  <1>7. m \in 1 .. m /\ n \in 1 .. n /\ q[2] \in Seq(Nat) /\ r[2] \in Seq(Nat)
    BY <1>6 DEF Leads
  <1>8. m = n /\ q[1] = r[1] /\ \A k \in 1 .. m : q[2][k] = r[2][k]
    <2> DEFINE i == q[1]  j == r[1]  x == d.inode[i]  y == d.inode[j]  s == q[2]  t == r[2]
    <2>1. /\ x \in InodeT /\ Held(<<i, x.ptr>>, own) /\ Leads(s) /\ IsWay(at, d, x, s)
          /\ y \in InodeT /\ Held(<<j, y.ptr>>, own) /\ Leads(t) /\ IsWay(bt, d, y, t)
          /\ m = Len(s) /\ n = Len(t) /\ m \in 1 .. Len(s) /\ n \in 1 .. Len(t)
          /\ at[m] # None /\ at[m] = bt[n]
      BY <1>4, <1>5, <1>6, <1>7
    <2> HIDE DEF i, j, x, y, s, t, m, n
    <2>2. IsWayFrom(at, d, own, i, x, s) /\ IsWayFrom(bt, d, own, j, y, t)
      BY <2>1 DEF IsWayFrom
    <2>3. m \in 1 .. Len(s) /\ n \in 1 .. Len(t) /\ at[m] # None /\ at[m] = bt[n]
      BY <2>1
    <2>4. m = n /\ i = j /\ \A k \in 1 .. m : s[k] = t[k]
      BY <1>1, <2>2, <2>3, WaysMeet
    <2> QED BY <2>4 DEF i, j, s, t
  <1>9. q[2] = r[2]
    <2>1. Len(q[2]) = Len(r[2]) /\ \A k \in 1 .. Len(q[2]) : q[2][k] = r[2][k]
      BY <1>8
    <2> HIDE DEF m, n
    <2> QED BY <1>7, <2>1, SeqEqual
  <1> QED BY <1>3, <1>8, <1>9
-----------------------------------------------------------------------------
(* What a write leaves as it was.  Where pointers are only added, they     *)
(* lead to the blocks M, and further ways through these stay among them.   *)
Added(S, p, q, M) == \A s \in S : IF p[s] # None THEN q[s] = p[s] ELSE q[s] \in M
Within(M, d) ==
    /\ None \in M /\ M \subseteq Links
    /\ \A x \in M, k \in Ptrs : x # None => d.block[x].ptr[k] \in M
Blank(M, d) == \A x \in M : x # None => d.block[x].val = 0
Calm(d, d2, inode, M) ==
    \A route, at : Leads(route) /\ IsWay(at, d, inode, route) =>
        \A k \in 1 .. Len(route) : at[k] # None =>
            /\ Added(Ptrs, d.block[at[k]].ptr, d2.block[at[k]].ptr, M)
            /\ d2.block[at[k]].val = d.block[at[k]].val
Grown(x, y) ==
    y.type = x.type /\ x.size <= y.size /\ Added(Fields, x.ptr, y.ptr, Links)

LEMMA EndsAnywhere ==
    ASSUME NEW d \in DiskT
    PROVE  Within(Links, d)
  <1>1. None \in Links
    BY Numbers DEF None
  <1>2. ASSUME NEW x \in Links, NEW k \in Ptrs, x # None
        PROVE  d.block[x].ptr[k] \in Links
    <2>1. x \in Blocks
      BY <1>2, Numbers DEF None
    <2>2. d.block[x] \in BlockT
      BY <2>1 DEF DiskT
    <2> QED BY <2>1, <2>2 DEF BlockT
  <1> QED BY <1>1, <1>2 DEF Within

LEMMA WayGrows ==
    ASSUME NEW d \in DiskT, NEW d2 \in DiskT, NEW x \in InodeT, NEW y \in InodeT,
           NEW M, Within(M, d2), Added(Fields, x.ptr, y.ptr, M),
           NEW route, Leads(route), NEW at, IsWay(at, d, x, route),
           \A k \in 1 .. Len(route) : at[k] # None =>
               Added(Ptrs, d.block[at[k]].ptr, d2.block[at[k]].ptr, M)
    PROVE  /\ At(d, x, route) # None => At(d2, y, route) = At(d, x, route)
           /\ At(d, x, route) = None => At(d2, y, route) \in M
  <1>1. PICK bt : IsWay(bt, d2, y, route)
    BY WayExists
  <1> DEFINE n == Len(route)
             Like(k) == IF at[k] # None THEN bt[k] = at[k] ELSE bt[k] \in M
             T == {k \in 1 .. n : Like(k)}
  <1>2. /\ n \in 1 .. 4 /\ route[1] \in Fields
        /\ \A k \in 2 .. n : route[k] \in Ptrs
    BY DEF Leads
  <1>3. 1 \in T
    BY <1>1, <1>2 DEF IsWay, Added
  <1>4. ASSUME NEW k \in 1 + 1 .. n, k - 1 \in T PROVE k \in T
    <2>1. k \in 2 .. n /\ k \in 1 .. n /\ k - 1 \in 1 .. n /\ route[k] \in Ptrs /\ Like(k - 1)
      BY <1>2, <1>4
    <2> DEFINE a == at[k - 1]  b == bt[k - 1]  s == route[k]
    <2>2. /\ at[k] = IF a = None THEN None ELSE d.block[a].ptr[s]
          /\ bt[k] = IF b = None THEN None ELSE d2.block[b].ptr[s]
      BY <1>1, <2>1 DEF IsWay
    <2>3. CASE a # None
      <3>1. b = a /\ Added(Ptrs, d.block[a].ptr, d2.block[a].ptr, M)
        BY <2>1, <2>3
      <3> HIDE DEF a, b, s
      <3>2. s \in Ptrs
        BY <2>1 DEF s
      <3> QED BY <2>1, <2>2, <2>3, <3>1, <3>2 DEF Added
    <2>4. CASE a = None
      <3>1. b \in M /\ at[k] = None
        BY <2>1, <2>2, <2>4
      <3> HIDE DEF a, b, s
      <3>2. s \in Ptrs
        BY <2>1 DEF s
      <3> QED BY <2>1, <2>2, <3>1, <3>2 DEF Within
    <2> QED BY <2>3, <2>4
  <1>5. 1 .. n \subseteq T
    <2>1. 1 \in Int /\ n \in Int
      BY <1>2
    <2> HIDE DEF T, n
    <2>2. \A k \in 1 + 1 .. n : k - 1 \in T => k \in T
      BY <1>4
    <2> QED BY <1>3, <2>1, <2>2, UpTo, Zenon
  <1>6. n \in 1 .. n
    BY <1>2
  <1>7. Like(n)
    BY <1>5, <1>6
  <1> QED BY <1>1, <1>7 DEF IsWay

(* A file's contents: what reads as a hole may be a new block of zeros.    *)
LEMMA ContentsStay ==
    ASSUME NEW d \in DiskT, NEW d2 \in DiskT, NEW j \in Inodes, d2.inode[j] = d.inode[j],
           NEW M, Within(M, d2), Blank(M, d2), Calm(d, d2, d.inode[j], M)
    PROVE  FileContents(d2, j) = FileContents(d, j)
  <1> DEFINE x == d.inode[j]
             Value(e, b) == IF b = None THEN None ELSE e.block[b].val
  <1>1. x \in InodeT /\ x.size \in Nat
    BY DEF DiskT, InodeT
  <1>2. ASSUME NEW k \in 0 .. x.size - 1
        PROVE  Value(d2, BlockOf(d2, x, k)) = Value(d, BlockOf(d, x, k))
    <2> DEFINE r == Route(k)  a == At(d, x, r)  b == At(d2, x, r)
    <2>1. r = <<>> \/ Leads(r)
      BY <1>1, RouteLeads
    <2>2. BlockOf(d, x, k) = a /\ BlockOf(d2, x, k) = b
      BY DEF BlockOf
    <2> HIDE DEF r
    <2>3. CASE r = <<>>
      BY <2>2, <2>3 DEF At
    <2>4. CASE Leads(r)
      <3>1. PICK at : IsWay(at, d, x, r)
        BY <1>1, <2>4, WayExists
      <3>2. \A n \in 1 .. Len(r) : at[n] # None =>
               /\ Added(Ptrs, d.block[at[n]].ptr, d2.block[at[n]].ptr, M)
               /\ d2.block[at[n]].val = d.block[at[n]].val
        BY <2>4, <3>1 DEF Calm
      <3>3. Added(Fields, x.ptr, x.ptr, M)
        BY DEF Added, Within
      <3>4. (a # None => b = a) /\ (a = None => b \in M)
        <4> HIDE DEF x
        <4> QED BY <1>1, <2>4, <3>1, <3>2, <3>3, WayGrows
      <3>5. a # None => d2.block[a].val = d.block[a].val
        <4>1. a = at[Len(r)] /\ Len(r) \in 1 .. Len(r)
          BY <2>4, <3>1 DEF IsWay, Leads
        <4> HIDE DEF a
        <4> QED BY <3>2, <4>1
      <3> HIDE DEF a, b
      <3>6. CASE a # None
        BY <2>2, <3>4, <3>5, <3>6
      <3>7. CASE a = None
        <4>1. b # None => d2.block[b].val = 0
          BY <3>4, <3>7 DEF Blank
        <4> QED BY <2>2, <3>7, <4>1 DEF None
      <3> QED BY <3>6, <3>7
    <2> QED BY <2>1, <2>3, <2>4
  <1>3. /\ FileContents(d, j) = [k \in 0 .. x.size - 1 |-> Value(d, BlockOf(d, x, k))]
        /\ FileContents(d2, j) = [k \in 0 .. x.size - 1 |-> Value(d2, BlockOf(d2, x, k))]
    BY DEF FileContents
  <1> HIDE DEF x, Value
  <1> QED BY <1>2, <1>3

(* An entry of a directory.                                                *)
EntryStays(d, d2, dir, k) ==
    LET b == BlockOf(d, dir, k \div DirentsPerBlock)
        e == k % DirentsPerBlock
    IN  Entry(d, dir, k).inode # None => d2.block[b].ent[e].inode = d.block[b].ent[e].inode

LEMMA EntryStayed ==
    ASSUME NEW d \in DiskT, NEW d2 \in DiskT, NEW x \in InodeT, NEW y \in InodeT,
           NEW M \in SUBSET Links, Calm(d, d2, x, M), Added(Fields, x.ptr, y.ptr, Links),
           NEW k \in Nat, EntryStays(d, d2, x, k), Entry(d, x, k).inode # None
    PROVE  Entry(d2, y, k).inode = Entry(d, x, k).inode
  <1> DEFINE q == k \div DirentsPerBlock  e == k % DirentsPerBlock  r == Route(q)
             a == At(d, x, r)  b == At(d2, y, r)
  <1>1. q \in Nat
    BY Sizes, Divided
  <1>2. r = <<>> \/ Leads(r)
    BY <1>1, RouteLeads
  <1>3. /\ Entry(d, x, k) = IF a = None THEN NoEntry ELSE d.block[a].ent[e]
        /\ Entry(d2, y, k) = IF b = None THEN NoEntry ELSE d2.block[b].ent[e]
        /\ a # None => d2.block[a].ent[e].inode = d.block[a].ent[e].inode
    BY Zenon DEF Entry, EntryStays, BlockOf
  <1>4. a # None
    <2>1. NoEntry.inode = None
      BY DEF NoEntry
    <2> HIDE DEF a
    <2> QED BY <1>3, <2>1
  <1>5. Leads(r)
    <2>1. \A f : f = <<>> => At(d, x, f) = None
      BY DEF At
    <2> HIDE DEF r
    <2> QED BY <1>2, <1>4, <2>1
  <1> HIDE DEF q, e, r
  <1>6. PICK at : IsWay(at, d, x, r)
    BY <1>5, WayExists
  <1>7. \A n \in 1 .. Len(r) : at[n] # None =>
           Added(Ptrs, d.block[at[n]].ptr, d2.block[at[n]].ptr, Links)
    <2>1. \A n \in 1 .. Len(r) : at[n] # None =>
             Added(Ptrs, d.block[at[n]].ptr, d2.block[at[n]].ptr, M)
      BY <1>5, <1>6 DEF Calm
    <2> QED BY <2>1 DEF Added
  <1>8. b = a
    BY <1>4, <1>5, <1>6, <1>7, EndsAnywhere, WayGrows
  <1> HIDE DEF a, b
  <1> QED BY <1>3, <1>4, <1>8
(* Files that a call is not about keep their names and contents.           *)
Untouched(d, d2, i) ==
    \A j \in Reachable(d) : d.inode[j].type = "file" /\ j # i =>
        j \in Reachable(d2) /\ FileContents(d2, j) = FileContents(d, j)
DirGrows(d, d2, x, y) ==
    /\ y.type = "dir" /\ x.size <= y.size
    /\ \A k \in 0 .. x.size - 1 : Entry(d, x, k).inode # None =>
          Entry(d2, y, k).inode = Entry(d, x, k).inode
DirsGrow(d, d2, named) ==
    \A j \in DOMAIN named : d.inode[j].type = "dir" =>
        DirGrows(d, d2, d.inode[j], d2.inode[j])

LEMMA NamedGrows ==
    ASSUME NEW d \in DiskT, NEW d2 \in DiskT, NEW H, NEW own, NEW named,
           Sound(d, H, own, named), DirsGrow(d, d2, named),
           NEW S \in SUBSET DOMAIN named, NEW S2, S \subseteq S2, None \in S2
    PROVE  Named(d, S) \subseteq Named(d2, S2) /\ None \in Named(d2, S2)
  <1>1. ASSUME NEW i \in Dirs(d, S), NEW k \in 0 .. d.inode[i].size - 1
        PROVE  Entry(d, d.inode[i], k).inode \in Named(d2, S2)
    <2>1. i \in DOMAIN named /\ i \in Inodes /\ i \in S2 /\ d.inode[i].type = "dir"
      BY DEF Dirs, Sound, Marked, DiskT
    <2>2. d.inode[i].size \in Nat /\ d2.inode[i].size \in Nat
      BY <2>1 DEF DiskT, InodeT
    <2> DEFINE e == Entry(d, d.inode[i], k).inode  e2 == Entry(d2, d2.inode[i], k).inode
    <2>3. /\ d2.inode[i].type = "dir" /\ d.inode[i].size <= d2.inode[i].size
          /\ e # None => e2 = e
      BY <2>1 DEF DirsGrow, DirGrows
    <2>4. i \in Dirs(d2, S2) /\ k \in 0 .. d2.inode[i].size - 1
      BY <2>1, <2>2, <2>3 DEF Dirs
    <2>5. e2 \in Named(d2, S2)
      BY <2>4 DEF Named
    <2>6. None \in Named(d2, S2)
      BY DEF Named
    <2> HIDE DEF e, e2
    <2>7. e \in Named(d2, S2)
      BY <2>3, <2>5, <2>6
    <2> QED BY <2>7 DEF e
  <1>2. S2 \subseteq Named(d2, S2)
    BY DEF Named
  <1>3. \A x \in Named(d, S) :
           \/ x \in S
           \/ \E i \in Dirs(d, S) : \E k \in 0 .. d.inode[i].size - 1 :
                 x = Entry(d, d.inode[i], k).inode
    BY DEF Named
  <1> QED BY <1>1, <1>2, <1>3

LEMMA ReachableGrows ==
    ASSUME NEW d \in DiskT, NEW d2 \in DiskT, NEW H, NEW own, NEW named,
           Sound(d, H, own, named), DirsGrow(d, d2, named)
    PROVE  Reachable(d) \subseteq Reachable(d2)
  <1>1. {0} \in SUBSET DOMAIN named /\ None \in {0}
    BY DEF Sound, Marked, None
  <1>2. Named(d, {0}) \subseteq Named(d2, {0}) /\ None \in Named(d2, {0})
    BY <1>1, NamedGrows
  <1>3. Named(d, {0}) \in SUBSET DOMAIN named
    BY <1>1, NamedStay
  <1> DEFINE S == Named(d, {0})  S2 == Named(d2, {0})
  <1>4. Named(d, S) \subseteq Named(d2, S2)
    <2>1. S \in SUBSET DOMAIN named /\ S \subseteq S2 /\ None \in S2
      BY <1>2, <1>3
    <2> HIDE DEF S, S2
    <2> QED BY <2>1, NamedGrows
  <1> QED BY <1>4 DEF Reachable

(* What a write has to leave alone, for a call about inode i.              *)
FilesCalm(d, d2, named, i, M) ==
    \A j \in DOMAIN named : d.inode[j].type = "file" /\ j # i =>
        d2.inode[j] = d.inode[j] /\ Calm(d, d2, d.inode[j], M)
DirsCalm(d, d2, named, M) ==
    \A j \in DOMAIN named : d.inode[j].type = "dir" =>
        /\ Grown(d.inode[j], d2.inode[j]) /\ Calm(d, d2, d.inode[j], M)
        /\ \A k \in 0 .. d.inode[j].size - 1 : EntryStays(d, d2, d.inode[j], k)

LEMMA CalmStep ==
    ASSUME NEW d \in DiskT, NEW d2 \in DiskT, NEW H, NEW own, NEW named,
           Sound(d, H, own, named), NEW i, NEW M, Within(M, d2), Blank(M, d2),
           FilesCalm(d, d2, named, i, M), DirsCalm(d, d2, named, M)
    PROVE  Untouched(d, d2, i)
  <1>1. \A j \in DOMAIN named : j \in Inodes /\ d.inode[j] \in InodeT /\ d2.inode[j] \in InodeT
    BY DEF Sound, Marked, DiskT
  <1>2. M \in SUBSET Links
    BY DEF Within
  <1>3. DirsGrow(d, d2, named)
    <2> SUFFICES ASSUME NEW j \in DOMAIN named, d.inode[j].type = "dir"
                 PROVE  DirGrows(d, d2, d.inode[j], d2.inode[j])
      BY DEF DirsGrow
    <2> DEFINE x == d.inode[j]  y == d2.inode[j]
    <2>1. /\ x \in InodeT /\ y \in InodeT /\ y.type = "dir" /\ x.size <= y.size
          /\ Added(Fields, x.ptr, y.ptr, Links) /\ Calm(d, d2, x, M)
          /\ \A k \in 0 .. x.size - 1 : EntryStays(d, d2, x, k)
      BY <1>1 DEF DirsCalm, Grown
    <2> HIDE DEF x, y
    <2>2. \A k \in 0 .. x.size - 1 : k \in Nat
      BY <2>1 DEF InodeT
    <2>3. ASSUME NEW k \in 0 .. x.size - 1, Entry(d, x, k).inode # None
          PROVE  Entry(d2, y, k).inode = Entry(d, x, k).inode
      BY <1>2, <2>1, <2>2, <2>3, EntryStayed
    <2>4. DirGrows(d, d2, x, y)
      BY <2>1, <2>3 DEF DirGrows
    <2> QED BY <2>4 DEF x, y
  <1>4. Reachable(d) \subseteq Reachable(d2) /\ Reachable(d) \subseteq DOMAIN named
    BY <1>3, ReachableGrows, ReachableNamed
  <1>5. ASSUME NEW j \in DOMAIN named, d.inode[j].type = "file", j # i
        PROVE  FileContents(d2, j) = FileContents(d, j)
    <2>1. d2.inode[j] = d.inode[j] /\ Calm(d, d2, d.inode[j], M) /\ j \in Inodes
      BY <1>1, <1>5 DEF FilesCalm
    <2> QED BY <2>1, ContentsStay
  <1> QED BY <1>4, <1>5 DEF Untouched
LEMMA SameGrown ==
    ASSUME NEW x \in InodeT
    PROVE  Grown(x, x)
  <1>1. x.size \in Nat /\ \A s \in Fields : x.ptr[s] \in Links
    BY DEF InodeT
  <1> QED BY <1>1 DEF Grown, Added

(* Every block that is reached stays, but for pointers that are added.     *)
Stays(x, y, M) ==
    /\ Added(Ptrs, x.ptr, y.ptr, M) /\ y.val = x.val
    /\ \A e \in Ents : y.ent[e].inode = x.ent[e].inode
InodeStays(x, y, mine) ==
    \/ y = x
    \/ mine /\ x.type = "file" /\ y.type = "file"
    \/ x.type = "dir" /\ Grown(x, y)

LEMMA OwnedStep ==
    ASSUME NEW d \in DiskT, NEW d2 \in DiskT, NEW H, NEW own, NEW named,
           Sound(d, H, own, named), NEW i, NEW M, Within(M, d2), Blank(M, d2),
           \A x \in DOMAIN own : Stays(d.block[x], d2.block[x], M),
           \A j \in DOMAIN named : InodeStays(d.inode[j], d2.inode[j], j = i)
    PROVE  Untouched(d, d2, i)
  <1>1. ASSUME NEW j \in DOMAIN named
        PROVE  d.inode[j] \in InodeT /\ Held(<<j, d.inode[j].ptr>>, own)
    BY DEF Sound, Marked, DiskT
  <1>2. ASSUME NEW j \in DOMAIN named PROVE Calm(d, d2, d.inode[j], M)
    <2> DEFINE x == d.inode[j]
    <2>0. x \in InodeT /\ Held(<<j, x.ptr>>, own)
      BY <1>1
    <2> HIDE DEF x
    <2> SUFFICES ASSUME NEW route, NEW at, Leads(route), IsWay(at, d, x, route),
                        NEW k \in 1 .. Len(route), at[k] # None
                 PROVE  /\ Added(Ptrs, d.block[at[k]].ptr, d2.block[at[k]].ptr, M)
                        /\ d2.block[at[k]].val = d.block[at[k]].val
      BY DEF Calm, x
    <2>1. at[k] \in DOMAIN own
      BY <2>0, WayOwned
    <2> QED BY <2>1 DEF Stays
  <1>3. ASSUME NEW j \in DOMAIN named, NEW k \in 0 .. d.inode[j].size - 1
        PROVE  EntryStays(d, d2, d.inode[j], k)
    <2> DEFINE x == d.inode[j]  b == BlockOf(d, x, k \div DirentsPerBlock)
               e == Entry(d, x, k)
    <2>1. x \in InodeT /\ Held(<<j, x.ptr>>, own) /\ k \in Nat
      BY <1>1 DEF InodeT
    <2>2. b = BlockOf(d, x, k \div DirentsPerBlock) /\ e = Entry(d, x, k)
      OBVIOUS
    <2> HIDE DEF x, b, e
    <2>3. k % DirentsPerBlock \in Ents /\ (e.inode # None => b \in DOMAIN own)
      BY <2>1, <2>2, EntryNamed
    <2>4. e.inode # None => d2.block[b].ent[k % DirentsPerBlock].inode =
                            d.block[b].ent[k % DirentsPerBlock].inode
      BY <2>3 DEF Stays
    <2> QED BY <2>2, <2>4, Zenon DEF EntryStays, x
  <1>4. FilesCalm(d, d2, named, i, M)
    BY <1>2 DEF FilesCalm, InodeStays
  <1>5. DirsCalm(d, d2, named, M)
    <2>1. ASSUME NEW j \in DOMAIN named, d.inode[j].type = "dir"
          PROVE  Grown(d.inode[j], d2.inode[j])
      BY <1>1, <2>1, SameGrown DEF InodeStays
    <2> QED BY <1>2, <1>3, <2>1 DEF DirsCalm
  <1> QED BY <1>4, <1>5, CalmStep

LEMMA SameStays ==
    ASSUME NEW x
    PROVE  Stays(x, x, {None})
  BY DEF Stays, Added

LEMMA NoneWithin ==
    ASSUME NEW d
    PROVE  Within({None}, d) /\ Blank({None}, d)
  BY Numbers DEF Within, Blank, None

LEMMA OtherStep ==
    ASSUME NEW d \in DiskT, NEW H, NEW own, NEW named, Sound(d, H, own, named),
           NEW d2 \in DiskT, NEW i,
           \A j \in DOMAIN named : d2.inode[j] = d.inode[j],
           \A b \in DOMAIN own : d2.block[b] = d.block[b]
    PROVE  Untouched(d, d2, i)
  <1>1. \A x \in DOMAIN own : Stays(d.block[x], d2.block[x], {None})
    BY SameStays
  <1>2. \A j \in DOMAIN named : InodeStays(d.inode[j], d2.inode[j], j = i)
    BY DEF InodeStays
  <1>3. Within({None}, d2) /\ Blank({None}, d2)
    BY NoneWithin
  <1> QED BY <1>1, <1>2, <1>3, OwnedStep

(* An inode is written: one without a name, the file that the call is      *)
(* about, or a directory that has grown.                                   *)
LEMMA InodeStep ==
    ASSUME NEW d \in DiskT, NEW H, NEW own, NEW named, Sound(d, H, own, named),
           NEW d2 \in DiskT, NEW i, NEW w, NEW inode,
           d2.inode = [d.inode EXCEPT ![w] = inode], d2.block = d.block,
           w \in DOMAIN named => InodeStays(d.inode[w], inode, w = i)
    PROVE  Untouched(d, d2, i)
  <1>1. \A x \in DOMAIN own : Stays(d.block[x], d2.block[x], {None})
    BY SameStays
  <1>2. \A j \in DOMAIN named : d2.inode[j] = IF j = w THEN inode ELSE d.inode[j]
    BY DEF DiskT, Sound, Marked
  <1>3. \A j \in DOMAIN named : InodeStays(d.inode[j], d2.inode[j], j = i)
    BY <1>2 DEF InodeStays
  <1>4. Within({None}, d2) /\ Blank({None}, d2)
    BY NoneWithin
  <1> QED BY <1>1, <1>3, <1>4, OwnedStep

(* A pointer block is linked to an empty block.                            *)
LEMMA LinkStep ==
    ASSUME NEW d \in DiskT, NEW H, NEW own, NEW named, Sound(d, H, own, named),
           NEW d2 \in DiskT, NEW i, NEW at \in Blocks, NEW slot \in Ptrs,
           d.block[at].ptr[slot] = None,
           NEW b \in d.bbitmap, b \notin DOMAIN own, Empty(d.block[b]), d.block[b].val = 0,
           d2.block = [d.block EXCEPT ![at] = [d.block[at] EXCEPT !.ptr[slot] = b]],
           d2.inode = d.inode
    PROVE  Untouched(d, d2, i)
  <1>0. /\ \A x \in DOMAIN own : x \in Blocks
        /\ \A x \in Blocks : d.block[x] \in BlockT
    BY DEF Sound, Marked, DiskT
  <1>1. CASE at \notin DOMAIN own
    <2>1. \A x \in DOMAIN own : d2.block[x] = d.block[x]
      BY <1>0, <1>1 DEF DiskT
    <2> QED BY <2>1, OtherStep
  <1>2. CASE at \in DOMAIN own
    <2> DEFINE M == {None, b}
    <2>1. b \in Blocks /\ b # at
      BY <1>2 DEF DiskT
    <2>2. \A x \in Blocks : IF x = at THEN d2.block[x] = [d.block[at] EXCEPT !.ptr[slot] = b]
                            ELSE d2.block[x] = d.block[x]
      BY DEF DiskT
    <2>3. Within(M, d2) /\ Blank(M, d2)
      <3>1. d2.block[b] = d.block[b]
        BY <2>1, <2>2
      <3>2. M \subseteq Links
        BY <2>1, Numbers DEF None
      <3> QED BY <3>1, <3>2 DEF Within, Blank, Empty
    <2>4. \A x \in DOMAIN own : Stays(d.block[x], d2.block[x], M)
      <3> SUFFICES ASSUME NEW x \in DOMAIN own PROVE Stays(d.block[x], d2.block[x], M)
        OBVIOUS
      <3>1. x \in Blocks /\ d.block[x] \in BlockT
        BY <1>0
      <3>2. CASE x = at
        <4> DEFINE p == d.block[at]  q == d2.block[at]
        <4>1. q = [p EXCEPT !.ptr[slot] = b] /\ p \in BlockT /\ p.ptr[slot] = None
          BY <1>0, <2>2
        <4> HIDE DEF p, q
        <4>2. q.ent = p.ent /\ q.val = p.val
          BY <4>1 DEF BlockT
        <4>3. \A k \in Ptrs : q.ptr[k] = IF k = slot THEN b ELSE p.ptr[k]
          BY <4>1 DEF BlockT
        <4>4. Stays(p, q, M)
          BY <4>1, <4>2, <4>3 DEF Stays, Added
        <4> QED BY <3>2, <4>4 DEF p, q
      <3>3. CASE x # at
        <4>1. d2.block[x] = d.block[x]
          BY <2>2, <3>1, <3>3
        <4> QED BY <4>1 DEF Stays, Added
      <3> QED BY <3>2, <3>3
    <2>5. \A j \in DOMAIN named : InodeStays(d.inode[j], d2.inode[j], j = i)
      BY DEF InodeStays
    <2> HIDE DEF M
    <2> QED BY <2>3, <2>4, <2>5, OwnedStep
  <1> QED BY <1>1, <1>2

(* Where a call that writes has found its block: b is k pointers along.    *)
Reached(d, inode, route, k, b) ==
    \E at : /\ at[1] = inode.ptr[route[1]] /\ at[k] = b
            /\ \A m \in 1 .. k : at[m] \in Blocks
            /\ \A m \in 2 .. k : at[m] = d.block[at[m - 1]].ptr[route[m]]

LEMMA ReachedWay ==
    ASSUME NEW d \in DiskT, NEW inode \in InodeT, NEW route, Leads(route),
           NEW b, Reached(d, inode, route, Len(route), b)
    PROVE  \E at : IsWay(at, d, inode, route) /\ at[Len(route)] = b /\ b # None
  <1> DEFINE n == Len(route)
  <1>1. PICK at : IsWay(at, d, inode, route)
    BY WayExists
  <1>2. PICK bt : /\ bt[1] = inode.ptr[route[1]] /\ bt[n] = b
                  /\ \A m \in 1 .. n : bt[m] \in Blocks
                  /\ \A m \in 2 .. n : bt[m] = d.block[bt[m - 1]].ptr[route[m]]
    BY DEF Reached
  <1>3. n \in 1 .. 4
    BY DEF Leads
  <1> DEFINE T == {m \in 1 .. n : at[m] = bt[m]}
  <1>4. 1 \in T
    BY <1>1, <1>2, <1>3 DEF IsWay
  <1>5. ASSUME NEW m \in 1 + 1 .. n, m - 1 \in T PROVE m \in T
    <2>1. /\ m \in 1 .. n /\ m \in 2 .. n /\ m - 1 \in 1 .. n
          /\ at[m - 1] = bt[m - 1] /\ bt[m - 1] \in Blocks
      BY <1>2, <1>3, <1>5
    <2>2. at[m - 1] # None
      BY <2>1, Numbers DEF None
    <2>3. at[m] = d.block[at[m - 1]].ptr[route[m]]
      BY <1>1, <2>1, <2>2 DEF IsWay
    <2>4. at[m] = bt[m]
      BY <1>2, <2>1, <2>3
    <2> QED BY <2>1, <2>4
  <1>6. 1 .. n \subseteq T
    <2>1. 1 \in Int /\ n \in Int
      BY <1>3
    <2> HIDE DEF T, n
    <2>2. \A m \in 1 + 1 .. n : m - 1 \in T => m \in T
      BY <1>5
    <2> QED BY <1>4, <2>1, <2>2, UpTo, Zenon
  <1>7. at[n] = b /\ b \in Blocks
    BY <1>2, <1>3, <1>6
  <1> QED BY <1>1, <1>7, Numbers DEF None

LEMMA EndOfWay ==
    ASSUME NEW d \in DiskT, NEW x \in InodeT, NEW q \in Nat, BlockOf(d, x, q) # None
    PROVE  /\ Leads(Route(q))
           /\ \E at : IsWay(at, d, x, Route(q)) /\ at[Len(Route(q))] = BlockOf(d, x, q)
  <1> DEFINE r == Route(q)
  <1>1. r = <<>> \/ Leads(r)
    BY RouteLeads
  <1>2. BlockOf(d, x, q) = At(d, x, r)
    BY DEF BlockOf
  <1>3. Leads(r)
    <2>1. \A f : f = <<>> => At(d, x, f) = None
      BY DEF At
    <2> HIDE DEF r
    <2> QED BY <1>1, <1>2, <2>1
  <1> HIDE DEF r
  <1>4. PICK at : IsWay(at, d, x, r)
    BY <1>3, WayExists
  <1>5. at[Len(r)] = BlockOf(d, x, q)
    BY <1>2, <1>4 DEF IsWay
  <1>6. Leads(r) /\ \E a : IsWay(a, d, x, r) /\ a[Len(r)] = BlockOf(d, x, q)
    BY <1>3, <1>4, <1>5
  <1> QED BY <1>6 DEF r

(* A version of inode i leads to b.                                        *)
Reaches(d, own, i, inode, route, b) ==
    /\ inode \in InodeT /\ Held(<<i, inode.ptr>>, own) /\ Leads(route)
    /\ Reached(d, inode, route, Len(route), b)

LEMMA Elsewhere ==
    ASSUME NEW d \in DiskT, NEW H, NEW own, NEW named, Sound(d, H, own, named),
           NEW i, NEW inode, NEW route, NEW b, Reaches(d, own, i, inode, route, b),
           NEW bt, NEW j, NEW y, NEW r, IsWayFrom(bt, d, own, j, y, r),
           NEW n \in 1 .. Len(r), bt[n] = b
    PROVE  n = Len(route) /\ i = j /\ \A k \in 1 .. n : route[k] = r[k]
  <1>1. PICK at : IsWay(at, d, inode, route) /\ at[Len(route)] = b /\ b # None
    BY ReachedWay DEF Reaches
  <1>2. IsWayFrom(at, d, own, i, inode, route)
    BY <1>1 DEF Reaches, IsWayFrom
  <1>3. Len(route) \in 1 .. Len(route)
    BY DEF Reaches, Leads
  <1> DEFINE m == Len(route)
  <1>4. at[m] # None /\ at[m] = bt[n]
    BY <1>1
  <1> HIDE DEF m
  <1>5. m = n /\ i = j /\ \A k \in 1 .. m : route[k] = r[k]
    BY <1>2, <1>3, <1>4, WaysMeet DEF m
  <1> QED BY <1>5 DEF m

(* What a program writes goes into a block of its file.                    *)
FilledBy(d, d2, i, b, content) ==
    /\ d2.inode = d.inode /\ d2.block = [d.block EXCEPT ![b] = content]
    /\ d.inode[i].type = "file"

LEMMA DataStep ==
    ASSUME NEW d \in DiskT, NEW H, NEW own, NEW named, Sound(d, H, own, named),
           NEW i, NEW inode, NEW route, NEW b, Reaches(d, own, i, inode, route, b),
           NEW content, NEW d2 \in DiskT, FilledBy(d, d2, i, b, content)
    PROVE  Untouched(d, d2, i)
  <1> USE DEF FilledBy
  <1>1. ASSUME NEW j \in DOMAIN named
        PROVE  d.inode[j] \in InodeT /\ Held(<<j, d.inode[j].ptr>>, own)
    BY DEF Sound, Marked, DiskT
  <1>2. ASSUME NEW j \in DOMAIN named, j # i, NEW r, NEW at, Leads(r),
               IsWay(at, d, d.inode[j], r), NEW k \in 1 .. Len(r), at[k] # None
        PROVE  d2.block[at[k]] = d.block[at[k]]
    <2> DEFINE y == d.inode[j]
    <2>1. IsWayFrom(at, d, own, j, y, r)
      BY <1>1, <1>2 DEF IsWayFrom
    <2> HIDE DEF y
    <2>2. at[k] # b
      BY <1>2, <2>1, Elsewhere
    <2>3. at[k] \in Blocks
      BY <1>2, Numbers DEF IsWay, None
    <2> QED BY <2>2, <2>3 DEF DiskT
  <1>3. ASSUME NEW j \in DOMAIN named, j # i PROVE Calm(d, d2, d.inode[j], {None})
    BY <1>2, <1>3, SameStays DEF Calm, Added
  <1>4. FilesCalm(d, d2, named, i, {None})
    BY <1>3 DEF FilesCalm
  <1>5. ASSUME NEW j \in DOMAIN named, d.inode[j].type = "dir",
               NEW k \in 0 .. d.inode[j].size - 1
        PROVE  EntryStays(d, d2, d.inode[j], k)
    <2> DEFINE x == d.inode[j]  q == k \div DirentsPerBlock  b2 == BlockOf(d, x, q)
               e == Entry(d, x, k)  r == Route(q)
    <2>1. x \in InodeT /\ Held(<<j, x.ptr>>, own) /\ k \in Nat /\ j # i
      BY <1>1, <1>5 DEF InodeT
    <2>2. q \in Nat
      BY <2>1, Sizes, Divided
    <2>3. b2 = BlockOf(d, x, k \div DirentsPerBlock) /\ e = Entry(d, x, k)
      OBVIOUS
    <2>4. b2 # None => Leads(r) /\ \E at : IsWay(at, d, x, r) /\ at[Len(r)] = b2
      <3> HIDE DEF x, q
      <3> QED BY <2>1, <2>2, EndOfWay
    <2> HIDE DEF q, b2, e, r
    <2>5. b2 # None => d2.block[b2] = d.block[b2]
      <3> SUFFICES ASSUME b2 # None PROVE d2.block[b2] = d.block[b2]
        OBVIOUS
      <3>1. PICK at : IsWay(at, d, x, r) /\ at[Len(r)] = b2
        BY <2>4
      <3>2. Leads(r) /\ Len(r) \in 1 .. Len(r)
        BY <2>4 DEF Leads
      <3> DEFINE n == Len(r)
      <3>3. n \in 1 .. Len(r) /\ at[n] # None /\ IsWay(at, d, d.inode[j], r) /\ at[n] = b2
        BY <3>1, <3>2
      <3> HIDE DEF n
      <3>4. d2.block[at[n]] = d.block[at[n]]
        BY <1>2, <2>1, <3>2, <3>3
      <3> QED BY <3>3, <3>4
    <2> HIDE DEF x
    <2>6. e.inode # None => b2 # None
      BY <2>1, <2>3, EntryNamed, Numbers DEF None
    <2> QED BY <2>3, <2>5, <2>6 DEF EntryStays, x
  <1>6. DirsCalm(d, d2, named, {None})
    <2>1. ASSUME NEW j \in DOMAIN named, d.inode[j].type = "dir"
          PROVE  Grown(d.inode[j], d2.inode[j]) /\ j # i
      BY <1>1, <2>1, SameGrown
    <2> QED BY <1>3, <1>5, <2>1 DEF DirsCalm
  <1>7. Within({None}, d2) /\ Blank({None}, d2)
    BY NoneWithin
  <1> QED BY <1>4, <1>6, <1>7, CalmStep

(* A name goes behind the last entry of a directory.                       *)
LEMMA NameStep ==
    ASSUME NEW d \in DiskT, NEW H, NEW own, NEW named, Sound(d, H, own, named),
           NEW p \in DOMAIN named, NEW size, size = d.inode[p].size,
           NEW inode, NEW route, route = Route(size \div DirentsPerBlock),
           NEW b \in Blocks, Reaches(d, own, p, inode, route, b),
           NEW child, NEW content, NEW d2 \in DiskT,
           NamedBy(d, d2, b, size % DirentsPerBlock, child, content), NEW i
    PROVE  Untouched(d, d2, i)
  <1> USE DEF NamedBy
  <1>1. ASSUME NEW j \in DOMAIN named
        PROVE  d.inode[j] \in InodeT /\ Held(<<j, d.inode[j].ptr>>, own)
    BY DEF Sound, Marked, DiskT
  <1>2. ASSUME NEW x \in Blocks
        PROVE  d2.block[x].ptr = d.block[x].ptr /\ d2.block[x].val = d.block[x].val
    BY DEF DiskT, IsNamed
  <1>3. ASSUME NEW j \in DOMAIN named PROVE Calm(d, d2, d.inode[j], {None})
    <2> DEFINE x == d.inode[j]  M == {None}
    <2> HIDE DEF x, M
    <2>1. ASSUME NEW route2, NEW at, Leads(route2), IsWay(at, d, x, route2),
                 NEW k \in 1 .. Len(route2), at[k] # None
          PROVE  /\ Added(Ptrs, d.block[at[k]].ptr, d2.block[at[k]].ptr, M)
                 /\ d2.block[at[k]].val = d.block[at[k]].val
      <3>1. at[k] \in Blocks
        BY <2>1, Numbers DEF IsWay, None
      <3> QED BY <1>2, <3>1 DEF Added, M
    <2>2. Calm(d, d2, x, M)
      BY <2>1 DEF Calm
    <2> QED BY <2>2 DEF x, M
  <1>4. FilesCalm(d, d2, named, i, {None})
    BY <1>3 DEF FilesCalm
  <1>5. ASSUME NEW j \in DOMAIN named, NEW k \in 0 .. d.inode[j].size - 1
        PROVE  EntryStays(d, d2, d.inode[j], k)
    <2> DEFINE x == d.inode[j]  q == k \div DirentsPerBlock  b2 == BlockOf(d, x, q)
               e == Entry(d, x, k)  r == Route(q)  s == k % DirentsPerBlock
    <2>1. x \in InodeT /\ Held(<<j, x.ptr>>, own) /\ k \in Nat
      BY <1>1 DEF InodeT
    <2>2. q \in Nat /\ size \in Nat /\ size \div DirentsPerBlock \in Nat
      BY <1>1, <2>1, Sizes, Divided DEF InodeT
    <2>3. b2 = BlockOf(d, x, k \div DirentsPerBlock) /\ e = Entry(d, x, k)
      OBVIOUS
    <2>4. b2 # None => Leads(r) /\ \E at : IsWay(at, d, x, r) /\ at[Len(r)] = b2
      <3> HIDE DEF x, q
      <3> QED BY <2>1, <2>2, EndOfWay
    <2>5. k # size \/ j # p
      BY <2>2
    <2>6. ASSUME b2 = b PROVE s # size % DirentsPerBlock
      <3>1. b2 # None
        BY <2>6, Numbers DEF None
      <3>2. PICK at : IsWay(at, d, x, r) /\ at[Len(r)] = b2
        BY <2>4, <3>1
      <3>3. Leads(r) /\ IsWayFrom(at, d, own, j, x, r)
        BY <2>1, <2>4, <3>1, <3>2 DEF IsWayFrom
      <3> DEFINE n == Len(r)
      <3>4. n \in 1 .. Len(r) /\ at[n] = b
        BY <2>6, <3>2, <3>3 DEF Leads
      <3> HIDE DEF n, x, r
      <3>5. n = Len(route) /\ p = j /\ \A m \in 1 .. n : route[m] = r[m]
        BY <3>3, <3>4, Elsewhere
      <3>6. route = r
        <4>1. route \in Seq(Nat) /\ r \in Seq(Nat)
          BY <3>3 DEF Reaches, Leads
        <4>2. Len(route) = Len(r)
          BY <3>5 DEF n
        <4> QED BY <3>5, <4>1, <4>2 DEF n
      <3>7. r # <<>>
        <4>1. \A f : f = <<>> => Len(f) = 0
          OBVIOUS
        <4> QED BY <3>3, <4>1 DEF Leads
      <3>8. q = size \div DirentsPerBlock
        <4> DEFINE t == size \div DirentsPerBlock
        <4>1. Route(q) = Route(t) /\ Route(q) # <<>> /\ t \in Nat
          BY <2>2, <3>6, <3>7 DEF r
        <4> HIDE DEF t, q
        <4>2. q = t
          BY <2>2, <4>1, RouteOnce
        <4> QED BY <4>2 DEF t
      <3> SUFFICES ASSUME s = size % DirentsPerBlock PROVE FALSE
        OBVIOUS
      <3>9. k = size
        BY <2>1, <2>2, <3>8, Sizes, DividedOnce
      <3> QED BY <2>5, <3>5, <3>9
    <2> HIDE DEF q, b2, e, r, x
    <2>7. s \in Ents /\ (e.inode # None => b2 \in Blocks)
      BY <2>1, <2>3, EntryNamed
    <2> HIDE DEF s
    <2>8. e.inode # None => d2.block[b2].ent[s].inode = d.block[b2].ent[s].inode
      <3> SUFFICES ASSUME e.inode # None
                   PROVE  d2.block[b2].ent[s].inode = d.block[b2].ent[s].inode
        OBVIOUS
      <3>1. CASE b2 = b
        <4>1. d2.block[b2] = content
          BY <3>1 DEF DiskT
        <4>2. content.ent[s] = d.block[b].ent[s]
          BY <2>6, <2>7, <3>1 DEF IsNamed
        <4> QED BY <3>1, <4>1, <4>2
      <3>2. CASE b2 # b
        <4>1. d2.block[b2] = d.block[b2]
          BY <2>7, <3>2 DEF DiskT
        <4> QED BY <4>1
      <3> QED BY <3>1, <3>2
    <2> QED BY <2>3, <2>8 DEF EntryStays, x, s
  <1>6. DirsCalm(d, d2, named, {None})
    <2>1. ASSUME NEW j \in DOMAIN named PROVE Grown(d.inode[j], d2.inode[j])
      BY <1>1, SameGrown
    <2> QED BY <1>3, <1>5, <2>1 DEF DirsCalm
  <1>7. Within({None}, d2) /\ Blank({None}, d2)
    BY NoneWithin
  <1> QED BY <1>4, <1>6, <1>7, CalmStep
-----------------------------------------------------------------------------
(* Calls.  The power may fail after any image of a call: it must be safe,  *)
(* and the files that the call is not about must be as before.  For that   *)
(* no path may have the name of a file before its last name: txfs_open and *)
(* txfs_mkdir do not look whether the parent is a directory.               *)
NamesApart ==
    \A path \in FilePaths \union DirPaths :
        \A k \in 1 .. Len(path) - 1 : path[k] \notin FileNames
Frame(d, d2, i) == NamesApart => Untouched(d, d2, i)
Before(log, k) == IF k = 1 THEN disk ELSE log[k - 1]
Saves(about, c) ==
    /\ c \in CallT /\ Ends(c)
    /\ \A k \in 1 .. Len(c.log) : Safe(c.log[k])
    /\ \A k \in 1 .. Len(c.log) : Frame(Before(c.log, k), c.log[k], about)

LEMMA SaveOne ==
    ASSUME NEW about, NEW c, Saves(about, c), NEW d \in DiskT,
           NEW H, NEW own, NEW named, Sound(d, H, own, named), Frame(c.d, d, about)
    PROVE  Saves(about, Put(c, d)) /\ Put(c, d).d = d
  <1>1. Safe(d)
    BY FewerVersions DEF Safe
  <1>2. c \in CallT
    BY DEF Saves
  <1>3. c.log \in Seq(DiskT)
    BY <1>2 DEF CallT
  <1>4. /\ Put(c, d) \in CallT /\ Put(c, d).d = d /\ Ends(Put(c, d))
        /\ DOMAIN Put(c, d).log = 1 .. Len(c.log) + 1
        /\ \A k \in 1 .. Len(c.log) : Put(c, d).log[k] = c.log[k]
        /\ Put(c, d).log[Len(c.log) + 1] = d
    BY <1>2, PutIs, Zenon
  <1>5. Put(c, d).log \in Seq(DiskT)
    BY <1>4 DEF CallT
  <1>6. Len(Put(c, d).log) = Len(c.log) + 1
    BY <1>3, <1>4, <1>5
  <1>7. ASSUME NEW k \in 1 .. Len(Put(c, d).log) PROVE Safe(Put(c, d).log[k])
    <2>1. CASE k = Len(c.log) + 1
      BY <1>1, <1>4, <2>1
    <2>2. CASE k # Len(c.log) + 1
      <3>1. k \in 1 .. Len(c.log)
        BY <1>3, <1>6, <2>2
      <3>2. Safe(c.log[k])
        BY <3>1 DEF Saves
      <3> QED BY <1>4, <3>1, <3>2
    <2> QED BY <2>1, <2>2
  <1>8. ASSUME NEW k \in 1 .. Len(Put(c, d).log)
        PROVE  Frame(Before(Put(c, d).log, k), Put(c, d).log[k], about)
    <2> DEFINE log == c.log  log2 == Put(c, d).log
    <2>0. Len(log) \in Nat
      BY <1>3
    <2>1. CASE k = Len(c.log) + 1
      <3>1. Before(log2, k) = c.d
        <4>1. c.d = IF log = <<>> THEN disk ELSE log[Len(log)]
          BY DEF Saves, Ends
        <4>2. log = <<>> <=> Len(log) = 0
          BY <1>3
        <4>3. Len(log) # 0 => log2[Len(log)] = log[Len(log)] /\ k - 1 = Len(log) /\ k # 1
          BY <1>4, <2>0, <2>1
        <4>4. Len(log) = 0 => k = 1
          BY <2>1
        <4> HIDE DEF log, log2
        <4> QED BY <4>1, <4>2, <4>3, <4>4 DEF Before
      <3> QED BY <1>4, <2>1, <3>1
    <2>2. CASE k # Len(c.log) + 1
      <3>1. k \in 1 .. Len(c.log) /\ (k # 1 => k - 1 \in 1 .. Len(c.log))
        BY <1>3, <1>6, <2>2
      <3>2. Frame(Before(log, k), log[k], about)
        BY <3>1 DEF Saves
      <3>3. Before(log2, k) = Before(log, k) /\ log2[k] = log[k]
        BY <1>4, <3>1 DEF Before
      <3> QED BY <3>2, <3>3
    <2> QED BY <2>1, <2>2
  <1> QED BY <1>4, <1>7, <1>8 DEF Saves

SameButOne(d, d2, i) == \A j \in Inodes : j # i => d2.inode[j] = d.inode[j]
Rewrites(about, d, own, named, i, inode) == i \in DOMAIN named =>
    /\ Held(<<i, inode.ptr>>, own) /\ inode.type = d.inode[i].type
    /\ NamesApart => InodeStays(d.inode[i], inode, i = about)

LEMMA InodeSaved ==
    ASSUME NEW about, NEW c, Saves(about, c), NEW H, NEW own, NEW named, Sound(c.d, H, own, named),
           NEW i \in Inodes, NEW inode \in InodeT, inode.type # "none",
           Rewrites(about, c.d, own, named, i, inode),
           NEW r, r = SetInode(c, i, inode)
    PROVE  /\ Saves(about, r) /\ Sound(r.d, H, own, named)
           /\ r.d.inode[i] = inode /\ SameButOne(c.d, r.d, i)
           /\ r.d.block = c.d.block /\ r.d.ibitmap = c.d.ibitmap
           /\ r.d.bbitmap = c.d.bbitmap
  <1> DEFINE d == [c.d EXCEPT !.inode[i] = inode]
  <1>1. c \in CallT /\ c.d \in DiskT
    BY DEF Saves, CallT
  <1>2. /\ SetInode(c, i, inode) = Put(c, d) /\ d \in DiskT
        /\ d.inode = [c.d.inode EXCEPT ![i] = inode]
        /\ d.block = c.d.block /\ d.ibitmap = c.d.ibitmap /\ d.bbitmap = c.d.bbitmap
    BY <1>1, SetInodeIs, Zenon
  <1> HIDE DEF d
  <1>3. Sound(d, H, own, named)
    <2>1. i \in DOMAIN named => Held(<<i, inode.ptr>>, own) /\ inode.type = c.d.inode[i].type
      BY DEF Rewrites
    <2> QED BY <1>1, <1>2, <2>1, InodeWrite
  <1>6. Frame(c.d, d, about)
    <2> DEFINE d0 == c.d
    <2>1. /\ d0 \in DiskT /\ Sound(d0, H, own, named)
          /\ d.inode = [d0.inode EXCEPT ![i] = inode] /\ d.block = d0.block
          /\ NamesApart => (i \in DOMAIN named => InodeStays(d0.inode[i], inode, i = about))
      BY <1>1, <1>2 DEF Rewrites
    <2> HIDE DEF d0
    <2>2. ASSUME NamesApart PROVE Untouched(d0, d, about)
      <3>1. i \in DOMAIN named => InodeStays(d0.inode[i], inode, i = about)
        BY <2>1, <2>2, Zenon
      <3>2. d0 \in DiskT /\ Sound(d0, H, own, named) /\ d \in DiskT
        BY <1>2, <2>1, Zenon
      <3>3. d.inode = [d0.inode EXCEPT ![i] = inode] /\ d.block = d0.block
        BY <2>1, Zenon
      <3> QED BY <3>1, <3>2, <3>3, InodeStep, Zenon
    <2> QED BY <2>2 DEF Frame, d0
  <1>4. Saves(about, Put(c, d)) /\ Put(c, d).d = d
    BY <1>2, <1>3, <1>6, SaveOne
  <1>5. d.inode[i] = inode /\ SameButOne(c.d, d, i)
    BY <1>1, <1>2 DEF DiskT, SameButOne
  <1> QED BY <1>2, <1>3, <1>4, <1>5

LEMMA BlockSaved ==
    ASSUME NEW about, NEW c, Saves(about, c), NEW H, NEW own, NEW named,
           NEW b \in Blocks, NEW content \in BlockT,
           NEW d, d = [c.d EXCEPT !.block[b] = content], Sound(d, H, own, named),
           Frame(c.d, d, about)
    PROVE  LET r == SetBlock(c, b, content)
           IN  /\ Saves(about, r) /\ Sound(r.d, H, own, named)
               /\ r.d.block = [c.d.block EXCEPT ![b] = content]
               /\ r.d.inode = c.d.inode /\ r.d.ibitmap = c.d.ibitmap
               /\ r.d.bbitmap = c.d.bbitmap
  <1>1. c \in CallT /\ c.d \in DiskT
    BY DEF Saves, CallT
  <1>2. /\ SetBlock(c, b, content) = Put(c, d) /\ d \in DiskT
        /\ d.block = [c.d.block EXCEPT ![b] = content]
        /\ d.inode = c.d.inode /\ d.ibitmap = c.d.ibitmap /\ d.bbitmap = c.d.bbitmap
    BY <1>1 DEF SetBlock, DiskT
  <1>4. Saves(about, Put(c, d)) /\ Put(c, d).d = d
    BY <1>2, SaveOne
  <1> QED BY <1>2, <1>4

(* A block is taken: it is marked, and empty.                              *)
Zeroed(d, d2, b) ==
    /\ d2.block = [d.block EXCEPT ![b] = Zero] /\ Empty(Zero) /\ Zero.val = 0
    /\ d2.inode = d.inode /\ d2.ibitmap = d.ibitmap

LEMMA Taken ==
    ASSUME NEW about, NEW c, Saves(about, c), NEW H, NEW own, NEW named, Sound(c.d, H, own, named),
           NEW got, got = txfs_alloc_block(c)
    PROVE  /\ got.b = None => got.c = c
           /\ got.b # None =>
                 /\ got.b \in Blocks /\ got.b \notin DOMAIN own
                 /\ Saves(about, got.c) /\ Sound(got.c.d, H, own, named)
                 /\ got.b \in got.c.d.bbitmap /\ Zeroed(c.d, got.c.d, got.b)
  <1> DEFINE free == Blocks \ c.d.bbitmap
             b  == Least(free)
             d1 == [c.d EXCEPT !.bbitmap = @ \union {b}]
             c1 == Put(c, d1)
             d2 == [c1.d EXCEPT !.free_blocks = @ - 1]
             c2 == Put(c1, d2)
  <1>0. c \in CallT /\ c.d \in DiskT
    BY DEF Saves, CallT
  <1>1. CASE free = {}
    BY <1>1 DEF txfs_alloc_block, None
  <1>2. CASE free # {}
    <2>1. b \in Blocks /\ b \notin c.d.bbitmap /\ b # None
      <3>1. free \in SUBSET Nat
        BY Numbers
      <3> HIDE DEF free
      <3>2. b \in free
        BY <1>2, <3>1, LeastExists
      <3> QED BY <3>2, Numbers DEF None, free
    <2>2. b \notin DOMAIN own
      BY <2>1 DEF Sound, Marked
    <2>3. got = [c |-> SetBlock(c2, b, Zero), b |-> b]
      BY <1>2, Zenon DEF txfs_alloc_block
    <2> HIDE DEF b, free
    <2>4. /\ d1 \in DiskT /\ d1.bbitmap = c.d.bbitmap \union {b}
          /\ d1.inode = c.d.inode /\ d1.block = c.d.block /\ d1.ibitmap = c.d.ibitmap
      BY <1>0, <2>1 DEF DiskT
    <2> HIDE DEF d1
    <2>5. Sound(d1, H, own, named)
      BY <2>4, OtherWrites
    <2>16. Frame(c.d, d1, about)
      BY <1>0, <2>4, OtherStep DEF Frame
    <2>6. Saves(about, c1) /\ c1.d = d1
      BY <2>4, <2>5, <2>16, SaveOne
    <2> HIDE DEF c1
    <2>7. /\ d2 \in DiskT /\ d2.bbitmap = d1.bbitmap
          /\ d2.inode = d1.inode /\ d2.block = d1.block /\ d2.ibitmap = d1.ibitmap
      BY <2>4, <2>6 DEF DiskT
    <2> HIDE DEF d2
    <2>8. Sound(d2, H, own, named)
      BY <2>5, <2>7, OtherWrites
    <2>17. Frame(d1, d2, about)
      BY <2>4, <2>5, <2>7, OtherStep DEF Frame
    <2>9. Saves(about, c2) /\ c2.d = d2
      BY <2>6, <2>7, <2>8, <2>17, SaveOne
    <2> HIDE DEF c2
    <2> DEFINE d3 == [d2 EXCEPT !.block[b] = Zero]
    <2>10. /\ d3.block = [d2.block EXCEPT ![b] = Zero]
           /\ d3.inode = d2.inode /\ d3.ibitmap = d2.ibitmap /\ d3.bbitmap = d2.bbitmap
      BY <2>7 DEF DiskT
    <2>11. Empty(Zero)
      <3>1. NoEntry.inode = None
        BY DEF NoEntry
      <3> QED BY <3>1, EmptyTypes DEF Empty
    <2>12. Sound(d3, H, own, named)
      <3> HIDE DEF d3
      <3> QED BY <2>1, <2>7, <2>8, <2>10, <2>11, DataWrite
    <2>18. Frame(d2, d3, about)
      <3>1. d3 \in DiskT
        BY <2>1, <2>7, EmptyTypes DEF DiskT
      <3> HIDE DEF d3
      <3>2. \A x \in DOMAIN own : x \in Blocks /\ x # b
        BY <2>2, <2>8, <2>7 DEF Sound, Marked, DiskT
      <3>3. \A x \in DOMAIN own : d3.block[x] = d2.block[x]
        BY <2>7, <2>10, <3>2 DEF DiskT
      <3> QED BY <2>7, <2>8, <2>10, <3>1, <3>3, OtherStep DEF Frame
    <2> DEFINE r == SetBlock(c2, b, Zero)
    <2>13. /\ Saves(about, r) /\ Sound(r.d, H, own, named)
           /\ r.d.block = [d2.block EXCEPT ![b] = Zero]
           /\ r.d.inode = d2.inode /\ r.d.ibitmap = d2.ibitmap /\ r.d.bbitmap = d2.bbitmap
      BY <2>1, <2>9, <2>12, <2>18, EmptyTypes, BlockSaved
    <2> HIDE DEF r
    <2>14. r.d.block = [c.d.block EXCEPT ![b] = Zero] /\ Zero.val = 0
      BY <2>4, <2>7, <2>13 DEF Zero
    <2>15. got.c = r /\ got.b = b
      BY <2>3 DEF r
    <2>19. r.d.inode = c.d.inode /\ r.d.ibitmap = c.d.ibitmap /\ b \in r.d.bbitmap
      BY <2>4, <2>7, <2>13
    <2>20. Zeroed(c.d, r.d, b)
      BY <2>11, <2>14, <2>19, Zenon DEF Zeroed
    <2> QED BY <2>1, <2>2, <2>13, <2>15, <2>19, <2>20
  <1> QED BY <1>1, <1>2

(* An inode is taken: it has no name yet.                                  *)
LEMMA InodeTaken ==
    ASSUME NEW about, NEW c, Saves(about, c), NEW H, NEW own, NEW named, Sound(c.d, H, own, named),
           c.d.ibitmap # Inodes, NEW got, got = txfs_alloc_inode(c)
    PROVE  /\ got.b \in Inodes /\ got.b \notin DOMAIN named /\ got.b \in got.c.d.ibitmap
           /\ Saves(about, got.c) /\ Sound(got.c.d, H, own, named)
           /\ got.c.d.inode = c.d.inode /\ got.c.d.block = c.d.block
           /\ c.d.ibitmap \subseteq got.c.d.ibitmap /\ got.b \notin c.d.ibitmap
  <1> DEFINE free == Inodes \ c.d.ibitmap
             i  == Least(free)
             d1 == [c.d EXCEPT !.ibitmap = @ \union {i}]
             c1 == Put(c, d1)
             d2 == [c1.d EXCEPT !.free_inodes = @ - 1]
             c2 == Put(c1, d2)
  <1>0. c \in CallT /\ c.d \in DiskT
    BY DEF Saves, CallT
  <1>1. free # {}
    BY <1>0 DEF DiskT
  <1>2. i \in Inodes /\ i \notin c.d.ibitmap
    <2>1. free \in SUBSET Nat
      BY Numbers
    <2> HIDE DEF free
    <2>2. i \in free
      BY <1>1, <2>1, LeastExists
    <2> QED BY <2>2 DEF free
  <1>3. i \notin DOMAIN named
    BY <1>2 DEF Sound, Marked
  <1>4. got = [c |-> c2, b |-> i]
    BY <1>1, Zenon DEF txfs_alloc_inode
  <1> HIDE DEF i, free
  <1>5. /\ d1 \in DiskT /\ d1.ibitmap = c.d.ibitmap \union {i}
        /\ d1.inode = c.d.inode /\ d1.block = c.d.block /\ d1.bbitmap = c.d.bbitmap
    BY <1>0, <1>2 DEF DiskT
  <1> HIDE DEF d1
  <1>6. Sound(d1, H, own, named)
    BY <1>5, OtherWrites
  <1>12. Frame(c.d, d1, about)
    BY <1>0, <1>5, OtherStep DEF Frame
  <1>7. Saves(about, c1) /\ c1.d = d1
    BY <1>5, <1>6, <1>12, SaveOne
  <1> HIDE DEF c1
  <1>8. /\ d2 \in DiskT /\ d2.ibitmap = d1.ibitmap
        /\ d2.inode = d1.inode /\ d2.block = d1.block /\ d2.bbitmap = d1.bbitmap
    BY <1>5, <1>7 DEF DiskT
  <1> HIDE DEF d2
  <1>9. Sound(d2, H, own, named)
    BY <1>6, <1>8, OtherWrites
  <1>13. Frame(d1, d2, about)
    BY <1>5, <1>6, <1>8, OtherStep DEF Frame
  <1>10. Saves(about, c2) /\ c2.d = d2
    BY <1>7, <1>8, <1>9, <1>13, SaveOne
  <1> HIDE DEF c2
  <1>11. got.c = c2 /\ got.b = i
    BY <1>4
  <1> QED BY <1>2, <1>3, <1>5, <1>8, <1>9, <1>10, <1>11
-----------------------------------------------------------------------------
(* Finding the block of a position, for a write.  Progress is what there   *)
(* is after k pointers of the route, for a handle to inode i.              *)
Kept(d, H, i, ptr, named) == \E own : Sound(d, H \union {<<i, ptr>>}, own, named)
Progress(about, d, inode, H, named, i, route, k) ==
    {g \in [c : CallT, inode : InodeT, b : Links, first : BOOLEAN, failed : BOOLEAN] :
        /\ Saves(about, g.c)
        /\ g.c.d.inode = d.inode /\ g.c.d.ibitmap = d.ibitmap
        /\ g.inode.type = inode.type /\ g.inode.size = inode.size
        /\ Added(Fields, inode.ptr, g.inode.ptr, Links)
        /\ Kept(g.c.d, H, i, g.inode.ptr, named)
        /\ g.failed => g.b = None
        /\ ~g.failed => IF g.first THEN k = 0 /\ g.b = None
                        ELSE k > 0 /\ g.b # None /\ Reached(g.c.d, g.inode, route, k, g.b)}

LEMMA ReachedFirst ==
    ASSUME NEW d, NEW inode, NEW route, NEW b \in Blocks, b = inode.ptr[route[1]]
    PROVE  Reached(d, inode, route, 1, b)
  <1> DEFINE at == [m \in 1 .. 1 |-> b]
  <1>1. at[1] = b /\ \A m \in 1 .. 1 : at[m] = b
    OBVIOUS
  <1> HIDE DEF at
  <1> QED BY <1>1 DEF Reached

LEMMA ReachedNext ==
    ASSUME NEW d, NEW inode, NEW route, NEW k \in Nat \ {0}, NEW a,
           Reached(d, inode, route, k, a),
           NEW b \in Blocks, b = d.block[a].ptr[route[k + 1]]
    PROVE  Reached(d, inode, route, k + 1, b)
  <1>1. PICK at : /\ at[1] = inode.ptr[route[1]] /\ at[k] = a
                  /\ \A m \in 1 .. k : at[m] \in Blocks
                  /\ \A m \in 2 .. k : at[m] = d.block[at[m - 1]].ptr[route[m]]
    BY DEF Reached
  <1> DEFINE bt == [m \in 1 .. k + 1 |-> IF m = k + 1 THEN b ELSE at[m]]
  <1>2. bt[k + 1] = b /\ \A m \in 1 .. k : bt[m] = at[m]
    OBVIOUS
  <1> HIDE DEF bt
  <1>3. bt[1] = inode.ptr[route[1]] /\ \A m \in 1 .. k + 1 : bt[m] \in Blocks
    BY <1>1, <1>2
  <1>4. ASSUME NEW m \in 2 .. k + 1 PROVE bt[m] = d.block[bt[m - 1]].ptr[route[m]]
    <2>1. CASE m = k + 1
      BY <1>1, <1>2, <2>1
    <2>2. CASE m # k + 1
      <3>1. m \in 2 .. k /\ m \in 1 .. k /\ m - 1 \in 1 .. k
        BY <2>2
      <3> QED BY <1>1, <1>2, <3>1
    <2> QED BY <2>1, <2>2
  <1> QED BY <1>2, <1>3, <1>4 DEF Reached

(* The blocks on the way have owners, and stay on it when pointers to them *)
(* stay.                                                                   *)
LEMMA ReachedStays ==
    ASSUME NEW d, NEW H, NEW own, NEW named, Sound(d, H, own, named),
           NEW i, NEW inode, Held(<<i, inode.ptr>>, own), NEW route, Leads(route),
           NEW k \in 1 .. Len(route), NEW b, Reached(d, inode, route, k, b)
    PROVE  /\ b \in DOMAIN own
           /\ \A d2 : (\A x \in DOMAIN own, s \in Ptrs : d.block[x].ptr[s] # None =>
                             d2.block[x].ptr[s] = d.block[x].ptr[s])
                       => Reached(d2, inode, route, k, b)
  <1>1. PICK at : /\ at[1] = inode.ptr[route[1]] /\ at[k] = b
                  /\ \A m \in 1 .. k : at[m] \in Blocks
                  /\ \A m \in 2 .. k : at[m] = d.block[at[m - 1]].ptr[route[m]]
    BY DEF Reached
  <1>2. \A m \in 1 .. k : at[m] # None
    BY <1>1, Numbers DEF None
  <1>3. /\ k \in Nat /\ route[1] \in Fields
        /\ \A m \in 2 .. k : route[m] \in Ptrs
    BY DEF Leads
  <1> DEFINE T == {m \in 1 .. k : at[m] \in DOMAIN own}
  <1>4. 1 \in T
    <2>1. at[1] \in DOMAIN own
      BY <1>1, <1>2, <1>3 DEF Held
    <2> QED BY <1>3, <2>1
  <1>5. ASSUME NEW m \in 1 + 1 .. k, m - 1 \in T PROVE m \in T
    <2>1. m \in 2 .. k /\ m \in 1 .. k /\ at[m - 1] \in DOMAIN own
      BY <1>3, <1>5
    <2>2. at[m] = d.block[at[m - 1]].ptr[route[m]] /\ at[m] # None /\ route[m] \in Ptrs
      BY <1>1, <1>2, <1>3, <2>1
    <2>3. at[m] \in DOMAIN own
      BY <2>1, <2>2 DEF Sound, Tree
    <2> QED BY <2>1, <2>3
  <1>6. 1 .. k \subseteq T
    <2>1. 1 \in Int /\ k \in Int
      BY <1>3
    <2> HIDE DEF T
    <2>2. \A m \in 1 + 1 .. k : m - 1 \in T => m \in T
      BY <1>5
    <2> QED BY <1>4, <2>1, <2>2, UpTo, Zenon
  <1>7. b \in DOMAIN own
    BY <1>1, <1>3, <1>6
  <1>8. ASSUME NEW d2, \A x \in DOMAIN own, s \in Ptrs : d.block[x].ptr[s] # None =>
                          d2.block[x].ptr[s] = d.block[x].ptr[s]
        PROVE  Reached(d2, inode, route, k, b)
    <2>1. ASSUME NEW m \in 2 .. k PROVE at[m] = d2.block[at[m - 1]].ptr[route[m]]
      <3>1. m \in 1 .. k /\ m - 1 \in 1 .. k
        BY <1>3
      <3>2. at[m] = d.block[at[m - 1]].ptr[route[m]] /\ at[m] # None /\ route[m] \in Ptrs
        BY <1>1, <1>2, <1>3, <3>1
      <3>3. at[m - 1] \in DOMAIN own
        BY <1>6, <3>1
      <3> QED BY <1>8, <3>2, <3>3
    <2> QED BY <1>1, <2>1 DEF Reached
  <1> QED BY <1>7, <1>8

LEMMA Followed ==
    ASSUME NEW about, NEW d, NEW inode \in InodeT, NEW H, NEW named, NEW i, NEW k \in Nat,
           NEW route, Leads(route), k + 1 \in 1 .. Len(route),
           NEW g \in Progress(about, d, inode, H, named, i, route, k),
           NEW slot, slot = route[k + 1]
    PROVE  Follow(g, slot) \in Progress(about, d, inode, H, named, i, route, k + 1)
  <1> DEFINE at   == g.b
             next == IF g.first THEN g.inode.ptr[slot] ELSE g.c.d.block[at].ptr[slot]
             got  == txfs_alloc_block(g.c)
             P    == Progress(about, d, inode, H, named, i, route, k + 1)
  <1>0. (k = 0 => slot \in Fields) /\ (k > 0 => slot \in Ptrs)
    BY DEF Leads
  <1>1. /\ g \in [c : CallT, inode : InodeT, b : Links, first : BOOLEAN, failed : BOOLEAN]
        /\ Saves(about, g.c)
        /\ g.c.d.inode = d.inode /\ g.c.d.ibitmap = d.ibitmap
        /\ g.inode.type = inode.type /\ g.inode.size = inode.size
        /\ Added(Fields, inode.ptr, g.inode.ptr, Links)
        /\ Kept(g.c.d, H, i, g.inode.ptr, named)
        /\ g.failed => g.b = None
        /\ ~g.failed => IF g.first THEN k = 0 /\ g.b = None
                        ELSE k > 0 /\ g.b # None /\ Reached(g.c.d, g.inode, route, k, g.b)
    BY DEF Progress
  <1>2. PICK own : Sound(g.c.d, H \union {<<i, g.inode.ptr>>}, own, named)
    BY <1>1, Zenon DEF Kept
  <1>3. /\ g.c \in CallT /\ g.c.d \in DiskT /\ g.inode \in InodeT /\ g.b \in Links
        /\ g.first \in BOOLEAN /\ g.failed \in BOOLEAN
    BY <1>1 DEF CallT
  <1>8. ~g.failed => IF g.first THEN slot \in Fields
                     ELSE slot \in Ptrs /\ g.b \in Blocks /\ k > 0
    BY <1>0, <1>1, <1>3, Numbers DEF None
  <1>9. got = txfs_alloc_block(g.c)
    OBVIOUS
  <1> HIDE DEF got
  <1>4. CASE g.failed
    <2>1. Follow(g, slot) = g
      BY <1>4, Zenon DEF Follow
    <2> QED BY <1>1, <1>4, <2>1 DEF Progress
  <1>5. CASE ~g.failed /\ next # None
    <2>1. Follow(g, slot) = [g EXCEPT !.b = next, !.first = FALSE]
      BY <1>5, Zenon DEF Follow
    <2>2. next \in Links
      <3>1. CASE g.first
        BY <1>3, <1>5, <1>8, <3>1 DEF InodeT
      <3>2. CASE ~g.first
        <4>1. slot \in Ptrs /\ g.b \in Blocks
          BY <1>5, <1>8, <3>2
        <4>2. g.c.d.block[g.b] \in BlockT
          BY <1>3, <4>1 DEF DiskT
        <4> QED BY <3>2, <4>1, <4>2 DEF BlockT
      <3> QED BY <3>1, <3>2
    <2>5. Reached(g.c.d, g.inode, route, k + 1, next)
      <3>1. next \in Blocks
        BY <1>5, <2>2, Numbers DEF None
      <3>2. CASE g.first
        <4>1. k = 0 /\ next = g.inode.ptr[route[1]]
          BY <1>1, <1>5, <3>2
        <4> HIDE DEF next
        <4>2. Reached(g.c.d, g.inode, route, 1, next)
          BY <3>1, <4>1, ReachedFirst
        <4> QED BY <4>1, <4>2
      <3>3. CASE ~g.first
        <4> DEFINE d0 == g.c.d  m == g.inode
        <4>1. /\ k \in Nat \ {0} /\ Reached(d0, m, route, k, at)
              /\ next = d0.block[at].ptr[route[k + 1]]
          BY <1>1, <1>5, <3>3
        <4> HIDE DEF next, d0, m, at
        <4>2. Reached(d0, m, route, k + 1, next)
          BY <3>1, <4>1, ReachedNext
        <4> QED BY <4>2 DEF d0, m
      <3> QED BY <3>2, <3>3
    <2> HIDE DEF next
    <2> DEFINE h == [g EXCEPT !.b = next, !.first = FALSE]
    <2>3. /\ h \in [c : CallT, inode : InodeT, b : Links, first : BOOLEAN, failed : BOOLEAN]
          /\ h.c = g.c /\ h.inode = g.inode /\ h.b = next /\ h.first = FALSE
          /\ h.failed = g.failed
      BY <1>1, <2>2
    <2> HIDE DEF h
    <2>4. h \in P
      BY <1>1, <1>5, <2>3, <2>5 DEF Progress
    <2> QED BY <2>1, <2>4 DEF h
  <1>6. CASE ~g.failed /\ next = None /\ got.b = None
    <2>1. Follow(g, slot) = [g EXCEPT !.b = None, !.failed = TRUE]
      BY <1>6, Zenon DEF Follow, got
    <2> DEFINE h == [g EXCEPT !.b = None, !.failed = TRUE]
    <2>2. /\ h \in [c : CallT, inode : InodeT, b : Links, first : BOOLEAN, failed : BOOLEAN]
          /\ h.c = g.c /\ h.inode = g.inode /\ h.b = None /\ h.failed = TRUE
      BY <1>1, Numbers DEF None
    <2> HIDE DEF h
    <2>3. h \in P
      BY <1>1, <2>2 DEF Progress
    <2> QED BY <2>1, <2>3 DEF h
  <1>7. CASE ~g.failed /\ next = None /\ got.b # None
    <2>1. /\ got.b \in Blocks /\ got.b \notin DOMAIN own
          /\ Saves(about, got.c) /\ Sound(got.c.d, H \union {<<i, g.inode.ptr>>}, own, named)
          /\ got.b \in got.c.d.bbitmap /\ Empty(Zero) /\ Zero.val = 0
          /\ got.c.d.block = [g.c.d.block EXCEPT ![got.b] = Zero]
          /\ got.c.d.inode = g.c.d.inode /\ got.c.d.ibitmap = g.c.d.ibitmap
      <3> DEFINE V == H \union {<<i, g.inode.ptr>>}  c0 == g.c
      <3>1. /\ Saves(about, c0) /\ Sound(c0.d, V, own, named) /\ got.b # None
            /\ got = txfs_alloc_block(c0)
        BY <1>1, <1>2, <1>7, <1>9
      <3> HIDE DEF V, c0
      <3>2. /\ got.b \in Blocks /\ got.b \notin DOMAIN own
            /\ Saves(about, got.c) /\ Sound(got.c.d, V, own, named)
            /\ got.b \in got.c.d.bbitmap /\ Zeroed(c0.d, got.c.d, got.b)
        BY <3>1, Taken
      <3> QED BY <3>2, Zenon DEF V, c0, Zeroed
    <2>2. Follow(g, slot) =
            IF g.first
            THEN [g EXCEPT !.c = got.c, !.b = got.b, !.first = FALSE,
                           !.inode.ptr[slot] = got.b]
            ELSE [g EXCEPT !.b = got.b,
                    !.c = SetBlock(got.c, at,
                            [got.c.d.block[at] EXCEPT !.ptr[slot] = got.b])]
      BY <1>7, Zenon DEF Follow, got
    <2>6. next = IF g.first THEN g.inode.ptr[slot] ELSE g.c.d.block[at].ptr[slot]
      OBVIOUS
    <2> HIDE DEF next
    <2>3. got.c \in CallT /\ got.c.d \in DiskT /\ got.b \in Links /\ got.b # None
      BY <1>7, <2>1, Numbers DEF Saves, CallT
    <2>7. got.c.d.block[got.b] = Zero
      BY <1>3, <2>1 DEF DiskT
    <2>4. CASE g.first
      <3> DEFINE p == [g.inode.ptr EXCEPT ![slot] = got.b]
                 m == [g.inode EXCEPT !.ptr = p]
                 h == [g EXCEPT !.c = got.c, !.b = got.b, !.first = FALSE,
                                !.inode.ptr[slot] = got.b]
      <3>1. slot \in Fields /\ g.inode.ptr \in [Fields -> Links]
        BY <1>3, <1>7, <1>8, <2>4 DEF InodeT
      <3>2. Kept(got.c.d, H, i, p, named)
        BY <2>1, <2>3, <2>7, <3>1, InodeLink DEF Kept
      <3>3. p \in [Fields -> Links]
        BY <2>3, <3>1
      <3>4. h = [g EXCEPT !.c = got.c, !.b = got.b, !.first = FALSE, !.inode = m]
        BY <1>1
      <3> HIDE DEF h, p
      <3>5. m \in InodeT /\ m.ptr = p /\ m.type = g.inode.type /\ m.size = g.inode.size
        BY <1>3, <3>3 DEF InodeT
      <3> HIDE DEF m
      <3>8. \A s \in Fields : p[s] = IF s = slot THEN got.b ELSE g.inode.ptr[s]
        BY <3>1 DEF p
      <3>9. Added(Fields, inode.ptr, m.ptr, Links)
        <4>1. g.inode.ptr[slot] = None
          BY <1>7, <2>4, <2>6
        <4>2. inode.ptr \in [Fields -> Links]
          BY DEF InodeT
        <4> QED BY <1>1, <2>3, <3>1, <3>5, <3>8, <4>1 DEF Added
      <3>10. Reached(got.c.d, m, route, k + 1, got.b)
        <4>1. k = 0 /\ got.b = m.ptr[route[1]]
          BY <1>1, <1>7, <2>4, <3>1, <3>5, <3>8
        <4>2. Reached(got.c.d, m, route, 1, got.b)
          BY <2>1, <4>1, ReachedFirst
        <4> QED BY <4>1, <4>2
      <3>6. /\ h \in [c : CallT, inode : InodeT, b : Links, first : BOOLEAN, failed : BOOLEAN]
            /\ h.c = got.c /\ h.inode = m /\ h.b = got.b /\ h.first = FALSE
            /\ h.failed = g.failed
        BY <1>1, <2>3, <3>4, <3>5
      <3>7. h \in P
        BY <1>1, <1>7, <2>1, <2>3, <3>2, <3>5, <3>6, <3>9, <3>10 DEF Progress
      <3> QED BY <2>2, <2>4, <3>7 DEF h
    <2>5. CASE ~g.first
      <3> DEFINE content == [got.c.d.block[at] EXCEPT !.ptr[slot] = got.b]
                 e == [got.c.d EXCEPT !.block[at] = content]
                 r == SetBlock(got.c, at, content)
                 h == [g EXCEPT !.b = got.b, !.c = r]
      <3>1. slot \in Ptrs /\ at \in Blocks /\ k > 0
        BY <1>7, <1>8, <2>5
      <3>2. got.c.d.block[at] \in BlockT
        BY <2>3, <3>1 DEF DiskT
      <3>3. content \in BlockT
        BY <2>3, <3>1, <3>2 DEF BlockT
      <3>4. /\ e.block = [got.c.d.block EXCEPT ![at] = content]
            /\ e.inode = got.c.d.inode /\ e.ibitmap = got.c.d.ibitmap
            /\ e.bbitmap = got.c.d.bbitmap
        BY <2>3 DEF DiskT
      <3>5. PICK o : Sound(e, H \union {<<i, g.inode.ptr>>}, o, named)
        <4> DEFINE V == H \union {<<i, g.inode.ptr>>}  d0 == got.c.d  b == got.b
        <4>1. /\ d0 \in DiskT /\ Sound(d0, V, own, named) /\ at \in Blocks /\ slot \in Ptrs
              /\ b \in d0.bbitmap /\ b \notin DOMAIN own /\ Empty(d0.block[b])
          BY <2>1, <2>3, <2>7, <3>1
        <4>2. LinkedBy(d0, e, at, slot, b)
          BY <3>4 DEF LinkedBy
        <4> HIDE DEF e, V, d0, b, at
        <4>3. \E o : Sound(e, V, o, named)
          BY <4>1, <4>2, BlockLink
        <4> QED BY <4>3 DEF V
      <3>10. /\ at \in DOMAIN own /\ got.c.d.block[at] = g.c.d.block[at]
             /\ g.c.d.block[at].ptr[slot] = None
             /\ \A d2 : (\A x \in DOMAIN own, s \in Ptrs : g.c.d.block[x].ptr[s] # None =>
                             d2.block[x].ptr[s] = g.c.d.block[x].ptr[s])
                         => Reached(d2, g.inode, route, k, at)
        <4> DEFINE V == H \union {<<i, g.inode.ptr>>}  d0 == g.c.d  m == g.inode
        <4>1. Sound(d0, V, own, named) /\ Held(<<i, m.ptr>>, own)
          BY <1>2 DEF Sound
        <4>2. Reached(d0, m, route, k, at) /\ k \in 1 .. Len(route)
          BY <1>1, <1>7, <2>5, <3>1
        <4> HIDE DEF V, d0, m, at
        <4>3. /\ at \in DOMAIN own
              /\ \A d2 : (\A x \in DOMAIN own, s \in Ptrs : d0.block[x].ptr[s] # None =>
                             d2.block[x].ptr[s] = d0.block[x].ptr[s])
                         => Reached(d2, m, route, k, at)
          BY <4>1, <4>2, ReachedStays
        <4>4. got.c.d.block[at] = d0.block[at] /\ d0.block[at].ptr[slot] = None
          BY <1>3, <1>7, <2>1, <2>5, <2>6, <3>1, <4>3 DEF DiskT, d0
        <4> QED BY <4>3, <4>4 DEF d0, m
      <3>11. Frame(got.c.d, e, about)
        <4> DEFINE V == H \union {<<i, g.inode.ptr>>}  d0 == got.c.d  b == got.b
        <4>1. /\ d0 \in DiskT /\ Sound(d0, V, own, named) /\ at \in Blocks /\ slot \in Ptrs
              /\ d0.block[at].ptr[slot] = None /\ b \in d0.bbitmap /\ b \notin DOMAIN own
              /\ Empty(d0.block[b]) /\ d0.block[b].val = 0
          BY <2>1, <2>3, <2>7, <3>1, <3>10
        <4>2. /\ e.block = [d0.block EXCEPT ![at] = [d0.block[at] EXCEPT !.ptr[slot] = b]]
              /\ e.inode = d0.inode
          BY <3>4
        <4>3. e \in DiskT
          <5> HIDE DEF content
          <5> QED BY <2>3, <3>1, <3>3 DEF DiskT
        <4> HIDE DEF V, d0, b, e, at
        <4>4. Untouched(d0, e, about)
          BY <4>1, <4>2, <4>3, LinkStep
        <4> QED BY <4>4 DEF Frame, d0
      <3>12. Reached(e, g.inode, route, k + 1, got.b)
        <4>1. ASSUME NEW x \in DOMAIN own, NEW s \in Ptrs, g.c.d.block[x].ptr[s] # None
              PROVE  e.block[x].ptr[s] = g.c.d.block[x].ptr[s]
          <5>1. x \in Blocks /\ x # got.b
            BY <1>2, <1>3, <2>1 DEF Sound, Marked, DiskT
          <5>2. got.c.d.block[x] = g.c.d.block[x] /\ got.c.d.block \in [Blocks -> BlockT]
            BY <1>3, <2>1, <2>3, <5>1 DEF DiskT
          <5>3. CASE x = at
            <6>1. e.block[x] = content
              BY <3>4, <5>1, <5>2, <5>3
            <6>2. s # slot
              BY <3>10, <4>1, <5>3
            <6>3. content.ptr[s] = got.c.d.block[at].ptr[s]
              BY <3>2, <6>2 DEF BlockT
            <6> QED BY <5>2, <5>3, <6>1, <6>3
          <5>4. CASE x # at
            <6>1. e.block[x] = got.c.d.block[x]
              <7> HIDE DEF content
              <7> QED BY <3>4, <5>1, <5>2, <5>4
            <6> QED BY <5>2, <6>1
          <5> QED BY <5>3, <5>4
        <4>2. e.block[at] = content /\ content.ptr[slot] = got.b
          BY <2>3, <3>1, <3>2, <3>4 DEF DiskT, BlockT
        <4> DEFINE m == g.inode
        <4>3. Reached(e, m, route, k, at)
          <5> HIDE DEF e, content
          <5> QED BY <3>10, <4>1
        <4> HIDE DEF e, content, m, at
        <4>4. got.b = e.block[at].ptr[route[k + 1]] /\ k \in Nat \ {0}
          BY <3>1, <4>2
        <4>5. Reached(e, m, route, k + 1, got.b)
          BY <2>1, <4>3, <4>4, ReachedNext
        <4> QED BY <4>5 DEF m
      <3>6. /\ Saves(about, r) /\ Kept(r.d, H, i, g.inode.ptr, named)
            /\ Reached(r.d, g.inode, route, k + 1, got.b)
            /\ r.d.inode = got.c.d.inode /\ r.d.ibitmap = got.c.d.ibitmap
        <4> DEFINE V == H \union {<<i, g.inode.ptr>>}
        <4>1. Sound(e, V, o, named)
          BY <3>5
        <4> HIDE DEF content
        <4>2. r = Put(got.c, e)
          BY DEF SetBlock
        <4>3. e \in DiskT
          BY <2>3, <3>1, <3>3 DEF DiskT
        <4> HIDE DEF V, e, r
        <4>4. Saves(about, r) /\ r.d = e
          BY <2>1, <3>11, <4>1, <4>2, <4>3, SaveOne
        <4>5. Kept(r.d, H, i, g.inode.ptr, named)
          BY <4>1, <4>4 DEF Kept, V
        <4> QED BY <3>4, <3>12, <4>4, <4>5
      <3>7. r \in CallT
        BY <3>6 DEF Saves
      <3> HIDE DEF r
      <3>8. /\ h \in [c : CallT, inode : InodeT, b : Links, first : BOOLEAN, failed : BOOLEAN]
            /\ h.c = r /\ h.inode = g.inode /\ h.b = got.b /\ h.first = g.first
            /\ h.failed = g.failed
        BY <1>1, <2>3, <3>7
      <3> HIDE DEF h
      <3>9. h \in P
        BY <1>1, <1>7, <2>1, <2>3, <2>5, <3>1, <3>6, <3>8 DEF Progress
      <3> QED BY <2>2, <2>5, <3>9 DEF h, r
    <2> QED BY <2>4, <2>5
  <1> QED BY <1>3, <1>4, <1>5, <1>6, <1>7, Zenon

LEMMA Found ==
    ASSUME NEW about, NEW c, Saves(about, c), NEW H, NEW named, NEW i, NEW inode \in InodeT,
           Kept(c.d, H, i, inode.ptr, named), NEW idx \in Nat
    PROVE  LET g == txfs_get_block(c, inode, idx)
           IN  /\ Saves(about, g.c) /\ g.inode \in InodeT /\ g.b \in Links
               /\ g.c.d.inode = c.d.inode /\ g.c.d.ibitmap = c.d.ibitmap
               /\ g.inode.type = inode.type /\ g.inode.size = inode.size
               /\ Added(Fields, inode.ptr, g.inode.ptr, Links)
               /\ Kept(g.c.d, H, i, g.inode.ptr, named)
               /\ g.b # None =>
                     /\ Leads(Route(idx))
                     /\ Reached(g.c.d, g.inode, Route(idx), Len(Route(idx)), g.b)
  <1> DEFINE route == Route(idx)
             n == Len(route)
             S == [k \in 0 .. n |-> Progress(about, c.d, inode, H, named, i, route, k)]
             x == [c |-> c, inode |-> inode, b |-> None, first |-> TRUE, failed |-> FALSE]
             step == [k \in 1 .. n |-> [y \in S[k - 1] |-> Follow(y, route[k])]]
             Is(g) == g = [k \in 0 .. n |-> IF k = 0 THEN x ELSE Follow(g[k - 1], route[k])]
  <1>1. /\ n \in Nat
        /\ n # 0 => Leads(route)
    <2>1. route = <<>> \/ Leads(route)
      BY RouteLeads
    <2> HIDE DEF route
    <2> QED BY <2>1 DEF Leads
  <1> HIDE DEF route, n
  <1>2. x \in Progress(about, c.d, inode, H, named, i, route, 0)
    <2>1. x \in [c : CallT, inode : InodeT, b : Links, first : BOOLEAN, failed : BOOLEAN]
      BY Numbers DEF Saves, None
    <2>2. x.c = c /\ x.inode = inode /\ x.b = None /\ x.first = TRUE /\ x.failed = FALSE
      OBVIOUS
    <2> HIDE DEF x
    <2>3. Added(Fields, inode.ptr, inode.ptr, Links)
      BY DEF Added, InodeT
    <2> QED BY <2>1, <2>2, <2>3 DEF Progress
  <1> HIDE DEF x
  <1>3. x \in S[0]
    BY <1>1, <1>2
  <1>4. ASSUME NEW k \in 1 .. n, NEW y \in S[k - 1]
        PROVE  Follow(y, route[k]) \in S[k]
    <2>1. k - 1 \in Nat /\ k - 1 \in 0 .. n /\ k \in 0 .. n
      BY <1>1
    <2>2. y \in Progress(about, c.d, inode, H, named, i, route, k - 1)
      BY <2>1
    <2>3. Follow(y, route[k]) \in Progress(about, c.d, inode, H, named, i, route, (k - 1) + 1)
      <3>1. Leads(route) /\ (k - 1) + 1 \in 1 .. Len(route) /\ route[k] = route[(k - 1) + 1]
        BY <1>1 DEF n
      <3> QED BY <2>1, <2>2, <3>1, Followed
    <2>4. (k - 1) + 1 = k
      BY <1>1
    <2> QED BY <2>1, <2>3, <2>4
  <1>5. \E g : Is(g)
    <2>1. \A k \in 1 .. n : \A y \in S[k - 1] : step[k][y] = Follow(y, route[k])
      OBVIOUS
    <2> HIDE DEF S, step
    <2>2. StaysIn(step, 0, n, S)
      BY <1>4, <2>1 DEF StaysIn
    <2>3. PICK f : IsIterated(f, 0, n, S, x, step)
      BY <1>1, <1>3, <2>2, Iterates
    <2>4. ASSUME NEW k \in 0 .. n
          PROVE  f[k] = IF k = 0 THEN x ELSE Follow(f[k - 1], route[k])
      <3>1. CASE k = 0
        BY <2>3, <3>1 DEF IsIterated
      <3>2. CASE k # 0
        <4>1. k \in 1 .. n /\ k \in 0 + 1 .. n /\ k - 1 \in 0 .. n
          BY <1>1, <3>2
        <4>2. f[k - 1] \in S[k - 1] /\ f[k] = step[k][f[k - 1]]
          BY <2>3, <4>1 DEF IsIterated
        <4> QED BY <2>1, <3>2, <4>1, <4>2
      <3> QED BY <3>1, <3>2
    <2>5. f = [k \in 0 .. n |-> f[k]]
      BY <2>3 DEF IsIterated
    <2>6. Is(f)
      BY <2>4, <2>5
    <2> QED BY <2>6
  <1> DEFINE G == CHOOSE g : Is(g)
  <1>6. Is(G)
    <2> HIDE DEF Is
    <2> QED BY <1>5
  <1>7. txfs_get_block(c, inode, idx) = G[n]
    BY DEF txfs_get_block, x, n, route
  <1> HIDE DEF G
  <1> DEFINE T == {k \in 0 .. n : G[k] \in S[k]}
  <1>8. 0 \in T
    BY <1>1, <1>3, <1>6
  <1>9. ASSUME NEW k \in 0 + 1 .. n, k - 1 \in T PROVE k \in T
    <2>1. k \in 1 .. n /\ k \in 0 .. n /\ k # 0
      BY <1>1
    <2>2. G[k] = Follow(G[k - 1], route[k])
      BY <1>6, <2>1
    <2>3. G[k - 1] \in S[k - 1]
      BY <1>9
    <2> HIDE DEF S
    <2> QED BY <1>4, <2>1, <2>2, <2>3
  <1> HIDE DEF T
  <1>10. 0 .. n \subseteq T
    BY <1>1, <1>8, <1>9, UpTo
  <1>11. G[n] \in Progress(about, c.d, inode, H, named, i, route, n)
    BY <1>1, <1>10 DEF T
  <1> DEFINE r == G[n]
  <1> HIDE DEF r, S, step, Is
  <1>12. r \in Progress(about, c.d, inode, H, named, i, route, n) /\ txfs_get_block(c, inode, idx) = r
    BY <1>7, <1>11 DEF r
  <1>13. /\ Saves(about, r.c) /\ r.inode \in InodeT /\ r.b \in Links
         /\ r.c.d.inode = c.d.inode /\ r.c.d.ibitmap = c.d.ibitmap
         /\ r.inode.type = inode.type /\ r.inode.size = inode.size
         /\ Added(Fields, inode.ptr, r.inode.ptr, Links)
         /\ Kept(r.c.d, H, i, r.inode.ptr, named)
    BY <1>12 DEF Progress
  <1>14. r.b # None => n # 0 /\ Reached(r.c.d, r.inode, route, n, r.b)
    <2>1. /\ r.failed => r.b = None
          /\ ~r.failed => IF r.first THEN n = 0 /\ r.b = None
                          ELSE n > 0 /\ r.b # None /\ Reached(r.c.d, r.inode, route, n, r.b)
      BY <1>12, Zenon DEF Progress
    <2>2. n > 0 => n # 0
      BY <1>1
    <2> QED BY <2>1, <2>2, Zenon
  <1>15. r.b # None => Leads(Route(idx)) /\ Reached(r.c.d, r.inode, Route(idx), Len(Route(idx)), r.b)
    BY <1>1, <1>14, Zenon DEF route, n
  <1> QED BY <1>12, <1>13, <1>15
-----------------------------------------------------------------------------
(* A new name, and a new file or directory.                                *)
Appends(about, c, H, own, named, i, child, name, r) ==
    /\ Saves(about, c) /\ Sound(c.d, H, own, named) /\ Fresh(child, c.d, named)
    /\ name \in STRING
    /\ c.d.inode[child].type = "file" => name \in FileNames
    /\ i \in DOMAIN named
    /\ NamesApart => c.d.inode[i].type = "dir"
    /\ r = txfs_dir_append(c, i, child, name)

LEMMA Appended ==
    ASSUME NEW about, NEW c, NEW H, NEW own, NEW named, NEW i, NEW child, NEW name, NEW r,
           Appends(about, c, H, own, named, i, child, name, r)
    PROVE  /\ Saves(about, r) /\ \E o, n : Sound(r.d, H, o, n)
           /\ SameButOne(c.d, r.d, i) /\ r.d.inode[i].type = c.d.inode[i].type
           /\ r.d.ibitmap = c.d.ibitmap
  <1> DEFINE dir == c.d.inode[i]
             k   == dir.size % DirentsPerBlock
             idx == dir.size \div DirentsPerBlock
             g   == txfs_get_block(c, dir, idx)
             content == [g.c.d.block[g.b] EXCEPT !.ent[k] = [inode |-> child, name |-> name]]
             c1  == SetBlock(g.c, g.b, content)
             inode == [g.inode EXCEPT !.size = @ + 1]
  <1>0. /\ Saves(about, c) /\ Sound(c.d, H, own, named) /\ Fresh(child, c.d, named)
        /\ name \in STRING
        /\ c.d.inode[child].type = "file" => name \in FileNames
        /\ i \in DOMAIN named
        /\ NamesApart => c.d.inode[i].type = "dir"
        /\ r = txfs_dir_append(c, i, child, name)
    BY DEF Appends
  <1> USE <1>0
  <1>1. /\ c \in CallT /\ c.d \in DiskT /\ i \in Inodes /\ child \in Inodes
        /\ dir \in InodeT /\ dir.type # "none"
    BY DEF Saves, CallT, DiskT, Sound, Marked, Fresh
  <1>2. k \in Ents /\ idx \in Nat
    <2>1. dir.size \in Nat
      BY <1>1 DEF InodeT
    <2>2. idx \in Nat /\ k \in 0 .. DirentsPerBlock - 1
      BY <2>1, Sizes, Divided
    <2> HIDE DEF k, idx
    <2> QED BY <2>2 DEF Ents
  <1>3. Kept(c.d, H, i, dir.ptr, named)
    <2> DEFINE V == H \union {<<i, dir.ptr>>}
    <2>1. Held(<<i, dir.ptr>>, own)
      BY DEF Sound
    <2>2. \A v \in V : Held(v, own)
      BY <2>1 DEF Sound
    <2> HIDE DEF V
    <2>3. Sound(c.d, V, own, named)
      BY <2>2 DEF Sound
    <2> QED BY <2>3 DEF Kept, V
  <1>4. r = IF g.b = None THEN g.c ELSE SetInode(c1, i, inode)
    BY Zenon DEF txfs_dir_append
  <1>5. g = txfs_get_block(c, dir, idx)
    OBVIOUS
  <1>a. /\ k = dir.size % DirentsPerBlock /\ idx = dir.size \div DirentsPerBlock
        /\ dir = c.d.inode[i] /\ dir.size \in Nat
    BY <1>1 DEF InodeT
  <1> HIDE DEF dir, k, idx, g
  <1>6. /\ Saves(about, g.c) /\ g.inode \in InodeT /\ g.b \in Links
        /\ g.c.d.inode = c.d.inode /\ g.c.d.ibitmap = c.d.ibitmap
        /\ g.inode.type = dir.type /\ g.inode.size = dir.size
        /\ Added(Fields, dir.ptr, g.inode.ptr, Links)
        /\ Kept(g.c.d, H, i, g.inode.ptr, named)
        /\ g.b # None => Leads(Route(idx)) /\ Reached(g.c.d, g.inode, Route(idx), Len(Route(idx)), g.b)
    <2>1. LET h == txfs_get_block(c, dir, idx)
          IN  /\ Saves(about, h.c) /\ h.inode \in InodeT /\ h.b \in Links
              /\ h.c.d.inode = c.d.inode /\ h.c.d.ibitmap = c.d.ibitmap
              /\ h.inode.type = dir.type /\ h.inode.size = dir.size
              /\ Added(Fields, dir.ptr, h.inode.ptr, Links)
              /\ Kept(h.c.d, H, i, h.inode.ptr, named)
              /\ h.b # None =>
                    /\ Leads(Route(idx))
                    /\ Reached(h.c.d, h.inode, Route(idx), Len(Route(idx)), h.b)
      BY <1>1, <1>2, <1>3, Found
    <2> QED BY <1>5, <2>1
  <1> DEFINE V == H \union {<<i, g.inode.ptr>>}
  <1>7. PICK o : Sound(g.c.d, V, o, named)
    BY <1>6 DEF Kept
  <1>8. Held(<<i, g.inode.ptr>>, o)
    BY <1>7 DEF Sound
  <1>9. g.c \in CallT /\ g.c.d \in DiskT
    BY <1>6 DEF Saves, CallT
  <1>10. \A d, n : Sound(d, V, o, n) => Sound(d, H, o, n)
    BY DEF Sound
  <1> HIDE DEF V
  <1>11. CASE g.b = None
    BY <1>4, <1>6, <1>7, <1>10, <1>11 DEF SameButOne
  <1>12. CASE g.b # None
    <2>1. g.b \in Blocks /\ g.c.d.block[g.b] \in BlockT
      BY <1>6, <1>9, <1>12, Numbers DEF None, DiskT
    <2> DEFINE entry == [inode |-> child, name |-> name]
    <2>2. entry \in EntryT /\ entry.inode = child /\ entry.name = name
      BY <1>1 DEF EntryT
    <2> HIDE DEF entry
    <2>3. content = [g.c.d.block[g.b] EXCEPT !.ent[k] = entry]
      BY DEF entry
    <2>4. /\ content \in BlockT /\ content.ptr = g.c.d.block[g.b].ptr
          /\ content.val = g.c.d.block[g.b].val /\ content.ent[k] = entry
          /\ \A j \in Ents : j # k => content.ent[j] = g.c.d.block[g.b].ent[j]
      BY <1>2, <2>1, <2>2, <2>3, ZenonT(30) DEF BlockT
    <2> DEFINE e == [g.c.d EXCEPT !.block[g.b] = content]
    <2> HIDE DEF content
    <2>5. /\ e \in DiskT /\ e.block = [g.c.d.block EXCEPT ![g.b] = content]
          /\ e.inode = g.c.d.inode /\ e.ibitmap = g.c.d.ibitmap /\ e.bbitmap = g.c.d.bbitmap
      BY <1>9, <2>1, <2>4 DEF DiskT
    <2>6. c1 = Put(g.c, e)
      BY DEF SetBlock
    <2> HIDE DEF e, c1
    <2>7. Fresh(child, g.c.d, named) /\ IsNamed(content, k, child, g.c.d.block[g.b])
      BY <1>6, <2>2, <2>4 DEF Fresh, IsNamed
    <2>16. NamedBy(g.c.d, e, g.b, k, child, content)
      <3>1. g.c.d.inode[child].type = "file" => content.ent[k].name \in FileNames
        BY <1>6, <2>2, <2>4
      <3> QED BY <2>5, <2>7, <3>1 DEF NamedBy
    <2>8. PICK n : Sound(e, V, o, n)
      <3> DEFINE d == g.c.d  at == g.b
      <3>1. /\ d \in DiskT /\ Sound(d, V, o, named) /\ at \in Blocks
            /\ Fresh(child, d, named) /\ NamedBy(d, e, at, k, child, content)
        BY <1>7, <1>9, <2>1, <2>7, <2>16
      <3> HIDE DEF d, at
      <3> QED BY <1>2, <3>1, NewName
    <2>15. Frame(g.c.d, e, about)
      <3> DEFINE d == g.c.d  size == dir.size  route == Route(idx)  b == g.b  y == g.inode
      <3>1. /\ d \in DiskT /\ Sound(d, V, o, named) /\ size = d.inode[i].size
            /\ route = Route(size \div DirentsPerBlock) /\ b \in Blocks
            /\ e \in DiskT /\ NamedBy(d, e, b, size % DirentsPerBlock, child, content)
        BY <1>a, <1>6, <1>7, <1>9, <2>1, <2>5, <2>16
      <3>2. Reaches(d, o, i, y, route, b)
        BY <1>6, <1>8, <1>12 DEF Reaches
      <3> HIDE DEF d, size, route, b, y
      <3>3. Untouched(d, e, about)
        BY <3>1, <3>2, NameStep
      <3> QED BY <3>3 DEF Frame, d
    <2>9. Saves(about, c1) /\ c1.d = e
      BY <1>6, <2>5, <2>6, <2>8, <2>15, SaveOne
    <2>10. /\ inode \in InodeT /\ inode.type # "none" /\ inode.ptr = g.inode.ptr
           /\ inode.type = dir.type /\ dir.size <= inode.size
      BY <1>a, <1>1, <1>6 DEF InodeT
    <2> HIDE DEF inode
    <2> DEFINE f == SetInode(c1, i, inode)
    <2>11. Rewrites(about, c1.d, o, n, i, inode) /\ Sound(c1.d, V, o, n)
      <3>1. c1.d.inode[i] = dir
        BY <1>a, <1>6, <2>5, <2>9
      <3>2. Grown(dir, inode)
        BY <1>6, <2>10 DEF Grown
      <3>3. NamesApart => InodeStays(dir, inode, i = about)
        BY <1>a, <3>2 DEF InodeStays
      <3> QED BY <1>8, <2>8, <2>9, <2>10, <3>1, <3>3 DEF Rewrites
    <2>0. f = SetInode(c1, i, inode)
      OBVIOUS
    <2> HIDE DEF f
    <2>17. inode \in InodeT /\ inode.type # "none" /\ i \in Inodes /\ Saves(about, c1)
      BY <1>1, <2>9, <2>10
    <2>12. /\ Saves(about, f) /\ Sound(f.d, V, o, n)
           /\ SameButOne(c1.d, f.d, i) /\ f.d.inode[i] = inode
           /\ f.d.ibitmap = c1.d.ibitmap
      BY <2>0, <2>11, <2>17, InodeSaved
    <2>13. /\ SameButOne(c.d, f.d, i) /\ f.d.inode[i].type = c.d.inode[i].type
           /\ f.d.ibitmap = c.d.ibitmap
      BY <1>a, <1>6, <2>5, <2>9, <2>10, <2>12 DEF SameButOne
    <2>14. r = f
      BY <1>4, <1>12 DEF f
    <2> QED BY <1>10, <2>12, <2>13, <2>14
  <1> QED BY <1>11, <1>12

(* Where no path goes through the name of a file, a parent is a directory. *)
LEMMA ParentIsDir ==
    ASSUME NEW d \in DiskT, NEW H, NEW own, NEW named, Sound(d, H, own, named),
           NEW path \in FilePaths \union DirPaths
    PROVE  /\ Parent(d, path) \in DOMAIN named
           /\ NamesApart => d.inode[Parent(d, path)].type = "dir"
  <1> DEFINE n == Len(path) - 1  w == Walk(d, path)[n]
  <1>1. Len(path) \in Nat \ {0} /\ n \in Nat /\ n \in 0 .. Len(path)
    BY TxfsAssumption
  <1>2. /\ 0 \in DOMAIN named /\ d.inode[0].type = "dir"
        /\ \A i \in DOMAIN named : d.inode[i] \in InodeT /\ Held(<<i, d.inode[i].ptr>>, own)
    BY DEF Sound, Marked, Apart, DiskT
  <1>3. w \in DOMAIN named \union {NotFound} /\ Walk(d, path)[0] = 0
    BY <1>1, Walked
  <1>4. Parent(d, path) = IF w = NotFound THEN 0 ELSE w
    BY DEF Parent
  <1>5. ASSUME w # NotFound, NamesApart PROVE d.inode[w].type = "dir"
    <2>1. CASE n = 0
      BY <1>2, <1>3, <2>1
    <2>2. CASE n # 0
      <3> DEFINE j == Walk(d, path)[n - 1]  x == d.inode[j]  name == path[n]
      <3>1. n \in 1 .. Len(path) /\ n - 1 \in 0 .. Len(path) /\ n \in 1 .. Len(path) - 1
        <4> DEFINE l == Len(path)
        <4>1. l \in Nat /\ l - 1 \in Nat /\ l - 1 # 0
          BY <1>1, <2>2
        <4> HIDE DEF l
        <4>2. l - 1 \in 1 .. l /\ l - 1 - 1 \in 0 .. l /\ l - 1 \in 1 .. l - 1
          BY <4>1
        <4> QED BY <4>2 DEF l
      <3>2. j \in DOMAIN named \union {NotFound}
        BY <1>1, <3>1, Walked
      <3>3. w = IF j = NotFound \/ x.type # "dir" THEN NotFound ELSE txfs_dir_lookup(d, x, name)
        BY <1>1, <3>1, Walked
      <3>4. name \notin FileNames
        BY <1>5, <3>1 DEF NamesApart
      <3>5. x \in InodeT /\ Held(<<j, x.ptr>>, own) /\ w = txfs_dir_lookup(d, x, name)
        BY <1>2, <1>5, <3>2, <3>3
      <3> HIDE DEF x, j, name, w, n
      <3> DEFINE k == Least(Matches(d, x, name))  e == Entry(d, x, k)
      <3>6. Matches(d, x, name) # {}
        BY <1>5, <3>5 DEF txfs_dir_lookup
      <3>7. k \in Nat /\ e.inode # None /\ w = e.inode
        BY <3>5, <3>6, Looked
      <3>8. e.name = name
        <4>1. Matches(d, x, name) \in SUBSET Nat
          BY <3>5 DEF Matches, InodeT
        <4>2. k \in Matches(d, x, name)
          BY <3>6, <4>1, LeastExists
        <4> QED BY <4>2 DEF Matches
      <3>9. e = Entry(d, x, k)
        OBVIOUS
      <3> HIDE DEF k, e
      <3> DEFINE b == BlockOf(d, x, k \div DirentsPerBlock)  s == k % DirentsPerBlock
      <3>10. b \in DOMAIN own /\ s \in Ents /\ e = d.block[b].ent[s] /\ e.inode \in DOMAIN named
        <4>1. b = BlockOf(d, x, k \div DirentsPerBlock)
          OBVIOUS
        <4> HIDE DEF b
        <4> QED BY <3>5, <3>7, <3>9, <4>1, EntryNamed
      <3> HIDE DEF b, s
      <3>11. d.inode[w].type # "file" /\ d.inode[w].type # "none"
        BY <3>4, <3>7, <3>8, <3>10 DEF Sound, Apart, Marked
      <3> QED BY <1>2, <3>7, <3>10, <3>11 DEF InodeT, Types
    <2> QED BY <2>1, <2>2
  <1> HIDE DEF w
  <1> QED BY <1>2, <1>3, <1>4, <1>5

(* The paths of files are told apart from those of directories.            *)
Fits(type, path) ==
    /\ path \in FilePaths \union DirPaths /\ type \in Types \ {"none"}
    /\ type = "file" => Last(path) \in FileNames

(* What a call that makes something starts from.                           *)
Makes(about, c, H, own, named, path, type, new) ==
    /\ Saves(about, c) /\ Sound(c.d, H, own, named) /\ c.d.ibitmap # Inodes
    /\ Fits(type, path) /\ new = NewFile(c, path, type)

LEMMA Created ==
    ASSUME NEW about, NEW c, NEW H, NEW own, NEW named, NEW path, NEW type, NEW new,
           Makes(about, c, H, own, named, path, type, new)
    PROVE  /\ Saves(about, new.c) /\ new.b \in Inodes /\ new.b \in new.c.d.ibitmap
           /\ c.d.ibitmap \subseteq new.c.d.ibitmap
           /\ \A j \in c.d.ibitmap : new.c.d.inode[j].type = c.d.inode[j].type
           /\ new.c.d.inode[new.b] = NewInode(type)
           /\ \E o, n : Sound(new.c.d, H \union {<<new.b, NewInode(type).ptr>>}, o, n)
  <1>0. /\ Saves(about, c) /\ Sound(c.d, H, own, named) /\ c.d.ibitmap # Inodes
        /\ Fits(type, path) /\ new = NewFile(c, path, type)
    BY DEF Makes
  <1>01. path \in FilePaths \union DirPaths /\ type \in Types \ {"none"}
    BY <1>0 DEF Fits
  <1> DEFINE got == txfs_alloc_inode(c)
             b   == got.b
             c1  == SetInode(got.c, b, NewInode(type))
             p   == Parent(c1.d, path)
             r   == txfs_dir_append(c1, p, b, Last(path))
  <1>1. new = [c |-> r, b |-> b]
    BY <1>0, Zenon DEF NewFile
  <1>2. got = txfs_alloc_inode(c)
    OBVIOUS
  <1> HIDE DEF got
  <1>3. /\ b \in Inodes /\ b \notin DOMAIN named /\ b \in got.c.d.ibitmap
        /\ Saves(about, got.c) /\ Sound(got.c.d, H, own, named)
        /\ got.c.d.inode = c.d.inode /\ c.d.ibitmap \subseteq got.c.d.ibitmap
        /\ b \notin c.d.ibitmap
    BY <1>0, <1>2, InodeTaken, Zenon
  <1> HIDE DEF b
  <1>4. NewInode(type) \in InodeT /\ NewInode(type).type # "none"
    BY <1>01, EmptyTypes
  <1>5. \A s \in Fields : NewInode(type).ptr[s] = None
    BY <1>01, EmptyTypes
  <1> DEFINE c0 == got.c  inode == NewInode(type)
  <1>6. /\ Saves(about, c1) /\ Sound(c1.d, H, own, named)
        /\ c1.d.inode[b] = inode /\ c1.d.ibitmap = c0.d.ibitmap
        /\ SameButOne(c0.d, c1.d, b)
    <2>1. Saves(about, c0) /\ Sound(c0.d, H, own, named) /\ c1 = SetInode(c0, b, inode)
      BY <1>3
    <2>2. b \in Inodes /\ Rewrites(about, c0.d, own, named, b, inode)
      BY <1>3 DEF Rewrites
    <2>3. inode \in InodeT /\ inode.type # "none"
      BY <1>4
    <2> HIDE DEF c0, inode, c1
    <2> QED BY <2>1, <2>2, <2>3, InodeSaved
  <1> HIDE DEF c1
  <1>7. got.c.d \in DiskT /\ c1.d \in DiskT
    BY <1>3, <1>6 DEF Saves, CallT
  <1>8. c1.d.inode[b] = NewInode(type)
    BY <1>6
  <1>9. Last(path) \in STRING
    <2>1. Len(path) \in Nat \ {0} /\ path \in Seq(STRING)
      BY <1>01, TxfsAssumption
    <2>2. Last(path) = path[Len(path)]
      BY DEF Last
    <2> QED BY <2>1, <2>2
  <1>10. p \in DOMAIN named /\ (NamesApart => c1.d.inode[p].type = "dir")
    BY <1>01, <1>6, <1>7, ParentIsDir
  <1> DEFINE name == Last(path)
  <1>11. name \in STRING /\ (c1.d.inode[b].type = "file" => name \in FileNames)
    BY <1>0, <1>8, <1>9 DEF NewInode, Fits
  <1>12. r = txfs_dir_append(c1, p, b, name)
    OBVIOUS
  <1> HIDE DEF p, r, name
  <1>13. Fresh(b, c1.d, named)
    BY <1>3, <1>4, <1>5, <1>6, <1>8 DEF Fresh
  <1>21. Appends(about, c1, H, own, named, p, b, name, r)
    BY <1>6, <1>10, <1>11, <1>12, <1>13 DEF Appends
  <1>14. /\ Saves(about, r) /\ \E o, n : Sound(r.d, H, o, n)
         /\ SameButOne(c1.d, r.d, p) /\ r.d.inode[p].type = c1.d.inode[p].type
         /\ r.d.ibitmap = c1.d.ibitmap
    BY <1>21, Appended
  <1>15. r.d.inode[b] = NewInode(type)
    BY <1>3, <1>8, <1>10, <1>14 DEF SameButOne
  <1>16. PICK o, n : Sound(r.d, H, o, n)
    BY <1>14
  <1>17. Held(<<b, NewInode(type).ptr>>, o)
    BY <1>5 DEF Held
  <1>18. Sound(r.d, H \union {<<b, NewInode(type).ptr>>}, o, n)
    BY <1>16, <1>17 DEF Sound
  <1>19. new.c = r /\ new.b = b
    BY <1>1
  <1>20. ASSUME NEW j \in c.d.ibitmap PROVE r.d.inode[j].type = c.d.inode[j].type
    <2>1. j \in Inodes /\ j # b
      BY <1>0, <1>3 DEF Saves, CallT, DiskT
    <2>2. c1.d.inode[j] = c.d.inode[j]
      BY <1>3, <1>6, <2>1 DEF SameButOne
    <2>3. r.d.inode[j].type = c1.d.inode[j].type
      BY <1>14, <2>1 DEF SameButOne
    <2> QED BY <2>2, <2>3
  <1> QED BY <1>3, <1>6, <1>14, <1>15, <1>18, <1>19, <1>20
-----------------------------------------------------------------------------
(* A remove: the inode i loses its name and its blocks F their owners.     *)
NotOf(H, i) == \A v \in H : v[1] # i
LiveIn(F, own, i) ==
    \A x \in F \intersect DOMAIN own :
       \/ own[x][1] = "inode" /\ own[x][2] = i
       \/ own[x][1] = "block" /\ own[x][2] \in F

Wiped(d, d2, i, F, b, content) ==
    /\ d2.block = [d.block EXCEPT ![b] = content] /\ d2.inode = d.inode
    /\ d.ibitmap \ {i} \subseteq d2.ibitmap /\ d.bbitmap \ F \subseteq d2.bbitmap

LEMMA Cleared ==
    ASSUME NEW d \in DiskT, NEW H, NEW own, NEW named, Sound(d, H, own, named),
           NEW i \in DOMAIN named, i # 0, NotOf(H, i), NEW F, LiveIn(F, own, i),
           NEW b \in Blocks, NEW k \in Ents, named[i] = <<b, k>>,
           NEW content, IsNamed(content, k, None, d.block[b]),
           NEW d2, Wiped(d, d2, i, F, b, content)
    PROVE  \E o, n : Sound(d2, H, o, n)
  <1> DEFINE o == [x \in DOMAIN own \ F |-> own[x]]
             n == [j \in DOMAIN named \ {i} |-> named[j]]
  <1>1. /\ DOMAIN o = DOMAIN own \ F /\ \A x \in DOMAIN o : o[x] = own[x]
        /\ DOMAIN n = DOMAIN named \ {i} /\ \A j \in DOMAIN n : n[j] = named[j]
    OBVIOUS
  <1> HIDE DEF o, n
  <1>2. \A x \in DOMAIN own : x \in Blocks
    BY DEF Sound, Marked, DiskT
  <1>3. /\ \A x \in DOMAIN o : d2.block[x].ptr = d.block[x].ptr
        /\ \A x \in DOMAIN o, j \in Ents :
              d2.block[x].ent[j].inode =
                 IF x = b /\ j = k THEN None ELSE d.block[x].ent[j].inode
    <2>1. \A x \in DOMAIN o : d2.block[x] = IF x = b THEN content ELSE d.block[x]
      BY <1>1, <1>2 DEF DiskT, Wiped
    <2>2. content.ptr = d.block[b].ptr
      BY DEF IsNamed
    <2>3. \A j \in Ents : content.ent[j].inode =
                             IF j = k THEN None ELSE d.block[b].ent[j].inode
      BY DEF IsNamed
    <2> QED BY <2>1, <2>2, <2>3
  <1>4. Marked(d2, o, n)
    BY <1>1 DEF Sound, Marked, Wiped
  <1>5. \A v : v[1] # i /\ Held(v, own) => Held(v, o)
    <2> SUFFICES ASSUME NEW v, v[1] # i, Held(v, own), NEW s \in Fields, v[2][s] # None
                 PROVE  v[2][s] \in DOMAIN o /\ o[v[2][s]] = <<"inode", v[1], s>>
      BY DEF Held
    <2>1. v[2][s] \in DOMAIN own /\ own[v[2][s]] = <<"inode", v[1], s>>
      BY DEF Held
    <2>2. own[v[2][s]][1] = "inode" /\ own[v[2][s]][2] = v[1]
      BY <2>1
    <2>3. v[2][s] \notin F
      BY <2>1, <2>2 DEF LiveIn
    <2> QED BY <1>1, <2>1, <2>3
  <1>6. Tree(d2, o, n)
    <2>1. Tree(d, own, named)
      BY DEF Sound
    <2>2. ASSUME NEW x \in DOMAIN o, NEW j \in Ptrs, d2.block[x].ptr[j] # None
          PROVE  /\ d2.block[x].ptr[j] \in DOMAIN o
                 /\ o[d2.block[x].ptr[j]] = <<"block", x, j>>
      <3> DEFINE y == d.block[x].ptr[j]
      <3>1. y \in DOMAIN own /\ own[y] = <<"block", x, j>> /\ d2.block[x].ptr[j] = y
        BY <1>1, <1>3, <2>1, <2>2 DEF Tree
      <3> HIDE DEF y
      <3>2. own[y][1] = "block" /\ own[y][2] = x /\ x \notin F
        BY <1>1, <3>1
      <3>3. y \notin F
        BY <3>1, <3>2 DEF LiveIn
      <3> QED BY <1>1, <3>1, <3>3
    <2>3. ASSUME NEW x \in DOMAIN o, NEW j \in Ents, d2.block[x].ent[j].inode # None
          PROVE  /\ d2.block[x].ent[j].inode \in DOMAIN n
                 /\ n[d2.block[x].ent[j].inode] = <<x, j>>
      <3> DEFINE e == d.block[x].ent[j].inode
      <3>1. ~(x = b /\ j = k) /\ d2.block[x].ent[j].inode = e
        BY <1>3, <2>3
      <3>2. e \in DOMAIN named /\ named[e] = <<x, j>>
        BY <1>1, <2>1, <2>3, <3>1 DEF Tree
      <3> HIDE DEF e
      <3>3. e # i
        BY <3>1, <3>2
      <3> QED BY <1>1, <3>1, <3>2, <3>3
    <2> QED BY <2>2, <2>3 DEF Tree
  <1>7. \A j \in DOMAIN n : Held(<<j, d2.inode[j].ptr>>, o)
    <2> SUFFICES ASSUME NEW j \in DOMAIN n PROVE Held(<<j, d2.inode[j].ptr>>, o)
      OBVIOUS
    <2> DEFINE v == <<j, d.inode[j].ptr>>
    <2>1. v[1] # i /\ Held(v, own)
      BY <1>1 DEF Sound
    <2> HIDE DEF v
    <2>2. Held(v, o)
      BY <1>5, <2>1
    <2> QED BY <2>2 DEF v, Wiped
  <1>8. \A v \in H : Held(v, o)
    BY <1>5 DEF Sound, NotOf
  <1>9. Apart(d2, o)
    <2>1. \A x \in DOMAIN o, j \in Ents :
             d2.block[x].ent[j].inode # None => d2.block[x].ent[j] = d.block[x].ent[j]
      <3>1. \A x \in DOMAIN o : x \in Blocks
        BY <1>1, <1>2
      <3>2. \A x \in DOMAIN o : d2.block[x] = IF x = b THEN content ELSE d.block[x]
        BY <3>1 DEF DiskT, Wiped
      <3> QED BY <3>2 DEF IsNamed
    <2> QED BY <1>1, <2>1 DEF Sound, Apart, Wiped
  <1>10. Sound(d2, H, o, n)
    BY <1>4, <1>6, <1>7, <1>8, <1>9 DEF Sound
  <1> QED BY <1>10

(* What a remove writes: every file keeps its contents, whoever sees it.    *)
SameFiles(d, d2) ==
    /\ d2.inode = d.inode
    /\ \A b \in Blocks : d2.block[b].ptr = d.block[b].ptr /\ d2.block[b].val = d.block[b].val
Logs(c, d) == \A k \in 1 .. Len(c.log) : SameFiles(d, c.log[k])

LEMMA PutLogs ==
    ASSUME NEW c \in CallT, NEW d, Logs(c, d), NEW d2 \in DiskT, SameFiles(d, d2)
    PROVE  Logs(Put(c, d2), d)
  <1>1. c.log \in Seq(DiskT)
    BY DEF CallT
  <1>2. /\ Put(c, d2) \in CallT /\ DOMAIN Put(c, d2).log = 1 .. Len(c.log) + 1
        /\ \A k \in 1 .. Len(c.log) : Put(c, d2).log[k] = c.log[k]
        /\ Put(c, d2).log[Len(c.log) + 1] = d2
    BY PutIs, Zenon
  <1>3. Put(c, d2).log \in Seq(DiskT)
    BY <1>2 DEF CallT
  <1>4. Len(Put(c, d2).log) = Len(c.log) + 1
    BY <1>1, <1>2, <1>3
  <1>5. ASSUME NEW k \in 1 .. Len(Put(c, d2).log) PROVE SameFiles(d, Put(c, d2).log[k])
    <2>1. CASE k = Len(c.log) + 1
      BY <1>2, <2>1
    <2>2. CASE k # Len(c.log) + 1
      <3>1. k \in 1 .. Len(c.log)
        BY <1>1, <1>4, <2>2
      <3> QED BY <1>2, <3>1 DEF Logs
    <2> QED BY <2>1, <2>2
  <1> QED BY <1>5 DEF Logs

LEMMA SameContents ==
    ASSUME NEW d \in DiskT, NEW d2 \in DiskT, SameFiles(d, d2), NEW j \in Inodes
    PROVE  FileContents(d2, j) = FileContents(d, j)
  <1> DEFINE x == d.inode[j]  M == {None}
  <1>1. Within(M, d2) /\ Blank(M, d2)
    BY NoneWithin
  <1> HIDE DEF x, M
  <1>2. ASSUME NEW route, NEW at, Leads(route), IsWay(at, d, x, route),
               NEW k \in 1 .. Len(route), at[k] # None
        PROVE  /\ Added(Ptrs, d.block[at[k]].ptr, d2.block[at[k]].ptr, M)
               /\ d2.block[at[k]].val = d.block[at[k]].val
    <2>1. at[k] \in Blocks
      BY <1>2, Numbers DEF IsWay, None
    <2>2. d2.block[at[k]].ptr = d.block[at[k]].ptr /\ d2.block[at[k]].val = d.block[at[k]].val
      BY <2>1 DEF SameFiles
    <2> QED BY <2>2 DEF Added, M
  <1>3. Calm(d, d2, x, M)
    BY <1>2 DEF Calm
  <1>4. d2.inode[j] = d.inode[j]
    BY DEF SameFiles
  <1> QED BY <1>1, <1>3, <1>4, ContentsStay DEF x

Freed(c, F) ==
    {x \in CallT : /\ Ends(x) /\ Logs(x, c.d)
                   /\ x.d.inode = c.d.inode /\ x.d.block = c.d.block
                   /\ x.d.ibitmap = c.d.ibitmap /\ c.d.bbitmap \ F \subseteq x.d.bbitmap}

LEMMA FreedOne ==
    ASSUME NEW c, NEW F, NEW x \in Freed(c, F), NEW b \in F, b \in Blocks
    PROVE  txfs_free_block(x, b) \in Freed(c, F)
  <1> DEFINE d1 == [x.d EXCEPT !.bbitmap = @ \ {b}]
             c1 == Put(x, d1)
             d2 == [c1.d EXCEPT !.free_blocks = @ + 1]
             c2 == Put(c1, d2)
  <1>1. /\ x \in CallT /\ x.d \in DiskT /\ x.d.inode = c.d.inode /\ x.d.block = c.d.block
        /\ x.d.ibitmap = c.d.ibitmap /\ c.d.bbitmap \ F \subseteq x.d.bbitmap
        /\ Logs(x, c.d)
    BY DEF Freed, CallT
  <1>2. txfs_free_block(x, b) = c2
    BY DEF txfs_free_block
  <1>3. /\ d1 \in DiskT /\ d1.bbitmap = x.d.bbitmap \ {b}
        /\ d1.inode = x.d.inode /\ d1.block = x.d.block /\ d1.ibitmap = x.d.ibitmap
    BY <1>1 DEF DiskT
  <1> HIDE DEF d1
  <1>4. c1 \in CallT /\ c1.d = d1 /\ Logs(c1, c.d)
    <2>1. SameFiles(c.d, d1)
      BY <1>1, <1>3 DEF SameFiles
    <2> QED BY <1>1, <1>3, <2>1, PutIs, PutLogs
  <1> HIDE DEF c1
  <1>5. /\ d2 \in DiskT /\ d2.bbitmap = d1.bbitmap
        /\ d2.inode = d1.inode /\ d2.block = d1.block /\ d2.ibitmap = d1.ibitmap
    BY <1>3, <1>4 DEF DiskT
  <1> HIDE DEF d2
  <1>6. c2 \in CallT /\ c2.d = d2 /\ Ends(c2) /\ Logs(c2, c.d)
    <2>1. SameFiles(c.d, d2)
      BY <1>1, <1>3, <1>5 DEF SameFiles
    <2> QED BY <1>4, <1>5, <2>1, PutIs, PutLogs
  <1> HIDE DEF c2
  <1>7. c2 \in Freed(c, F)
    BY <1>1, <1>3, <1>5, <1>6 DEF Freed
  <1> QED BY <1>2, <1>7

LEMMA FreedEach ==
    ASSUME NEW c, NEW F, NEW x \in Freed(c, F), NEW blocks, Len(blocks) \in Nat,
           \A k \in 1 .. Len(blocks) : blocks[k] \in Links /\ blocks[k] \in F
    PROVE  FreeEach(x, blocks) \in Freed(c, F)
  <1> DEFINE n == Len(blocks)
             L == Freed(c, F)
             Then(k, y) == IF blocks[k] = None THEN y ELSE txfs_free_block(y, blocks[k])
             S == [k \in 0 .. n |-> L]
             step == [k \in 1 .. n |-> [y \in L |-> Then(k, y)]]
             Is(after) == after = [k \in 0 .. n |->
                IF k = 0 THEN x ELSE IF blocks[k] = None THEN after[k - 1]
                ELSE txfs_free_block(after[k - 1], blocks[k])]
  <1>1. n \in Nat /\ x \in L
    OBVIOUS
  <1>2. ASSUME NEW k \in 1 .. n, NEW y \in L PROVE Then(k, y) \in L
    <2>1. CASE blocks[k] = None
      BY <2>1
    <2>2. CASE blocks[k] # None
      <3>1. blocks[k] \in F /\ blocks[k] \in Blocks
        BY <2>2, Numbers DEF None
      <3> QED BY <2>2, <3>1, FreedOne
    <2> QED BY <2>1, <2>2
  <1>3. \A after : Is(after) <=>
           after = [k \in 0 .. n |-> IF k = 0 THEN x ELSE Then(k, after[k - 1])]
    OBVIOUS
  <1>4. \E after : Is(after)
    <2>1. x \in S[0]
      BY <1>1
    <2>2. /\ \A k \in 0 .. n : S[k] = L
          /\ \A k \in 1 .. n : \A y \in L : step[k][y] = Then(k, y)
      OBVIOUS
    <2>3. \A k \in 0 + 1 .. n : k \in 1 .. n /\ k \in 0 .. n /\ k - 1 \in 0 .. n
      BY <1>1
    <2> HIDE DEF S, step, n, L, Then, Is
    <2>4. StaysIn(step, 0, n, S)
      BY <1>2, <2>2, <2>3 DEF StaysIn
    <2>5. PICK f : IsIterated(f, 0, n, S, x, step)
      BY <1>1, <2>1, <2>4, Iterates
    <2>6. ASSUME NEW k \in 0 .. n
          PROVE  f[k] = IF k = 0 THEN x ELSE Then(k, f[k - 1])
      <3>1. CASE k = 0
        BY <2>5, <3>1 DEF IsIterated
      <3>2. CASE k # 0
        <4>1. k \in 0 + 1 .. n /\ k \in 1 .. n /\ k - 1 \in 0 .. n
          BY <1>1, <3>2
        <4>2. f[k - 1] \in L /\ f[k] = step[k][f[k - 1]]
          BY <2>2, <2>5, <4>1 DEF IsIterated
        <4> QED BY <2>2, <3>2, <4>1, <4>2
      <3> QED BY <3>1, <3>2
    <2>7. f = [k \in 0 .. n |-> f[k]]
      BY <2>5 DEF IsIterated
    <2>8. Is(f)
      BY <1>3, <2>6, <2>7
    <2> QED BY <2>8
  <1> DEFINE G == CHOOSE after : Is(after)
  <1>5. Is(G)
    <2> HIDE DEF Is
    <2> QED BY <1>4
  <1>6. FreeEach(x, blocks) = G[n]
    BY DEF FreeEach
  <1> HIDE DEF G, Is, S, step
  <1>7. \A k \in 0 .. n : G[k] = IF k = 0 THEN x ELSE Then(k, G[k - 1])
    <2> HIDE DEF Then
    <2>1. G = [k \in 0 .. n |-> IF k = 0 THEN x ELSE Then(k, G[k - 1])]
      BY <1>3, <1>5, Zenon
    <2> HIDE DEF n
    <2> QED BY <2>1
  <1> DEFINE T == {k \in 0 .. n : G[k] \in L}
  <1>8. 0 \in T
    <2>1. 0 \in 0 .. n
      BY <1>1
    <2> QED BY <1>1, <1>7, <2>1
  <1>9. ASSUME NEW k \in 0 + 1 .. n, k - 1 \in T PROVE k \in T
    <2>1. k \in 0 .. n /\ k \in 1 .. n /\ k # 0 /\ G[k - 1] \in L
      BY <1>1, <1>9
    <2> HIDE DEF Then, L
    <2>2. G[k] = Then(k, G[k - 1])
      BY <1>7, <2>1
    <2> QED BY <1>2, <2>1, <2>2
  <1>10. 0 .. n \subseteq T
    <2>1. 0 \in Int /\ n \in Int
      BY <1>1
    <2> HIDE DEF T, n, L
    <2>2. \A k \in 0 + 1 .. n : k - 1 \in T => k \in T
      BY <1>9
    <2> QED BY <1>8, <2>1, <2>2, UpTo, Zenon
  <1>11. G[n] \in L
    BY <1>1, <1>10
  <1> QED BY <1>6, <1>11

(* Directories only look at inodes and blocks.                             *)
LEMMA SameDirectories ==
    ASSUME NEW d, NEW d2, d2.inode = d.inode, d2.block = d.block
    PROVE  /\ \A path : Walk(d2, path) = Walk(d, path)
           /\ \A dir, name : Matches(d2, dir, name) = Matches(d, dir, name)
           /\ \A dir, idx : BlockOf(d2, dir, idx) = BlockOf(d, dir, idx)
  <1>1. ASSUME NEW dir, NEW idx PROVE BlockOf(d2, dir, idx) = BlockOf(d, dir, idx)
    BY SMT DEF At, BlockOf
  <1>2. ASSUME NEW dir, NEW name PROVE Matches(d2, dir, name) = Matches(d, dir, name)
    BY <1>1, SMTT(30) DEF Matches, Entry
  <1>3. ASSUME NEW path PROVE Walk(d2, path) = Walk(d, path)
    BY SMTT(30) DEF At, Walk, txfs_dir_lookup, Matches, Entry, BlockOf
  <1> QED BY <1>1, <1>2, <1>3

(* All the blocks of an inode that has a name are freed.                   *)
LEMMA Starts == disk \in DiskT => \A F : Start \in Freed(Start, F)
  <1>1. \A s : s = <<>> => s \in Seq(DiskT)
    OBVIOUS
  <1>2. ASSUME disk \in DiskT PROVE Start \in CallT
    BY <1>1, <1>2 DEF Start, CallT
  <1>3. Ends(Start)
    BY DEF Start, Ends
  <1>4. \A d : Logs(Start, d)
    <2>1. Start.log = <<>>
      BY DEF Start
    <2>2. Len(Start.log) = 0
      BY <2>1
    <2> QED BY <2>2 DEF Logs
  <1> QED BY <1>2, <1>3, <1>4 DEF Freed

Lists(i, ptr, ind, direct, others) ==
    /\ ptr = disk.inode[i].ptr /\ ind = ptr[DirectBlocks]
    /\ Len(direct) = DirectBlocks /\ Len(others) = PtrsPerBlock + 1
    /\ \A s \in 1 .. DirectBlocks : direct[s] = ptr[s - 1]
    /\ \A k \in 1 .. PtrsPerBlock + 1 : others[k] =
          IF k = PtrsPerBlock + 1 THEN ind ELSE disk.block[ind].ptr[k - 1]

LEMMA BlocksFreed ==
    ASSUME disk \in DiskT, NEW H, NEW own, NEW named, Sound(disk, H, own, named),
           NEW i \in DOMAIN named, NEW ptr, NEW ind, NEW direct, NEW others,
           Lists(i, ptr, ind, direct, others),
           NEW c1, c1 = FreeEach(Start, direct),
           NEW c2, c2 = IF ind = None THEN c1 ELSE FreeEach(c1, others)
    PROVE  \E F : c2 \in Freed(Start, F) /\ LiveIn(F, own, i)
  <1> DEFINE table == disk.block[ind].ptr
             D == {ptr[s] : s \in 0 .. DirectBlocks}
             I == {table[k] : k \in Ptrs}
             F == IF ind = None THEN D ELSE D \union I
  <1>13. /\ Len(direct) = DirectBlocks /\ Len(others) = PtrsPerBlock + 1
         /\ \A s \in 1 .. DirectBlocks : direct[s] = ptr[s - 1]
         /\ ind = ptr[DirectBlocks]
    BY DEF Lists
  <1>1. i \in Inodes /\ ptr \in [Fields -> Links] /\ Held(<<i, ptr>>, own)
    BY DEF Sound, Marked, DiskT, InodeT, Lists
  <1>2. 0 .. DirectBlocks \subseteq Fields /\ DirectBlocks \in Nat /\ PtrsPerBlock \in Nat
    BY Sizes DEF Fields
  <1>3. ind \in Links /\ (ind # None => ind \in Blocks /\ ind \in DOMAIN own)
    <2>1. DirectBlocks \in Fields
      BY <1>2
    <2>2. ind \in Links /\ (ind # None => ind \in DOMAIN own)
      BY <1>1, <2>1 DEF Held, Lists
    <2> QED BY <2>2, Numbers DEF None
  <1>4. \A k \in Ptrs : ind # None => table[k] \in Links
    BY <1>3 DEF DiskT, BlockT
  <1>0. \A k \in Ptrs : ind # None /\ table[k] # None => own[table[k]] = <<"block", ind, k>>
    <2>1. Tree(disk, own, named)
      BY DEF Sound
    <2> QED BY <1>3, <2>1, Zenon DEF Tree
  <1>12. \A k \in 1 .. PtrsPerBlock + 1 : others[k] =
              IF k = PtrsPerBlock + 1 THEN ind ELSE table[k - 1]
    BY DEF Lists
  <1> HIDE DEF table
  <1>5. /\ \A s \in 0 .. DirectBlocks : ptr[s] \in D /\ ptr[s] \in Links
        /\ \A k \in Ptrs : table[k] \in I
        /\ \A x \in D : \E s \in 0 .. DirectBlocks : x = ptr[s]
        /\ \A x \in I : \E k \in Ptrs : x = table[k]
    BY <1>1, <1>2
  <1> HIDE DEF D, I
  <1>6. /\ \A s \in 0 .. DirectBlocks : ptr[s] \in F
        /\ \A k \in Ptrs : ind # None => table[k] \in F
        /\ \A x \in F : x \in D \/ (ind # None /\ x \in I)
    BY <1>5
  <1> HIDE DEF F
  <1>7. \A x \in F : x \in Links
    BY <1>4, <1>5, <1>6
  <1>8. ASSUME NEW x \in F, x \in DOMAIN own
        PROVE  \/ own[x][1] = "inode" /\ own[x][2] = i
               \/ own[x][1] = "block" /\ own[x][2] \in F
    <2>0. x # None
      BY <1>8, Numbers DEF Sound, Marked, DiskT, None
    <2>1. CASE x \in D
      <3>1. PICK s \in 0 .. DirectBlocks : x = ptr[s]
        BY <1>5, <2>1
      <3>2. own[x] = <<"inode", i, s>>
        BY <1>1, <1>2, <2>0, <3>1 DEF Held
      <3> QED BY <3>2
    <2>2. CASE ind # None /\ x \in I
      <3>1. PICK k \in Ptrs : x = table[k]
        BY <1>5, <2>2
      <3>2. ind \in F
        BY <1>2, <1>6, <1>13
      <3>3. own[x] = <<"block", ind, k>>
        BY <1>0, <2>0, <2>2, <3>1
      <3> QED BY <3>2, <3>3
    <2> QED BY <1>6, <2>1, <2>2
  <1>9. Start \in Freed(Start, F)
    BY Starts
  <1>10. c1 \in Freed(Start, F)
    <2>1. \A s \in 1 .. DirectBlocks : s - 1 \in 0 .. DirectBlocks
      BY <1>2
    <2>2. \A s \in 1 .. DirectBlocks : direct[s] \in Links /\ direct[s] \in F
      BY <1>6, <1>7, <1>13, <2>1
    <2> QED BY <1>2, <1>9, <1>13, <2>2, FreedEach
  <1>11. c2 \in Freed(Start, F)
    <2>1. CASE ind = None
      BY <1>10, <2>1
    <2>2. CASE ind # None
      <3>1. \A k \in 1 .. PtrsPerBlock + 1 : k # PtrsPerBlock + 1 => k - 1 \in Ptrs
        BY <1>2 DEF Ptrs
      <3>2. ind \in F
        BY <1>2, <1>6, <1>13
      <3>3. \A k \in 1 .. PtrsPerBlock + 1 : others[k] \in Links /\ others[k] \in F
        BY <1>6, <1>7, <1>12, <2>2, <3>1, <3>2
      <3>4. c2 = FreeEach(c1, others) /\ Len(others) \in Nat
        BY <1>2, <1>13, <2>2
      <3> QED BY <1>10, <1>13, <3>3, <3>4, FreedEach
    <2> QED BY <2>1, <2>2
  <1> QED BY <1>8, <1>11 DEF LiveIn

LEMMA InodeFreed ==
    ASSUME NEW c \in CallT, NEW d0, Logs(c, d0), SameFiles(d0, c.d),
           NEW i, NEW r, r = txfs_free_inode(c, i)
    PROVE  /\ r \in CallT /\ Logs(r, d0) /\ r.d.inode = c.d.inode /\ r.d.block = c.d.block
           /\ r.d.ibitmap = c.d.ibitmap \ {i} /\ r.d.bbitmap = c.d.bbitmap
  <1> DEFINE d1 == [c.d EXCEPT !.ibitmap = @ \ {i}]
             c1 == Put(c, d1)
             d2 == [c1.d EXCEPT !.free_inodes = @ + 1]
             c2 == Put(c1, d2)
  <1>1. c.d \in DiskT
    BY DEF CallT
  <1>2. r = c2
    BY DEF txfs_free_inode
  <1>3. /\ d1 \in DiskT /\ d1.ibitmap = c.d.ibitmap \ {i}
        /\ d1.inode = c.d.inode /\ d1.block = c.d.block /\ d1.bbitmap = c.d.bbitmap
    BY <1>1 DEF DiskT
  <1> HIDE DEF d1
  <1>4. c1 \in CallT /\ c1.d = d1 /\ Logs(c1, d0)
    <2>1. SameFiles(d0, d1)
      BY <1>3 DEF SameFiles
    <2> QED BY <1>3, <2>1, PutIs, PutLogs
  <1> HIDE DEF c1
  <1>5. /\ d2 \in DiskT /\ d2.bbitmap = d1.bbitmap
        /\ d2.inode = d1.inode /\ d2.block = d1.block /\ d2.ibitmap = d1.ibitmap
    BY <1>3, <1>4 DEF DiskT
  <1> HIDE DEF d2
  <1>6. c2 \in CallT /\ c2.d = d2 /\ Logs(c2, d0)
    <2>1. SameFiles(d0, d2)
      BY <1>3, <1>5 DEF SameFiles
    <2> QED BY <1>4, <1>5, <2>1, PutIs, PutLogs
  <1> QED BY <1>2, <1>3, <1>5, <1>6

(* The last name of a path that leads somewhere is found in its parent.    *)
LEMMA LastStep ==
    ASSUME NEW d \in DiskT, NEW H, NEW own, NEW named, Sound(d, H, own, named),
           NEW path \in Seq(STRING) \ {<<>>}, NEW i, i = txfs_lookup(d, path), i # NotFound,
           NEW p, p = Parent(d, path), NEW name, name = Last(path)
    PROVE  /\ p \in DOMAIN named /\ d.inode[p].type = "dir"
           /\ i = txfs_dir_lookup(d, d.inode[p], name)
           /\ i \in DOMAIN named
  <1> DEFINE n == Len(path)  W == Walk(d, path)
  <1>1. n \in Nat \ {0} /\ n - 1 \in 0 .. n /\ n \in 1 .. n /\ n \in 0 .. n
    OBVIOUS
  <1>2. name = path[n]
    BY DEF Last
  <1>3. i = W[n] /\ p = IF W[n - 1] = NotFound THEN 0 ELSE W[n - 1]
    BY DEF txfs_lookup, Parent
  <1>4. /\ \A k \in 0 .. n : W[k] \in DOMAIN named \union {NotFound}
        /\ \A k \in 1 .. n :
              W[k] = IF W[k - 1] = NotFound \/ d.inode[W[k - 1]].type # "dir" THEN NotFound
                     ELSE txfs_dir_lookup(d, d.inode[W[k - 1]], path[k])
    <2>1. Len(path) \in Nat
      BY <1>1
    <2> QED BY <2>1, Walked, ZenonT(30)
  <1> HIDE DEF n, W
  <1>5. /\ W[n - 1] # NotFound /\ d.inode[W[n - 1]].type = "dir"
        /\ i = txfs_dir_lookup(d, d.inode[W[n - 1]], path[n])
    BY <1>1, <1>3, <1>4
  <1> QED BY <1>1, <1>2, <1>3, <1>4, <1>5

(* txfs_remove: the images on the way may be out of order, the last is not.*)
LEMMA Removed ==
    ASSUME disk \in DiskT, NEW H, NEW own, NEW named, Sound(disk, H, own, named),
           NEW path \in Seq(STRING) \ {<<>>},
           NEW i, i = txfs_lookup(disk, path), i # NotFound, NotOf(H, i),
           NEW c, NEW F, c \in Freed(Start, F), LiveIn(F, own, i),
           NEW c3, c3 = txfs_free_inode(c, i),
           NEW r, r = txfs_dir_remove_entry(c3, Parent(c3.d, path), Last(path))
    PROVE  /\ r \in CallT /\ Ends(r) /\ r.log # <<>> /\ Logs(r, disk)
           /\ r.d.inode = disk.inode /\ r.d.ibitmap = disk.ibitmap \ {i}
           /\ \E o, n : Sound(r.d, H, o, n)
  <1> DEFINE p == Parent(disk, path)
             name == Last(path)
             dir == disk.inode[p]
             k == Least(Matches(disk, dir, name))
             e == k % DirentsPerBlock
             b == BlockOf(disk, dir, k \div DirentsPerBlock)
             content == [disk.block[b] EXCEPT !.ent[e].inode = None]
  <1>1. /\ p \in DOMAIN named /\ dir.type = "dir" /\ i \in DOMAIN named
        /\ i = txfs_dir_lookup(disk, dir, name)
    <2>1. p = Parent(disk, path) /\ name = Last(path)
      OBVIOUS
    <2> HIDE DEF p, name
    <2> QED BY <2>1, LastStep
  <1>2. /\ c \in CallT /\ c.d.inode = disk.inode /\ c.d.block = disk.block
        /\ c.d.ibitmap = disk.ibitmap /\ disk.bbitmap \ F \subseteq c.d.bbitmap
        /\ Logs(c, disk)
    BY DEF Freed, Start
  <1>3. /\ c3 \in CallT /\ c3.d.inode = disk.inode /\ c3.d.block = disk.block
        /\ c3.d.ibitmap = disk.ibitmap \ {i} /\ disk.bbitmap \ F \subseteq c3.d.bbitmap
        /\ Logs(c3, disk)
    <2> DEFINE d0 == disk
    <2>1. SameFiles(d0, c.d) /\ Logs(c, d0)
      BY <1>2 DEF SameFiles
    <2> HIDE DEF d0
    <2>2. Logs(c3, d0)
      BY <1>2, <2>1, InodeFreed
    <2>3. /\ c3 \in CallT /\ c3.d.inode = c.d.inode /\ c3.d.block = c.d.block
          /\ c3.d.ibitmap = c.d.ibitmap \ {i} /\ c3.d.bbitmap = c.d.bbitmap
      BY <1>2, <2>1, InodeFreed
    <2> QED BY <1>2, <2>2, <2>3 DEF d0
  <1>4. /\ Parent(c3.d, path) = p /\ Matches(c3.d, dir, name) = Matches(disk, dir, name)
        /\ BlockOf(c3.d, dir, k \div DirentsPerBlock) = b
    <2>1. /\ \A q : Walk(c3.d, q) = Walk(disk, q)
          /\ \A x, y : Matches(c3.d, x, y) = Matches(disk, x, y)
          /\ \A x, y : BlockOf(c3.d, x, y) = BlockOf(disk, x, y)
      BY <1>3, SameDirectories
    <2> QED BY <2>1 DEF Parent
  <1>5. Matches(disk, dir, name) # {}
    BY <1>1 DEF txfs_dir_lookup
  <1>6. r = SetBlock(c3, b, content)
    BY <1>3, <1>4, <1>5, Zenon DEF txfs_dir_remove_entry
  <1>7. p \in Inodes /\ dir \in InodeT /\ Held(<<p, dir.ptr>>, own)
    BY <1>1 DEF Sound, Marked, DiskT
  <1>8. k \in Nat /\ Entry(disk, dir, k).inode = i /\ i # None
    BY <1>1, <1>5, <1>7, Looked, ZenonT(30)
  <1>9. /\ b \in Blocks /\ e \in Ents /\ named[i] = <<b, e>>
    <2>1. b = BlockOf(disk, dir, k \div DirentsPerBlock)
      OBVIOUS
    <2> DEFINE x == Entry(disk, dir, k)
    <2>2. x = Entry(disk, dir, k) /\ x.inode = i
      BY <1>8
    <2>3. k \in Nat /\ x = Entry(disk, dir, k)
      BY <1>8
    <2> HIDE DEF b, k, x, dir, p
    <2>4. /\ k % DirentsPerBlock \in Ents
          /\ x.inode # None =>
                b \in Blocks /\ named[x.inode] = <<b, k % DirentsPerBlock>>
      BY <1>7, <2>1, <2>3, EntryNamed
    <2> QED BY <1>8, <2>2, <2>4
  <1> HIDE DEF p, name, dir, k, e, b
  <1>10. content \in BlockT /\ IsNamed(content, e, None, disk.block[b])
    <2>1. disk.block[b] \in BlockT
      BY <1>9 DEF DiskT
    <2>2. disk.block[b].ent[e] \in EntryT
      BY <1>9, <2>1 DEF BlockT
    <2> DEFINE x == [disk.block[b].ent[e] EXCEPT !.inode = None]
    <2>3. x \in EntryT /\ x.inode = None
      <3> DEFINE N == STRING \union {""}
      <3>0. EntryT = [inode : Inodes, name : N] /\ None \in Inodes
        BY Numbers DEF EntryT, None
      <3> HIDE DEF N
      <3>1. \A y \in EntryT : /\ [y EXCEPT !.inode = None] \in EntryT
                              /\ [y EXCEPT !.inode = None].inode = None
        BY <3>0
      <3> QED BY <2>2, <3>1
    <2>4. content = [disk.block[b] EXCEPT !.ent[e] = x]
      OBVIOUS
    <2> HIDE DEF x, content
    <2>5. /\ content \in BlockT /\ content.ptr = disk.block[b].ptr /\ content.ent[e] = x
          /\ content.val = disk.block[b].val
          /\ \A j \in Ents : j # e => content.ent[j] = disk.block[b].ent[j]
      BY <1>9, <2>1, <2>3, <2>4 DEF BlockT
    <2> QED BY <2>3, <2>5 DEF IsNamed
  <1> HIDE DEF content
  <1> DEFINE d == [c3.d EXCEPT !.block[b] = content]
  <1>11. /\ d \in DiskT /\ d.block = [disk.block EXCEPT ![b] = content]
         /\ d.inode = disk.inode /\ d.ibitmap = c3.d.ibitmap /\ d.bbitmap = c3.d.bbitmap
    <2>1. c3.d \in DiskT
      BY <1>3 DEF CallT
    <2> QED BY <1>3, <1>9, <1>10, <2>1 DEF DiskT
  <1>12. r = Put(c3, d)
    BY <1>6 DEF SetBlock
  <1> HIDE DEF d
  <1>13. r \in CallT /\ r.d = d /\ Ends(r) /\ r.log # <<>>
    BY <1>3, <1>11, <1>12, PutIs
  <1>15. Logs(r, disk)
    <2>1. SameFiles(disk, d)
      <3>1. \A x \in Blocks : d.block[x] = IF x = b THEN content ELSE disk.block[x]
        BY <1>11 DEF DiskT
      <3> QED BY <1>10, <1>11, <3>1 DEF SameFiles, IsNamed
    <2> QED BY <1>3, <1>11, <1>12, <2>1, PutLogs
  <1>14. \E o, n : Sound(d, H, o, n)
    <2>1. i # 0
      BY <1>8 DEF None
    <2>2. disk.ibitmap \ {i} \subseteq d.ibitmap /\ disk.bbitmap \ F \subseteq d.bbitmap
      BY <1>3, <1>11
    <2> DEFINE d0 == disk
    <2>3. /\ d0 \in DiskT /\ Sound(d0, H, own, named)
          /\ i \in DOMAIN named /\ named[i] = <<b, e>>
          /\ b \in Blocks /\ e \in Ents /\ IsNamed(content, e, None, d0.block[b])
          /\ Wiped(d0, d, i, F, b, content)
      BY <1>1, <1>9, <1>10, <1>11, <2>2 DEF Wiped
    <2> HIDE DEF d0
    <2> QED BY <2>1, <2>3, Cleared
  <1> QED BY <1>3, <1>11, <1>13, <1>14, <1>15
-----------------------------------------------------------------------------
(* txfs_write: what holds after any number of its blocks, for a handle to  *)
(* inode i.                                                                *)
Written(type, H, named, i) ==
    {w \in [c : CallT, inode : InodeT, position : Nat, full : BOOLEAN] :
        /\ Saves(i, w.c) /\ w.inode.type = type /\ Kept(w.c.d, H, i, w.inode.ptr, named)
        /\ w.c.d.inode = disk.inode /\ w.c.d.ibitmap = disk.ibitmap}

LEMMA WroteOne ==
    ASSUME NEW type, NEW H, NEW named, NEW i, NEW w \in Written(type, H, named, i),
           disk.inode[i].type = "file", type = "file", NEW v \in Values
    PROVE  WriteBlock(w, v) \in Written(type, H, named, i)
  <1> DEFINE W == Written(type, H, named, i)
             at == BlockAt(w.inode, w.position)
             g == txfs_get_block(w.c, w.inode, at)
             content == [Zero EXCEPT !.val = v]
             d == [g.c.d EXCEPT !.block[g.b] = content]
             c == SetBlock(g.c, g.b, content)
             R == [c : CallT, inode : InodeT, position : Nat, full : BOOLEAN]
  <1>1. /\ w \in R /\ Saves(i, w.c) /\ w.inode.type = type
        /\ Kept(w.c.d, H, i, w.inode.ptr, named)
        /\ w.c.d.inode = disk.inode /\ w.c.d.ibitmap = disk.ibitmap
    BY DEF Written
  <1>2. /\ WriteBlock(w, v) =
              IF w.full THEN w
              ELSE IF g.b = None THEN [w EXCEPT !.c = g.c, !.inode = g.inode, !.full = TRUE]
              ELSE [w EXCEPT !.c = c, !.inode = g.inode, !.position = @ + 1]
        /\ g = txfs_get_block(w.c, w.inode, at)
    <2>1. w.inode.type # "dir"
      BY <1>1
    <2> QED BY <2>1 DEF WriteBlock, Overwritten
  <1> HIDE DEF g
  <1>3. /\ w.c \in CallT /\ w.inode \in InodeT /\ w.position \in Nat /\ w.full \in BOOLEAN
        /\ at \in Nat
    <2>1. w.inode.type # "dir" /\ w.position \in Nat
      BY <1>1
    <2>2. w.position \div 1 \in Nat
      BY <2>1
    <2> QED BY <1>1, <2>1, <2>2 DEF BlockAt, PerBlock
  <1> HIDE DEF at
  <1> DEFINE route == Route(at)
  <1>4. /\ Saves(i, g.c) /\ g.inode \in InodeT /\ g.b \in Links
        /\ g.inode.type = type /\ Kept(g.c.d, H, i, g.inode.ptr, named)
        /\ g.c.d.inode = disk.inode /\ g.c.d.ibitmap = disk.ibitmap
        /\ g.b # None => Leads(route) /\ Reached(g.c.d, g.inode, route, Len(route), g.b)
    <2> DEFINE wc == w.c  wi == w.inode  wp == at
    <2>1. /\ Saves(i, wc) /\ wi \in InodeT /\ wi.type = type /\ wp \in Nat
          /\ Kept(wc.d, H, i, wi.ptr, named) /\ g = txfs_get_block(wc, wi, wp)
          /\ wc.d.inode = disk.inode /\ wc.d.ibitmap = disk.ibitmap
      BY <1>1, <1>2, <1>3
    <2> HIDE DEF wc, wi, wp
    <2>3. /\ Saves(i, wc) /\ wi \in InodeT /\ wp \in Nat
          /\ Kept(wc.d, H, i, wi.ptr, named)
      BY <2>1
    <2>2. LET h == txfs_get_block(wc, wi, wp)
          IN  /\ Saves(i, h.c) /\ h.inode \in InodeT /\ h.b \in Links
              /\ h.c.d.inode = wc.d.inode /\ h.c.d.ibitmap = wc.d.ibitmap
              /\ h.inode.type = wi.type /\ h.inode.size = wi.size
              /\ Added(Fields, wi.ptr, h.inode.ptr, Links)
              /\ Kept(h.c.d, H, i, h.inode.ptr, named)
              /\ h.b # None =>
                    /\ Leads(Route(wp))
                    /\ Reached(h.c.d, h.inode, Route(wp), Len(Route(wp)), h.b)
      BY <2>3, Found
    <2> QED BY <2>1, <2>2 DEF wp
  <1> HIDE DEF route
  <1>5. g.c \in CallT /\ g.c.d \in DiskT
    BY <1>4 DEF Saves, CallT
  <1>6. CASE w.full
    BY <1>2, <1>6
  <1>7. CASE ~w.full /\ g.b = None
    <2> DEFINE r == [w EXCEPT !.c = g.c, !.inode = g.inode, !.full = TRUE]
    <2>1. r \in R /\ r.c = g.c /\ r.inode = g.inode
      BY <1>1, <1>4, <1>5
    <2> HIDE DEF r, R
    <2>2. r \in W
      BY <1>4, <2>1 DEF Written, R
    <2> QED BY <1>2, <1>7, <2>2 DEF r
  <1>8. CASE ~w.full /\ g.b # None
    <2>1. g.b \in Blocks
      BY <1>4, <1>8, Numbers DEF None
    <2>2. content \in BlockT /\ Empty(content)
      <3>1. Zero \in BlockT /\ \A k \in Ptrs : Zero.ptr[k] = None
        BY EmptyTypes
      <3>0. NoEntry.inode = None
        BY DEF NoEntry
      <3>2. \A k \in Ents : Zero.ent[k].inode = None
        BY <3>0, EmptyTypes
      <3>3. content \in BlockT /\ content.ptr = Zero.ptr /\ content.ent = Zero.ent
        <4> DEFINE P == [Ptrs -> Links]  E == [Ents -> EntryT]
        <4>1. BlockT = [ptr : P, ent : E, val : Values \union {0}]
          BY DEF BlockT
        <4> HIDE DEF P, E
        <4> QED BY <3>1, <4>1
      <3> HIDE DEF content
      <3> QED BY <3>1, <3>2, <3>3 DEF Empty
    <2> HIDE DEF content
    <2>3. /\ d \in DiskT /\ d.block = [g.c.d.block EXCEPT ![g.b] = content]
          /\ d.inode = g.c.d.inode /\ d.ibitmap = g.c.d.ibitmap /\ d.bbitmap = g.c.d.bbitmap
      BY <1>5, <2>1, <2>2 DEF DiskT
    <2>4. c = Put(g.c, d)
      BY DEF SetBlock
    <2> HIDE DEF d, c
    <2> DEFINE V == H \union {<<i, g.inode.ptr>>}
    <2>5. PICK own : Sound(g.c.d, V, own, named)
      BY <1>4 DEF Kept
    <2>6. V = H \union {<<i, g.inode.ptr>>}
      OBVIOUS
    <2> HIDE DEF V
    <2>7. Sound(d, V, own, named)
      <3> DEFINE d0 == g.c.d  here == g.b
      <3>1. /\ d0 \in DiskT /\ Sound(d0, V, own, named) /\ here \in Blocks /\ Empty(content)
            /\ d.block = [d0.block EXCEPT ![here] = content]
            /\ d.inode = d0.inode /\ d.ibitmap = d0.ibitmap /\ d.bbitmap = d0.bbitmap
        BY <1>5, <2>1, <2>2, <2>3, <2>5
      <3> HIDE DEF d0, here
      <3> QED BY <3>1, DataWrite
    <2>14. Frame(g.c.d, d, i)
      <3> DEFINE d0 == g.c.d  here == g.b  y == g.inode
      <3>1. /\ d0 \in DiskT /\ Sound(d0, V, own, named) /\ d \in DiskT
            /\ FilledBy(d0, d, i, here, content)
        BY <1>4, <1>5, <2>3, <2>5 DEF FilledBy
      <3>2. Reaches(d0, own, i, y, route, here)
        <4>1. Held(<<i, g.inode.ptr>>, own)
          BY <2>5, <2>6 DEF Sound
        <4> QED BY <1>4, <1>8, <4>1 DEF Reaches
      <3> HIDE DEF d0, here, y
      <3>3. Untouched(d0, d, i)
        BY <3>1, <3>2, DataStep
      <3> QED BY <3>3 DEF Frame, d0
    <2>8. Saves(i, c) /\ c.d = d
      BY <1>4, <2>3, <2>4, <2>7, <2>14, SaveOne
    <2>9. Kept(c.d, H, i, g.inode.ptr, named)
      BY <2>6, <2>7, <2>8 DEF Kept
    <2>10. c \in CallT
      BY <2>8 DEF Saves
    <2> DEFINE q == w.position + 1
               r == [w EXCEPT !.c = c, !.inode = g.inode, !.position = q]
    <2>11. q \in Nat
      BY <1>3
    <2>0. r = [w EXCEPT !.c = c, !.inode = g.inode, !.position = @ + 1]
      OBVIOUS
    <2> HIDE DEF q
    <2>12. r \in R /\ r.c = c /\ r.inode = g.inode
      BY <1>1, <1>4, <2>10, <2>11
    <2> HIDE DEF r, R
    <2>13. r \in W
      BY <1>4, <2>3, <2>8, <2>9, <2>12 DEF Written, R
    <2> QED BY <1>2, <1>8, <2>0, <2>13
  <1> QED BY <1>6, <1>7, <1>8

LEMMA Wrote ==
    ASSUME NEW type, type = "file", NEW H, NEW named, NEW i,
           NEW x \in Written(type, H, named, i), disk.inode[i].type = "file",
           NEW v \in Values, NEW n \in Nat, NEW G,
           G = CHOOSE after : after = [k \in 0 .. n |->
                  IF k = 0 THEN x ELSE WriteBlock(after[k - 1], v)]
    PROVE  G[n] \in Written(type, H, named, i)
  <1> DEFINE L == Written(type, H, named, i)
             S == [k \in 0 .. n |-> L]
             step == [k \in 1 .. n |-> [y \in L |-> WriteBlock(y, v)]]
             Is(after) == after = [k \in 0 .. n |->
                IF k = 0 THEN x ELSE WriteBlock(after[k - 1], v)]
  <1>1. x \in L /\ \A y \in L : WriteBlock(y, v) \in L
    BY WroteOne
  <1>2. G = CHOOSE after : Is(after)
    OBVIOUS
  <1>3. \E after : Is(after)
    <2>1. x \in S[0]
      BY <1>1
    <2>2. /\ \A k \in 0 .. n : S[k] = L
          /\ \A k \in 1 .. n : \A y \in L : step[k][y] = WriteBlock(y, v)
      OBVIOUS
    <2>3. \A k \in 0 + 1 .. n : k \in 1 .. n /\ k \in 0 .. n /\ k - 1 \in 0 .. n
      OBVIOUS
    <2> HIDE DEF S, step, L, Is
    <2>4. StaysIn(step, 0, n, S)
      BY <1>1, <2>2, <2>3 DEF StaysIn
    <2>5. PICK f : IsIterated(f, 0, n, S, x, step)
      BY <2>1, <2>4, Iterates
    <2>6. ASSUME NEW k \in 0 .. n
          PROVE  f[k] = IF k = 0 THEN x ELSE WriteBlock(f[k - 1], v)
      <3>1. CASE k = 0
        BY <2>5, <3>1 DEF IsIterated
      <3>2. CASE k # 0
        <4>1. k \in 0 + 1 .. n /\ k \in 1 .. n /\ k - 1 \in 0 .. n
          BY <3>2
        <4>2. f[k - 1] \in L /\ f[k] = step[k][f[k - 1]]
          BY <2>2, <2>5, <4>1 DEF IsIterated
        <4> QED BY <2>2, <3>2, <4>1, <4>2
      <3> QED BY <3>1, <3>2
    <2>7. f = [k \in 0 .. n |-> f[k]]
      BY <2>5 DEF IsIterated
    <2>8. Is(f)
      BY <2>6, <2>7 DEF Is
    <2> QED BY <2>8
  <1>4. Is(G)
    <2> HIDE DEF Is
    <2> QED BY <1>2, <1>3
  <1> HIDE DEF S, step
  <1>5. \A k \in 0 .. n : G[k] = IF k = 0 THEN x ELSE WriteBlock(G[k - 1], v)
    BY <1>4
  <1> DEFINE T == {k \in 0 .. n : G[k] \in L}
  <1>6. 0 \in T
    BY <1>1, <1>5
  <1>7. ASSUME NEW k \in 0 + 1 .. n, k - 1 \in T PROVE k \in T
    <2>1. k \in 0 .. n /\ k # 0 /\ G[k - 1] \in L
      BY <1>7
    <2> HIDE DEF L
    <2> QED BY <1>1, <1>5, <2>1
  <1>8. 0 .. n \subseteq T
    <2>1. 0 \in Int /\ n \in Int
      OBVIOUS
    <2> HIDE DEF T, L
    <2>2. \A k \in 0 + 1 .. n : k - 1 \in T => k \in T
      BY <1>7
    <2> QED BY <1>6, <2>1, <2>2, UpTo, Zenon
  <1> QED BY <1>8
-----------------------------------------------------------------------------
(* The inductive invariant.  The last image of the current call is in      *)
(* order together with the inodes that the handles hold, which are files   *)
(* there; outside a remove the disk is, and every image that is still to   *)
(* come; and each image keeps the files that the call is not about.        *)
FileT == [used : BOOLEAN, inode_num : Inodes, inode : InodeT, position : Nat]
OfFile(f) == f.used /\ f.inode.type = "file"
Handles(files) ==
    {<<files[fd].inode_num, files[fd].inode.ptr>> : fd \in {x \in Fds : OfFile(files[x])}}
Files(files) == files \in [Fds -> FileT]
Live(H, d) == \A v \in H : v[1] \in d.ibitmap /\ d.inode[v[1]].type = "file"
Final == IF pending = <<>> THEN disk ELSE pending[Len(pending)]
Typed == disk \in DiskT /\ pending \in Seq(DiskT) /\ Files(open_files)
Saved == Quiet => Safe(disk) /\ \A k \in 1 .. Len(pending) : Safe(pending[k])
Settled ==
    /\ \E own, named : Sound(Final, Handles(open_files), own, named)
    /\ Live(Handles(open_files), Final)
Chained ==
    \A k \in 1 .. Len(pending) :
        IF op.name = "remove" THEN SameFiles(disk, pending[k])
        ELSE Frame(Before(pending, k), pending[k], op.inode)
IInv == Typed /\ Saved /\ Settled /\ Chained

LEMMA LiveStays ==
    ASSUME NEW H, NEW d, Live(H, d), NEW d2, d.ibitmap \subseteq d2.ibitmap,
           \A j \in d.ibitmap : d2.inode[j].type = d.inode[j].type,
           NEW i \in d2.ibitmap, d2.inode[i].type = "file",
           NEW ptr, NEW H2, H2 \subseteq H \union {<<i, ptr>>}
    PROVE  Live(H2, d2)
  <1> SUFFICES ASSUME NEW v \in H2 PROVE v[1] \in d2.ibitmap /\ d2.inode[v[1]].type = "file"
    BY DEF Live
  <1>1. CASE v \in H
    BY <1>1 DEF Live
  <1>2. CASE v = <<i, ptr>>
    <2>1. v[1] = i
      BY <1>2
    <2> QED BY <2>1
  <1> QED BY <1>1, <1>2

LEMMA OpenedIs ==
    ASSUME Files(open_files), NEW d \in DiskT, NEW i \in Inodes,
           NEW append \in BOOLEAN, NEW files, files = Opened(d, i, append)
    PROVE  /\ Files(files)
           /\ Handles(files) \subseteq Handles(open_files) \union {<<i, d.inode[i].ptr>>}
           /\ d.inode[i].type # "file" => Handles(files) \subseteq Handles(open_files)
  <1> DEFINE free == {fd \in Fds : ~open_files[fd].used}
             x == Least(free)
             f == [used |-> TRUE, inode_num |-> i, inode |-> d.inode[i],
                   position |-> IF append THEN d.inode[i].size ELSE 0]
  <1>1. files = IF free = {} THEN open_files ELSE [open_files EXCEPT ![x] = f]
    BY DEF Opened
  <1>2. CASE free = {}
    BY <1>1, <1>2
  <1>3. CASE free # {}
    <2>1. x \in Fds
      <3>1. free \in SUBSET Nat
        BY Numbers
      <3> HIDE DEF free
      <3>2. x \in free
        BY <1>3, <3>1, LeastExists
      <3> QED BY <3>2 DEF free
    <2> HIDE DEF x
    <2>2. d.inode[i] \in InodeT
      BY DEF DiskT
    <2>3. f \in FileT /\ f.used /\ f.inode_num = i /\ f.inode = d.inode[i]
      <3>1. (IF append THEN d.inode[i].size ELSE 0) \in Nat
        BY <2>2 DEF InodeT
      <3> QED BY <2>2, <3>1 DEF FileT
    <2> HIDE DEF f
    <2>4. \A fd \in Fds : files[fd] = IF fd = x THEN f ELSE open_files[fd]
      BY <1>1, <1>3, <2>1 DEF Files
    <2>5. files \in [Fds -> FileT]
      BY <1>1, <1>3, <2>1, <2>3 DEF Files
    <2>6. Files(files)
      BY <2>5 DEF Files
    <2>7. ASSUME NEW v \in Handles(files)
          PROVE  \/ v \in Handles(open_files)
                 \/ v = <<i, d.inode[i].ptr>> /\ d.inode[i].type = "file"
      <3>1. PICK fd \in Fds :
              OfFile(files[fd]) /\ v = <<files[fd].inode_num, files[fd].inode.ptr>>
        BY DEF Handles
      <3>2. CASE fd = x
        BY <2>3, <2>4, <3>1, <3>2 DEF OfFile
      <3>3. CASE fd # x
        BY <2>4, <3>1, <3>3 DEF Handles
      <3> QED BY <3>2, <3>3
    <2> QED BY <2>6, <2>7
  <1> QED BY <1>2, <1>3

(* One handle changes, or a call begins.                                   *)
LEMMA OneFile ==
    ASSUME NEW files, Files(files), NEW fd \in Fds, NEW f \in FileT,
           NEW files2, files2 = [files EXCEPT ![fd] = f],
           NEW H, Handles(files) \subseteq H, OfFile(f) => <<f.inode_num, f.inode.ptr>> \in H
    PROVE  Files(files2) /\ Handles(files2) \subseteq H
  <1>1. \A x \in Fds : files2[x] = IF x = fd THEN f ELSE files[x]
    BY DEF Files
  <1>2. files2 \in [Fds -> FileT]
    BY DEF Files
  <1>3. Files(files2)
    BY <1>2 DEF Files
  <1>4. ASSUME NEW v \in Handles(files2) PROVE v \in H
    <2>1. PICK x \in Fds :
            OfFile(files2[x]) /\ v = <<files2[x].inode_num, files2[x].inode.ptr>>
      BY DEF Handles
    <2>2. CASE x = fd
      BY <1>1, <2>1, <2>2
    <2>3. CASE x # fd
      BY <1>1, <2>1, <2>3 DEF Handles
    <2> QED BY <2>2, <2>3
  <1> QED BY <1>3, <1>4

LEMMA Begins ==
    ASSUME IInv, NEW i, NEW c, Saves(i, c), NEW name, name # "remove", Doing(name, i, c),
           Files(open_files'), NEW H, NEW own, NEW named, Sound(c.d, H, own, named),
           Handles(open_files') \subseteq H, Live(Handles(open_files'), c.d)
    PROVE  IInv'
  <1>1. pending' = c.log /\ disk' = disk /\ Quiet
    BY DEF Doing, Quiet
  <1>2. c \in CallT /\ c.d = (IF c.log = <<>> THEN disk ELSE c.log[Len(c.log)])
    BY DEF Saves, Ends
  <1>3. Typed'
    BY <1>1, <1>2 DEF IInv, Typed, CallT
  <1>4. Safe(disk) /\ \A k \in 1 .. Len(c.log) : Safe(c.log[k])
    BY <1>1 DEF IInv, Saved, Saves
  <1>5. Saved'
    BY <1>1, <1>4 DEF Saved
  <1>6. Final' = c.d
    BY <1>1, <1>2 DEF Final
  <1>7. Sound(c.d, Handles(open_files'), own, named)
    BY FewerVersions
  <1>8. Settled'
    BY <1>6, <1>7 DEF Settled
  <1>9. Chained'
    <2> SUFFICES ASSUME NEW k \in 1 .. Len(c.log)
                 PROVE  IF op'.name = "remove" THEN SameFiles(disk, c.log[k])
                        ELSE Frame(Before(c.log, k), c.log[k], op'.inode)
      BY <1>1 DEF Chained, Before
    <2>1. c.log # <<>>
      <3>1. \A t : t = <<>> => Len(t) = 0
        OBVIOUS
      <3> QED BY <3>1
    <2>2. op'.name # "remove" /\ op'.inode = i
      BY <2>1 DEF Doing
    <2>3. Frame(Before(c.log, k), c.log[k], i)
      BY DEF Saves
    <2> QED BY <2>2, <2>3
  <1> QED BY <1>3, <1>5, <1>8, <1>9 DEF IInv

LEMMA StartSaves ==
    ASSUME Typed, NEW about PROVE Saves(about, Start) /\ Start.d = disk
  <1>1. \A F : Start \in Freed(Start, F)
    BY Starts DEF Typed
  <1>2. Start.d = disk /\ Start.log = <<>>
    BY DEF Start
  <1>3. Len(Start.log) = 0
    BY <1>2
  <1> QED BY <1>1, <1>2, <1>3 DEF Freed, Saves

(* Each step keeps the invariant.                                          *)
LEMMA AtRest ==
    ASSUME IInv, Idle
    PROVE  /\ disk \in DiskT /\ Files(open_files)
           /\ \A about : Saves(about, Start)
           /\ Start.d = disk /\ Live(Handles(open_files), disk)
           /\ \E own, named : Sound(disk, Handles(open_files), own, named)
  <1>1. Final = disk
    BY DEF Idle, Final
  <1> QED BY <1>1, StartSaves DEF IInv, Typed, Settled

LEMMA FoundNamed ==
    ASSUME NEW d \in DiskT, NEW H, NEW own, NEW named, Sound(d, H, own, named),
           NEW path \in Seq(STRING) \ {<<>>}, NEW i, i = txfs_lookup(d, path), i # NotFound
    PROVE  i \in DOMAIN named /\ i \in Inodes /\ d.inode[i] \in InodeT
           /\ Held(<<i, d.inode[i].ptr>>, own) /\ d.inode[i].type # "none"
  <1>1. i \in DOMAIN named
    <2> DEFINE p == Parent(d, path)  name == Last(path)
    <2>1. p = Parent(d, path) /\ name = Last(path)
      OBVIOUS
    <2> HIDE DEF p, name
    <2> QED BY <2>1, LastStep
  <1>2. i \in Inodes
    BY <1>1 DEF Sound, Marked, DiskT
  <1> QED BY <1>1, <1>2 DEF Sound, Marked, DiskT

(* A handle's inode is written back.                                       *)
Writes(c, H, own, named, i, inode, r) ==
    /\ Saves(i, c) /\ Sound(c.d, H, own, named) /\ i \in Inodes
    /\ inode \in InodeT /\ inode.type = "file" /\ c.d.inode[i].type = "file"
    /\ Held(<<i, inode.ptr>>, own) /\ r = SetInode(c, i, inode)

LEMMA WrittenBack ==
    ASSUME NEW c, NEW H, NEW own, NEW named, NEW i, NEW inode, NEW r,
           Writes(c, H, own, named, i, inode, r)
    PROVE  /\ Saves(i, r) /\ Sound(r.d, H, own, named) /\ r.d.inode[i] = inode
           /\ r.d.ibitmap = c.d.ibitmap /\ SameButOne(c.d, r.d, i)
  <1>1. Saves(i, c) /\ Sound(c.d, H, own, named) /\ i \in Inodes
    BY DEF Writes
  <1>2. inode \in InodeT /\ inode.type # "none" /\ r = SetInode(c, i, inode)
    BY DEF Writes
  <1>3. Rewrites(i, c.d, own, named, i, inode)
    BY DEF Writes, Rewrites, InodeStays
  <1> QED BY <1>1, <1>2, <1>3, InodeSaved

LEMMA OpensFile ==
    ASSUME IInv, NEW path \in Seq(STRING) \ {<<>>}, NEW flag, OpenExisting(path, flag),
           disk.inode[txfs_lookup(disk, path)].type = "file"
    PROVE  IInv'
  <1> DEFINE i == txfs_lookup(disk, path)
             inode == disk.inode[i]
             emptied == [inode EXCEPT !.size = 0]
             c == IF flag = "trunc" THEN SetInode(Start, i, emptied) ELSE Start
             append == flag = "append"
             H == Handles(open_files) \union {<<i, inode.ptr>>}
             files == Opened(c.d, i, append)
  <1>1. /\ i # NotFound /\ Doing("open", i, c) /\ open_files' = files /\ Idle
        /\ inode.type = "file"
    BY DEF OpenExisting, Doing
  <1>2. /\ disk \in DiskT /\ Files(open_files) /\ Saves(i, Start) /\ Start.d = disk
        /\ Live(Handles(open_files), disk)
        /\ \E own, named : Sound(disk, Handles(open_files), own, named)
    BY <1>1, AtRest
  <1>3. PICK own, named : Sound(disk, Handles(open_files), own, named)
    BY <1>2
  <1>4. /\ i \in DOMAIN named /\ i \in Inodes /\ inode \in InodeT
        /\ Held(<<i, inode.ptr>>, own) /\ inode.type # "none"
    <2> DEFINE d == disk  j == i
    <2>1. d \in DiskT /\ Sound(d, Handles(open_files), own, named)
      BY <1>2, <1>3
    <2>2. j = txfs_lookup(d, path) /\ j # NotFound
      BY <1>1
    <2> HIDE DEF d, j
    <2>3. /\ j \in DOMAIN named /\ j \in Inodes /\ d.inode[j] \in InodeT
          /\ Held(<<j, d.inode[j].ptr>>, own) /\ d.inode[j].type # "none"
      BY <2>1, <2>2, FoundNamed
    <2> QED BY <2>3 DEF d, j
  <1>5. Sound(disk, H, own, named)
    <2>1. \A v \in H : Held(v, own)
      BY <1>3, <1>4 DEF Sound
    <2> HIDE DEF H
    <2> QED BY <1>3, <2>1 DEF Sound
  <1>6. emptied \in InodeT /\ emptied.type = inode.type /\ emptied.ptr = inode.ptr
    BY <1>4 DEF InodeT
  <1>7. <<i, inode.ptr>> \in H /\ Handles(open_files) \subseteq H
    OBVIOUS
  <1>8. files = Opened(c.d, i, append) /\ append \in BOOLEAN
    OBVIOUS
  <1> HIDE DEF i, H, emptied, append, files
  <1>9. /\ Saves(i, c) /\ Sound(c.d, H, own, named)
        /\ c.d.inode[i].type = "file" /\ c.d.inode[i].ptr = inode.ptr
        /\ c.d.ibitmap = disk.ibitmap /\ SameButOne(disk, c.d, i)
    <2>1. CASE flag = "trunc"
      <3>1. c = SetInode(Start, i, emptied)
        BY <2>1
      <3> DEFINE s == Start  x == c
      <3>2. Writes(s, H, own, named, i, emptied, x)
        BY <1>1, <1>2, <1>4, <1>5, <1>6, <3>1 DEF Writes
      <3> HIDE DEF s, x, inode, c
      <3>3. /\ Saves(i, x) /\ Sound(x.d, H, own, named) /\ x.d.inode[i] = emptied
            /\ x.d.ibitmap = s.d.ibitmap /\ SameButOne(s.d, x.d, i)
        BY <3>2, WrittenBack
      <3> QED BY <1>1, <1>2, <1>4, <1>6, <3>3 DEF x, s
    <2>2. CASE flag # "trunc"
      BY <1>1, <1>2, <1>4, <1>5, <2>2 DEF SameButOne
    <2> QED BY <2>1, <2>2
  <1> HIDE DEF c, inode
  <1>10. c.d \in DiskT
    BY <1>9 DEF Saves, CallT
  <1>11. /\ Files(files)
         /\ Handles(files) \subseteq Handles(open_files) \union {<<i, c.d.inode[i].ptr>>}
    <2> DEFINE d == c.d
    <2>1. d \in DiskT /\ d.inode[i].type = "file" /\ files = Opened(d, i, append)
      BY <1>8, <1>9, <1>10
    <2> HIDE DEF d
    <2>2. /\ Files(files)
          /\ Handles(files) \subseteq Handles(open_files) \union {<<i, d.inode[i].ptr>>}
      BY <1>2, <1>4, <1>8, <2>1, OpenedIs
    <2> QED BY <2>2 DEF d
  <1>12. Handles(files) \subseteq H
    BY <1>7, <1>9, <1>11
  <1> DEFINE name == "open"
  <1>13. Doing(name, i, c) /\ name # "remove"
    BY <1>1
  <1> HIDE DEF name
  <1>14. Live(Handles(files), c.d)
    <2> DEFINE H0 == Handles(open_files)  H2 == Handles(files)  d == disk  d2 == c.d
               ptr == c.d.inode[i].ptr
    <2>1. \A j \in d.ibitmap : d2.inode[j].type = d.inode[j].type
      BY <1>1, <1>2, <1>9 DEF SameButOne, DiskT, inode
    <2>2. d.ibitmap \subseteq d2.ibitmap /\ i \in d2.ibitmap
      BY <1>3, <1>4, <1>9 DEF Sound, Marked
    <2>3. Live(H0, d) /\ d2.inode[i].type = "file" /\ H2 \subseteq H0 \union {<<i, ptr>>}
      BY <1>2, <1>9, <1>11
    <2> HIDE DEF H0, H2, d, d2, ptr
    <2>4. Live(H2, d2)
      BY <2>1, <2>2, <2>3, LiveStays
    <2> QED BY <2>4 DEF H2, d2
  <1> QED BY <1>1, <1>9, <1>11, <1>12, <1>13, <1>14, Begins

(* A directory that is opened and not truncated is only read.              *)
LEMMA OpensDirectory ==
    ASSUME IInv, WriteDirs = FALSE, NEW path \in Seq(STRING) \ {<<>>}, NEW flag,
           OpenExisting(path, flag), disk.inode[txfs_lookup(disk, path)].type # "file"
    PROVE  IInv'
  <1> DEFINE i == txfs_lookup(disk, path)
             append == flag = "append"
             H == Handles(open_files)
             files == Opened(disk, i, append)
             c == Start
             name == "open"
  <1>1. /\ i # NotFound /\ Doing(name, i, c) /\ open_files' = files /\ Idle
        /\ disk.inode[i].type # "file" /\ append \in BOOLEAN /\ name # "remove"
    BY DEF OpenExisting, Doing, Start
  <1>2. /\ disk \in DiskT /\ Files(open_files) /\ Saves(i, c) /\ c.d = disk
        /\ Live(H, disk)
        /\ \E own, named : Sound(disk, H, own, named)
    BY <1>1, AtRest
  <1>3. PICK own, named : Sound(disk, H, own, named)
    BY <1>2
  <1>4. i \in Inodes
    <2> DEFINE d == disk  j == i
    <2>1. d \in DiskT /\ Sound(d, Handles(open_files), own, named)
      BY <1>2, <1>3
    <2>2. j = txfs_lookup(d, path) /\ j # NotFound
      BY <1>1
    <2> HIDE DEF d, j
    <2>3. j \in Inodes
      BY <2>1, <2>2, FoundNamed
    <2> QED BY <2>3 DEF j
  <1>5. Files(files) /\ Handles(files) \subseteq H
    <2> DEFINE d == disk
    <2>1. /\ d \in DiskT /\ d.inode[i].type # "file" /\ files = Opened(d, i, append)
          /\ Handles(open_files) = H
      BY <1>1, <1>2
    <2> HIDE DEF d, i, append, files, H
    <2> QED BY <1>1, <1>2, <1>4, <2>1, OpenedIs
  <1>6. Live(Handles(files), disk)
    <2> HIDE DEF H, files
    <2> QED BY <1>2, <1>5 DEF Live
  <1> HIDE DEF i, H, append, files, c, name
  <1> QED BY <1>1, <1>2, <1>3, <1>5, <1>6, Begins

LEMMA KeepsOpenExisting ==
    ASSUME IInv, WriteDirs = FALSE, NEW path \in Seq(STRING) \ {<<>>}, NEW flag,
           OpenExisting(path, flag)
    PROVE  IInv'
  BY OpensFile, OpensDirectory

(* A call that makes a file or a directory begins.                         *)
Making(path, type, new, name) ==
    /\ Idle /\ disk.ibitmap # Inodes /\ Fits(type, path) /\ new = NewFile(Start, path, type)
    /\ name # "remove" /\ Doing(name, new.b, new.c)
    /\ \/ open_files' = open_files
       \/ type = "file" /\ open_files' = Opened(new.c.d, new.b, FALSE)

LEMMA KeepsNew ==
    ASSUME IInv, NEW path, NEW type, NEW new, NEW name, Making(path, type, new, name)
    PROVE  IInv'
  <1>0. /\ Idle /\ disk.ibitmap # Inodes /\ Fits(type, path) /\ new = NewFile(Start, path, type)
        /\ name # "remove" /\ Doing(name, new.b, new.c)
        /\ \/ open_files' = open_files
           \/ type = "file" /\ open_files' = Opened(new.c.d, new.b, FALSE)
    BY DEF Making
  <1> DEFINE H0 == Handles(open_files)
             H == H0 \union {<<new.b, NewInode(type).ptr>>}
             s == Start  about == new.b
  <1>1. /\ Files(open_files) /\ Saves(about, s) /\ s.d = disk /\ Live(H0, s.d)
        /\ \E own, named : Sound(s.d, H0, own, named)
    BY <1>0, AtRest
  <1>2. PICK own, named : Sound(s.d, H0, own, named)
    BY <1>1
  <1>3. Makes(about, s, H0, own, named, path, type, new)
    BY <1>0, <1>1, <1>2 DEF Makes
  <1> HIDE DEF s, H0, about
  <1>4. /\ Saves(about, new.c) /\ new.b \in Inodes
        /\ new.b \in new.c.d.ibitmap /\ s.d.ibitmap \subseteq new.c.d.ibitmap
        /\ \A j \in s.d.ibitmap : new.c.d.inode[j].type = s.d.inode[j].type
        /\ new.c.d.inode[new.b] = NewInode(type)
        /\ \E o, n : Sound(new.c.d, H, o, n)
    <2> DEFINE ptr == NewInode(type).ptr
    <2>1. /\ Saves(about, new.c) /\ new.b \in Inodes /\ new.b \in new.c.d.ibitmap
          /\ s.d.ibitmap \subseteq new.c.d.ibitmap
          /\ \A j \in s.d.ibitmap : new.c.d.inode[j].type = s.d.inode[j].type
          /\ new.c.d.inode[new.b] = NewInode(type)
          /\ \E o, n : Sound(new.c.d, H0 \union {<<new.b, NewInode(type).ptr>>}, o, n)
      BY <1>3, Created, Zenon
    <2> QED BY <2>1
  <1>5. PICK o, n : Sound(new.c.d, H, o, n)
    BY <1>4
  <1>6. NewInode(type).type = type
    BY DEF NewInode, NoInode
  <1> DEFINE d == new.c.d  i == new.b
  <1>7. d \in DiskT /\ d.inode[i].type = type /\ d.inode[i].ptr = NewInode(type).ptr
    BY <1>4, <1>6 DEF Saves, CallT
  <1>10. ASSUME NEW H2, H2 \subseteq H0 PROVE Live(H2, d)
    BY <1>1, <1>4, <1>10 DEF Live
  <1>8. /\ Files(open_files') /\ Handles(open_files') \subseteq H
        /\ Live(Handles(open_files'), d)
    <2>1. CASE open_files' = open_files
      BY <1>1, <1>10, <2>1 DEF H0
    <2>2. CASE type = "file" /\ open_files' = Opened(new.c.d, new.b, FALSE)
      <3> DEFINE files == open_files'  no == FALSE
      <3>1. files = Opened(d, i, no) /\ no \in BOOLEAN /\ i \in Inodes
        BY <1>4, <2>2
      <3>2. /\ d \in DiskT /\ d.inode[i].type = "file"
            /\ H = H0 \union {<<i, d.inode[i].ptr>>}
        BY <1>7, <2>2
      <3> DEFINE d0 == s.d  ptr == d.inode[i].ptr
      <3>4. /\ Live(H0, d0) /\ d0.ibitmap \subseteq d.ibitmap /\ i \in d.ibitmap
            /\ \A j \in d0.ibitmap : d.inode[j].type = d0.inode[j].type
        BY <1>1, <1>4
      <3> HIDE DEF d, i, files, no, H
      <3>3. Files(files) /\ Handles(files) \subseteq H0 \union {<<i, d.inode[i].ptr>>}
        BY <1>1, <3>1, <3>2, OpenedIs DEF H0
      <3> DEFINE H2 == Handles(files)
      <3>5. H2 \subseteq H0 \union {<<i, ptr>>} /\ d.inode[i].type = "file"
        BY <3>2, <3>3
      <3> HIDE DEF d0, ptr, H2
      <3>6. Live(H2, d)
        BY <3>4, <3>5, LiveStays
      <3> QED BY <3>2, <3>3, <3>6 DEF files, H2
    <2> QED BY <1>0, <2>1, <2>2
  <1> DEFINE c == new.c
  <1>9. Saves(i, c) /\ Doing(name, i, c) /\ Sound(c.d, H, o, n)
    BY <1>0, <1>4, <1>5 DEF about
  <1>11. d = c.d
    OBVIOUS
  <1> HIDE DEF c, d, i, H
  <1> QED BY <1>0, <1>8, <1>9, <1>11, Begins

LEMMA KeepsOpenNew ==
    ASSUME IInv, NEW path \in FilePaths, OpenNew(path)
    PROVE  IInv'
  <1> DEFINE new == NewFile(Start, path, "file")
  <1>1. /\ Idle /\ disk.ibitmap # Inodes /\ Doing("create", new.b, new.c)
        /\ open_files' = Opened(new.c.d, new.b, FALSE)
    BY DEF OpenNew, Doing
  <1> DEFINE type == "file"  name == "create"
  <1>2. Fits(type, path) /\ name # "remove"
    BY DEF Types, FileNames, Fits
  <1>3. Making(path, type, new, name)
    BY <1>1, <1>2, Zenon DEF Making
  <1> HIDE DEF new, type, name
  <1> QED BY <1>3, KeepsNew

LEMMA KeepsMkdir ==
    ASSUME IInv, NEW path \in DirPaths, txfs_mkdir(path)
    PROVE  IInv'
  <1> DEFINE new == NewFile(Start, path, "dir")
  <1>1. /\ Idle /\ disk.ibitmap # Inodes /\ Doing("mkdir", new.b, new.c)
        /\ open_files' = open_files
    BY DEF txfs_mkdir, Doing
  <1> DEFINE type == "dir"  name == "mkdir"
  <1>2. Fits(type, path) /\ name # "remove"
    BY DEF Types, Fits
  <1>3. Making(path, type, new, name)
    BY <1>1, <1>2, Zenon DEF Making
  <1> HIDE DEF new, type, name
  <1> QED BY <1>3, KeepsNew

LEMMA KeepsClose ==
    ASSUME IInv, NEW fd \in Fds, txfs_close(fd)
    PROVE  IInv'
  <1>1. /\ pending' = pending /\ disk' = disk /\ op' = op
        /\ open_files' = [open_files EXCEPT ![fd] = Closed]
    BY DEF txfs_close
  <1>2. Closed \in FileT /\ ~Closed.used
    <2>1. NoInode \in InodeT
      BY EmptyTypes
    <2> QED BY <2>1, Numbers DEF Closed, FileT
  <1>3. Files(open_files)
    BY DEF IInv, Typed
  <1> DEFINE H == Handles(open_files)  files == open_files  files2 == open_files'
  <1>4. Files(files2) /\ Handles(files2) \subseteq H
    <2> DEFINE f == Closed
    <2>1. /\ Files(files) /\ f \in FileT /\ ~OfFile(f) /\ files2 = [files EXCEPT ![fd] = f]
          /\ Handles(files) \subseteq H
      BY <1>1, <1>2, <1>3 DEF OfFile
    <2> HIDE DEF H, files, files2, f
    <2> QED BY <2>1, OneFile
  <1>5. Typed'
    BY <1>1, <1>4 DEF IInv, Typed
  <1>6. Saved'
    BY <1>1 DEF IInv, Saved, Quiet, Idle
  <1>7. Final' = Final
    BY <1>1 DEF Final
  <1>8. PICK own, named : Sound(Final, H, own, named)
    BY DEF IInv, Settled
  <1>9. Sound(Final, Handles(files2), own, named)
    <2> HIDE DEF H, files2
    <2> QED BY <1>4, <1>8, FewerVersions
  <1>10. Settled'
    <2>1. Live(H, Final)
      BY DEF IInv, Settled
    <2>2. Live(Handles(files2), Final)
      BY <1>4, <2>1 DEF Live
    <2> QED BY <1>7, <1>9, <2>2 DEF Settled
  <1>11. Chained'
    BY <1>1 DEF IInv, Chained, Before
  <1> QED BY <1>5, <1>6, <1>10, <1>11 DEF IInv

LEMMA KeepsRead ==
    ASSUME IInv, NEW fd \in Fds, NEW n \in Counts, txfs_read(fd, n)
    PROVE  IInv'
  <1> DEFINE f == open_files[fd]
             left == f.inode.size - f.position
             want == IF n < left THEN n ELSE left
             hole == {k \in 0 .. want - 1 :
                        BlockOf(disk, f.inode, BlockAt(f.inode, f.position + k)) = None}
             m == IF hole = {} THEN want ELSE Least(hole)
             g == [f EXCEPT !.position = @ + m]
  <1>1. /\ pending' = pending /\ disk' = disk /\ op' = op /\ f.used /\ left > 0
        /\ open_files' = [open_files EXCEPT ![fd].position = @ + m]
    BY DEF txfs_read
  <1>2. Files(open_files) /\ f \in FileT
    BY DEF IInv, Typed, Files
  <1>3. n \in Nat
    BY TxfsAssumption
  <1>4. f.position \in Nat /\ f.inode \in InodeT /\ f.inode.size \in Nat
    BY <1>2 DEF FileT, InodeT
  <1>5. want \in Nat
    BY <1>1, <1>3, <1>4
  <1>6. m \in Nat
    <2>1. hole \in SUBSET Nat
      BY <1>5
    <2> HIDE DEF hole, want
    <2>2. CASE hole = {}
      BY <1>5, <2>2
    <2>3. CASE hole # {}
      BY <2>1, <2>3, LeastExists
    <2> QED BY <2>2, <2>3
  <1> HIDE DEF m
  <1>7. open_files' = [open_files EXCEPT ![fd] = g]
    BY <1>1
  <1>8. /\ g \in FileT /\ g.used = f.used /\ g.inode = f.inode /\ g.inode_num = f.inode_num
    BY <1>2, <1>4, <1>6 DEF FileT
  <1> DEFINE H == Handles(open_files)  files == open_files  files2 == open_files'
  <1>9. OfFile(f) => <<f.inode_num, f.inode.ptr>> \in H
    BY DEF Handles
  <1>10. Files(files2) /\ Handles(files2) \subseteq H
    <2>1. /\ Files(files) /\ g \in FileT /\ files2 = [files EXCEPT ![fd] = g]
          /\ Handles(files) \subseteq H
          /\ OfFile(g) => <<g.inode_num, g.inode.ptr>> \in H
      BY <1>2, <1>7, <1>8, <1>9 DEF OfFile
    <2> HIDE DEF H, files, files2, g
    <2> QED BY <2>1, OneFile
  <1>11. Typed'
    BY <1>1, <1>10 DEF IInv, Typed
  <1>12. Saved'
    BY <1>1 DEF IInv, Saved, Quiet, Idle
  <1>13. Final' = Final
    BY <1>1 DEF Final
  <1>14. PICK own, named : Sound(Final, H, own, named)
    BY DEF IInv, Settled
  <1>15. Sound(Final, Handles(files2), own, named)
    <2> HIDE DEF H, files2
    <2> QED BY <1>10, <1>14, FewerVersions
  <1>16. Settled'
    <2>1. Live(H, Final)
      BY DEF IInv, Settled
    <2>2. Live(Handles(files2), Final)
      BY <1>10, <2>1 DEF Live
    <2> QED BY <1>13, <1>15, <2>2 DEF Settled
  <1>17. Chained'
    BY <1>1 DEF IInv, Chained, Before
  <1> QED BY <1>11, <1>12, <1>16, <1>17 DEF IInv

LEMMA KeepsDiskWrite ==
    ASSUME IInv, DiskWrite
    PROVE  IInv'
  <1>1. /\ pending # <<>> /\ disk' = Head(pending) /\ pending' = Tail(pending)
        /\ op' = (IF pending' = <<>> THEN NoOp ELSE op) /\ open_files' = open_files
    BY DEF DiskWrite
  <1>2. pending \in Seq(DiskT) /\ Files(open_files)
    BY DEF IInv, Typed
  <1>3. /\ Len(pending) \in Nat \ {0} /\ Head(pending) = pending[1] /\ pending[1] \in DiskT
        /\ Tail(pending) \in Seq(DiskT) /\ Len(Tail(pending)) = Len(pending) - 1
        /\ \A k \in 1 .. Len(pending) - 1 : Tail(pending)[k] = pending[k + 1]
    BY <1>1, <1>2
  <1>4. Typed'
    BY <1>1, <1>2, <1>3 DEF Typed
  <1>5. Tail(pending) = <<>> <=> Len(pending) = 1
    <2>1. \A s \in Seq(DiskT) : s = <<>> <=> Len(s) = 0
      OBVIOUS
    <2> DEFINE t == Tail(pending)
    <2>2. t \in Seq(DiskT) /\ Len(t) = Len(pending) - 1
      BY <1>3
    <2> HIDE DEF t
    <2>3. t = <<>> <=> Len(pending) - 1 = 0
      BY <2>1, <2>2
    <2>4. t = <<>> <=> Len(pending) = 1
      BY <1>3, <2>3
    <2> QED BY <2>4 DEF t
  <1>6. Final' = Final
    <2>1. CASE Len(pending) = 1
      BY <1>1, <1>3, <1>5, <2>1 DEF Final
    <2>2. CASE Len(pending) # 1
      <3>1. Final' = Tail(pending)[Len(pending) - 1] /\ Final = pending[Len(pending)]
        BY <1>1, <1>3, <1>5, <2>2 DEF Final
      <3>2. Len(pending) - 1 \in 1 .. Len(pending) - 1 /\ (Len(pending) - 1) + 1 = Len(pending)
        BY <1>3, <2>2
      <3> QED BY <1>3, <3>1, <3>2
    <2> QED BY <2>1, <2>2
  <1>7. Settled'
    BY <1>1, <1>6 DEF IInv, Settled
  <1>8. Saved'
    <2>1. CASE Len(pending) = 1
      <3>1. PICK own, named : Sound(Final, Handles(open_files), own, named)
        BY DEF IInv, Settled
      <3>2. Safe(Final)
        BY <3>1, FewerVersions DEF Safe
      <3>3. disk' = Final /\ pending' = <<>>
        BY <1>1, <1>3, <1>5, <2>1 DEF Final
      <3>4. Safe(disk') /\ Len(pending') = 0
        BY <3>2, <3>3
      <3> QED BY <3>4 DEF Saved
    <2>2. CASE Len(pending) # 1
      <3>1. op' = op /\ (Quiet' => Quiet)
        BY <1>1, <1>5, <2>2 DEF Quiet, Idle
      <3>2. Quiet => \A k \in 1 .. Len(pending) : Safe(pending[k])
        BY DEF IInv, Saved
      <3>3. Quiet => Safe(disk')
        BY <1>1, <1>3, <3>2
      <3>4. ASSUME Quiet, NEW k \in 1 .. Len(pending') PROVE Safe(pending'[k])
        <4>1. k \in 1 .. Len(pending) - 1 /\ k + 1 \in 1 .. Len(pending)
          BY <1>1, <1>3
        <4> QED BY <1>1, <1>3, <3>2, <3>4, <4>1
      <3> QED BY <3>1, <3>3, <3>4 DEF Saved
    <2> QED BY <2>1, <2>2
  <1>9. Chained'
    <2> SUFFICES ASSUME NEW k \in 1 .. Len(pending')
                 PROVE  IF op'.name = "remove" THEN SameFiles(disk', pending'[k])
                        ELSE Frame(IF k = 1 THEN disk' ELSE pending'[k - 1], pending'[k], op'.inode)
      BY DEF Chained, Before
    <2>1. k \in 1 .. Len(pending) - 1 /\ pending'[k] = pending[k + 1]
      BY <1>1, <1>3
    <2>2. /\ k + 1 \in 1 .. Len(pending) /\ 1 \in 1 .. Len(pending)
          /\ k + 1 # 1 /\ (k + 1) - 1 = k
      BY <1>3, <2>1
    <2>3. op' = op
      BY <1>1, <1>3, <1>5, <2>1
    <2>4. CASE op.name = "remove"
      <3>1. SameFiles(disk, pending[k + 1]) /\ SameFiles(disk, pending[1])
        BY <2>2, <2>4 DEF IInv, Chained
      <3>2. SameFiles(pending[1], pending[k + 1])
        BY <3>1 DEF SameFiles
      <3> QED BY <1>1, <1>3, <2>1, <2>3, <2>4, <3>2
    <2>5. CASE op.name # "remove"
      <3>1. Frame(Before(pending, k + 1), pending[k + 1], op.inode)
        BY <2>2, <2>5 DEF IInv, Chained
      <3>2. Before(pending, k + 1) = IF k = 1 THEN disk' ELSE pending'[k - 1]
        <4>1. Before(pending, k + 1) = pending[k]
          BY <2>2 DEF Before
        <4>2. CASE k = 1
          BY <1>1, <1>3, <4>1, <4>2
        <4>3. CASE k # 1
          <5>1. k - 1 \in 1 .. Len(pending) - 1 /\ (k - 1) + 1 = k
            BY <1>3, <2>1, <4>3
          <5>2. pending'[k - 1] = pending[k]
            BY <1>1, <1>3, <5>1
          <5> QED BY <4>1, <4>3, <5>2
        <4> QED BY <4>2, <4>3
      <3> QED BY <2>1, <2>3, <2>5, <3>1, <3>2
    <2> QED BY <2>4, <2>5
  <1> QED BY <1>4, <1>7, <1>8, <1>9 DEF IInv

LEMMA KeepsPowerCut ==
    ASSUME IInv, PowerCut, CutRemove = FALSE
    PROVE  IInv'
  <1>1. /\ Quiet /\ pending' = <<>> /\ disk' = disk
        /\ open_files' = [fd \in Fds |-> Closed]
    BY DEF PowerCut, Quiet
  <1>2. Closed \in FileT /\ ~Closed.used
    <2>1. NoInode \in InodeT
      BY EmptyTypes
    <2> QED BY <2>1, Numbers DEF Closed, FileT
  <1>3. Files(open_files') /\ Handles(open_files') = {}
    BY <1>1, <1>2 DEF Files, Handles, OfFile
  <1>4. disk \in DiskT /\ Safe(disk)
    BY <1>1 DEF IInv, Typed, Saved
  <1>5. Typed'
    <2>1. \A s : s = <<>> => s \in Seq(DiskT)
      OBVIOUS
    <2> QED BY <1>1, <1>3, <1>4, <2>1 DEF Typed
  <1>6. Saved'
    <2>1. Len(pending') = 0
      BY <1>1
    <2> QED BY <1>1, <1>4, <2>1 DEF Saved
  <1>7. Settled'
    <2>1. Final' = disk
      BY <1>1 DEF Final
    <2>2. Live({}, disk)
      BY DEF Live
    <2> QED BY <1>3, <1>4, <2>1, <2>2 DEF Settled, Safe
  <1>8. Chained'
    <2>1. Len(pending') = 0
      BY <1>1
    <2> QED BY <2>1 DEF Chained
  <1> QED BY <1>5, <1>6, <1>7, <1>8 DEF IInv

LEMMA KeepsRemove ==
    ASSUME IInv, NEW path \in Seq(STRING) \ {<<>>}, txfs_remove(path), RemoveOpen = FALSE
    PROVE  IInv'
  <1> DEFINE i == txfs_lookup(disk, path)
             ptr == disk.inode[i].ptr
             ind == ptr[DirectBlocks]
             direct == [s \in 1 .. DirectBlocks |-> ptr[s - 1]]
             others == [k \in 1 .. PtrsPerBlock + 1 |->
                          IF k = PtrsPerBlock + 1 THEN ind ELSE disk.block[ind].ptr[k - 1]]
             c1 == FreeEach(Start, direct)
             c2 == IF ind = None THEN c1 ELSE FreeEach(c1, others)
             c3 == txfs_free_inode(c2, i)
             r == txfs_dir_remove_entry(c3, Parent(c3.d, path), Last(path))
             H == Handles(open_files)
  <1>1. /\ i # NotFound /\ ~IsOpen(i) /\ Doing("remove", i, r) /\ open_files' = open_files
        /\ Idle
    BY Zenon DEF txfs_remove, Doing
  <1>0. Idle /\ i # NotFound /\ ~IsOpen(i)
    BY <1>1, Zenon
  <1> HIDE DEF c1, c2, c3, r
  <1>2. /\ disk \in DiskT /\ Files(open_files) /\ \E own, named : Sound(disk, H, own, named)
        /\ Live(H, disk)
    <2> HIDE DEF H
    <2> QED BY <1>0, AtRest DEF H
  <1>3. PICK own, named : Sound(disk, H, own, named)
    BY <1>2
  <1>4. NotOf(H, i)
    <2> SUFFICES ASSUME NEW v \in H PROVE v[1] # i
      BY DEF NotOf
    <2>1. PICK fd \in Fds : /\ OfFile(open_files[fd])
                            /\ v = <<open_files[fd].inode_num, open_files[fd].inode.ptr>>
      BY DEF Handles
    <2> DEFINE j == open_files[fd].inode_num
    <2>2. v[1] = j
      BY <2>1
    <2> HIDE DEF i
    <2>3. j # i
      BY <1>0, <2>1 DEF IsOpen, OfFile
    <2> QED BY <2>2, <2>3
  <1>5. i = txfs_lookup(disk, path)
    OBVIOUS
  <1> HIDE DEF i
  <1>6. i \in DOMAIN named
    <2> DEFINE d == disk
    <2>1. d \in DiskT /\ Sound(d, H, own, named)
      BY <1>2, <1>3
    <2>2. i = txfs_lookup(d, path) /\ i # NotFound
      BY <1>0, <1>5
    <2> HIDE DEF d, H
    <2>3. /\ i \in DOMAIN named /\ i \in Inodes /\ d.inode[i] \in InodeT
          /\ Held(<<i, d.inode[i].ptr>>, own) /\ d.inode[i].type # "none"
      BY <2>1, <2>2, FoundNamed
    <2> QED BY <2>3
  <1>7. /\ Len(direct) = DirectBlocks /\ \A s \in 1 .. DirectBlocks : direct[s] = ptr[s - 1]
        /\ Len(others) = PtrsPerBlock + 1
        /\ \A k \in 1 .. PtrsPerBlock + 1 : others[k] =
              IF k = PtrsPerBlock + 1 THEN ind ELSE disk.block[ind].ptr[k - 1]
    <2>1. DirectBlocks \in Nat /\ PtrsPerBlock + 1 \in Nat
      BY Sizes
    <2> DEFINE w(k) == IF k = PtrsPerBlock + 1 THEN ind ELSE disk.block[ind].ptr[k - 1]
    <2>2. \A k \in 1 .. PtrsPerBlock + 1 : others[k] = w(k)
      OBVIOUS
    <2>3. others = [k \in 1 .. PtrsPerBlock + 1 |-> w(k)]
      OBVIOUS
    <2>4. \A s \in 1 .. DirectBlocks : direct[s] = ptr[s - 1]
      OBVIOUS
    <2>5. Len(direct) = DirectBlocks
      <3> HIDE DEF ptr
      <3> QED BY <2>1
    <2>6. Len(others) = PtrsPerBlock + 1
      <3> HIDE DEF w, others
      <3> QED BY <2>1, <2>3
    <2> QED BY <2>2, <2>4, <2>5, <2>6
  <1> HIDE DEF H, direct, others
  <1>8. PICK F : c2 \in Freed(Start, F) /\ LiveIn(F, own, i)
    <2>1. c1 = FreeEach(Start, direct) /\ c2 = IF ind = None THEN c1 ELSE FreeEach(c1, others)
      BY DEF c1, c2
    <2>2. Lists(i, ptr, ind, direct, others)
      BY <1>7 DEF Lists
    <2> HIDE DEF c1, c2, ptr, ind
    <2> QED BY <1>2, <1>3, <1>6, <2>1, <2>2, BlocksFreed
  <1>9. c3 = txfs_free_inode(c2, i) /\ r = txfs_dir_remove_entry(c3, Parent(c3.d, path), Last(path))
    BY DEF c3, r
  <1>10. /\ r \in CallT /\ Ends(r) /\ r.log # <<>> /\ Logs(r, disk)
         /\ r.d.inode = disk.inode /\ r.d.ibitmap = disk.ibitmap \ {i}
         /\ \E o, n : Sound(r.d, H, o, n)
    BY <1>0, <1>2, <1>3, <1>4, <1>5, <1>8, <1>9, Removed
  <1>11. /\ pending' = r.log /\ disk' = disk /\ op' = [name |-> "remove", inode |-> i]
    BY <1>1, <1>10 DEF Doing
  <1>12. Typed'
    BY <1>1, <1>2, <1>10, <1>11 DEF Typed, CallT
  <1>13. Saved'
    <2>1. ~Quiet'
      BY <1>10, <1>11 DEF Quiet, Idle
    <2> QED BY <2>1 DEF Saved
  <1>14. Settled'
    <2>1. Final' = r.d
      BY <1>10, <1>11 DEF Final, Ends
    <2>2. Live(H, r.d)
      BY <1>2, <1>4, <1>10 DEF Live, NotOf
    <2> QED BY <1>1, <1>10, <2>1, <2>2 DEF Settled, H
  <1>15. Chained'
    <2>1. op'.name = "remove"
      BY <1>11
    <2> QED BY <1>10, <1>11, <2>1 DEF Chained, Logs
  <1> QED BY <1>12, <1>13, <1>14, <1>15 DEF IInv

LEMMA KeepsWrite ==
    ASSUME IInv, NEW fd \in Fds, NEW n \in Counts, NEW v \in Values, txfs_write(fd, n, v),
           WriteDirs = FALSE
    PROVE  IInv'
  <1> DEFINE f == open_files[fd]
             i == f.inode_num
             x == [c |-> Start, inode |-> f.inode, position |-> f.position, full |-> FALSE]
             G == CHOOSE after : after = [k \in 0 .. n |->
                     IF k = 0 THEN x ELSE WriteBlock(after[k - 1], v)]
             w == G[n]
             inode == [w.inode EXCEPT !.size = IF w.position > @ THEN w.position ELSE @]
             dirty == w.position > f.position
             c == IF dirty THEN SetInode(w.c, i, inode) ELSE w.c
             inode2 == IF dirty THEN inode ELSE w.inode
             H0 == Handles(open_files)
             type == "file"
  <1>1. /\ f.used /\ Doing("write", i, c) /\ Idle
        /\ open_files' = [open_files EXCEPT ![fd].inode = inode2, ![fd].position = w.position]
        /\ WriteDirs \/ f.inode.type = "file"
    BY Zenon DEF txfs_write, Doing
  <1>0. Idle /\ OfFile(f)
    BY <1>1, Zenon DEF OfFile
  <1>2. /\ disk \in DiskT /\ Files(open_files) /\ Saves(i, Start) /\ Start.d = disk
        /\ \E own, named : Sound(disk, H0, own, named) /\ Live(H0, disk)
    <2> HIDE DEF H0, i
    <2> QED BY <1>0, AtRest DEF H0
  <1>3. PICK own, named : Sound(disk, H0, own, named)
    BY <1>2
  <1>4. /\ f \in FileT /\ f.inode.type = type /\ <<i, f.inode.ptr>> \in H0 /\ n \in Nat
    <2>1. f \in FileT /\ f.inode.type = type
      BY <1>0, <1>2 DEF Files, OfFile
    <2>2. <<i, f.inode.ptr>> \in H0
      BY <1>0 DEF Handles
    <2>3. n \in Nat
      BY TxfsAssumption
    <2> QED BY <2>1, <2>2, <2>3
  <1>5. /\ i \in Inodes /\ f.inode \in InodeT /\ f.position \in Nat
    BY <1>4 DEF FileT
  <1>17. i \in disk.ibitmap /\ disk.inode[i].type = type
    BY <1>2, <1>4 DEF Live
  <1>6. x \in Written(type, H0, named, i)
    <2>1. /\ x.c = Start /\ x.inode = f.inode /\ x.position = f.position /\ x.full = FALSE
          /\ Start \in CallT
      BY <1>2 DEF Saves
    <2>2. x \in [c : CallT, inode : InodeT, position : Nat, full : BOOLEAN]
      BY <1>5, <2>1
    <2>3. H0 \union {<<i, f.inode.ptr>>} = H0
      BY <1>4
    <2>4. Kept(disk, H0, i, f.inode.ptr, named)
      <3> HIDE DEF H0
      <3> QED BY <1>3, <2>3 DEF Kept
    <2> HIDE DEF x
    <2>5. Saves(i, x.c) /\ x.c.d = disk
      BY <1>2, <2>1
    <2> QED BY <2>1, <2>2, <2>4, <2>5, <1>4 DEF Written
  <1>7. w \in Written(type, H0, named, i)
    <2>1. G = CHOOSE after : after = [k \in 0 .. n |->
                 IF k = 0 THEN x ELSE WriteBlock(after[k - 1], v)]
      OBVIOUS
    <2>2. disk.inode[i].type = "file" /\ type = "file"
      BY <1>17
    <2> HIDE DEF G, x, H0, type, i
    <2> QED BY <1>4, <1>6, <2>1, <2>2, Wrote
  <1> HIDE DEF w, G, x
  <1>8. /\ w.inode \in InodeT /\ w.position \in Nat /\ Saves(i, w.c)
        /\ w.c.d.inode = disk.inode /\ w.c.d.ibitmap = disk.ibitmap
        /\ w.inode.type = type /\ Kept(w.c.d, H0, i, w.inode.ptr, named)
    BY <1>7 DEF Written
  <1>9. /\ inode \in InodeT /\ inode.type = type /\ inode.ptr = w.inode.ptr
    <2> DEFINE y == w.inode
               s == IF w.position > y.size THEN w.position ELSE y.size
    <2>1. s \in Nat
      BY <1>8 DEF InodeT
    <2>2. inode = [y EXCEPT !.size = s]
      OBVIOUS
    <2> HIDE DEF s
    <2> QED BY <1>8, <2>1, <2>2 DEF InodeT
  <1>10. inode2 \in InodeT /\ inode2.type = type /\ inode2.ptr = w.inode.ptr
    BY <1>8, <1>9
  <1> DEFINE H == H0 \union {<<i, w.inode.ptr>>}
  <1>11. PICK o : Sound(w.c.d, H, o, named)
    BY <1>8 DEF Kept
  <1>12. /\ Saves(i, c) /\ Sound(c.d, H, o, named)
         /\ c.d.ibitmap = disk.ibitmap /\ c.d.inode[i].type = type
         /\ SameButOne(disk, c.d, i)
    <2>1. CASE dirty
      <3> DEFINE wc == w.c  r == c
      <3>1. Held(<<i, inode.ptr>>, o)
        BY <1>9, <1>11 DEF Sound
      <3>2. Writes(wc, H, o, named, i, inode, r)
        <4>1. r = SetInode(wc, i, inode)
          BY <2>1
        <4> HIDE DEF inode, r, H, i
        <4>2. inode.type = "file" /\ wc.d.inode[i].type = "file"
          BY <1>8, <1>9, <1>17
        <4> HIDE DEF type
        <4> QED BY <1>5, <1>8, <1>9, <1>11, <3>1, <4>1, <4>2 DEF Writes
      <3> HIDE DEF wc, r, H, i, inode
      <3>3. /\ Saves(i, r) /\ Sound(r.d, H, o, named) /\ r.d.inode[i] = inode
            /\ r.d.ibitmap = wc.d.ibitmap /\ SameButOne(wc.d, r.d, i)
        BY <3>2, WrittenBack
      <3>4. /\ r.d.inode[i].type = type /\ r.d.ibitmap = disk.ibitmap
            /\ SameButOne(disk, r.d, i)
        BY <1>8, <1>9, <3>3 DEF SameButOne, wc
      <3> QED BY <3>3, <3>4 DEF r
    <2>2. CASE ~dirty
      BY <1>8, <1>11, <1>17, <2>2 DEF SameButOne
    <2> QED BY <2>1, <2>2
  <1> DEFINE g == [f EXCEPT !.inode = inode2, !.position = w.position]
  <1>13. open_files' = [open_files EXCEPT ![fd] = g]
    <2> HIDE DEF inode2
    <2> QED BY <1>1, <1>2 DEF Files
  <1>14. /\ g \in FileT /\ g.inode_num = i /\ g.inode = inode2
    <2> HIDE DEF inode2
    <2> QED BY <1>4, <1>8, <1>10 DEF FileT
  <1>15. Files(open_files') /\ Handles(open_files') \subseteq H
    <2> DEFINE files == open_files  files2 == open_files'
    <2>1. /\ Files(files) /\ g \in FileT /\ files2 = [files EXCEPT ![fd] = g]
          /\ Handles(files) \subseteq H /\ <<g.inode_num, g.inode.ptr>> \in H
      <3> HIDE DEF g, inode2
      <3> QED BY <1>2, <1>4, <1>10, <1>13, <1>14
    <2> HIDE DEF H, files, files2, g
    <2>2. Files(files2) /\ Handles(files2) \subseteq H
      BY <2>1, OneFile
    <2> QED BY <2>2 DEF files2
  <1>18. Live(Handles(open_files'), c.d)
    <2> DEFINE H2 == Handles(open_files')  d == disk  d2 == c.d  ptr == w.inode.ptr
    <2>1. \A j \in d.ibitmap : d2.inode[j].type = d.inode[j].type
      BY <1>2, <1>12, <1>17 DEF SameButOne, DiskT
    <2>2. /\ d.ibitmap \subseteq d2.ibitmap /\ i \in d2.ibitmap
          /\ d2.inode[i].type = "file"
      BY <1>12, <1>17
    <2>3. Live(H0, d) /\ H2 \subseteq H0 \union {<<i, ptr>>}
      BY <1>2, <1>15
    <2> HIDE DEF H0, H2, d, d2, ptr, i
    <2>4. Live(H2, d2)
      BY <2>1, <2>2, <2>3, LiveStays
    <2> QED BY <2>4 DEF H2, d2
  <1> DEFINE name == "write"
  <1>16. Doing(name, i, c) /\ name # "remove"
    BY <1>1
  <1> HIDE DEF c, H, i, name
  <1> QED BY <1>12, <1>15, <1>16, <1>18, Begins

LEMMA InitIInv == Init => IInv
  <1> SUFFICES ASSUME Init PROVE IInv
    OBVIOUS
  <1> DEFINE inode == [i \in Inodes |-> IF i = 0 THEN NewInode("dir") ELSE NoInode]
             own == [b \in {} |-> 0]
             named == [i \in {0} |-> 0]
  <1>1. /\ disk = [free_blocks |-> TotalBlocks, free_inodes |-> MaxInodes - 1,
                   ibitmap |-> {0}, bbitmap |-> {}, inode |-> inode,
                   block |-> [b \in Blocks |-> Zero]]
        /\ pending = <<>> /\ open_files = [fd \in Fds |-> Closed]
    BY DEF Init
  <1>2. /\ inode \in [Inodes -> InodeT] /\ inode[0] = NewInode("dir")
        /\ NewInode("dir").type = "dir" /\ \A s \in Fields : NewInode("dir").ptr[s] = None
        /\ NoInode \in InodeT /\ Zero \in BlockT
    <2>1. "dir" \in Types
      BY DEF Types
    <2>2. /\ NewInode("dir") \in InodeT /\ NoInode \in InodeT /\ Zero \in BlockT
          /\ NewInode("dir").type = "dir" /\ \A s \in Fields : NewInode("dir").ptr[s] = None
      BY <2>1, EmptyTypes
    <2>3. 0 \in Inodes
      BY Numbers
    <2> QED BY <2>2, <2>3
  <1> HIDE DEF inode
  <1>3. disk \in DiskT
    <2>1. [b \in Blocks |-> Zero] \in [Blocks -> BlockT]
      BY <1>2
    <2> DEFINE block == [b \in Blocks |-> Zero]
    <2>2. {0} \in SUBSET Inodes /\ {} \in SUBSET Blocks
      BY Numbers
    <2>3. TotalBlocks \in Int /\ MaxInodes - 1 \in Int
      BY Sizes
    <2> HIDE DEF block
    <2> DEFINE I == [Inodes -> InodeT]  B == [Blocks -> BlockT]
    <2>4. inode \in I /\ block \in B
      BY <1>2, <2>1 DEF block
    <2>5. DiskT = [free_blocks : Int, free_inodes : Int, ibitmap : SUBSET Inodes,
                   bbitmap : SUBSET Blocks, inode : I, block : B]
      BY DEF DiskT
    <2> HIDE DEF I, B
    <2> QED BY <1>1, <2>2, <2>3, <2>4, <2>5 DEF block
  <1>4. /\ disk.ibitmap = {0} /\ disk.bbitmap = {} /\ disk.inode[0] = NewInode("dir")
    BY <1>1, <1>2
  <1>5. DOMAIN own = {} /\ DOMAIN named = {0}
    OBVIOUS
  <1> HIDE DEF own, named
  <1>6. Sound(disk, {}, own, named)
    <2>1. Marked(disk, own, named)
      BY <1>2, <1>4, <1>5 DEF Marked
    <2>2. Tree(disk, own, named)
      BY <1>5 DEF Tree
    <2>3. Held(<<0, disk.inode[0].ptr>>, own)
      BY <1>2, <1>4 DEF Held
    <2>4. Apart(disk, own)
      BY <1>2, <1>4, <1>5 DEF Apart
    <2> QED BY <1>5, <2>1, <2>2, <2>3, <2>4 DEF Sound
  <1>7. Closed \in FileT /\ ~Closed.used
    BY <1>2, Numbers DEF Closed, FileT
  <1>8. Files(open_files) /\ Handles(open_files) = {}
    BY <1>1, <1>7 DEF Files, Handles, OfFile
  <1>9. pending \in Seq(DiskT) /\ Len(pending) = 0
    BY <1>1
  <1>10. Final = disk
    BY <1>1 DEF Final
  <1>11. Typed
    BY <1>3, <1>8, <1>9 DEF Typed
  <1>12. Saved
    BY <1>6, <1>9 DEF Saved, Safe
  <1>13. Settled
    BY <1>6, <1>8, <1>10 DEF Settled, Live
  <1>14. Chained
    BY <1>9 DEF Chained
  <1> QED BY <1>11, <1>12, <1>13, <1>14 DEF IInv

LEMMA NextIInv ==
    ASSUME WriteDirs = FALSE, RemoveOpen = FALSE, CutRemove = FALSE
    PROVE  IInv /\ [Next]_vars => IInv'
  <1> SUFFICES ASSUME IInv, [Next]_vars PROVE IInv'
    OBVIOUS
  <1>1. FilePaths \union DirPaths \subseteq Seq(STRING) \ {<<>>}
    BY TxfsAssumption
  <1>2. ASSUME NEW path \in FilePaths, OpenNew(path) PROVE IInv'
    BY <1>2, KeepsOpenNew
  <1>3. ASSUME NEW path \in FilePaths \union DirPaths,
               NEW flag \in {"plain", "trunc", "append"}, OpenExisting(path, flag)
        PROVE  IInv'
    BY <1>1, <1>3, KeepsOpenExisting
  <1>4. ASSUME NEW path \in DirPaths, txfs_mkdir(path) PROVE IInv'
    BY <1>4, KeepsMkdir
  <1>5. ASSUME NEW path \in FilePaths \union DirPaths, txfs_remove(path) PROVE IInv'
    BY <1>1, <1>5, KeepsRemove
  <1>6. ASSUME NEW fd \in Fds, txfs_close(fd) PROVE IInv'
    BY <1>6, KeepsClose
  <1>7. ASSUME NEW fd \in Fds, NEW n \in Counts, txfs_read(fd, n) PROVE IInv'
    BY <1>7, KeepsRead
  <1>8. ASSUME NEW fd \in Fds, NEW n \in Counts, NEW v \in Values, txfs_write(fd, n, v)
        PROVE  IInv'
    BY <1>8, KeepsWrite
  <1>9. CASE DiskWrite
    BY <1>9, KeepsDiskWrite
  <1>10. CASE PowerCut
    BY <1>10, KeepsPowerCut
  <1>11. CASE UNCHANGED vars
    <2>1. /\ disk' = disk /\ pending' = pending /\ op' = op
          /\ open_files' = open_files
      BY <1>11 DEF vars
    <2>2. Typed'
      BY <2>1 DEF IInv, Typed
    <2>3. Saved'
      BY <2>1 DEF IInv, Saved, Quiet, Idle
    <2>4. Final' = Final
      BY <2>1 DEF Final
    <2>5. Settled'
      BY <2>1, <2>4 DEF IInv, Settled
    <2>6. Chained'
      BY <2>1 DEF IInv, Chained, Before
    <2> QED BY <2>2, <2>3, <2>5, <2>6 DEF IInv
  <1> QED BY <1>2, <1>3, <1>4, <1>5, <1>6, <1>7, <1>8, <1>9, <1>10, <1>11, Zenon DEF Next

(* The inductive invariant holds for every set of paths and every disk of  *)
(* at most as many blocks as a bitmap has bits, as long as directories are *)
(* opened only to be read, open files are not removed and the power stays  *)
(* on during a remove: what every call leaves, and every image another     *)
(* call than a remove goes through, gives each block one owner and each    *)
(* inode one name, the stale copies of inodes in the handles of files      *)
(* included.                                                               *)
THEOREM DisksAreSound ==
    ASSUME WriteDirs = FALSE, RemoveOpen = FALSE, CutRemove = FALSE
    PROVE  Spec => []IInv
  <1>1. Init => IInv
    BY InitIInv
  <1>2. IInv /\ [Next]_vars => IInv'
    BY NextIInv, Zenon
  <1> QED BY <1>1, <1>2, PTL DEF Spec

(* No name leads to an inode that is free, and no pointer to a block that  *)
(* is: whatever a power cut leaves, txfs_alloc_inode and txfs_alloc_block  *)
(* never hand out what a file still holds (the order of the disk writes in *)
(* txfs_open, txfs_mkdir, txfs_dir_append and txfs_write).                 *)
THEOREM NothingReachableIsFree ==
    ASSUME WriteDirs = FALSE, RemoveOpen = FALSE, CutRemove = FALSE
    PROVE  Spec => []ReachableIsMarked
  <1>1. IInv => ReachableIsMarked
    <2> SUFFICES ASSUME IInv, Quiet PROVE ReachableIsMarked
      BY DEF ReachableIsMarked
    <2>1. disk \in DiskT /\ Safe(disk)
      BY DEF IInv, Typed, Saved
    <2> QED BY <2>1, SafeMarks DEF ReachableIsMarked
  <1> QED BY <1>1, DisksAreSound, PTL

(* No block is reached from two places: two files never share one, not     *)
(* even when two handles write the same file and each writes its own copy  *)
(* of the inode back (txfs_get_block, txfs_write, txfs_remove).            *)
THEOREM NoBlockIsShared ==
    ASSUME WriteDirs = FALSE, RemoveOpen = FALSE, CutRemove = FALSE
    PROVE  Spec => []BlocksOwnedOnce
  <1>1. IInv => BlocksOwnedOnce
    <2> SUFFICES ASSUME IInv, Quiet PROVE BlocksOwnedOnce
      BY DEF BlocksOwnedOnce
    <2>1. disk \in DiskT /\ Safe(disk)
      BY DEF IInv, Typed, Saved
    <2>2. ASSUME NEW q \in References(disk), NEW r \in References(disk),
                 Target(disk, q) = Target(disk, r)
          PROVE  q = r
      BY <2>1, <2>2, SafeOwns
    <2> QED BY <2>2 DEF BlocksOwnedOnce
  <1> QED BY <1>1, DisksAreSound, PTL

(* Whatever a remove has left of it, what can be reached are inodes.       *)
LEMMA EntryIsInode ==
    ASSUME NEW d \in DiskT, NEW x \in InodeT, NEW k \in Nat
    PROVE  Entry(d, x, k).inode \in Inodes
  <1> DEFINE q == k \div DirentsPerBlock  e == k % DirentsPerBlock  r == Route(q)
             b == BlockOf(d, x, q)
  <1>1. q \in Nat /\ e \in Ents
    <2>1. q \in Nat /\ e \in 0 .. DirentsPerBlock - 1
      BY Sizes, Divided
    <2> HIDE DEF q, e
    <2> QED BY <2>1 DEF Ents
  <1>2. Entry(d, x, k) = IF b = None THEN NoEntry ELSE d.block[b].ent[e]
    BY Zenon DEF Entry
  <1>3. b = At(d, x, r)
    BY Zenon DEF BlockOf
  <1>4. r = <<>> \/ Leads(r)
    BY <1>1, RouteLeads
  <1>5. b \in Links
    <2>1. CASE r = <<>>
      <3>1. \A f : f = <<>> => At(d, x, f) = None
        BY DEF At
      <3> HIDE DEF r, b
      <3> QED BY <1>3, <2>1, <3>1, Numbers DEF None
    <2>2. CASE Leads(r)
      <3>1. PICK at : IsWay(at, d, x, r)
        BY <2>2, WayExists
      <3>2. At(d, x, r) = at[Len(r)]
        BY <3>1 DEF IsWay
      <3>3. at[Len(r)] \in Links
        BY <2>2, <3>1 DEF IsWay, Leads
      <3> QED BY <1>3, <3>2, <3>3
    <2> QED BY <1>4, <2>1, <2>2
  <1> HIDE DEF q, e, r, b
  <1>6. NoEntry.inode \in Inodes
    BY Numbers DEF NoEntry, None
  <1>7. ASSUME b # None PROVE d.block[b].ent[e].inode \in Inodes
    <2>1. d.block[b] \in BlockT
      BY <1>5, <1>7, Numbers DEF None, DiskT
    <2>2. d.block[b].ent[e] \in EntryT
      BY <1>1, <2>1 DEF BlockT
    <2> QED BY <2>2 DEF EntryT
  <1> QED BY <1>2, <1>6, <1>7

LEMMA ReachableInodes ==
    ASSUME NEW d \in DiskT
    PROVE  Reachable(d) \subseteq Inodes
  <1>1. ASSUME NEW S \in SUBSET Inodes PROVE Named(d, S) \subseteq Inodes
    <2>1. ASSUME NEW i \in Dirs(d, S), NEW k \in 0 .. d.inode[i].size - 1
          PROVE  Entry(d, d.inode[i], k).inode \in Inodes
      <3>1. i \in Inodes
        BY DEF Dirs
      <3>2. d.inode[i] \in InodeT
        BY <3>1 DEF DiskT
      <3>3. k \in Nat
        BY <3>2 DEF InodeT
      <3> QED BY <3>2, <3>3, EntryIsInode
    <2> QED BY <2>1 DEF Named
  <1>2. {0} \in SUBSET Inodes
    BY Numbers
  <1>3. Named(d, {0}) \in SUBSET Inodes
    BY <1>1, <1>2
  <1> QED BY <1>1, <1>3 DEF Reachable

(* What one step does to the files that the call is not about.             *)
KeepsOthers ==
    \A i \in Reachable(disk) : disk.inode[i].type = "file" /\ i # op.inode =>
       \/ i \in Reachable(disk') /\ FileContents(disk', i) = FileContents(disk, i)
       \/ i \notin Reachable(disk') /\ op.name = "remove"

LEMMA WriteKeepsOthers ==
    ASSUME IInv, NamesApart, DiskWrite
    PROVE  KeepsOthers
  <1>1. disk \in DiskT /\ pending \in Seq(DiskT) /\ pending # <<>> /\ disk' = Head(pending)
    BY DEF IInv, Typed, DiskWrite
  <1>2. 1 \in 1 .. Len(pending) /\ disk' = pending[1] /\ disk' \in DiskT
    BY <1>1
  <1>3. IF op.name = "remove" THEN SameFiles(disk, pending[1])
        ELSE Frame(Before(pending, 1), pending[1], op.inode)
    BY <1>2 DEF IInv, Chained
  <1>4. CASE op.name = "remove"
    <2>1. ASSUME NEW i \in Reachable(disk) PROVE FileContents(disk', i) = FileContents(disk, i)
      <3>1. i \in Inodes
        BY <1>1, ReachableInodes
      <3> QED BY <1>1, <1>2, <1>3, <1>4, <3>1, SameContents
    <2> QED BY <1>4, <2>1 DEF KeepsOthers
  <1>5. CASE op.name # "remove"
    <2>1. Untouched(disk, disk', op.inode)
      BY <1>2, <1>3, <1>5 DEF Frame, Before
    <2> QED BY <2>1 DEF KeepsOthers, Untouched
  <1> QED BY <1>4, <1>5

LEMMA StillKeepsOthers ==
    ASSUME disk' = disk PROVE KeepsOthers
  BY DEF KeepsOthers

(* A call writes nothing into a file that is not its own: every other file *)
(* that can be reached keeps its name and its contents over every single   *)
(* disk write of txfs_open, txfs_mkdir and txfs_write, and its contents    *)
(* over those of txfs_remove, whatever the handles' copies of inodes say   *)
(* and wherever the power fails.  NamesApart is needed: a create below the *)
(* name of a file would write its entry into that file.                    *)
THEOREM OtherFilesKeep ==
    ASSUME WriteDirs = FALSE, RemoveOpen = FALSE, CutRemove = FALSE, NamesApart
    PROVE  Spec => UntouchedFilesKeepContents
  <1>1. IInv /\ [Next]_vars => [KeepsOthers]_vars
    <2> SUFFICES ASSUME IInv, Next PROVE KeepsOthers
      OBVIOUS
    <2>1. CASE DiskWrite
      BY <2>1, WriteKeepsOthers
    <2>2. CASE ~DiskWrite
      <3>1. ASSUME NEW path \in FilePaths, OpenNew(path) PROVE disk' = disk
        BY <3>1 DEF OpenNew, Doing
      <3>2. ASSUME NEW path \in FilePaths \union DirPaths,
                   NEW flag \in {"plain", "trunc", "append"}, OpenExisting(path, flag)
            PROVE  disk' = disk
        BY <3>2, Zenon DEF OpenExisting, Doing
      <3>3. ASSUME NEW path \in DirPaths, txfs_mkdir(path) PROVE disk' = disk
        BY <3>3 DEF txfs_mkdir, Doing
      <3>4. ASSUME NEW path \in FilePaths \union DirPaths, txfs_remove(path)
            PROVE  disk' = disk
        BY <3>4, Zenon DEF txfs_remove, Doing
      <3>5. ASSUME NEW fd \in Fds, txfs_close(fd) PROVE disk' = disk
        BY <3>5 DEF txfs_close
      <3>6. ASSUME NEW fd \in Fds, NEW n \in Counts, txfs_read(fd, n) PROVE disk' = disk
        BY <3>6, Zenon DEF txfs_read
      <3>7. ASSUME NEW fd \in Fds, NEW n \in Counts, NEW v \in Values, txfs_write(fd, n, v)
            PROVE  disk' = disk
        BY <3>7, Zenon DEF txfs_write, Doing
      <3>8. ASSUME PowerCut PROVE disk' = disk
        BY <3>8 DEF PowerCut
      <3>9. disk' = disk
        BY <2>2, <3>1, <3>2, <3>3, <3>4, <3>5, <3>6, <3>7, <3>8, Zenon DEF Next
      <3> QED BY <3>9, StillKeepsOthers
    <2> QED BY <2>1, <2>2
  <1>2. Spec => [][KeepsOthers]_vars
    <2>1. Spec => []IInv
      BY DisksAreSound
    <2> QED BY <1>1, <2>1, PTL DEF Spec
  <1>3. [][KeepsOthers]_vars => UntouchedFilesKeepContents
    BY PTL DEF UntouchedFilesKeepContents, KeepsOthers
  <1> QED BY <1>2, <1>3, PTL
=============================================================================
