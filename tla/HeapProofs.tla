----------------------------- MODULE HeapProofs -----------------------------
(***************************************************************************)
(* The kernel heap, proved for every size of heap, headers, footers and    *)
(* smallest block, every number of classes and all sizes asked for.        *)
(***************************************************************************)
EXTENDS Heap, WellFoundedInduction, TLAPS

(* A set of numbers has a least one, and Least finds it.                   *)
LEMMA LeastExists ==
    ASSUME NEW S \in SUBSET Nat, S # {}
    PROVE  Least(S) \in S /\ \A y \in S : Least(S) <= y
  <1> DEFINE R == OpToRel(<, Nat)
  <1>1. IsWellFoundedOn(R, Nat)
    BY NatLessThanWellFounded, Zenon
  <1>2. \A y, z \in Nat : y < z => <<y, z>> \in R
    BY Zenon DEF OpToRel
  <1> HIDE DEF R
  <1>3. PICK x \in S : \A y \in S : ~ (<<y, x>> \in R)
    BY <1>1, WFMin, Zenon
  <1>4. ASSUME NEW y \in S PROVE x <= y
    <2>1. ~(y < x)
      BY <1>2, <1>3, Zenon
    <2> QED BY <2>1
  <1>5. \E z \in S : \A y \in S : z <= y
    BY <1>4
  <1> QED BY <1>5 DEF Least

(* Rounding up goes to no less, and by less than the unit.                 *)
LEMMA RoundsUp ==
    ASSUME NEW n \in Nat, NEW unit \in Nat \ {0}
    PROVE  RoundUp(n, unit) \in Nat /\ n <= RoundUp(n, unit) /\ RoundUp(n, unit) <= n + unit - 1
  <1> DEFINE a == n + unit - 1  q == a \div unit  r == a % unit
  <1>1. a \in Nat
    OBVIOUS
  <1>2. q \in Nat /\ r \in 0 .. unit - 1 /\ a = unit * q + r
    BY <1>1
  <1> HIDE DEF q, r
  <1>3. unit * q = q * unit /\ unit * q \in Nat
    BY <1>2
  <1>4. q * unit \in Nat /\ n <= q * unit /\ q * unit <= n + unit - 1
    BY <1>2, <1>3
  <1> QED BY <1>4 DEF q, RoundUp

-----------------------------------------------------------------------------
(* The lists of free blocks.                                               *)
Holds(list, x) == \E k \in DOMAIN list : list[k] = x
Once(list) == \A j, k \in DOMAIN list : list[j] = list[k] => j = k

LEMMA Unlinked ==
    ASSUME NEW S, NEW list \in Seq(S), Once(list), NEW b, Holds(list, b)
    PROVE  LET rest == RemoveAt(list, Position(list, b))
           IN  /\ rest \in Seq(S) /\ Once(rest)
               /\ \A x : Holds(rest, x) <=> Holds(list, x) /\ x # b
  <1> DEFINE k == Position(list, b)  rest == RemoveAt(list, k)  n == Len(list)
  <1>1. k \in DOMAIN list /\ list[k] = b
    BY DEF Holds, Position
  <1> HIDE DEF k
  <1>2. k \in 1 .. n /\ n \in Nat
    BY <1>1
  <1>3. /\ rest \in Seq(S) /\ Len(rest) = n - 1 /\ DOMAIN rest = 1 .. n - 1
        /\ \A i \in 1 .. n - 1 : rest[i] = IF i < k THEN list[i] ELSE list[i + 1]
    <2> DEFINE front == SubSeq(list, 1, k - 1)  back == SubSeq(list, k + 1, n)
    <2>1. front \in Seq(S) /\ Len(front) = k - 1 /\ \A i \in 1 .. k - 1 : front[i] = list[i]
      BY <1>2
    <2>2. back \in Seq(S) /\ Len(back) = n - k /\ \A i \in 1 .. n - k : back[i] = list[k + i]
      BY <1>2
    <2>3. rest = front \o back
      BY DEF RemoveAt
    <2> HIDE DEF front, back, rest
    <2>4. rest \in Seq(S) /\ Len(rest) = n - 1 /\ DOMAIN rest = 1 .. n - 1
      BY <1>2, <2>1, <2>2, <2>3
    <2>5. ASSUME NEW i \in 1 .. n - 1 PROVE rest[i] = IF i < k THEN list[i] ELSE list[i + 1]
      <3>1. CASE i < k
        BY <1>2, <2>1, <2>2, <2>3, <3>1
      <3>2. CASE i >= k
        <4>1. rest[i] = back[i - (k - 1)]
          BY <1>2, <2>1, <2>2, <2>3, <3>2
        <4>2. i - (k - 1) \in 1 .. n - k /\ k + (i - (k - 1)) = i + 1
          BY <1>2, <3>2
        <4> QED BY <1>2, <2>2, <3>2, <4>1, <4>2
      <3> QED BY <1>2, <3>1, <3>2
    <2> QED BY <2>4, <2>5
  <1> HIDE DEF rest, n
  <1>4. DOMAIN list = 1 .. n
    BY DEF n
  <1>5. Once(rest)
    <2> SUFFICES ASSUME NEW i \in 1 .. n - 1, NEW j \in 1 .. n - 1, rest[i] = rest[j]
                 PROVE  i = j
      BY <1>3 DEF Once
    <2> DEFINE at(l) == IF l < k THEN l ELSE l + 1
    <2>1. at(i) \in 1 .. n /\ at(j) \in 1 .. n /\ list[at(i)] = rest[i] /\ list[at(j)] = rest[j]
      BY <1>2, <1>3
    <2>2. at(i) = at(j)
      BY <1>4, <2>1, Zenon DEF Once
    <2> QED BY <1>2, <2>2
  <1>6. ASSUME NEW x PROVE Holds(rest, x) <=> Holds(list, x) /\ x # b
    <2>1. ASSUME NEW i \in 1 .. n - 1, rest[i] = x PROVE Holds(list, x) /\ x # b
      <3>1. CASE i < k
        BY <1>1, <1>2, <1>3, <1>4, <2>1, <3>1 DEF Holds, Once
      <3>2. CASE i >= k
        <4>1. i + 1 \in 1 .. n /\ i + 1 # k /\ list[i + 1] = x
          BY <1>2, <1>3, <2>1, <3>2
        <4> QED BY <1>1, <1>4, <4>1 DEF Holds, Once
      <3> QED BY <1>2, <3>1, <3>2
    <2>2. ASSUME NEW i \in 1 .. n, list[i] = x, x # b PROVE Holds(rest, x)
      <3>1. CASE i < k
        BY <1>2, <1>3, <2>2, <3>1, SMTT(30) DEF Holds
      <3>2. CASE i > k
        <4>1. i - 1 \in 1 .. n - 1 /\ rest[i - 1] = list[i]
          BY <1>2, <1>3, <3>2
        <4> QED BY <1>3, <2>2, <4>1 DEF Holds
      <3> QED BY <1>1, <1>2, <2>2, <3>1, <3>2
    <2> QED BY <1>3, <1>4, <2>1, <2>2 DEF Holds
  <1> QED BY <1>3, <1>5, <1>6 DEF rest, k

LEMMA Pushed ==
    ASSUME NEW S, NEW list \in Seq(S), Once(list), NEW b \in S, ~Holds(list, b)
    PROVE  LET more == <<b>> \o list
           IN  /\ more \in Seq(S) /\ Once(more)
               /\ \A x : Holds(more, x) <=> Holds(list, x) \/ x = b
  <1> DEFINE more == <<b>> \o list  n == Len(list)
  <1>1. /\ more \in Seq(S) /\ DOMAIN more = 1 .. n + 1 /\ DOMAIN list = 1 .. n /\ n \in Nat
        /\ more[1] = b /\ \A i \in 1 .. n : more[i + 1] = list[i]
    OBVIOUS
  <1> HIDE DEF more, n
  <1>2. \A i \in 1 .. n + 1 : i # 1 => i - 1 \in 1 .. n /\ more[i] = list[i - 1]
    <2> SUFFICES ASSUME NEW i \in 1 .. n + 1, i # 1
                 PROVE  i - 1 \in 1 .. n /\ more[i] = list[i - 1]
      OBVIOUS
    <2>1. i - 1 \in 1 .. n /\ (i - 1) + 1 = i
      BY <1>1
    <2> QED BY <1>1, <2>1
  <1>3. Once(more)
    <2> SUFFICES ASSUME NEW i \in 1 .. n + 1, NEW j \in 1 .. n + 1, more[i] = more[j]
                 PROVE  i = j
      BY <1>1 DEF Once
    <2>1. CASE i = 1 /\ j # 1
      BY <1>1, <1>2, <2>1 DEF Holds
    <2>2. CASE i # 1 /\ j = 1
      BY <1>1, <1>2, <2>2 DEF Holds
    <2>3. CASE i # 1 /\ j # 1
      <3>1. i - 1 = j - 1
        <4>1. /\ i - 1 \in 1 .. n /\ j - 1 \in 1 .. n
              /\ list[i - 1] = more[i] /\ list[j - 1] = more[j]
          BY <1>2, <2>3
        <4> QED BY <1>1, <4>1, Zenon DEF Once
      <3> QED BY <1>1, <3>1
    <2> QED BY <2>1, <2>2, <2>3
  <1>4. ASSUME NEW x PROVE Holds(more, x) <=> Holds(list, x) \/ x = b
    <2>1. Holds(more, x) => Holds(list, x) \/ x = b
      <3> SUFFICES ASSUME NEW i \in 1 .. n + 1, more[i] = x, i # 1 PROVE Holds(list, x)
        BY <1>1 DEF Holds
      <3> QED BY <1>1, <1>2 DEF Holds
    <2>2. x = b => Holds(more, x)
      BY <1>1 DEF Holds
    <2>3. ASSUME NEW i \in 1 .. n, list[i] = x PROVE Holds(more, x)
      BY <1>1, <2>3, SMTT(30) DEF Holds
    <2> QED BY <1>1, <2>1, <2>2, <2>3 DEF Holds
  <1> QED BY <1>1, <1>3, <1>4 DEF more
-----------------------------------------------------------------------------
(* The blocks B of a heap with headers H and footers F lie side by side    *)
(* from its beginning to its end.                                          *)
Header  == [magic : {"none", "free", "used"}, size : Nat, size_class : Classes]
Headers == [Addrs -> Header]
Footers == [Addrs -> Nat]
End(H, b) == b + Overhead + H[b].size
SideBySide(H, F, B) ==
    /\ B \subseteq Addrs /\ HeapBase \in B
    /\ \A b \in B : /\ H[b].magic \in {"free", "used"}
                    /\ End(H, b) \in B \union {HeapEnd}
                    /\ F[FooterOf(b, H[b].size)] = H[b].size
    /\ \A a, b \in B : a < b => End(H, a) <= b
    /\ \A b \in B \ {HeapBase} : \E a \in B : End(H, a) = b

LEMMA Numbers ==
    /\ HeapBase \in Nat \ {0} /\ HdrSize \in Nat \ {0} /\ FtrSize \in Nat \ {0}
    /\ Overhead \in Nat \ {0} /\ Overhead = HdrSize + FtrSize
    /\ HeapSize \in Nat /\ HeapEnd \in Nat /\ HeapEnd = HeapBase + HeapSize
    /\ Overhead + MinBlock <= HeapSize /\ MinBlock \in Nat \ {0} /\ PtrSize \in Nat \ {0}
    /\ Addrs = HeapBase .. HeapEnd - 1 /\ Addrs \subseteq Nat \ {0}
    /\ NumClasses \in Nat \ {0} /\ Classes \subseteq Nat /\ NumClasses - 1 \in Classes
    /\ 0 \in Classes
  BY HeapAssumption DEF Overhead, HeapEnd, Addrs, Classes

(* No other block, and no other block's footer, lies between the beginning *)
(* of a block and its end.                                                 *)
LEMMA Interior ==
    ASSUME NEW H \in Headers, NEW F, NEW B, SideBySide(H, F, B), NEW b \in B
    PROVE  /\ H[b].size \in Nat /\ b \in Nat /\ End(H, b) \in Nat
           /\ FooterOf(b, H[b].size) \in Nat /\ b < End(H, b)
           /\ b < FooterOf(b, H[b].size) /\ FooterOf(b, H[b].size) < End(H, b)
           /\ End(H, b) <= HeapEnd /\ HeapBase <= b
           /\ \A c \in B \ {b} : \A x \in b .. End(H, b) - 1 :
                 c # x /\ FooterOf(c, H[c].size) # x
  <1>1. \A c \in B : c \in Nat /\ H[c].size \in Nat /\ c \in Addrs
    BY Numbers DEF Headers, Header, SideBySide
  <1>2. \A c \in B : /\ End(H, c) \in Nat /\ FooterOf(c, H[c].size) = End(H, c) - FtrSize
                     /\ FooterOf(c, H[c].size) \in Nat /\ c < End(H, c)
                     /\ c < FooterOf(c, H[c].size) /\ FooterOf(c, H[c].size) < End(H, c)
    <2>1. ASSUME NEW c \in Nat, NEW z \in Nat
          PROVE  /\ c + Overhead + z \in Nat /\ c + HdrSize + z = c + Overhead + z - FtrSize
                 /\ c + HdrSize + z \in Nat /\ c < c + Overhead + z
                 /\ c < c + HdrSize + z /\ c + HdrSize + z < c + Overhead + z
      BY Numbers
    <2> SUFFICES ASSUME NEW c \in B
                 PROVE  /\ End(H, c) \in Nat /\ FooterOf(c, H[c].size) = End(H, c) - FtrSize
                        /\ FooterOf(c, H[c].size) \in Nat /\ c < End(H, c)
                        /\ c < FooterOf(c, H[c].size) /\ FooterOf(c, H[c].size) < End(H, c)
      BY Zenon
    <2>2. c \in Nat /\ H[c].size \in Nat
      BY <1>1
    <2> DEFINE z == H[c].size
    <2>3. z \in Nat /\ End(H, c) = c + Overhead + z /\ FooterOf(c, H[c].size) = c + HdrSize + z
      BY <2>2 DEF End, FooterOf
    <2> HIDE DEF z
    <2>4. /\ c + Overhead + z \in Nat /\ c + HdrSize + z = c + Overhead + z - FtrSize
          /\ c + HdrSize + z \in Nat /\ c < c + Overhead + z
          /\ c < c + HdrSize + z /\ c + HdrSize + z < c + Overhead + z
      BY <2>1, <2>2, <2>3
    <2> QED BY <2>2, <2>3, <2>4, Numbers
  <1>3. End(H, b) <= HeapEnd
    BY <1>1, <1>2, Numbers DEF SideBySide
  <1>4. ASSUME NEW c \in B \ {b}, NEW x \in b .. End(H, b) - 1
        PROVE  c # x /\ FooterOf(c, H[c].size) # x
    <2>1. CASE c < b
      <3>1. End(H, c) <= b
        BY <2>1 DEF SideBySide
      <3> QED BY <1>1, <1>2, <1>4, <2>1, <3>1
    <2>2. CASE b < c
      <3>1. End(H, b) <= c
        BY <2>2 DEF SideBySide
      <3> QED BY <1>1, <1>2, <1>4, <2>2, <3>1
    <2> QED BY <1>1, <1>4, <2>1, <2>2
  <1> QED BY <1>1, <1>2, <1>3, <1>4, Numbers

(* b becomes a block of n and, at s, a free block of r.                    *)
SplitOf(H, F, B, b, n, r, s, H2, F2) ==
    /\ H \in Headers /\ SideBySide(H, F, B) /\ b \in B /\ n \in Nat /\ r \in Nat
    /\ H[b].size = n + Overhead + r /\ s = b + Overhead + n /\ H2 \in Headers
    /\ H2[b].size = n /\ H2[b].magic \in {"free", "used"}
    /\ H2[s].size = r /\ H2[s].magic = "free"
    /\ \A c \in B \ {b} : H2[c].size = H[c].size /\ H2[c].magic = H[c].magic
    /\ F2[FooterOf(b, n)] = n /\ F2[FooterOf(s, r)] = r
    /\ \A c \in B \ {b} : F2[FooterOf(c, H[c].size)] = F[FooterOf(c, H[c].size)]

LEMMA SplitInTwo ==
    ASSUME NEW H, NEW F, NEW B, NEW b, NEW n, NEW r, NEW s, NEW H2, NEW F2,
           SplitOf(H, F, B, b, n, r, s, H2, F2)
    PROVE  /\ SideBySide(H2, F2, B \union {s})
           /\ s \notin B /\ End(H2, b) = s /\ End(H2, s) = End(H, b)
           /\ \A c \in B \ {b} : End(H2, c) = End(H, c)
  <1> USE DEF SplitOf
  <1>0. /\ H[b].size \in Nat /\ b \in Nat /\ End(H, b) \in Nat /\ End(H, b) <= HeapEnd
        /\ HeapBase <= b
    BY Interior
  <1>1. /\ b \in Nat /\ s \in Nat /\ b < s /\ s < End(H, b) /\ s \in Addrs
        /\ End(H2, b) = s /\ End(H2, s) = End(H, b) /\ End(H, b) \in Nat /\ End(H, b) <= HeapEnd
    <2>1. s \in Nat /\ b < s /\ s < End(H, b) /\ End(H2, b) = s /\ End(H2, s) = End(H, b)
      BY <1>0, Numbers DEF End
    <2> QED BY <1>0, <2>1, Numbers
  <1>2. s \notin B
    BY <1>1, Interior
  <1>3. \A c \in B \ {b} : End(H2, c) = End(H, c)
    BY DEF End
  <1>4. ASSUME NEW c \in B \union {s}
        PROVE  /\ H2[c].magic \in {"free", "used"} /\ End(H2, c) \in B \union {s, HeapEnd}
               /\ F2[FooterOf(c, H2[c].size)] = H2[c].size
    BY <1>1, <1>3, <1>4 DEF SideBySide
  <1>5. ASSUME NEW c \in B \union {s}, NEW d \in B \union {s}, c < d PROVE End(H2, c) <= d
    <2>1. \A x \in B : x \in Nat /\ End(H, x) \in Nat
      BY Interior
    <2>2. CASE c = s
      <3>1. d # s
        BY <1>1, <1>5, <2>2
      <3>2. d \in B /\ d \in Nat /\ s < d
        BY <1>5, <2>1, <2>2, <3>1
      <3>3. b < d
        BY <1>1, <3>2
      <3> QED BY <1>1, <2>2, <3>2, <3>3 DEF SideBySide
    <2>3. CASE c = b
      <3>1. d = s \/ (d \in B /\ b < d)
        BY <1>5, <2>3
      <3>2. d # s => End(H, b) <= d
        BY <3>1 DEF SideBySide
      <3> QED BY <1>1, <2>1, <2>3, <3>1, <3>2
    <2>4. CASE c \in B \ {b} /\ d = s
      <3>1. c < b
        <4>1. c # b /\ (b < c => End(H, b) <= c)
          BY <2>4 DEF SideBySide
        <4> QED BY <1>1, <1>5, <2>1, <2>4, <4>1
      <3>2. End(H, c) <= b
        BY <2>4, <3>1 DEF SideBySide
      <3> QED BY <1>1, <1>3, <2>1, <2>4, <3>2
    <2>5. CASE c \in B \ {b} /\ d \in B
      BY <1>3, <1>5, <2>5 DEF SideBySide
    <2> QED BY <2>2, <2>3, <2>4, <2>5
  <1>6. ASSUME NEW d \in (B \union {s}) \ {HeapBase} PROVE \E a \in B \union {s} : End(H2, a) = d
    <2>1. CASE d = s
      BY <1>1, <2>1
    <2>2. CASE d \in B
      <3>1. PICK a \in B : End(H, a) = d
        BY <1>6, <2>2 DEF SideBySide
      <3> QED BY <1>1, <1>3, <3>1
    <2> QED BY <2>1, <2>2
  <1>7. B \union {s} \subseteq Addrs /\ HeapBase \in B \union {s}
    BY <1>1 DEF SideBySide
  <1> QED BY <1>1, <1>2, <1>3, <1>4, <1>5, <1>6, <1>7 DEF SideBySide

(* The blocks a and b, side by side, become one.                           *)
MergeOf(H, F, B, a, b, H2, F2) ==
    LET n == H[a].size + Overhead + H[b].size
    IN  /\ H \in Headers /\ SideBySide(H, F, B) /\ a \in B /\ b \in B /\ End(H, a) = b
        /\ H2 \in Headers /\ H2[a].size = n /\ H2[a].magic \in {"free", "used"}
        /\ \A c \in B \ {a, b} : H2[c].size = H[c].size /\ H2[c].magic = H[c].magic
        /\ F2[FooterOf(a, n)] = n
        /\ \A c \in B \ {a, b} : F2[FooterOf(c, H[c].size)] = F[FooterOf(c, H[c].size)]

LEMMA MergedInOne ==
    ASSUME NEW H, NEW F, NEW B, NEW a, NEW b, NEW H2, NEW F2, MergeOf(H, F, B, a, b, H2, F2)
    PROVE  /\ SideBySide(H2, F2, B \ {b})
           /\ a # b /\ End(H2, a) = End(H, b) /\ End(H, b) # b
           /\ \A c \in B \ {a, b} : End(H2, c) = End(H, c) /\ End(H, c) # b
  <1> USE DEF MergeOf
  <1>1. \A x \in B : x \in Nat /\ End(H, x) \in Nat /\ x < End(H, x) /\ HeapBase <= x
                     /\ H[x].size \in Nat
    BY Interior
  <1>2. a < b /\ End(H2, a) = End(H, b)
    BY <1>1, Numbers DEF End
  <1>3. \A c \in B \ {a, b} : End(H2, c) = End(H, c)
    BY DEF End
  <1>4. \A c \in B \ {a} : End(H, c) # b
    <2> SUFFICES ASSUME NEW c \in B \ {a}, End(H, c) = b PROVE FALSE
      OBVIOUS
    <2>1. (c < a => End(H, c) <= a) /\ (a < c => End(H, a) <= c)
      BY DEF SideBySide
    <2> QED BY <1>1, <1>2, <2>1
  <1>5. b # HeapBase
    BY <1>1, <1>2, Numbers
  <1>6. ASSUME NEW c \in B \ {b}
        PROVE  /\ H2[c].magic \in {"free", "used"} /\ End(H2, c) \in (B \ {b}) \union {HeapEnd}
               /\ F2[FooterOf(c, H2[c].size)] = H2[c].size
    <2>1. CASE c = a
      <3>1. End(H, b) \in B \union {HeapEnd} /\ End(H, b) # b
        BY <1>1 DEF SideBySide
      <3> QED BY <1>2, <2>1, <3>1
    <2>2. CASE c # a
      BY <1>3, <1>4, <2>2 DEF SideBySide
    <2> QED BY <2>1, <2>2
  <1>7. ASSUME NEW c \in B \ {b}, NEW d \in B \ {b}, c < d PROVE End(H2, c) <= d
    <2>1. CASE c = a
      <3>1. b <= d
        BY <1>7, <2>1 DEF SideBySide
      <3>2. b < d
        BY <1>1, <3>1
      <3>3. End(H, b) <= d
        BY <3>2 DEF SideBySide
      <3> QED BY <1>2, <2>1, <3>3
    <2>2. CASE c # a
      BY <1>3, <1>7, <2>2 DEF SideBySide
    <2> QED BY <2>1, <2>2
  <1>8. ASSUME NEW d \in (B \ {b}) \ {HeapBase} PROVE \E c \in B \ {b} : End(H2, c) = d
    <2>1. PICK c \in B : End(H, c) = d
      BY <1>8 DEF SideBySide
    <2>2. CASE c = b
      BY <1>2, <2>1, <2>2
    <2>3. CASE c = a
      BY <1>8, <2>1, <2>3
    <2>4. CASE c \in B \ {a, b}
      BY <1>3, <2>1, <2>4
    <2> QED BY <2>2, <2>3, <2>4
  <1>9. B \ {b} \subseteq Addrs /\ HeapBase \in B \ {b}
    BY <1>5 DEF SideBySide
  <1> QED BY <1>1, <1>2, <1>3, <1>4, <1>6, <1>7, <1>8, <1>9 DEF SideBySide
-----------------------------------------------------------------------------
(* The helpers of mm.c, on a record of headers, footers and lists.  G is   *)
(* the set of blocks that are in a list.                                   *)
Records == [hdr : Headers, ftr : Footers, lists : [Classes -> Seq(Addrs)]]
Linked(m, G) ==
    /\ \A c \in Classes : /\ Once(m.lists[c])
                          /\ \A x : Holds(m.lists[c], x) <=> x \in G /\ m.hdr[x].size_class = c
    /\ \A x \in G : m.hdr[x].size_class = size_to_class(m.hdr[x].size)

LEMMA ClassOfSize == \A n : size_to_class(n) \in Classes
  <1> SUFFICES ASSUME NEW n PROVE size_to_class(n) \in Classes
    OBVIOUS
  <1> DEFINE S == {c \in Classes : n <= MinBlock * 2 ^ c} \union {NumClasses - 1}
  <1>1. S \subseteq Classes /\ S # {}
    BY Numbers
  <1>2. S \in SUBSET Nat
    BY <1>1, Numbers
  <1> HIDE DEF S
  <1>3. Least(S) \in S
    BY <1>1, <1>2, LeastExists
  <1> QED BY <1>1, <1>3 DEF S, size_to_class

LEMMA Removes ==
    ASSUME NEW m \in Records, NEW G \in SUBSET Addrs, Linked(m, G), NEW b \in G,
           NEW m2, m2 = fl_remove(m, b)
    PROVE  m2 \in Records /\ m2.hdr = m.hdr /\ m2.ftr = m.ftr /\ Linked(m2, G \ {b})
  <1> DEFINE cls == m.hdr[b].size_class
             list == m.lists[cls]  rest == RemoveAt(list, Position(list, b))
  <1>1. cls \in Classes /\ list \in Seq(Addrs) /\ Once(list) /\ Holds(list, b)
    <2>1. cls \in Classes
      BY DEF Records, Headers, Header
    <2> QED BY <2>1 DEF Records, Linked
  <1>2. m2.hdr = m.hdr /\ m2.ftr = m.ftr /\ m2.lists = [m.lists EXCEPT ![cls] = rest]
    BY DEF fl_remove, Records
  <1>3. /\ rest \in Seq(Addrs) /\ Once(rest)
        /\ \A x : Holds(rest, x) <=> Holds(list, x) /\ x # b
    <2> HIDE DEF list
    <2> QED BY <1>1, Unlinked, Zenon
  <1> HIDE DEF rest
  <1>4. m2 \in Records
    <2>1. [m.lists EXCEPT ![cls] = rest] \in [Classes -> Seq(Addrs)]
      BY <1>3 DEF Records
    <2> QED BY <2>1 DEF fl_remove, Records, rest
  <1>5. m2.lists[cls] = rest /\ \A c \in Classes \ {cls} : m2.lists[c] = m.lists[c]
    BY <1>1, <1>2 DEF Records
  <1>6. ASSUME NEW c \in Classes
        PROVE  /\ Once(m2.lists[c])
               /\ \A x : Holds(m2.lists[c], x) <=> x \in G \ {b} /\ m2.hdr[x].size_class = c
    <2>1. CASE c = cls
      <3>1. \A x : Holds(list, x) <=> x \in G /\ m.hdr[x].size_class = c
        BY <1>1, <2>1 DEF Linked
      <3> QED BY <1>2, <1>3, <1>5, <2>1, <3>1
    <2>2. CASE c # cls
      BY <1>2, <1>5, <2>2 DEF Linked
    <2> QED BY <2>1, <2>2
  <1>7. \A x \in G \ {b} : m2.hdr[x].size_class = size_to_class(m2.hdr[x].size)
    BY <1>2 DEF Linked
  <1> QED BY <1>2, <1>4, <1>6, <1>7 DEF Linked

LEMMA Pushes ==
    ASSUME NEW m \in Records, NEW G \in SUBSET Addrs, Linked(m, G), NEW b \in Addrs \ G,
           NEW m2, m2 = fl_push(m, b)
    PROVE  /\ m2 \in Records /\ m2.ftr = m.ftr /\ Linked(m2, G \union {b})
           /\ \A a \in Addrs : m2.hdr[a].size = m.hdr[a].size /\ m2.hdr[a].magic = m.hdr[a].magic
  <1> DEFINE cls == size_to_class(m.hdr[b].size)
             list == m.lists[cls]  more == <<b>> \o list
  <1>1. cls \in Classes
    BY ClassOfSize
  <1> HIDE DEF cls
  <1>2. list \in Seq(Addrs) /\ Once(list) /\ ~Holds(list, b)
    BY <1>1 DEF Records, Linked
  <1>3. /\ m2.hdr = [m.hdr EXCEPT ![b].size_class = cls] /\ m2.ftr = m.ftr
        /\ m2.lists = [m.lists EXCEPT ![cls] = more]
    BY DEF fl_push, Records, cls
  <1>4. /\ more \in Seq(Addrs) /\ Once(more)
        /\ \A x : Holds(more, x) <=> Holds(list, x) \/ x = b
    <2> HIDE DEF list
    <2> QED BY <1>2, Pushed, Zenon
  <1> HIDE DEF more
  <1>5. m2.hdr \in Headers
    <2>1. m.hdr \in Headers
      BY DEF Records
    <2>2. m2.hdr = [m.hdr EXCEPT ![b] = [@ EXCEPT !.size_class = cls]]
      BY <1>3
    <2>3. [m.hdr[b] EXCEPT !.size_class = cls] \in Header
      BY <1>1, <2>1 DEF Headers, Header
    <2> QED BY <2>1, <2>2, <2>3 DEF Headers
  <1>6. m2 \in Records
    <2>1. /\ [m.lists EXCEPT ![cls] = more] \in [Classes -> Seq(Addrs)]
          /\ [m.hdr EXCEPT ![b].size_class = cls] \in Headers
      BY <1>3, <1>4, <1>5 DEF Records
    <2> QED BY <2>1 DEF fl_push, Records, cls, more
  <1>7. m2.lists[cls] = more /\ \A c \in Classes \ {cls} : m2.lists[c] = m.lists[c]
    BY <1>1, <1>3 DEF Records
  <1>8. /\ m2.hdr[b].size_class = cls /\ \A a \in Addrs \ {b} : m2.hdr[a] = m.hdr[a]
        /\ \A a \in Addrs : m2.hdr[a].size = m.hdr[a].size /\ m2.hdr[a].magic = m.hdr[a].magic
    BY <1>3 DEF Records, Headers, Header
  <1>9. ASSUME NEW c \in Classes
        PROVE  /\ Once(m2.lists[c])
               /\ \A x : Holds(m2.lists[c], x)
                            <=> x \in G \union {b} /\ m2.hdr[x].size_class = c
    <2>1. \A x \in G : m2.hdr[x] = m.hdr[x]
      BY <1>8
    <2>2. CASE c = cls
      <3>1. \A x : Holds(list, x) <=> x \in G /\ m.hdr[x].size_class = c
        BY <1>1, <2>2 DEF Linked
      <3> QED BY <1>4, <1>7, <1>8, <2>1, <2>2, <3>1
    <2>3. CASE c # cls
      <3>1. \A x : Holds(m.lists[c], x) <=> x \in G /\ m.hdr[x].size_class = c
        BY DEF Linked
      <3> QED BY <1>7, <1>8, <2>1, <2>3, <3>1 DEF Linked
    <2> QED BY <2>2, <2>3
  <1>10. \A x \in G \union {b} : m2.hdr[x].size_class = size_to_class(m2.hdr[x].size)
    BY <1>8 DEF Linked, cls
  <1> QED BY <1>3, <1>6, <1>8, <1>9, <1>10 DEF Linked

LEMMA Resizes ==
    ASSUME NEW m \in Records, NEW G \in SUBSET Addrs, Linked(m, G), NEW b \in Addrs \ G,
           NEW n \in Nat, FooterOf(b, n) \in Addrs,
           NEW m2, m2 = Resized(m, b, n)
    PROVE  /\ m2 \in Records /\ Linked(m2, G)
           /\ m2.hdr[b].size = n /\ m2.hdr[b].magic = m.hdr[b].magic
           /\ \A a \in Addrs \ {b} : m2.hdr[a] = m.hdr[a]
           /\ m2.ftr[FooterOf(b, n)] = n
           /\ \A a \in Addrs \ {FooterOf(b, n)} : m2.ftr[a] = m.ftr[a]
  <1> DEFINE f == FooterOf(b, n)
  <1> HIDE DEF f
  <1>1. /\ m2.hdr = [m.hdr EXCEPT ![b].size = n] /\ m2.ftr = [m.ftr EXCEPT ![f] = n]
        /\ m2.lists = m.lists
    BY DEF Resized, Records, f
  <1>2. m2.hdr \in Headers
    <2>1. m.hdr \in Headers
      BY DEF Records
    <2>2. m2.hdr = [m.hdr EXCEPT ![b] = [@ EXCEPT !.size = n]]
      BY <1>1
    <2>3. [m.hdr[b] EXCEPT !.size = n] \in Header
      BY <2>1 DEF Headers, Header
    <2> QED BY <2>1, <2>2, <2>3 DEF Headers
  <1>3. m2.ftr \in Footers /\ m2.ftr[f] = n /\ \A a \in Addrs \ {f} : m2.ftr[a] = m.ftr[a]
    BY <1>1 DEF Records, Footers, f
  <1>4. m2 \in Records
    <2>1. [m.hdr EXCEPT ![b].size = n] \in Headers /\ [m.ftr EXCEPT ![f] = n] \in Footers
      BY <1>1, <1>2, <1>3
    <2> QED BY <2>1 DEF Resized, Records, f
  <1>5. /\ m2.hdr[b].size = n /\ m2.hdr[b].magic = m.hdr[b].magic
        /\ \A a \in Addrs \ {b} : m2.hdr[a] = m.hdr[a]
    BY <1>1 DEF Records, Headers, Header
  <1>6. Linked(m2, G)
    <2>1. \A x \in G : m2.hdr[x] = m.hdr[x]
      BY <1>5
    <2> QED BY <1>1, <2>1 DEF Linked
  <1> QED BY <1>3, <1>4, <1>5, <1>6 DEF f

LEMMA Marks ==
    ASSUME NEW m \in Records, NEW G \in SUBSET Addrs, Linked(m, G), NEW b \in Addrs,
           NEW mark \in {"free", "used"},
           NEW m2, m2 = [m EXCEPT !.hdr[b].magic = mark]
    PROVE  /\ m2 \in Records /\ Linked(m2, G) /\ m2.ftr = m.ftr /\ m2.lists = m.lists
           /\ m2.hdr[b].size = m.hdr[b].size /\ m2.hdr[b].magic = mark
           /\ \A a \in Addrs \ {b} : m2.hdr[a] = m.hdr[a]
  <1>1. /\ m2.hdr = [m.hdr EXCEPT ![b].magic = mark] /\ m2.ftr = m.ftr /\ m2.lists = m.lists
    BY DEF Records
  <1>2. m2.hdr \in Headers
    <2>1. m.hdr \in Headers
      BY DEF Records
    <2>2. m2.hdr = [m.hdr EXCEPT ![b] = [@ EXCEPT !.magic = mark]]
      BY <1>1
    <2>3. [m.hdr[b] EXCEPT !.magic = mark] \in Header
      BY <2>1 DEF Headers, Header
    <2> QED BY <2>1, <2>2, <2>3 DEF Headers
  <1>3. m2 \in Records
    <2>1. [m.hdr EXCEPT ![b].magic = mark] \in Headers
      BY <1>1, <1>2
    <2> QED BY <2>1 DEF Records
  <1>4. /\ m2.hdr[b].size = m.hdr[b].size /\ m2.hdr[b].magic = mark
        /\ m2.hdr[b].size_class = m.hdr[b].size_class
        /\ \A a \in Addrs \ {b} : m2.hdr[a] = m.hdr[a]
    BY <1>1 DEF Records, Headers, Header
  <1>5. Linked(m2, G)
    <2>1. \A x \in G : m2.hdr[x].size = m.hdr[x].size /\ m2.hdr[x].size_class = m.hdr[x].size_class
      BY <1>4
    <2> QED BY <1>1, <2>1 DEF Linked
  <1> QED BY <1>1, <1>3, <1>4, <1>5
-----------------------------------------------------------------------------
(* P[b] is what is in use below the block b, so that its value at the end  *)
(* is heap_used: a sum over the blocks that no recursion is needed for.    *)
InUse(H, b) == IF H[b].magic = "used" THEN H[b].size ELSE 0
Counts(H, B, P, n) ==
    /\ P \in [B \union {HeapEnd} -> Int]
    /\ P[HeapBase] = 0 /\ P[HeapEnd] = n
    /\ \A b \in B : P[End(H, b)] = P[b] + InUse(H, b)

LEMMA CountsMark ==
    ASSUME NEW H \in Headers, NEW F, NEW B, SideBySide(H, F, B), NEW P, NEW n, Counts(H, B, P, n),
           NEW b \in B, NEW H2 \in Headers, \A c \in B : H2[c].size = H[c].size,
           \A c \in B \ {b} : H2[c].magic = H[c].magic,
           NEW d \in Int, InUse(H2, b) = InUse(H, b) + d
    PROVE  \E P2 : Counts(H2, B, P2, n + d)
  <1> DEFINE P2 == [x \in B \union {HeapEnd} |-> IF x > b THEN P[x] + d ELSE P[x]]
  <1>1. \A x \in B : x \in Nat /\ End(H, x) \in Nat /\ x < End(H, x) /\ HeapBase <= x
                     /\ End(H, x) <= HeapEnd /\ End(H2, x) = End(H, x)
                     /\ End(H, x) \in B \union {HeapEnd}
    <2>1. \A x \in B : End(H2, x) = End(H, x) /\ End(H, x) \in B \union {HeapEnd}
      BY DEF End, SideBySide
    <2> QED BY <2>1, Interior
  <1>2. \A x \in B \union {HeapEnd} : P[x] \in Int
    BY DEF Counts
  <1>3. P2 \in [B \union {HeapEnd} -> Int]
    BY <1>2
  <1>4. \A x \in B \union {HeapEnd} : P2[x] = IF x > b THEN P[x] + d ELSE P[x]
    OBVIOUS
  <1> HIDE DEF P2
  <1>5. P2[HeapBase] = 0
    BY <1>1, <1>4, Numbers DEF Counts, SideBySide
  <1>6. P2[HeapEnd] = n + d
    <2>1. HeapEnd > b
      BY <1>1, Numbers, SMTT(30)
    <2> QED BY <1>4, <2>1 DEF Counts
  <1>7. ASSUME NEW c \in B PROVE P2[End(H2, c)] = P2[c] + InUse(H2, c)
    <2>1. P[End(H, c)] = P[c] + InUse(H, c) /\ InUse(H, c) \in Int
      <3>1. H[c].size \in Nat
        BY Interior
      <3> QED BY <3>1 DEF Counts, InUse
    <2>2. CASE c = b
      <3>1. P2[b] = P[b] /\ P2[End(H, b)] = P[End(H, b)] + d
        BY <1>1, <1>4
      <3> QED BY <1>1, <1>2, <2>1, <2>2, <3>1
    <2>3. CASE c < b
      <3>1. End(H, c) <= b
        BY <2>3 DEF SideBySide
      <3>2. P2[c] = P[c] /\ P2[End(H, c)] = P[End(H, c)]
        BY <1>1, <1>4, <2>3, <3>1
      <3>3. InUse(H2, c) = InUse(H, c)
        BY <1>1, <2>3 DEF InUse
      <3> QED BY <1>1, <2>1, <3>2, <3>3
    <2>4. CASE b < c
      <3>1. P2[c] = P[c] + d /\ P2[End(H, c)] = P[End(H, c)] + d
        BY <1>1, <1>4, <2>4
      <3>2. InUse(H2, c) = InUse(H, c)
        BY <1>1, <2>4 DEF InUse
      <3> QED BY <1>1, <1>2, <2>1, <3>1, <3>2
    <2> QED BY <1>1, <2>2, <2>3, <2>4
  <1> QED BY <1>3, <1>5, <1>6, <1>7 DEF Counts

LEMMA CountsSplit ==
    ASSUME NEW H, NEW B, HeapBase \in B, HeapEnd \notin B, NEW P, NEW n, Counts(H, B, P, n),
           NEW H2, NEW b \in B, NEW s, s \notin B, s # HeapEnd, H[b].magic = "free",
           H2[b].magic = "free", H2[s].magic = "free",
           End(H2, b) = s, End(H2, s) = End(H, b), End(H, b) \in B \union {HeapEnd},
           \A c \in B \ {b} : /\ End(H2, c) = End(H, c) /\ InUse(H2, c) = InUse(H, c)
                              /\ End(H, c) \in B \union {HeapEnd}
    PROVE  \E P2 : Counts(H2, B \union {s}, P2, n)
  <1> DEFINE P2 == [x \in B \union {s, HeapEnd} |-> IF x = s THEN P[b] ELSE P[x]]
  <1>1. \A x \in B \union {HeapEnd} : P2[x] = P[x] /\ P[x] \in Int
    BY DEF Counts
  <1>2. P2[s] = P[b]
    OBVIOUS
  <1>3. P2 \in [B \union {s, HeapEnd} -> Int]
    BY <1>1
  <1> HIDE DEF P2
  <1>4. ASSUME NEW c \in B \union {s} PROVE P2[End(H2, c)] = P2[c] + InUse(H2, c)
    <2>1. CASE c = b
      BY <1>1, <1>2, <2>1 DEF InUse
    <2>2. CASE c = s
      BY <1>1, <1>2, <2>2 DEF InUse, Counts
    <2>3. CASE c \in B \ {b}
      BY <1>1, <2>3 DEF Counts
    <2> QED BY <2>1, <2>2, <2>3
  <1>5. (B \union {s}) \union {HeapEnd} = B \union {s, HeapEnd}
    OBVIOUS
  <1> QED BY <1>1, <1>3, <1>4, <1>5 DEF Counts

LEMMA CountsMerge ==
    ASSUME NEW H, NEW B, HeapEnd \notin B, NEW P, NEW n, Counts(H, B, P, n),
           NEW H2, NEW a \in B, NEW b \in B, a # b, b # HeapBase, HeapBase \in B,
           H[a].magic = "free", H[b].magic = "free", H2[a].magic = "free",
           End(H, a) = b, End(H2, a) = End(H, b), End(H, b) \in (B \ {b}) \union {HeapEnd},
           \A c \in B \ {a, b} : /\ End(H2, c) = End(H, c) /\ InUse(H2, c) = InUse(H, c)
                                 /\ End(H, c) \in (B \ {b}) \union {HeapEnd}
    PROVE  \E P2 : Counts(H2, B \ {b}, P2, n)
  <1> DEFINE P2 == [x \in (B \ {b}) \union {HeapEnd} |-> P[x]]
  <1>1. \A x \in (B \ {b}) \union {HeapEnd} : P2[x] = P[x] /\ P[x] \in Int
    BY DEF Counts
  <1>2. P2 \in [(B \ {b}) \union {HeapEnd} -> Int]
    BY <1>1
  <1> HIDE DEF P2
  <1>3. ASSUME NEW c \in B \ {b} PROVE P2[End(H2, c)] = P2[c] + InUse(H2, c)
    <2>1. CASE c = a
      <3>1. P[b] = P[a] + 0 /\ P[End(H, b)] = P[b] + 0
        BY DEF Counts, InUse
      <3> QED BY <1>1, <2>1, <3>1 DEF InUse
    <2>2. CASE c # a
      BY <1>1, <2>2 DEF Counts
    <2> QED BY <2>1, <2>2
  <1> QED BY <1>1, <1>2, <1>3 DEF Counts
-----------------------------------------------------------------------------
(* A heap whose blocks are B and of which n units are in use.  The block x *)
(* (Null for none) is the one being worked on: it is in no list and what   *)
(* lies next to it may be free.                                            *)
FreeIn(H, B) == {b \in B : H[b].magic = "free"}
Sealed(H, B, x) ==
    \A b \in B \ {x} : H[b].magic = "free" /\ End(H, b) \in B \ {x}
                          => H[End(H, b)].magic = "used"
Heaped(m, B, P, n, x) ==
    /\ m \in Records /\ SideBySide(m.hdr, m.ftr, B) /\ Counts(m.hdr, B, P, n)
    /\ Linked(m, FreeIn(m.hdr, B) \ {x}) /\ Sealed(m.hdr, B, x)

(* The blocks in use are the same, and of the same size.                   *)
SameInUse(H, B, H2, B2) ==
    /\ \A c : c \in B /\ H[c].magic = "used" <=> c \in B2 /\ H2[c].magic = "used"
    /\ \A c : c \in B /\ H[c].magic = "used" => H2[c].size = H[c].size

(* b is marked: used, when it is the one being worked on, or free.         *)
MarkOf(m, B, P, n, x, b, mark, m2, d) ==
    /\ n \in Int /\ Heaped(m, B, P, n, x) /\ b \in B
    /\ \/ x = b /\ mark = "used" /\ d = m.hdr[b].size
       \/ x = Null /\ mark = "free" /\ d = -m.hdr[b].size
    /\ m.hdr[b].magic # mark /\ m2 = [m EXCEPT !.hdr[b].magic = mark]

LEMMA MarkBlock ==
    ASSUME NEW m, NEW B, NEW P, NEW n, NEW x, NEW b, NEW mark, NEW m2, NEW d,
           MarkOf(m, B, P, n, x, b, mark, m2, d)
    PROVE  /\ m2.hdr[b].magic = mark /\ m2.hdr[b].size = m.hdr[b].size
           /\ \A c \in B \ {b} : m2.hdr[c] = m.hdr[c]
           /\ \E P2 : Heaped(m2, B, P2, n + d, IF mark = "used" THEN Null ELSE b)
  <1> SUFFICES ASSUME n \in Int, Heaped(m, B, P, n, x), b \in B, x \in {b, Null},
                      mark \in {"free", "used"}, m.hdr[b].magic # mark,
                      d = IF mark = "used" THEN m.hdr[b].size ELSE -m.hdr[b].size,
                      (mark = "used" => x = b) /\ (mark = "free" => x = Null),
                      m2 = [m EXCEPT !.hdr[b].magic = mark]
               PROVE  /\ m2.hdr[b].magic = mark /\ m2.hdr[b].size = m.hdr[b].size
                      /\ \A c \in B \ {b} : m2.hdr[c] = m.hdr[c]
                      /\ \E P2 : Heaped(m2, B, P2, n + d, IF mark = "used" THEN Null ELSE b)
    BY DEF MarkOf
  <1> DEFINE H == m.hdr  H2 == m2.hdr
             y == IF mark = "used" THEN Null ELSE b
             G == FreeIn(H, B) \ {x}
  <1>1. m \in Records /\ H \in Headers /\ B \subseteq Addrs /\ G \in SUBSET Addrs /\ Linked(m, G)
        /\ SideBySide(H, m.ftr, B) /\ Counts(H, B, P, n) /\ Sealed(H, B, x)
        /\ H[b].magic \in {"free", "used"} /\ Null \notin B
    BY Numbers DEF Heaped, Records, SideBySide, FreeIn, Null
  <1>2. /\ m2 \in Records /\ Linked(m2, G) /\ m2.ftr = m.ftr
        /\ H2[b].size = H[b].size /\ H2[b].magic = mark
        /\ \A a \in Addrs \ {b} : H2[a] = H[a]
    <2> HIDE DEF G
    <2>1. b \in Addrs
      BY <1>1
    <2>2. m \in Records /\ G \in SUBSET Addrs /\ Linked(m, G) /\ b \in Addrs
      BY <1>1, <2>1
    <2> HIDE DEF H, H2
    <2>3. /\ m2 \in Records /\ Linked(m2, G) /\ m2.ftr = m.ftr
          /\ m2.hdr[b].size = m.hdr[b].size /\ m2.hdr[b].magic = mark
          /\ \A a \in Addrs \ {b} : m2.hdr[a] = m.hdr[a]
      BY <2>2, Marks, SMTT(60)
    <2> QED BY <2>3 DEF H, H2
  <1>3. H2 \in Headers /\ H[b].size \in Nat
    BY <1>1, <1>2 DEF Records, Headers, Header
  <1>13. H[b].magic # mark
    OBVIOUS
  <1>14. d = IF mark = "used" THEN H[b].size ELSE -H[b].size
    OBVIOUS
  <1>15. y = IF mark = "used" THEN Null ELSE b
    OBVIOUS
  <1>16. G = FreeIn(H, B) \ {x}
    OBVIOUS
  <1> HIDE DEF H, H2, y, G
  <1>4. \A c \in B : H2[c].size = H[c].size /\ End(H2, c) = End(H, c)
    BY <1>1, <1>2 DEF End
  <1>5. SideBySide(H2, m2.ftr, B)
    BY <1>1, <1>2, <1>4 DEF SideBySide
  <1>6. G = FreeIn(H2, B) \ {y}
    <2>1. \A c \in B \ {b} : H2[c].magic = H[c].magic
      BY <1>1, <1>2
    <2>2. CASE mark = "used"
      BY <1>1, <1>2, <1>15, <1>16, <2>1, <2>2 DEF FreeIn
    <2>3. CASE mark = "free"
      <3>1. x # b /\ x = Null /\ H[b].magic # "free" /\ y = b
        BY <1>1, <1>13, <1>15, <2>3
      <3> QED BY <1>1, <1>2, <1>16, <2>1, <2>3, <3>1 DEF FreeIn
    <2> QED BY <2>2, <2>3
  <1>7. Sealed(H2, B, y)
    <2>1. CASE mark = "used"
      BY <1>1, <1>2, <1>4, <1>15, <2>1 DEF Sealed
    <2>2. CASE mark = "free"
      BY <1>1, <1>2, <1>4, <1>15, <2>2 DEF Sealed
    <2> QED BY <2>1, <2>2
  <1>8. d \in Int /\ InUse(H2, b) = InUse(H, b) + d
    <2>1. CASE mark = "used"
      <3>1. H[b].magic = "free"
        BY <1>1, <1>13, <2>1
      <3> QED BY <1>2, <1>3, <1>14, <2>1, <3>1 DEF InUse
    <2>2. CASE mark = "free"
      <3>1. H[b].magic = "used"
        BY <1>1, <1>13, <2>2
      <3> QED BY <1>2, <1>3, <1>14, <2>2, <3>1 DEF InUse
    <2> QED BY <2>1, <2>2
  <1>9. PICK P2 : Counts(H2, B, P2, n + d)
    <2>1. \A c \in B \ {b} : H2[c].magic = H[c].magic
      BY <1>1, <1>2
    <2>2. /\ H \in Headers /\ SideBySide(H, m.ftr, B) /\ Counts(H, B, P, n) /\ H2 \in Headers
          /\ \A c \in B : H2[c].size = H[c].size
          /\ d \in Int /\ InUse(H2, b) = InUse(H, b) + d
      BY <1>1, <1>3, <1>4, <1>8
    <2> QED BY <2>1, <2>2, CountsMark
  <1>10. Heaped(m2, B, P2, n + d, y)
    BY <1>2, <1>5, <1>6, <1>7, <1>9 DEF Heaped, H2
  <1>11. \A c \in B \ {b} : H2[c] = H[c]
    BY <1>1, <1>2
  <1>12. y = IF mark = "used" THEN Null ELSE b
    BY <1>15
  <1> QED BY <1>2, <1>10, <1>11, <1>12 DEF H2, H
(* What every heap of blocks has: facts about a block and its ends.        *)
LEMMA HeapedFacts ==
    ASSUME NEW m, NEW B, NEW P, NEW n, NEW x, Heaped(m, B, P, n, x)
    PROVE  /\ m \in Records /\ m.hdr \in Headers /\ m.ftr \in Footers
           /\ SideBySide(m.hdr, m.ftr, B) /\ Counts(m.hdr, B, P, n)
           /\ Sealed(m.hdr, B, x) /\ Linked(m, FreeIn(m.hdr, B) \ {x})
           /\ FreeIn(m.hdr, B) \ {x} \in SUBSET Addrs
           /\ B \subseteq Addrs /\ HeapBase \in B /\ HeapEnd \notin B /\ Null \notin B
           /\ \A b \in B : m.hdr[b].magic \in {"free", "used"}
  <1>1. /\ m \in Records /\ SideBySide(m.hdr, m.ftr, B) /\ Counts(m.hdr, B, P, n)
        /\ Sealed(m.hdr, B, x) /\ Linked(m, FreeIn(m.hdr, B) \ {x})
    BY DEF Heaped
  <1>2. m.hdr \in Headers /\ m.ftr \in Footers
    BY <1>1 DEF Records
  <1>3. /\ B \subseteq Addrs /\ HeapBase \in B
        /\ \A b \in B : m.hdr[b].magic \in {"free", "used"}
    BY <1>1 DEF SideBySide
  <1>4. HeapEnd \notin Addrs /\ Null \notin Addrs
    BY Numbers DEF Null
  <1> QED BY <1>1, <1>2, <1>3, <1>4 DEF FreeIn

(* kmalloc splits a block that is larger than what was asked for.          *)
LEMMA Carves ==
    ASSUME NEW m, NEW B, NEW P, NEW n, NEW b \in B, Heaped(m, B, P, n, b),
           m.hdr[b].magic = "free", NEW size \in Nat, size <= m.hdr[b].size,
           End(m.hdr, b) \in B => m.hdr[End(m.hdr, b)].magic = "used",
           NEW m2, m2 = Carved(m, b, size)
    PROVE  \E B2, P2 :
              /\ Heaped(m2, B2, P2, n, b) /\ b \in B2 /\ m2.hdr[b].magic = "free"
              /\ m2.hdr[b].size >= size /\ SameInUse(m.hdr, B, m2.hdr, B2)
  <1> DEFINE H == m.hdr  F == m.ftr  G == FreeIn(H, B) \ {b}
             rem == H[b].size - size  r == rem - Overhead
             s == b + HdrSize + size + FtrSize
  <1>1. CASE ~Splits(rem)
    <2>1. m2 = m
      BY <1>1 DEF Carved
    <2>2. SameInUse(m.hdr, B, m.hdr, B)
      BY Zenon DEF SameInUse
    <2>3. H[b].size \in Nat
      <3>1. m.hdr \in Headers /\ b \in Addrs
        BY HeapedFacts
      <3> QED BY <3>1 DEF Headers, Header
    <2> QED BY <2>1, <2>2, <2>3
  <1>2. CASE Splits(rem)
    <2> DEFINE ma == [m EXCEPT !.hdr[s].magic = "free"]
               mb == Resized(ma, s, r)
               mc == fl_push(mb, s)
               md == Resized(mc, b, size)
    <2>1. m2 = md
      BY <1>2 DEF Carved
    <2>2. /\ m \in Records /\ H \in Headers /\ SideBySide(H, F, B) /\ Linked(m, G)
          /\ G \in SUBSET Addrs /\ Counts(H, B, P, n) /\ Sealed(H, B, b)
          /\ B \subseteq Addrs /\ HeapBase \in B /\ HeapEnd \notin B
          /\ H[b].magic = "free" /\ b \in Addrs
      BY HeapedFacts, Zenon
    <2>3. H[b].size \in Nat /\ b \in Nat /\ End(H, b) = b + Overhead + H[b].size
          /\ End(H, b) <= HeapEnd /\ HeapBase <= b
      BY <2>2, Interior DEF End
    <2>4. r \in Nat /\ H[b].size = size + Overhead + r
      <3>1. ASSUME NEW z \in Nat, Splits(z - size)
            PROVE  z - size - Overhead \in Nat /\ z = size + Overhead + (z - size - Overhead)
        BY <3>1, Numbers DEF Splits
      <3> QED BY <1>2, <2>3, <3>1
    <2> DEFINE fb == FooterOf(b, size)  fs == FooterOf(s, r)
    <2>5. /\ s \in Addrs /\ s = b + Overhead + size /\ s \in b .. End(H, b) - 1 /\ s # b
          /\ fs \in Addrs /\ fs \in b .. End(H, b) - 1 /\ fb \in Addrs /\ fb \in b .. End(H, b) - 1
          /\ fb # fs
      <3> DEFINE z == H[b].size  e == End(H, b)
      <3>1. z \in Nat /\ e = b + Overhead + z /\ e <= HeapEnd /\ z = size + Overhead + r
        BY <2>3, <2>4
      <3>2. s = b + Overhead + size
        BY <2>3, Numbers
      <3>3. fb = b + HdrSize + size /\ fs = s + HdrSize + r
        BY DEF FooterOf
      <3> HIDE DEF z, e, r, s, fb, fs
      <3>4. s \in Nat /\ fb \in Nat /\ fs \in Nat /\ b < s /\ s < e /\ fb < s /\ s < fs /\ fs < e
            /\ b < fb /\ e \in Nat
        BY <2>3, <2>4, <3>1, <3>2, <3>3, Numbers
      <3>5. /\ s \in b .. e - 1 /\ fb \in b .. e - 1 /\ fs \in b .. e - 1
            /\ s # b /\ fb # fs
        BY <2>3, <3>4
      <3>6. \A a \in b .. e - 1 : a \in Addrs
        BY <2>3, <3>1, <3>4, Numbers, SMTT(30)
      <3>7. e = End(H, b)
        BY DEF e
      <3> QED BY <3>2, <3>5, <3>6, <3>7
    <2> HIDE DEF r, rem, s, fb, fs, H, F, G
    <2>6. s \notin B /\ s \notin G /\ b \notin G
      <3>1. \A c \in B \ {b} : c # s
        BY <2>2, <2>5, Interior, Zenon
      <3> QED BY <2>5, <3>1 DEF G, FreeIn
    <2>7. /\ ma \in Records /\ Linked(ma, G) /\ ma.ftr = F
          /\ ma.hdr[s].magic = "free" /\ \A a \in Addrs \ {s} : ma.hdr[a] = H[a]
      BY <2>2, <2>5, Marks, SMTT(60) DEF H, F
    <2> HIDE DEF ma
    <2>8. /\ mb \in Records /\ Linked(mb, G)
          /\ mb.hdr[s].size = r /\ mb.hdr[s].magic = "free"
          /\ \A a \in Addrs \ {s} : mb.hdr[a] = H[a]
          /\ mb.ftr[fs] = r /\ \A a \in Addrs \ {fs} : mb.ftr[a] = F[a]
      <3>1. s \in Addrs \ G /\ FooterOf(s, r) \in Addrs
        BY <2>5, <2>6 DEF fs
      <3>2. /\ mb \in Records /\ Linked(mb, G)
            /\ mb.hdr[s].size = r /\ mb.hdr[s].magic = ma.hdr[s].magic
            /\ \A a \in Addrs \ {s} : mb.hdr[a] = ma.hdr[a]
            /\ mb.ftr[FooterOf(s, r)] = r
            /\ \A a \in Addrs \ {FooterOf(s, r)} : mb.ftr[a] = ma.ftr[a]
        BY <2>2, <2>4, <2>7, <3>1, Resizes, SMTT(60)
      <3> QED BY <2>7, <3>2, Zenon DEF fs
    <2> HIDE DEF mb
    <2>9. /\ mc \in Records /\ mc.ftr = mb.ftr /\ Linked(mc, G \union {s})
          /\ \A a \in Addrs : mc.hdr[a].size = mb.hdr[a].size /\ mc.hdr[a].magic = mb.hdr[a].magic
      <3>1. s \in Addrs \ G
        BY <2>5, <2>6
      <3> QED BY <2>2, <2>8, <3>1, Pushes, SMTT(60)
    <2> HIDE DEF mc
    <2>10. /\ md \in Records /\ Linked(md, G \union {s})
           /\ md.hdr[b].size = size /\ md.hdr[b].magic = mc.hdr[b].magic
           /\ \A a \in Addrs \ {b} : md.hdr[a] = mc.hdr[a]
           /\ md.ftr[fb] = size /\ \A a \in Addrs \ {fb} : md.ftr[a] = mc.ftr[a]
      <3>1. b \in Addrs \ (G \union {s}) /\ G \union {s} \in SUBSET Addrs /\ FooterOf(b, size) \in Addrs
        BY <2>2, <2>5, <2>6 DEF fb
      <3>2. /\ md \in Records /\ Linked(md, G \union {s})
            /\ md.hdr[b].size = size /\ md.hdr[b].magic = mc.hdr[b].magic
            /\ \A a \in Addrs \ {b} : md.hdr[a] = mc.hdr[a]
            /\ md.ftr[FooterOf(b, size)] = size
            /\ \A a \in Addrs \ {FooterOf(b, size)} : md.ftr[a] = mc.ftr[a]
        BY <2>9, <3>1, Resizes, SMTT(60)
      <3> QED BY <3>2, Zenon DEF fb
    <2> HIDE DEF md
    <2> DEFINE H2 == md.hdr  F2 == md.ftr
    <2>11. /\ H2 \in Headers
           /\ H2[b].size = size /\ H2[b].magic = "free"
           /\ H2[s].size = r /\ H2[s].magic = "free"
           /\ \A c \in B \ {b} : H2[c].size = H[c].size /\ H2[c].magic = H[c].magic
      <3>1. H2 \in Headers
        BY <2>10 DEF Records
      <3>2. \A c \in B \ {b} : c \in Addrs \ {s}
        BY <2>2, <2>6
      <3> QED BY <2>2, <2>5, <2>8, <2>9, <2>10, <3>1, <3>2
    <2>12. /\ F2[fb] = size /\ F2[fs] = r
           /\ \A c \in B \ {b} : F2[FooterOf(c, H[c].size)] = F[FooterOf(c, H[c].size)]
      <3>1. ASSUME NEW c \in B \ {b}
            PROVE  /\ FooterOf(c, H[c].size) \in Addrs
                   /\ FooterOf(c, H[c].size) # fb /\ FooterOf(c, H[c].size) # fs
        <4>1. FooterOf(c, H[c].size) # fb /\ FooterOf(c, H[c].size) # fs
          BY <2>2, <2>5, Interior, Zenon
        <4>2. FooterOf(c, H[c].size) \in Addrs
          <5>1. /\ FooterOf(c, H[c].size) \in Nat /\ c \in Nat /\ HeapBase <= c
                /\ c < FooterOf(c, H[c].size) /\ FooterOf(c, H[c].size) < End(H, c)
                /\ End(H, c) <= HeapEnd /\ End(H, c) \in Nat
            BY <2>2, Interior
          <5> QED BY <5>1, Numbers
        <4> QED BY <4>1, <4>2
      <3>2. \A a \in Addrs : a # fb /\ a # fs => F2[a] = F[a]
        BY <2>8, <2>9, <2>10
      <3>3. F2[fb] = size /\ F2[fs] = r
        BY <2>5, <2>8, <2>9, <2>10
      <3> QED BY <3>1, <3>2, <3>3
    <2> HIDE DEF H2, F2
    <2>13. /\ SideBySide(H2, F2, B \union {s})
           /\ End(H2, b) = s /\ End(H2, s) = End(H, b)
           /\ \A c \in B \ {b} : End(H2, c) = End(H, c)
      <3>1. /\ F2[FooterOf(b, size)] = size /\ F2[FooterOf(s, r)] = r
            /\ H \in Headers /\ SideBySide(H, F, B) /\ s = b + Overhead + size
            /\ H[b].size = size + Overhead + r /\ r \in Nat
            /\ H2 \in Headers /\ H2[b].size = size /\ H2[b].magic \in {"free", "used"}
            /\ H2[s].size = r /\ H2[s].magic = "free"
        BY <2>2, <2>4, <2>5, <2>11, <2>12 DEF fb, fs
      <3>2. \A c \in B \ {b} : H2[c].size = H[c].size /\ H2[c].magic = H[c].magic
        BY <2>11
      <3>3. \A c \in B \ {b} : F2[FooterOf(c, H[c].size)] = F[FooterOf(c, H[c].size)]
        BY <2>12
      <3>4. SplitOf(H, F, B, b, size, r, s, H2, F2)
        <4>1. b \in B /\ size \in Nat
          OBVIOUS
        <4> QED BY <3>1, <3>2, <3>3, <4>1 DEF SplitOf
      <3> QED BY <3>4, SplitInTwo, SMTT(30)
    <2>14. PICK P2 : Counts(H2, B \union {s}, P2, n)
      <3>1. \A c \in B \ {b} : /\ End(H2, c) = End(H, c) /\ InUse(H2, c) = InUse(H, c)
                               /\ End(H, c) \in B \union {HeapEnd}
        BY <2>2, <2>11, <2>13 DEF InUse, SideBySide
      <3>2. End(H, b) \in B \union {HeapEnd} /\ s # HeapEnd
        <4>1. End(H, b) \in B \union {HeapEnd}
          BY <2>2 DEF SideBySide
        <4> QED BY <2>5, <4>1, Numbers
      <3> QED BY <2>2, <2>6, <2>11, <2>13, <3>1, <3>2, CountsSplit
    <2>15. FreeIn(H2, B \union {s}) \ {b} = G \union {s}
      BY <2>5, <2>11 DEF FreeIn, G
    <2>16. Sealed(H2, B \union {s}, b)
      <3> SUFFICES ASSUME NEW c \in (B \union {s}) \ {b}, H2[c].magic = "free",
                          End(H2, c) \in (B \union {s}) \ {b}
                   PROVE  H2[End(H2, c)].magic = "used"
        BY DEF Sealed
      <3>1. CASE c = s
        <4>1. End(H, b) \in B \ {b}
          <5>1. End(H, b) # s
            BY <2>3, <2>5
          <5> QED BY <2>13, <3>1, <5>1
        <4> QED BY <2>11, <2>13, <3>1, <4>1 DEF H
      <3>2. CASE c # s
        <4>1. End(H, c) \in B \union {HeapEnd} /\ End(H2, c) = End(H, c) /\ c \in B \ {b}
          BY <2>2, <2>13, <3>2 DEF SideBySide
        <4>2. s # HeapEnd
          BY <2>5, Numbers
        <4>3. End(H, c) \in B \ {b} /\ H[c].magic = "free"
          BY <2>2, <2>11, <4>1, <4>2, <2>5, Numbers
        <4> QED BY <2>2, <2>11, <4>1, <4>3 DEF Sealed
      <3> QED BY <3>1, <3>2
    <2>17. Heaped(md, B \union {s}, P2, n, b)
      BY <2>10, <2>13, <2>14, <2>15, <2>16 DEF Heaped, H2, F2
    <2>18. SameInUse(H, B, H2, B \union {s})
      BY <2>2, <2>6, <2>11 DEF SameInUse
    <2>19. H2[b].size >= size
      BY <2>11
    <2> QED BY <2>1, <2>11, <2>17, <2>18, <2>19 DEF H, H2
  <1> QED BY <1>1, <1>2
(* What kmalloc finds is a free block that is large enough.                *)
LEMMA FoundFits ==
    ASSUME NEW B, NEW P, NEW n, Heaped(Now, B, P, n, Null), NEW size, Found(size) # Null
    PROVE  /\ Found(size) \in B /\ hdr[Found(size)].magic = "free"
           /\ hdr[Found(size)].size >= size
  <1> DEFINE fits == {c \in Classes : /\ c >= size_to_class(size) /\ free_lists[c] # <<>>
                                      /\ hdr[Head(free_lists[c])].size >= size}
  <1>1. fits # {} /\ Found(size) = Head(free_lists[Least(fits)])
    BY DEF Found
  <1>2. Least(fits) \in fits
    <2>1. fits \in SUBSET Nat
      BY Numbers
    <2> HIDE DEF fits
    <2> QED BY <1>1, <2>1, LeastExists
  <1>3. PICK c \in Classes : /\ free_lists[c] # <<>> /\ hdr[Head(free_lists[c])].size >= size
                             /\ Found(size) = Head(free_lists[c])
    BY <1>1, <1>2
  <1> HIDE DEF fits
  <1>4. Now \in Records /\ Linked(Now, FreeIn(hdr, B) \ {Null}) /\ Now.lists = free_lists
    BY HeapedFacts DEF Now
  <1>5. free_lists[c] \in Seq(Addrs)
    BY <1>4 DEF Records
  <1>6. Holds(free_lists[c], Found(size))
    BY <1>3, <1>5 DEF Holds
  <1>7. Found(size) \in FreeIn(hdr, B)
    BY <1>4, <1>6 DEF Linked
  <1> QED BY <1>3, <1>7 DEF FreeIn

(* kmalloc: the block it found is in use, and the others as before.        *)
OneMore(H, B, H2, B2, b) ==
    /\ \A c : (c \in B /\ H[c].magic = "used") \/ c = b <=> c \in B2 /\ H2[c].magic = "used"
    /\ \A c : c \in B /\ H[c].magic = "used" => H2[c].size = H[c].size

LEMMA Takes ==
    ASSUME NEW B, NEW P, NEW n \in Int, Heaped(Now, B, P, n, Null),
           NEW size \in Nat, NEW b, b = Found(size), b # Null, NEW m, m = Taken(size)
    PROVE  /\ b \in B /\ hdr[b].magic = "free"
           /\ \E B2, P2 :
                /\ Heaped(m, B2, P2, n + m.hdr[b].size, Null) /\ b \in B2
                /\ m.hdr[b].size >= size /\ OneMore(hdr, B, m.hdr, B2, b)
  <1>1. b \in B /\ hdr[b].magic = "free" /\ hdr[b].size >= size
    BY FoundFits
  <1>2. /\ Now \in Records /\ hdr \in Headers /\ SideBySide(hdr, ftr, B) /\ Counts(hdr, B, P, n)
        /\ Sealed(hdr, B, Null) /\ Linked(Now, FreeIn(hdr, B) \ {Null})
        /\ B \subseteq Addrs /\ Null \notin B /\ Now.hdr = hdr /\ Now.ftr = ftr
    <2>1. Now.hdr = hdr /\ Now.ftr = ftr
      BY DEF Now
    <2> QED BY <2>1, HeapedFacts
  <1> DEFINE m1 == fl_remove(Now, b)  m2 == Carved(m1, b, size)
  <1>3. m = [m2 EXCEPT !.hdr[b].magic = "used"]
    BY DEF Taken
  <1>4. m1 \in Records /\ m1.hdr = hdr /\ m1.ftr = ftr /\ Linked(m1, FreeIn(hdr, B) \ {b})
    <2>1. FreeIn(hdr, B) \ {Null} = FreeIn(hdr, B) /\ b \in FreeIn(hdr, B)
          /\ FreeIn(hdr, B) \in SUBSET Addrs
      BY <1>1, <1>2 DEF FreeIn
    <2>2. Linked(Now, FreeIn(hdr, B))
      BY <1>2, <2>1
    <2> QED BY <1>2, <2>1, <2>2, Removes
  <1>5. \A c \in B : hdr[c].magic = "free" /\ End(hdr, c) \in B => hdr[End(hdr, c)].magic = "used"
    BY <1>2 DEF Sealed
  <1> HIDE DEF m1
  <1>6. Heaped(m1, B, P, n, b)
    <2>1. Sealed(m1.hdr, B, b)
      BY <1>4, <1>5 DEF Sealed
    <2> QED BY <1>2, <1>4, <2>1 DEF Heaped
  <1>7. PICK B2, P2 : /\ Heaped(m2, B2, P2, n, b) /\ b \in B2 /\ m2.hdr[b].magic = "free"
                      /\ m2.hdr[b].size >= size /\ SameInUse(m1.hdr, B, m2.hdr, B2)
    BY <1>1, <1>4, <1>5, <1>6, Carves
  <1> HIDE DEF m2
  <1>8. /\ m.hdr[b].magic = "used" /\ m.hdr[b].size = m2.hdr[b].size
        /\ \A c \in B2 \ {b} : m.hdr[c] = m2.hdr[c]
        /\ \E P3 : Heaped(m, B2, P3, n + m.hdr[b].size, Null)
    <2>1. MarkOf(m2, B2, P2, n, b, b, "used", m, m2.hdr[b].size)
      BY <1>3, <1>7 DEF MarkOf
    <2> QED BY <2>1, MarkBlock
  <1>9. OneMore(hdr, B, m.hdr, B2, b)
    <2>1. \A c : c \in B /\ hdr[c].magic = "used" <=> c \in B2 /\ m2.hdr[c].magic = "used"
      BY <1>4, <1>7 DEF SameInUse
    <2>2. \A c : c \in B /\ hdr[c].magic = "used" => m2.hdr[c].size = hdr[c].size
      BY <1>4, <1>7 DEF SameInUse
    <2>3. \A c : c \in B /\ hdr[c].magic = "used" => c \in B2 \ {b}
      BY <1>1, <2>1
    <2> QED BY <1>7, <1>8, <2>1, <2>2, <2>3 DEF OneMore
  <1> QED BY <1>1, <1>7, <1>8, <1>9
(* Of two free blocks side by side, x is worked on and y is in a list: y   *)
(* is taken out and the two become one, which is then worked on.           *)
Merging(m, B, P, n, a, b, x, y, m2) ==
    /\ Heaped(m, B, P, n, x) /\ a \in B /\ b \in B /\ End(m.hdr, a) = b
    /\ (x = a /\ y = b) \/ (x = b /\ y = a)
    /\ m.hdr[a].magic = "free" /\ m.hdr[b].magic = "free"
    /\ m2 = Resized(fl_remove(m, y), a, m.hdr[a].size + Overhead + m.hdr[b].size)

Merged(m, B, n, a, b, m2) ==
    /\ \E P2 : Heaped(m2, B \ {b}, P2, n, a)
    /\ a # b /\ m2.hdr[a].magic = "free"
    /\ End(m2.hdr, a) = End(m.hdr, b) /\ End(m.hdr, b) # b
    /\ \A c \in B \ {a, b} : End(m2.hdr, c) = End(m.hdr, c) /\ m2.hdr[c] = m.hdr[c]
    /\ SameInUse(m.hdr, B, m2.hdr, B \ {b})

LEMMA Merges ==
    ASSUME NEW m, NEW B, NEW P, NEW n, NEW a, NEW b, NEW x, NEW y, NEW m2,
           Merging(m, B, P, n, a, b, x, y, m2)
    PROVE  Merged(m, B, n, a, b, m2)
  <1> DEFINE H == m.hdr  F == m.ftr  H2 == m2.hdr  F2 == m2.ftr
             size == H[a].size + Overhead + H[b].size
             m1 == fl_remove(m, y)
             G == FreeIn(H, B) \ {a, b}
  <1>1. /\ m \in Records /\ H \in Headers /\ SideBySide(H, F, B) /\ Counts(H, B, P, n)
        /\ Sealed(H, B, x) /\ Linked(m, FreeIn(H, B) \ {x})
        /\ FreeIn(H, B) \ {x} \in SUBSET Addrs
        /\ B \subseteq Addrs /\ HeapBase \in B /\ HeapEnd \notin B
    BY HeapedFacts DEF Merging
  <1>2. /\ a \in B /\ b \in B /\ End(H, a) = b /\ H[a].magic = "free" /\ H[b].magic = "free"
        /\ (x = a /\ y = b) \/ (x = b /\ y = a)
        /\ m2 = Resized(m1, a, size)
    BY DEF Merging
  <1>3. /\ a \in Nat /\ b \in Nat /\ H[a].size \in Nat /\ H[b].size \in Nat
        /\ HeapBase <= a /\ End(H, b) <= HeapEnd /\ End(H, b) \in Nat /\ a < b
    BY <1>1, <1>2, Interior
  <1> DEFINE f == FooterOf(a, size)
  <1>4. size \in Nat /\ f \in Addrs /\ f \in b .. End(H, b) - 1 /\ f \in Nat
    <2> DEFINE za == H[a].size  zb == H[b].size  e == End(H, b)
    <2>1. /\ b = a + Overhead + za /\ e = b + Overhead + zb /\ size = za + Overhead + zb
          /\ f = a + HdrSize + size /\ za \in Nat /\ zb \in Nat
          /\ HeapBase <= a /\ e <= HeapEnd /\ e \in Nat
      BY <1>2, <1>3 DEF End, FooterOf
    <2> HIDE DEF za, zb, e, size, f
    <2>2. size \in Nat /\ f \in Nat /\ b <= f /\ f < e /\ HeapBase <= f /\ f < HeapEnd
      <3>1. size \in Nat
        BY <2>1, Numbers
      <3>2. f = b + HdrSize + zb
        BY <1>3, <2>1, Numbers
      <3>3. e = f + FtrSize /\ f \in Nat /\ b <= f
        BY <1>3, <2>1, <3>2, Numbers
      <3>4. f < e
        BY <3>3, Numbers
      <3>5. HeapBase <= b /\ f < HeapEnd
        BY <1>3, <2>1, <3>3, <3>4, Numbers
      <3> QED BY <1>3, <3>1, <3>3, <3>4, <3>5, Numbers
    <2>3. f \in b .. e - 1 /\ f \in Addrs
      BY <1>3, <2>1, <2>2, Numbers
    <2> QED BY <2>2, <2>3 DEF e
  <1> HIDE DEF H, F, m1, size, f, G
  <1>5. /\ m1 \in Records /\ m1.hdr = H /\ m1.ftr = F /\ Linked(m1, G)
        /\ G \in SUBSET Addrs /\ a \in Addrs \ G
    <2>1. y \in FreeIn(H, B) \ {x} /\ (FreeIn(H, B) \ {x}) \ {y} = G
      BY <1>2, <1>3 DEF FreeIn, G
    <2>2. m1 \in Records /\ m1.hdr = m.hdr /\ m1.ftr = m.ftr
          /\ Linked(m1, (FreeIn(H, B) \ {x}) \ {y})
      BY <1>1, <2>1, Removes, SMTT(60) DEF m1
    <2> QED BY <1>1, <1>2, <2>1, <2>2 DEF H, F, G
  <1>6. /\ m2 \in Records /\ Linked(m2, G) /\ H2[a].size = size /\ H2[a].magic = "free"
        /\ \A c \in Addrs \ {a} : H2[c] = H[c]
        /\ F2[f] = size /\ \A c \in Addrs \ {f} : F2[c] = F[c]
    <2>1. /\ m2 \in Records /\ Linked(m2, G)
          /\ m2.hdr[a].size = size /\ m2.hdr[a].magic = m1.hdr[a].magic
          /\ \A c \in Addrs \ {a} : m2.hdr[c] = m1.hdr[c]
          /\ m2.ftr[FooterOf(a, size)] = size
          /\ \A c \in Addrs \ {FooterOf(a, size)} : m2.ftr[c] = m1.ftr[c]
      <3>1. FooterOf(a, size) \in Addrs
        BY <1>4 DEF f
      <3> QED BY <1>2, <1>4, <1>5, <3>1, Resizes, SMTT(60)
    <2> QED BY <1>2, <1>5, <2>1 DEF f
  <1>7. H2 \in Headers
    BY <1>6 DEF Records
  <1> HIDE DEF H2, F2
  <1>8. \A c \in B \ {a, b} : H2[c] = H[c]
    BY <1>1, <1>6
  <1>9. \A c \in B \ {a, b} : F2[FooterOf(c, H[c].size)] = F[FooterOf(c, H[c].size)]
    <2> SUFFICES ASSUME NEW c \in B \ {a, b}
                 PROVE  FooterOf(c, H[c].size) \in Addrs \ {f}
      BY <1>6
    <2>1. FooterOf(c, H[c].size) # f
      BY <1>1, <1>2, <1>4, Interior, Zenon
    <2>2. /\ FooterOf(c, H[c].size) \in Nat /\ c \in Nat /\ HeapBase <= c
          /\ c < FooterOf(c, H[c].size) /\ FooterOf(c, H[c].size) < End(H, c)
          /\ End(H, c) <= HeapEnd /\ End(H, c) \in Nat
      BY <1>1, Interior
    <2> QED BY <2>1, <2>2, Numbers
  <1>10. MergeOf(H, F, B, a, b, H2, F2)
    BY <1>1, <1>2, <1>6, <1>7, <1>8, <1>9 DEF MergeOf, size, f
  <1>11. /\ SideBySide(H2, F2, B \ {b})
         /\ a # b /\ End(H2, a) = End(H, b) /\ End(H, b) # b
         /\ \A c \in B \ {a, b} : End(H2, c) = End(H, c) /\ End(H, c) # b
    BY <1>10, MergedInOne
  <1>12. PICK P2 : Counts(H2, B \ {b}, P2, n)
    <2>1. b # HeapBase
      BY <1>3, Numbers
    <2>2. \A c \in B : End(H, c) \in B \union {HeapEnd}
      BY <1>1 DEF SideBySide
    <2>3. End(H, b) \in (B \ {b}) \union {HeapEnd}
      BY <1>2, <1>11, <2>2
    <2>4. \A c \in B \ {a, b} : /\ End(H2, c) = End(H, c) /\ InUse(H2, c) = InUse(H, c)
                                /\ End(H, c) \in (B \ {b}) \union {HeapEnd}
      BY <1>8, <1>11, <2>2 DEF InUse
    <2> QED BY <1>1, <1>2, <1>6, <1>11, <2>1, <2>3, <2>4, CountsMerge
  <1>13. FreeIn(H2, B \ {b}) \ {a} = G
    BY <1>8, <1>11 DEF FreeIn, G
  <1>14. Sealed(H2, B \ {b}, a)
    <2> SUFFICES ASSUME NEW c \in B \ {a, b}, H2[c].magic = "free",
                        End(H2, c) \in B \ {a, b}
                 PROVE  H2[End(H2, c)].magic = "used"
      BY DEF Sealed
    <2>1. c \in B \ {x} /\ H[c].magic = "free" /\ End(H, c) \in B \ {a, b}
          /\ End(H, c) \in B \ {x} /\ End(H2, c) = End(H, c)
      BY <1>2, <1>8, <1>11
    <2>2. H[End(H, c)].magic = "used"
      BY <1>1, <2>1 DEF Sealed
    <2> QED BY <1>8, <2>1, <2>2
  <1>15. Heaped(m2, B \ {b}, P2, n, a)
    BY <1>6, <1>11, <1>12, <1>13, <1>14 DEF Heaped, H2, F2
  <1>16. SameInUse(H, B, H2, B \ {b})
    <2>1. \A c : c \in B /\ H[c].magic = "used" <=> c \in B \ {b} /\ H2[c].magic = "used"
      <3>1. \A c \in B \ {a, b} : H2[c] = H[c]
        BY <1>8
      <3>2. H2[a].magic # "used" /\ H[a].magic # "used" /\ H[b].magic # "used"
        BY <1>2, <1>6
      <3> QED BY <3>1, <3>2
    <2>2. \A c : c \in B /\ H[c].magic = "used" => H2[c].size = H[c].size
      BY <1>2, <1>8
    <2> QED BY <2>1, <2>2 DEF SameInUse
  <1> QED BY <1>6, <1>8, <1>11, <1>15, <1>16 DEF H, H2, Merged
(* The block being worked on goes to its list, once its neighbours are not *)
(* free.                                                                   *)
LEMMA Returns ==
    ASSUME NEW m, NEW B, NEW P, NEW n, NEW b \in B, Heaped(m, B, P, n, b),
           m.hdr[b].magic = "free",
           End(m.hdr, b) \in B => m.hdr[End(m.hdr, b)].magic = "used",
           \A c \in B : End(m.hdr, c) = b => m.hdr[c].magic = "used",
           NEW m2, m2 = fl_push(m, b)
    PROVE  \E P2 : Heaped(m2, B, P2, n, Null) /\ SameInUse(m.hdr, B, m2.hdr, B)
  <1> DEFINE H == m.hdr  F == m.ftr  G == FreeIn(H, B) \ {b}  H2 == m2.hdr
  <1>1. /\ m \in Records /\ H \in Headers /\ SideBySide(H, F, B) /\ Counts(H, B, P, n)
        /\ Sealed(H, B, b) /\ Linked(m, G) /\ G \in SUBSET Addrs
        /\ B \subseteq Addrs /\ Null \notin B
    BY HeapedFacts
  <1>2. /\ \A c \in B : H[c].magic = "free" /\ End(H, c) \in B => H[End(H, c)].magic = "used"
    <2> SUFFICES ASSUME NEW c \in B, H[c].magic = "free", End(H, c) \in B
                 PROVE  H[End(H, c)].magic = "used"
      OBVIOUS
    <2>1. CASE c = b
      BY <2>1
    <2>2. CASE c # b
      <3>1. End(H, c) # b
        OBVIOUS
      <3> QED BY <1>1, <2>2, <3>1 DEF Sealed
    <2> QED BY <2>1, <2>2
  <1>3. H[b].magic = "free" /\ b \in Addrs \ G
    BY <1>1
  <1> HIDE DEF G
  <1>4. /\ m2 \in Records /\ m2.ftr = m.ftr /\ Linked(m2, G \union {b})
        /\ \A a \in Addrs : m2.hdr[a].size = m.hdr[a].size /\ m2.hdr[a].magic = m.hdr[a].magic
    BY <1>1, <1>3, Pushes, SMTT(60)
  <1> HIDE DEF H, F, H2
  <1>5. \A c \in B : /\ H2[c].size = H[c].size /\ H2[c].magic = H[c].magic
                     /\ End(H2, c) = End(H, c) /\ InUse(H2, c) = InUse(H, c)
    <2>1. \A c \in B : H2[c].size = H[c].size /\ H2[c].magic = H[c].magic
      BY <1>1, <1>4 DEF H, H2
    <2> QED BY <2>1 DEF End, InUse
  <1>6. SideBySide(H2, F, B)
    BY <1>1, <1>5 DEF SideBySide
  <1>7. Counts(H2, B, P, n)
    BY <1>1, <1>5 DEF Counts
  <1>8. FreeIn(H2, B) \ {Null} = G \union {b}
    BY <1>1, <1>3, <1>5 DEF FreeIn, G
  <1>9. Sealed(H2, B, Null)
    BY <1>2, <1>5 DEF Sealed
  <1>10. Heaped(m2, B, P, n, Null)
    BY <1>4, <1>6, <1>7, <1>8, <1>9 DEF Heaped, H2, F
  <1>11. SameInUse(H, B, H2, B)
    BY <1>5 DEF SameInUse
  <1> QED BY <1>10, <1>11 DEF H, H2

LEMMA SameInUseTwice ==
    ASSUME NEW H1, NEW B1, NEW H2, NEW B2, NEW H3, NEW B3,
           SameInUse(H1, B1, H2, B2), SameInUse(H2, B2, H3, B3)
    PROVE  SameInUse(H1, B1, H3, B3)
  BY DEF SameInUse

(* Coalescing to the right, if what is there is free.                      *)
LEMMA MergesRight ==
    ASSUME NEW m, NEW B, NEW P, NEW n, NEW b \in B, Heaped(m, B, P, n, b),
           m.hdr[b].magic = "free", NEW m2, m2 = MergedRight(m, b)
    PROVE  \E B2, P2 :
              /\ Heaped(m2, B2, P2, n, b) /\ b \in B2 /\ m2.hdr[b].magic = "free"
              /\ End(m2.hdr, b) \in B2 => m2.hdr[End(m2.hdr, b)].magic = "used"
              /\ SameInUse(m.hdr, B, m2.hdr, B2)
  <1> DEFINE H == m.hdr  right == End(H, b)
  <1>1. /\ H \in Headers /\ SideBySide(H, m.ftr, B) /\ B \subseteq Addrs /\ HeapEnd \notin B
        /\ Sealed(H, B, b) /\ \A c \in B : H[c].magic \in {"free", "used"}
    BY HeapedFacts
  <1>2. /\ right \in B \union {HeapEnd} /\ right # b /\ H[b].size \in Nat /\ b \in Nat
        /\ right \in Nat
    <2>1. right \in B \union {HeapEnd}
      BY <1>1 DEF SideBySide
    <2> QED BY <1>1, <2>1, Interior
  <1>3. right = FooterOf(b, H[b].size) + FtrSize
    BY <1>2, Numbers DEF End, FooterOf
  <1>4. right < HeapEnd <=> right \in B
    BY <1>1, <1>2, Numbers
  <1> HIDE DEF right
  <1>5. CASE right \in B /\ H[right].magic = "free"
    <2>1. m2 = Resized(fl_remove(m, right), b, H[b].size + Overhead + H[right].size)
      BY <1>3, <1>4, <1>5 DEF MergedRight
    <2>2. Merging(m, B, P, n, b, right, b, right, m2)
      BY <1>5, <2>1 DEF Merging, right
    <2>3. /\ \E P2 : Heaped(m2, B \ {right}, P2, n, b)
          /\ m2.hdr[b].magic = "free" /\ End(m2.hdr, b) = End(H, right) /\ End(H, right) # right
          /\ \A c \in B \ {b, right} : m2.hdr[c] = H[c]
          /\ SameInUse(H, B, m2.hdr, B \ {right})
      <3>1. Merged(m, B, n, b, right, m2)
        BY <2>2, Merges
      <3> QED BY <3>1 DEF Merged
    <2>4. ASSUME End(H, right) \in B \ {right} PROVE m2.hdr[End(H, right)].magic = "used"
      <3>1. End(H, right) # b
        <4>1. right \in Nat /\ b < right /\ right < End(H, right)
          BY <1>1, <1>2, <1>5, Interior DEF right
        <4> QED BY <1>2, <4>1, Interior, <1>1, <1>5
      <3>2. H[End(H, right)].magic = "used"
        BY <1>1, <1>2, <1>5, <2>4, <3>1 DEF Sealed
      <3> QED BY <2>3, <2>4, <3>1, <3>2
    <2> QED BY <1>2, <2>3, <2>4
  <1>6. CASE ~(right \in B /\ H[right].magic = "free")
    <2>1. m2 = m
      BY <1>3, <1>4, <1>6 DEF MergedRight
    <2>2. SameInUse(H, B, H, B)
      BY Zenon DEF SameInUse
    <2>3. right \in B => H[right].magic = "used"
      BY <1>1, <1>6
    <2> QED BY <2>1, <2>2, <2>3 DEF right
  <1> QED BY <1>5, <1>6
(* Coalescing to the left, by way of the footer there, and into its list.  *)
LEMMA Coalesces ==
    ASSUME NEW m, NEW B, NEW P, NEW n, NEW b \in B, Heaped(m, B, P, n, b),
           m.hdr[b].magic = "free",
           End(m.hdr, b) \in B => m.hdr[End(m.hdr, b)].magic = "used",
           NEW m2, m2 = Coalesced(m, b)
    PROVE  \E B2, P2 : Heaped(m2, B2, P2, n, Null) /\ SameInUse(m.hdr, B, m2.hdr, B2)
  <1> DEFINE H == m.hdr  F == m.ftr
  <1>1. /\ H \in Headers /\ SideBySide(H, F, B) /\ B \subseteq Addrs /\ HeapBase \in B
        /\ Sealed(H, B, b) /\ \A c \in B : H[c].magic \in {"free", "used"}
    BY HeapedFacts
  <1>2. \A c \in B : /\ c \in Nat /\ H[c].size \in Nat /\ End(H, c) \in Nat
                     /\ c < End(H, c) /\ HeapBase <= c
    BY <1>1, Interior
  <1>3. \A c, d \in B : End(H, c) = End(H, d) => c = d
    <2> SUFFICES ASSUME NEW c \in B, NEW d \in B, End(H, c) = End(H, d) PROVE c = d
      OBVIOUS
    <2>1. (c < d => End(H, c) <= d) /\ (d < c => End(H, d) <= c)
      BY <1>1 DEF SideBySide
    <2> QED BY <1>2, <2>1
  <1>4. CASE b = HeapBase
    <2>1. m2 = fl_push(m, b)
      BY <1>2, <1>4, Numbers DEF Coalesced
    <2>2. \A c \in B : End(H, c) # b
      BY <1>2, <1>4, Numbers
    <2> HIDE DEF H, F
    <2> QED BY <2>1, <2>2, Returns DEF H
  <1>5. CASE b # HeapBase
    <2>1. PICK a \in B : End(H, a) = b
      BY <1>1, <1>5 DEF SideBySide
    <2>2. LeftOf(m, b) = a /\ b > HeapBase
      <3>1. F[FooterOf(a, H[a].size)] = H[a].size
        BY <1>1 DEF SideBySide
      <3>2. FooterOf(a, H[a].size) = b - FtrSize
        BY <1>2, <2>1, Numbers DEF End, FooterOf
      <3>3. LeftOf(m, b) = b - FtrSize - H[a].size - HdrSize
        BY <3>1, <3>2 DEF LeftOf
      <3>4. b = a + Overhead + H[a].size
        BY <2>1 DEF End
      <3>5. LeftOf(m, b) = a
        BY <1>2, <3>3, <3>4, Numbers, SMTT(30)
      <3> QED BY <1>2, <1>5, <3>5, Numbers
    <2>3. CASE H[a].magic = "free"
      <3> DEFINE m1 == Grown(m, b, a)
      <3>1. m2 = fl_push(m1, a)
        BY <2>2, <2>3 DEF Coalesced
      <3>2. Merging(m, B, P, n, a, b, b, a, m1)
        BY <2>1, <2>3 DEF Merging, Grown
      <3> HIDE DEF m1
      <3>3. Merged(m, B, n, a, b, m1)
        BY <3>2, Merges
      <3>4. PICK P2 : Heaped(m1, B \ {b}, P2, n, a)
        BY <3>3 DEF Merged
      <3>5. /\ a # b /\ m1.hdr[a].magic = "free" /\ End(m1.hdr, a) = End(H, b)
            /\ \A c \in B \ {a, b} : End(m1.hdr, c) = End(H, c) /\ m1.hdr[c] = H[c]
            /\ SameInUse(H, B, m1.hdr, B \ {b})
        BY <3>3 DEF Merged
      <3>6. End(m1.hdr, a) \in B \ {b} => m1.hdr[End(m1.hdr, a)].magic = "used"
        <4>1. End(H, b) # a
          BY <1>2, <2>1
        <4> QED BY <3>5, <4>1
      <3>7. ASSUME NEW c \in B \ {b}, End(m1.hdr, c) = a PROVE m1.hdr[c].magic = "used"
        <4>1. c # a
          <5>1. End(H, b) # a
            BY <1>2, <2>1
          <5> QED BY <3>5, <3>7, <5>1
        <4>2. End(H, c) = a /\ m1.hdr[c] = H[c]
          BY <3>5, <3>7, <4>1
        <4>3. H[c].magic # "free"
          BY <1>1, <2>3, <3>5, <4>2 DEF Sealed
        <4> QED BY <1>1, <4>2, <4>3
      <3>8. \E P3 : Heaped(m2, B \ {b}, P3, n, Null) /\ SameInUse(m1.hdr, B \ {b}, m2.hdr, B \ {b})
        BY <3>1, <3>4, <3>5, <3>6, <3>7, Returns
      <3>9. SameInUse(H, B, m2.hdr, B \ {b})
        BY <3>5, <3>8, SameInUseTwice
      <3> QED BY <3>8, <3>9
    <2>4. CASE H[a].magic # "free"
      <3>1. m2 = fl_push(m, b)
        BY <2>2, <2>4 DEF Coalesced
      <3>2. \A c \in B : End(H, c) = b => H[c].magic = "used"
        BY <1>1, <1>3, <2>1, <2>4
      <3> HIDE DEF H, F
      <3> QED BY <3>1, <3>2, Returns DEF H
    <2> QED BY <2>3, <2>4
  <1> QED BY <1>4, <1>5

(* kfree: the block given back is no longer in use, the others are.        *)
OneLess(H, B, H2, B2, b) ==
    /\ \A c : c \in B /\ H[c].magic = "used" /\ c # b <=> c \in B2 /\ H2[c].magic = "used"
    /\ \A c : c \in B /\ H[c].magic = "used" /\ c # b => H2[c].size = H[c].size

LEMMA Frees ==
    ASSUME NEW B, NEW P, NEW n \in Int, Heaped(Now, B, P, n, Null),
           NEW b \in B, hdr[b].magic = "used",
           NEW m, m = Coalesced(MergedRight([Now EXCEPT !.hdr[b].magic = "free"], b), b)
    PROVE  \E B2, P2 : Heaped(m, B2, P2, n - hdr[b].size, Null) /\ OneLess(hdr, B, m.hdr, B2, b)
  <1> DEFINE m0 == [Now EXCEPT !.hdr[b].magic = "free"]  m1 == MergedRight(m0, b)
             k == n - hdr[b].size
  <1>1. Now.hdr = hdr /\ hdr[b].size \in Nat
    <2>1. Now.hdr = hdr /\ Now.hdr \in Headers /\ b \in Addrs
      BY HeapedFacts DEF Now
    <2> QED BY <2>1 DEF Headers, Header
  <1>2. m = Coalesced(m1, b)
    OBVIOUS
  <1>3. MarkOf(Now, B, P, n, Null, b, "free", m0, -hdr[b].size)
    BY <1>1 DEF MarkOf
  <1> HIDE DEF m0
  <1>4. /\ m0.hdr[b].magic = "free" /\ m0.hdr[b].size = hdr[b].size
        /\ \A c \in B \ {b} : m0.hdr[c] = hdr[c]
        /\ \E P2 : Heaped(m0, B, P2, k, b)
    <2>1. /\ m0.hdr[b].magic = "free" /\ m0.hdr[b].size = Now.hdr[b].size
          /\ \A c \in B \ {b} : m0.hdr[c] = Now.hdr[c]
          /\ \E P2 : Heaped(m0, B, P2, n + (-hdr[b].size), IF "free" = "used" THEN Null ELSE b)
      BY <1>3, MarkBlock
    <2>2. n + (-hdr[b].size) = k
      BY <1>1
    <2> QED BY <1>1, <2>1, <2>2
  <1> HIDE DEF m1, k
  <1>5. PICK B1, P1 : /\ Heaped(m1, B1, P1, k, b) /\ b \in B1 /\ m1.hdr[b].magic = "free"
                      /\ End(m1.hdr, b) \in B1 => m1.hdr[End(m1.hdr, b)].magic = "used"
                      /\ SameInUse(m0.hdr, B, m1.hdr, B1)
    BY <1>4, MergesRight DEF m1
  <1>6. PICK B2, P2 : Heaped(m, B2, P2, k, Null) /\ SameInUse(m1.hdr, B1, m.hdr, B2)
    BY <1>2, <1>5, Coalesces
  <1>7. SameInUse(m0.hdr, B, m.hdr, B2)
    BY <1>5, <1>6, SameInUseTwice
  <1>8. OneLess(hdr, B, m.hdr, B2, b)
    BY <1>4, <1>7 DEF SameInUse, OneLess
  <1> QED BY <1>6, <1>8 DEF k
-----------------------------------------------------------------------------
(* A heap whose blocks B lie side by side.  Every block in use was handed  *)
(* out, at most once, and what was handed out lies in its payload.         *)
Held(H, B, G) ==
    /\ \A r \in G : /\ r.raw - HdrSize \in B /\ H[r.raw - HdrSize].magic = "used"
                    /\ r.size \in Nat \ {0} /\ r.ptr \in Nat /\ r.raw \in Nat /\ r.raw <= r.ptr
                    /\ r.ptr + r.size <= r.raw + H[r.raw - HdrSize].size
    /\ \A r, s \in G : r.raw = s.raw => r = s
    /\ \A b \in B : H[b].magic = "used" => \E r \in G : r.raw = b + HdrSize

HeapInv ==
    /\ heap_used \in Int
    /\ \E B, P : Heaped(Now, B, P, heap_used, Null) /\ Held(hdr, B, given)

LEMMA HeapInit == Init => HeapInv
  <1> SUFFICES ASSUME Init PROVE HeapInv
    OBVIOUS
  <1> DEFINE whole == HeapSize - Overhead
             free == [magic |-> "free", size |-> whole, size_class |-> 0]
             m0 == [hdr |-> [a \in Addrs |-> IF a = HeapBase THEN free ELSE NoHeader],
                    ftr |-> [a \in Addrs |-> IF a = FooterOf(HeapBase, whole) THEN whole ELSE 0],
                    lists |-> [c \in Classes |-> <<>>]]
             m == fl_push(m0, HeapBase)
             B == {HeapBase}
  <1>1. hdr = m.hdr /\ ftr = m.ftr /\ free_lists = m.lists /\ heap_used = 0 /\ given = {}
    BY Zenon DEF Init
  <1>2. whole \in Nat /\ HeapBase \in Addrs /\ FooterOf(HeapBase, whole) \in Addrs
        /\ HeapBase + Overhead + whole = HeapEnd
    BY Numbers DEF FooterOf
  <1> HIDE DEF whole
  <1>3. m0.hdr \in Headers /\ m0.ftr \in Footers /\ m0 \in Records
    <2>1. free \in Header /\ NoHeader \in Header
      BY <1>2, Numbers DEF Header, NoHeader
    <2>2. m0.hdr \in Headers /\ m0.ftr \in Footers
      BY <1>2, <2>1 DEF Headers, Footers
    <2>3. m0.lists \in [Classes -> Seq(Addrs)]
      OBVIOUS
    <2> QED BY <2>2, <2>3 DEF Records
  <1>4. m0.hdr[HeapBase] = free /\ m0.ftr[FooterOf(HeapBase, whole)] = whole
    BY <1>2
  <1>5. \A c \in Classes : m0.lists[c] = <<>>
    OBVIOUS
  <1> HIDE DEF m0
  <1>6. End(m0.hdr, HeapBase) = HeapEnd
    BY <1>2, <1>4 DEF End
  <1>7. SideBySide(m0.hdr, m0.ftr, B)
    BY <1>2, <1>4, <1>6, Numbers DEF SideBySide
  <1>8. Linked(m0, {})
    BY <1>5 DEF Linked, Once, Holds
  <1> DEFINE P == [x \in {HeapBase, HeapEnd} |-> 0]
  <1>9. Counts(m0.hdr, B, P, 0)
    <2>1. InUse(m0.hdr, HeapBase) = 0
      BY <1>4 DEF InUse
    <2> QED BY <1>6, <2>1 DEF Counts
  <1>10. HeapBase # HeapEnd
    BY <1>2, Numbers
  <1>11. Heaped(m0, B, P, 0, HeapBase)
    <2>1. FreeIn(m0.hdr, B) \ {HeapBase} = {}
      BY DEF FreeIn
    <2>2. Sealed(m0.hdr, B, HeapBase)
      BY DEF Sealed
    <2> QED BY <1>3, <1>7, <1>8, <1>9, <2>1, <2>2 DEF Heaped
  <1>12. \E P2 : Heaped(m, B, P2, 0, Null) /\ SameInUse(m0.hdr, B, m.hdr, B)
    <2>1. /\ HeapBase \in B /\ m0.hdr[HeapBase].magic = "free"
          /\ End(m0.hdr, HeapBase) \notin B
          /\ \A c \in B : End(m0.hdr, c) # HeapBase
      BY <1>4, <1>6, <1>10
    <2> HIDE DEF B, P
    <2> QED BY <1>11, <2>1, Returns
  <1>13. \A b \in B : m.hdr[b].magic # "used"
    BY <1>4, <1>12 DEF SameInUse
  <1>14. Now = m
    <2>1. m \in Records
      BY <1>12 DEF Heaped
    <2> HIDE DEF m
    <2> QED BY <1>1, <2>1 DEF Now, Records
  <1>15. Held(hdr, B, given)
    BY <1>1, <1>13 DEF Held
  <1> QED BY <1>1, <1>12, <1>14, <1>15 DEF HeapInv
(* What is held lies in the heap, and no two of it overlap.                *)
LEMMA HeldApart ==
    ASSUME NEW H \in Headers, NEW F, NEW B, SideBySide(H, F, B), NEW G, Held(H, B, G)
    PROVE  /\ \A r \in G : TheArena!Inside(r)
           /\ \A r, s \in G : r # s => TheArena!Apart(r, s)
  <1>1. \A b \in B : /\ b \in Nat /\ H[b].size \in Nat /\ HeapBase <= b
                     /\ End(H, b) \in Nat /\ End(H, b) <= HeapEnd
                     /\ End(H, b) = b + Overhead + H[b].size
    BY Interior DEF End
  <1>2. ASSUME NEW r \in G
        PROVE  LET b == r.raw - HdrSize
               IN  /\ b \in B /\ r.size \in Nat \ {0} /\ r.ptr \in Nat
                   /\ b < r.ptr /\ r.ptr + r.size < End(H, b)
    <2> DEFINE b == r.raw - HdrSize  z == H[b].size
    <2>1. /\ b \in B /\ r.size \in Nat \ {0} /\ r.ptr \in Nat /\ r.raw \in Nat /\ r.raw <= r.ptr
          /\ r.ptr + r.size <= r.raw + z
      BY DEF Held
    <2>2. b \in Nat /\ z \in Nat /\ End(H, b) = b + Overhead + z
      BY <1>1, <2>1
    <2>3. r.raw = b + HdrSize
      BY <2>1, Numbers
    <2> HIDE DEF b, z
    <2>4. b < r.ptr /\ r.ptr + r.size < End(H, b)
      BY <2>1, <2>2, <2>3, Numbers
    <2> QED BY <2>1, <2>4 DEF b
  <1>3. ASSUME NEW r \in G PROVE TheArena!Inside(r)
    <2> PICK b \in B : /\ r.size \in Nat \ {0} /\ r.ptr \in Nat
                       /\ b < r.ptr /\ r.ptr + r.size < End(H, b)
      BY <1>2
    <2>1. r.size > 0 /\ HeapBase <= r.ptr /\ r.ptr + r.size - 1 <= HeapEnd - 1
      BY <1>1, Numbers
    <2> QED BY <2>1 DEF TheArena!Inside
  <1>4. ASSUME NEW r \in G, NEW s \in G, r # s PROVE TheArena!Apart(r, s)
    <2> DEFINE b == r.raw - HdrSize  c == s.raw - HdrSize
    <2>1. b # c
      <3>1. r.raw # s.raw /\ r.raw \in Nat /\ s.raw \in Nat
        BY <1>4 DEF Held
      <3> QED BY <3>1, Numbers
    <2>2. /\ b \in B /\ r.size \in Nat \ {0} /\ r.ptr \in Nat /\ b < r.ptr
          /\ r.ptr + r.size < End(H, b)
          /\ c \in B /\ s.size \in Nat \ {0} /\ s.ptr \in Nat /\ c < s.ptr
          /\ s.ptr + s.size < End(H, c)
      BY <1>2
    <2> HIDE DEF b, c
    <2>3. b \in Nat /\ c \in Nat /\ End(H, b) \in Nat /\ End(H, c) \in Nat
      BY <1>1, <2>2
    <2>4. CASE b < c
      <3>1. End(H, b) <= c
        BY <2>2, <2>4 DEF SideBySide
      <3>2. r.ptr + r.size <= s.ptr
        BY <2>2, <2>3, <3>1
      <3> QED BY <3>2 DEF TheArena!Apart
    <2>5. CASE c < b
      <3>1. End(H, c) <= b
        BY <2>2, <2>5 DEF SideBySide
      <3>2. s.ptr + s.size <= r.ptr
        BY <2>2, <2>3, <3>1
      <3> QED BY <3>2 DEF TheArena!Apart
    <2> QED BY <2>1, <2>3, <2>4, <2>5
  <1> QED BY <1>3, <1>4

(* A call of kmalloc, for what lies in the raw memory it asked for.        *)
LEMMA HandedStep ==
    ASSUME HeapInv, NEW asked \in Nat, NEW ptr \in Nat, NEW size \in Nat \ {0},
           Raw(asked) <= ptr, ptr + size <= Raw(asked) + asked, Handed(asked, ptr, size)
    PROVE  HeapInv' /\ TheArena!Allocate
  <1> DEFINE rounded == RoundUp(asked, MinBlock)
             b == Found(rounded)
             m == Taken(rounded)
             new == [ptr |-> ptr, size |-> size, raw |-> b + HdrSize]
  <1>1. /\ b # Null /\ hdr' = m.hdr /\ ftr' = m.ftr /\ free_lists' = m.lists
        /\ heap_used' = heap_used + m.hdr[b].size /\ given' = given \union {new}
    BY DEF Handed
  <1>2. PICK B, P : Heaped(Now, B, P, heap_used, Null) /\ Held(hdr, B, given)
    BY DEF HeapInv
  <1>3. rounded \in Nat /\ asked <= rounded
    BY Numbers, RoundsUp
  <1>4. heap_used \in Int
    BY DEF HeapInv
  <1>5. Raw(asked) = b + HdrSize
    BY DEF Raw
  <1> HIDE DEF m, b, rounded
  <1>6. PICK B2, P2 : /\ b \in B /\ hdr[b].magic = "free"
                      /\ Heaped(m, B2, P2, heap_used + m.hdr[b].size, Null) /\ b \in B2
                      /\ m.hdr[b].size >= rounded /\ OneMore(hdr, B, m.hdr, B2, b)
    BY <1>1, <1>2, <1>3, <1>4, Takes DEF b, m
  <1>7. /\ m \in Records /\ m.hdr \in Headers /\ SideBySide(m.hdr, m.ftr, B2) /\ B2 \subseteq Addrs
        /\ b \in Nat /\ m.hdr[b].size \in Nat
    <2>1. Heaped(m, B2, P2, heap_used + m.hdr[b].size, Null)
      BY <1>6
    <2>2. /\ m \in Records /\ m.hdr \in Headers /\ SideBySide(m.hdr, m.ftr, B2) /\ B2 \subseteq Addrs
      BY <2>1 DEF Heaped, Records, SideBySide
    <2> QED BY <1>6, <2>2, Interior
  <1>8. Now' = m
    BY <1>1, <1>7 DEF Now, Records
  <1>9. new.raw = b + HdrSize /\ new.ptr = ptr /\ new.size = size
    OBVIOUS
  <1> HIDE DEF new
  <1>10. new.raw - HdrSize = b /\ new.raw \in Nat
    BY <1>7, <1>9, Numbers
  <1>11. \A r \in given : /\ r.raw - HdrSize \in B /\ hdr[r.raw - HdrSize].magic = "used"
                          /\ r.raw # new.raw
    <2> SUFFICES ASSUME NEW r \in given
                 PROVE  /\ r.raw - HdrSize \in B /\ hdr[r.raw - HdrSize].magic = "used"
                        /\ r.raw # new.raw
      OBVIOUS
    <2>1. r.raw - HdrSize \in B /\ hdr[r.raw - HdrSize].magic = "used"
      BY <1>2 DEF Held
    <2>2. r.raw - HdrSize # new.raw - HdrSize
      BY <1>6, <1>10, <2>1
    <2> QED BY <2>1, <2>2
  <1>12. Held(m.hdr, B2, given \union {new})
    <2>1. ASSUME NEW r \in given \union {new}
          PROVE  /\ r.raw - HdrSize \in B2 /\ m.hdr[r.raw - HdrSize].magic = "used"
                 /\ r.size \in Nat \ {0} /\ r.ptr \in Nat /\ r.raw \in Nat /\ r.raw <= r.ptr
                 /\ r.ptr + r.size <= r.raw + m.hdr[r.raw - HdrSize].size
      <3>1. CASE r = new
        <4>1. m.hdr[b].magic = "used"
          BY <1>6 DEF OneMore
        <4>2. /\ r.raw - HdrSize = b /\ r.raw = b + HdrSize /\ r.ptr = ptr /\ r.size = size
              /\ r.raw \in Nat
          BY <1>9, <1>10, <3>1
        <4>3. ptr + size <= b + HdrSize + m.hdr[b].size
          BY <1>3, <1>5, <1>6, <1>7, Numbers, SMTT(30)
        <4> QED BY <1>5, <1>6, <4>1, <4>2, <4>3
      <3>2. CASE r \in given
        <4>1. /\ r.raw - HdrSize \in B /\ hdr[r.raw - HdrSize].magic = "used"
              /\ r.size \in Nat \ {0} /\ r.ptr \in Nat /\ r.raw \in Nat /\ r.raw <= r.ptr
              /\ r.ptr + r.size <= r.raw + hdr[r.raw - HdrSize].size
          BY <1>2, <3>2 DEF Held
        <4>2. /\ r.raw - HdrSize \in B2 /\ m.hdr[r.raw - HdrSize].magic = "used"
              /\ m.hdr[r.raw - HdrSize].size = hdr[r.raw - HdrSize].size
          BY <1>6, <4>1 DEF OneMore
        <4> QED BY <4>1, <4>2
      <3> QED BY <3>1, <3>2
    <2>2. \A r, s \in given \union {new} : r.raw = s.raw => r = s
      <3>1. \A r, s \in given : r.raw = s.raw => r = s
        BY <1>2 DEF Held
      <3> QED BY <1>11, <3>1
    <2>3. ASSUME NEW c \in B2, m.hdr[c].magic = "used"
          PROVE  \E r \in given \union {new} : r.raw = c + HdrSize
      <3>1. CASE c = b
        BY <1>9, <3>1
      <3>2. CASE c # b
        <4>1. c \in B /\ hdr[c].magic = "used"
          BY <1>6, <2>3, <3>2 DEF OneMore
        <4> QED BY <1>2, <4>1 DEF Held
      <3> QED BY <3>1, <3>2
    <2> QED BY <2>1, <2>2, <2>3 DEF Held
  <1>13. HeapInv'
    <2>1. heap_used' \in Int
      BY <1>1, <1>4, <1>7
    <2>2. Heaped(Now', B2, P2, heap_used', Null) /\ Held(hdr', B2, given')
      BY <1>1, <1>6, <1>8, <1>12
    <2> QED BY <2>1, <2>2 DEF HeapInv
  <1>14. TheArena!Allocate
    <2>1. new \in given' \ given
      BY <1>1, <1>11
    <2>2. TheArena!Inside(new) /\ \A s \in given : TheArena!Apart(new, s)
      <3>1. /\ \A r \in given \union {new} : TheArena!Inside(r)
            /\ \A r, s \in given \union {new} : r # s => TheArena!Apart(r, s)
        BY <1>7, <1>12, HeldApart
      <3> QED BY <1>11, <3>1
    <2> QED BY <1>1, <2>1, <2>2 DEF TheArena!Allocate
  <1> QED BY <1>13, <1>14

LEMMA FreedStep ==
    ASSUME HeapInv, NEW r \in given, kfree(r)
    PROVE  HeapInv' /\ TheArena!Release
  <1> DEFINE b == r.raw - HdrSize
             m == Coalesced(MergedRight([Now EXCEPT !.hdr[b].magic = "free"], b), b)
  <1>1. /\ hdr[b].magic = "used" /\ hdr' = m.hdr /\ ftr' = m.ftr /\ free_lists' = m.lists
        /\ heap_used' = heap_used - hdr[b].size /\ given' = given \ {r}
    BY DEF kfree
  <1>2. PICK B, P : Heaped(Now, B, P, heap_used, Null) /\ Held(hdr, B, given)
    BY DEF HeapInv
  <1>3. heap_used \in Int
    BY DEF HeapInv
  <1>4. b \in B
    BY <1>2 DEF Held
  <1>5. hdr[b].size \in Nat
    <2>1. Now.hdr = hdr /\ Now.hdr \in Headers /\ SideBySide(Now.hdr, Now.ftr, B)
      BY <1>2, HeapedFacts DEF Now
    <2> QED BY <1>4, <2>1, Interior
  <1>6. PICK B2, P2 : /\ Heaped(m, B2, P2, heap_used - hdr[b].size, Null)
                      /\ OneLess(hdr, B, m.hdr, B2, b)
    <2> HIDE DEF b
    <2> QED BY <1>1, <1>2, <1>3, <1>4, Frees
  <1> HIDE DEF m
  <1>7. Now' = m
    <2>1. m \in Records
      BY <1>6, HeapedFacts
    <2> QED BY <1>1, <2>1 DEF Now, Records
  <1>8. Held(m.hdr, B2, given \ {r})
    <2>1. ASSUME NEW s \in given \ {r}
          PROVE  /\ s.raw - HdrSize \in B2 /\ m.hdr[s.raw - HdrSize].magic = "used"
                 /\ s.size \in Nat \ {0} /\ s.ptr \in Nat /\ s.raw \in Nat /\ s.raw <= s.ptr
                 /\ s.ptr + s.size <= s.raw + m.hdr[s.raw - HdrSize].size
      <3>1. /\ s.raw - HdrSize \in B /\ hdr[s.raw - HdrSize].magic = "used"
            /\ s.size \in Nat \ {0} /\ s.ptr \in Nat /\ s.raw \in Nat /\ s.raw <= s.ptr
            /\ s.ptr + s.size <= s.raw + hdr[s.raw - HdrSize].size
        BY <1>2 DEF Held
      <3>2. s.raw - HdrSize # b
        <4>1. s.raw # r.raw /\ r.raw \in Nat
          BY <1>2 DEF Held
        <4> QED BY <3>1, <4>1, Numbers
      <3>3. /\ s.raw - HdrSize \in B2 /\ m.hdr[s.raw - HdrSize].magic = "used"
            /\ m.hdr[s.raw - HdrSize].size = hdr[s.raw - HdrSize].size
        <4> HIDE DEF b
        <4> QED BY <1>6, <3>1, <3>2 DEF OneLess
      <3> QED BY <3>1, <3>3
    <2>2. \A s, t \in given \ {r} : s.raw = t.raw => s = t
      BY <1>2 DEF Held
    <2>3. ASSUME NEW c \in B2, m.hdr[c].magic = "used"
          PROVE  \E s \in given \ {r} : s.raw = c + HdrSize
      <3>1. c \in B /\ hdr[c].magic = "used" /\ c # b
        <4> HIDE DEF b
        <4> QED BY <1>6, <2>3 DEF OneLess
      <3>2. PICK s \in given : s.raw = c + HdrSize
        BY <1>2, <3>1 DEF Held
      <3>3. c \in Nat
        <4>1. B \subseteq Addrs
          BY <1>2, HeapedFacts
        <4> QED BY <3>1, <4>1, Numbers
      <3>4. s # r
        BY <3>1, <3>2, <3>3, Numbers
      <3> QED BY <3>2, <3>4
    <2> QED BY <2>1, <2>2, <2>3 DEF Held
  <1>9. HeapInv'
    <2>1. heap_used' \in Int
      BY <1>1, <1>3, <1>5
    <2>2. Heaped(Now', B2, P2, heap_used', Null) /\ Held(hdr', B2, given')
      BY <1>1, <1>6, <1>7, <1>8
    <2> QED BY <2>1, <2>2 DEF HeapInv
  <1> QED BY <1>1, <1>9 DEF TheArena!Release
LEMMA HeapStep == HeapInv /\ [Next]_vars => HeapInv' /\ [TheArena!Allocate \/ TheArena!Release]_given
  <1> SUFFICES ASSUME HeapInv, [Next]_vars
               PROVE  HeapInv' /\ [TheArena!Allocate \/ TheArena!Release]_given
    OBVIOUS
  <1>1. \A size \in Sizes : size \in Nat \ {0}
    BY HeapAssumption
  <1>2. \A align \in Aligns : align \in Nat \ {0}
    BY HeapAssumption
  <1>3. ASSUME NEW asked, Found(RoundUp(asked, MinBlock)) # Null PROVE Raw(asked) \in Nat
    <2>1. PICK B, P : Heaped(Now, B, P, heap_used, Null)
      BY DEF HeapInv
    <2> DEFINE b == Found(RoundUp(asked, MinBlock))
    <2>2. b \in B
      BY <1>3, <2>1, FoundFits
    <2>3. B \subseteq Addrs
      BY <2>1, HeapedFacts
    <2>4. Raw(asked) = b + HdrSize
      BY DEF Raw
    <2> HIDE DEF b
    <2> QED BY <2>2, <2>3, <2>4, Numbers
  <1>4. CASE \E size \in Sizes : kmalloc(size)
    <2> PICK size \in Sizes : kmalloc(size)
      BY <1>4
    <2>1. Handed(size, Raw(size), size) /\ Raw(size) \in Nat
      BY <1>3 DEF kmalloc, Handed
    <2>2. Raw(size) <= Raw(size) /\ Raw(size) + size <= Raw(size) + size
      BY <1>1, <2>1
    <2> QED BY <1>1, <2>1, <2>2, HandedStep
  <1>5. CASE \E size \in Sizes, align \in Aligns : kmalloc_aligned(size, align)
    <2> PICK size \in Sizes, align \in Aligns : kmalloc_aligned(size, align)
      BY <1>5
    <2> DEFINE asked == Padded(size, align)  ptr == RoundUp(Raw(asked) + PtrSize, align)
    <2>1. Handed(asked, ptr, size) /\ Raw(asked) \in Nat
      BY <1>3 DEF kmalloc_aligned, Handed
    <2>2. asked \in Nat /\ asked = size + align + PtrSize
      BY <1>1, <1>2, Numbers DEF Padded
    <2> HIDE DEF asked
    <2>3. /\ ptr \in Nat /\ Raw(asked) + PtrSize <= ptr
          /\ ptr <= Raw(asked) + PtrSize + align - 1
      <3>1. Raw(asked) + PtrSize \in Nat /\ align \in Nat \ {0}
        BY <1>2, <2>1, Numbers
      <3> QED BY <3>1, RoundsUp
    <2> HIDE DEF ptr
    <2>4. Raw(asked) <= ptr /\ ptr + size <= Raw(asked) + asked
      BY <1>1, <1>2, <2>1, <2>2, <2>3, Numbers
    <2> QED BY <1>1, <2>1, <2>2, <2>3, <2>4, HandedStep
  <1>6. CASE \E r \in given : kfree(r)
    BY <1>6, FreedStep
  <1>7. CASE UNCHANGED vars
    BY <1>7 DEF vars, HeapInv, Heaped, Held, Now
  <1> QED BY <1>4, <1>5, <1>6, <1>7 DEF Next

(* What kmalloc and kmalloc_aligned hand out, through every splitting and  *)
(* merging of blocks, lies in the heap and apart from all that was handed  *)
(* out and not given back.                                                 *)
THEOREM HeapIsArena == Spec => IsArena
  <1>1. Init => TheArena!Init
    BY DEF Init, TheArena!Init
  <1>2. HeapInv /\ [Next]_vars => [TheArena!Allocate \/ TheArena!Release]_given
    BY HeapStep
  <1>3. Spec => []HeapInv
    BY HeapInit, HeapStep, PTL DEF Spec
  <1> QED BY <1>1, <1>2, <1>3, PTL DEF Spec, IsArena, TheArena!Spec
-----------------------------------------------------------------------------
(* Going from header to header visits the blocks, and nothing else.        *)
Onward(a) == IF a \in Addrs THEN After(a) ELSE a

(* What Walk stands for exists: there is a walk of n steps for each n.     *)
LEMMA WalkDef ==
    /\ Walk[0] = HeapBase
    /\ \A n \in 1 .. HeapSize : Walk[n] = Onward(Walk[n - 1])
  <1> DEFINE IsWalk(f, n) == /\ DOMAIN f = 0 .. n /\ f[0] = HeapBase
                             /\ \A i \in 1 .. n : f[i] = Onward(f[i - 1])
             S == {n \in 0 .. HeapSize : ~\E f : IsWalk(f, n)}
  <1>1. ASSUME S # {} PROVE FALSE
    <2> DEFINE k == Least(S)
    <2>1. k \in S /\ \A n \in S : k <= n
      <3>1. S \in SUBSET Nat
        BY Numbers
      <3> HIDE DEF S
      <3> QED BY <1>1, <3>1, LeastExists
    <2> HIDE DEF k
    <2>2. k \in 0 .. HeapSize /\ ~\E f : IsWalk(f, k)
      BY <2>1
    <2>3. CASE k = 0
      <3> DEFINE g == [i \in 0 .. 0 |-> HeapBase]
      <3>1. IsWalk(g, 0)
        OBVIOUS
      <3> QED BY <2>2, <2>3, <3>1
    <2>4. CASE k # 0
      <3>1. k - 1 \in 0 .. HeapSize /\ k - 1 < k /\ k \in Nat \ {0}
        BY <2>2, <2>4, Numbers
      <3>2. k - 1 \notin S
        BY <2>1, <3>1
      <3>3. PICK f : IsWalk(f, k - 1)
        BY <3>1, <3>2
      <3> DEFINE g == [i \in 0 .. k |-> IF i = k THEN Onward(f[k - 1]) ELSE f[i]]
      <3>4. DOMAIN g = 0 .. k /\ g[k] = Onward(f[k - 1]) /\ \A i \in 0 .. k - 1 : g[i] = f[i]
        BY <3>1
      <3> HIDE DEF g
      <3>5. g[0] = HeapBase
        BY <3>1, <3>3, <3>4
      <3>6. ASSUME NEW i \in 1 .. k PROVE g[i] = Onward(g[i - 1])
        <4>1. i - 1 \in 0 .. k - 1 /\ g[i - 1] = f[i - 1]
          BY <3>1, <3>4
        <4>2. CASE i = k
          BY <3>4, <4>1, <4>2
        <4>3. CASE i # k
          <5>1. i \in 1 .. k - 1 /\ i \in 0 .. k - 1
            BY <3>1, <4>3
          <5> QED BY <3>3, <3>4, <4>1, <5>1
        <4> QED BY <4>2, <4>3
      <3>7. IsWalk(g, k)
        BY <3>4, <3>5, <3>6
      <3> QED BY <2>2, <3>7
    <2> QED BY <2>3, <2>4
  <1>2. PICK f : IsWalk(f, HeapSize)
    <2>1. HeapSize \in 0 .. HeapSize
      BY Numbers
    <2> QED BY <1>1, <2>1
  <1> DEFINE Body(g, n) == IF n = 0 THEN HeapBase
                           ELSE LET before == g[n - 1]
                                IN  IF before \in Addrs THEN After(before) ELSE before
             F == [n \in 0 .. HeapSize |-> f[n]]
  <1>3. F = [n \in 0 .. HeapSize |-> Body(F, n)]
    <2>1. ASSUME NEW n \in 0 .. HeapSize PROVE F[n] = Body(F, n)
      <3>1. CASE n = 0
        BY <1>2, <3>1
      <3>2. CASE n # 0
        <4>1. n \in 1 .. HeapSize /\ n - 1 \in 0 .. HeapSize
          BY <3>2, Numbers
        <4>2. f[n] = Onward(f[n - 1]) /\ F[n] = f[n] /\ F[n - 1] = f[n - 1]
          BY <1>2, <4>1
        <4> QED BY <3>2, <4>2 DEF Onward
      <3> QED BY <3>1, <3>2
    <2> QED BY <2>1
  <1> HIDE DEF Body
  <1>4. Walk = CHOOSE g : g = [n \in 0 .. HeapSize |-> Body(g, n)]
    BY Zenon DEF Walk, Body
  <1> HIDE DEF F
  <1>5. Walk = [n \in 0 .. HeapSize |-> Body(Walk, n)]
    BY <1>3, <1>4
  <1>6. \A n \in 0 .. HeapSize : Walk[n] = Body(Walk, n)
    BY <1>5
  <1>7. 0 \in 0 .. HeapSize /\ \A n \in 1 .. HeapSize : n # 0 /\ n \in 0 .. HeapSize
    BY Numbers
  <1> QED BY <1>6, <1>7 DEF Body, Onward
LEMMA WalkVisits ==
    ASSUME NEW B, NEW P, NEW n, Heaped(Now, B, P, n, Null)
    PROVE  /\ Walk[HeapSize] = HeapEnd /\ Blocks = B
           /\ \A b \in B : After(b) = End(hdr, b)
  <1>1. /\ hdr \in Headers /\ SideBySide(hdr, ftr, B) /\ B \subseteq Addrs
        /\ HeapBase \in B /\ HeapEnd \notin B
    <2>1. Now.hdr = hdr /\ Now.ftr = ftr
      BY DEF Now
    <2> QED BY <2>1, HeapedFacts
  <1>2. \A b \in B : /\ b \in Nat /\ End(hdr, b) \in Nat /\ b < End(hdr, b) /\ After(b) = End(hdr, b)
                     /\ End(hdr, b) \in B \union {HeapEnd} /\ HeapBase <= b
    <2>1. \A b \in B : After(b) = End(hdr, b) /\ End(hdr, b) \in B \union {HeapEnd}
      BY <1>1 DEF After, End, SideBySide
    <2> QED BY <1>1, <2>1, Interior
  <1>3. HeapEnd \notin Addrs
    BY Numbers
  <1>4. /\ Walk[0] = HeapBase
        /\ \A i \in 1 .. HeapSize : Walk[i] = Onward(Walk[i - 1])
    BY WalkDef
  <1> DEFINE Good(i) == /\ Walk[i] \in B \union {HeapEnd}
                        /\ Walk[i] # HeapEnd => HeapBase + i <= Walk[i]
  <1>5. \A i \in 0 .. HeapSize : Good(i)
    <2> DEFINE S == {i \in 0 .. HeapSize : ~Good(i)}
    <2> SUFFICES ASSUME S # {} PROVE FALSE
      OBVIOUS
    <2> DEFINE k == Least(S)
    <2>1. k \in S /\ \A i \in S : k <= i
      <3>1. S \in SUBSET Nat
        BY Numbers
      <3> HIDE DEF S
      <3> QED BY <3>1, LeastExists
    <2> HIDE DEF k
    <2>2. k \in 0 .. HeapSize /\ ~Good(k)
      BY <2>1
    <2>3. k # 0
      <3>1. Good(0)
        BY <1>1, <1>4, Numbers
      <3> HIDE DEF Good
      <3> QED BY <2>2, <3>1
    <2>4. k - 1 \in 0 .. HeapSize /\ k - 1 < k /\ k \in 1 .. HeapSize
      BY <2>2, <2>3, Numbers
    <2>5. Good(k - 1)
      <3> HIDE DEF Good
      <3>1. k - 1 \notin S
        BY <2>1, <2>4
      <3> QED BY <2>4, <3>1
    <2>6. Walk[k] = Onward(Walk[k - 1])
      BY <1>4, <2>4
    <2>7. CASE Walk[k - 1] = HeapEnd
      BY <1>3, <2>2, <2>5, <2>6, <2>7 DEF Onward
    <2>8. CASE Walk[k - 1] # HeapEnd
      <3>1. Walk[k - 1] \in B /\ HeapBase + (k - 1) <= Walk[k - 1]
        BY <2>5, <2>8
      <3>2. Walk[k] = End(hdr, Walk[k - 1])
        BY <1>1, <1>2, <2>6, <3>1 DEF Onward
      <3>3. Walk[k] \in B \union {HeapEnd} /\ HeapBase + k <= Walk[k]
        BY <1>2, <2>4, <3>1, <3>2, Numbers
      <3> QED BY <2>2, <3>3
    <2> QED BY <2>7, <2>8
  <1>6. Walk[HeapSize] = HeapEnd
    <2>1. Good(HeapSize)
      BY <1>5, Numbers
    <2>2. ASSUME Walk[HeapSize] # HeapEnd PROVE FALSE
      <3>1. Walk[HeapSize] \in Addrs /\ HeapBase + HeapSize <= Walk[HeapSize]
        BY <1>1, <2>1, <2>2
      <3> QED BY <3>1, Numbers
    <2> QED BY <2>2
  <1>7. Blocks \subseteq B
    BY <1>3, <1>5 DEF Blocks
  <1>8. B \subseteq Blocks
    <2> DEFINE S == {b \in B : \A i \in 0 .. HeapSize : Walk[i] # b}
    <2>1. ASSUME S # {} PROVE FALSE
      <3> DEFINE c == Least(S)
      <3>1. c \in S /\ \A b \in S : c <= b
        <4>1. S \in SUBSET Nat
          BY <1>2
        <4> HIDE DEF S
        <4> QED BY <2>1, <4>1, LeastExists
      <3> HIDE DEF c
      <3>2. c \in B /\ \A i \in 0 .. HeapSize : Walk[i] # c
        BY <3>1
      <3>3. c # HeapBase
        <4>1. 0 \in 0 .. HeapSize
          BY Numbers
        <4> QED BY <1>4, <3>2, <4>1
      <3>4. PICK a \in B : End(hdr, a) = c
        BY <1>1, <3>2, <3>3 DEF SideBySide
      <3>5. a < c /\ a \in Nat /\ c \in Nat
        BY <1>2, <3>2, <3>4
      <3>6. a \notin S
        BY <3>1, <3>5
      <3>7. PICK i \in 0 .. HeapSize : Walk[i] = a
        BY <3>6
      <3>8. i + 1 \in 1 .. HeapSize
        <4>1. HeapBase + i <= a /\ a \in Addrs
          <5>1. Good(i) /\ a # HeapEnd
            BY <1>1, <1>5
          <5> QED BY <1>1, <3>7, <5>1
        <4> QED BY <4>1, Numbers
      <3>9. Walk[i + 1] = c
        <4>1. Walk[i + 1] = Onward(Walk[(i + 1) - 1]) /\ (i + 1) - 1 = i
          BY <1>4, <3>8, Numbers
        <4> QED BY <1>1, <1>2, <3>4, <3>7, <4>1 DEF Onward
      <3>10. i + 1 \in 0 .. HeapSize
        BY <3>8, Numbers
      <3> QED BY <3>2, <3>9, <3>10
    <2> QED BY <1>1, <2>1 DEF Blocks
  <1> QED BY <1>2, <1>6, <1>7, <1>8

(* Blocks cover the heap exactly, footers say what headers say, and no two *)
(* free blocks are neighbours, after any calls of kmalloc, kmalloc_aligned *)
(* and kfree.                                                              *)
THEOREM BlocksAlwaysTile == Spec => []BlocksTile
  <1>1. ASSUME HeapInv PROVE BlocksTile
    <2>1. PICK B, P : Heaped(Now, B, P, heap_used, Null)
      BY <1>1 DEF HeapInv
    <2>2. /\ Walk[HeapSize] = HeapEnd /\ Blocks = B
          /\ \A b \in B : After(b) = End(hdr, b)
      BY <2>1, WalkVisits
    <2>3. /\ SideBySide(hdr, ftr, B) /\ Sealed(hdr, B, Null) /\ B \subseteq Addrs /\ Null \notin B
          /\ HeapEnd \notin B
      <3>1. Now.hdr = hdr /\ Now.ftr = ftr
        BY DEF Now
      <3> QED BY <2>1, <3>1, HeapedFacts
    <2>4. ASSUME NEW b \in B
          PROVE  hdr[b].magic # "none" /\ ftr[FooterOf(b, hdr[b].size)] = hdr[b].size
      BY <2>3 DEF SideBySide
    <2>5. ASSUME NEW b \in B, hdr[b].magic = "free", After(b) < HeapEnd
          PROVE  hdr[After(b)].magic = "used"
      <3>1. End(hdr, b) \in B \union {HeapEnd} /\ End(hdr, b) # HeapEnd
        BY <2>2, <2>3, <2>5, Numbers DEF SideBySide
      <3> QED BY <2>2, <2>3, <2>5, <3>1 DEF Sealed
    <2> QED BY <2>2, <2>4, <2>5 DEF BlocksTile
  <1>2. Spec => []HeapInv
    BY HeapInit, HeapStep, PTL DEF Spec
  <1> QED BY <1>1, <1>2, PTL

(* Each free block is in a list, once, that of its size, and nothing else  *)
(* is.                                                                     *)
THEOREM FreeListsAreExact == Spec => []FreeListsExact
  <1>1. ASSUME HeapInv PROVE FreeListsExact
    <2>1. PICK B, P : Heaped(Now, B, P, heap_used, Null)
      BY <1>1 DEF HeapInv
    <2>2. Blocks = B
      BY <2>1, WalkVisits
    <2>3. Linked(Now, FreeIn(hdr, B) \ {Null}) /\ Null \notin B
      <3>1. Now.hdr = hdr
        BY DEF Now
      <3> QED BY <2>1, <3>1, HeapedFacts
    <2>4. /\ \A c \in Classes : /\ Once(free_lists[c])
                                /\ \A x : Holds(free_lists[c], x)
                                             <=> x \in FreeIn(hdr, B) /\ hdr[x].size_class = c
          /\ \A x \in FreeIn(hdr, B) : hdr[x].size_class = size_to_class(hdr[x].size)
      <3>1. FreeIn(hdr, B) \ {Null} = FreeIn(hdr, B)
        BY <2>3 DEF FreeIn
      <3>2. Now.hdr = hdr /\ Now.lists = free_lists
        BY DEF Now
      <3> QED BY <2>3, <3>1, <3>2 DEF Linked
    <2>5. ASSUME NEW c \in Classes, NEW k \in DOMAIN free_lists[c]
          PROVE  LET b == free_lists[c][k]
                 IN  /\ b \in Blocks /\ hdr[b].magic = "free" /\ size_to_class(hdr[b].size) = c
                     /\ \A j \in DOMAIN free_lists[c] : free_lists[c][j] = b => j = k
      <3> DEFINE b == free_lists[c][k]
      <3>1. Holds(free_lists[c], b)
        BY DEF Holds
      <3>2. b \in FreeIn(hdr, B) /\ size_to_class(hdr[b].size) = c
        BY <2>4, <3>1
      <3>3. \A j \in DOMAIN free_lists[c] : free_lists[c][j] = b => j = k
        BY <2>4 DEF Once
      <3> QED BY <2>2, <3>2, <3>3 DEF FreeIn
    <2>6. ASSUME NEW b \in {x \in Blocks : hdr[x].magic = "free"}
          PROVE  \E c \in Classes : \E k \in DOMAIN free_lists[c] : free_lists[c][k] = b
      <3>1. b \in FreeIn(hdr, B)
        BY <2>2 DEF FreeIn
      <3>2. hdr[b].size_class \in Classes
        BY <2>4, <3>1, ClassOfSize
      <3>3. Holds(free_lists[hdr[b].size_class], b)
        BY <2>4, <3>1, <3>2
      <3> QED BY <3>2, <3>3 DEF Holds
    <2> QED BY <2>5, <2>6 DEF FreeListsExact
  <1>2. Spec => []HeapInv
    BY HeapInit, HeapStep, PTL DEF Spec
  <1> QED BY <1>1, <1>2, PTL

(* When all was given back the heap is one free block, and heap_used is    *)
(* zero: what was counted in was counted out.                              *)
THEOREM HeapIsGivenBack == Spec => []AllGivenBack
  <1>1. ASSUME HeapInv PROVE AllGivenBack
    <2> SUFFICES ASSUME given = {}
                 PROVE  /\ heap_used = 0
                        /\ hdr[HeapBase].magic = "free" /\ After(HeapBase) = HeapEnd
      BY DEF AllGivenBack
    <2>1. PICK B, P : Heaped(Now, B, P, heap_used, Null) /\ Held(hdr, B, given)
      BY <1>1 DEF HeapInv
    <2>2. \A b \in B : After(b) = End(hdr, b)
      BY <2>1, WalkVisits
    <2>3. /\ SideBySide(hdr, ftr, B) /\ Sealed(hdr, B, Null) /\ Null \notin B /\ HeapBase \in B
          /\ Counts(hdr, B, P, heap_used) /\ \A b \in B : hdr[b].magic \in {"free", "used"}
      <3>1. Now.hdr = hdr /\ Now.ftr = ftr
        BY DEF Now
      <3> QED BY <2>1, <3>1, HeapedFacts
    <2>4. \A b \in B : hdr[b].magic = "free"
      BY <2>1, <2>3 DEF Held
    <2>5. End(hdr, HeapBase) = HeapEnd
      <3>1. End(hdr, HeapBase) \in B \union {HeapEnd}
        BY <2>3 DEF SideBySide
      <3>2. End(hdr, HeapBase) \notin B
        BY <2>3, <2>4 DEF Sealed
      <3> QED BY <3>1, <3>2
    <2>6. heap_used = 0
      <3>1. P[End(hdr, HeapBase)] = P[HeapBase] + InUse(hdr, HeapBase)
        BY <2>3 DEF Counts
      <3>2. InUse(hdr, HeapBase) = 0
        BY <2>3, <2>4 DEF InUse
      <3> QED BY <2>3, <2>5, <3>1, <3>2 DEF Counts
    <2> QED BY <2>2, <2>3, <2>4, <2>5, <2>6
  <1>2. Spec => []HeapInv
    BY HeapInit, HeapStep, PTL DEF Spec
  <1> QED BY <1>1, <1>2, PTL
=============================================================================
