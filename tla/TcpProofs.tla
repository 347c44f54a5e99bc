----------------------------- MODULE TcpProofs ------------------------------
(***************************************************************************)
(* TCP, proved for any table of sockets, size of the ring, of segments and *)
(* of sequence numbers: who has a socket, what a program reads, and when   *)
(* tcp_send goes on, however segments are lost, repeated and reordered.    *)
(***************************************************************************)
EXTENDS Tcp, Integers, SequenceTheorems, WellFoundedInduction, TLAPS

-----------------------------------------------------------------------------
(* Sequence numbers.                                                       *)
LEMMA SameRemainder ==
    ASSUME NEW m \in Nat \ {0}, NEW a \in Int, NEW b \in Int, NEW d \in Int,
           a - b = m * d
    PROVE  a % m = b % m
  <1> DEFINE qa == a \div m  ra == a % m  qb == b \div m  rb == b % m
  <1>1. /\ qa \in Int /\ ra \in 0 .. m - 1 /\ a = m * qa + ra
        /\ qb \in Int /\ rb \in 0 .. m - 1 /\ b = m * qb + rb
    OBVIOUS
  <1> HIDE DEF qa, ra, qb, rb
  <1> DEFINE e == qa - qb - d  p == m * e
  <1>2. e \in Int /\ p = m * qa - m * qb - m * d
    BY <1>1
  <1>3. m * qa \in Int /\ m * qb \in Int /\ m * d \in Int
    BY <1>1
  <1>4. p \in Int /\ p + ra = rb
    BY <1>1, <1>2, <1>3
  <1>5. /\ e >= 1 => p >= m
        /\ e <= -1 => p <= -m
        /\ e = 0 => p = 0
    BY <1>2
  <1> HIDE DEF e, p
  <1>6. p = 0
    BY <1>1, <1>2, <1>4, <1>5
  <1> QED BY <1>1, <1>4, <1>6 DEF ra, rb

LEMMA Multiples ==
    ASSUME NEW m \in Nat \ {0}, NEW e \in Int
    PROVE  /\ m * e \in Int
           /\ e >= 1 => m * e >= m
           /\ e <= -1 => m * e <= -m
           /\ e = 0 => m * e = 0
  <1> DEFINE p == m * e
  <1>1. p \in Int
    OBVIOUS
  <1>2. e >= 1 => p >= m
    OBVIOUS
  <1>3. e <= -1 => p <= -m
    OBVIOUS
  <1>4. e = 0 => p = 0
    OBVIOUS
  <1> HIDE DEF p
  <1>5. /\ p \in Int
        /\ e >= 1 => p >= m
        /\ e <= -1 => p <= -m
        /\ e = 0 => p = 0
    BY <1>1, <1>2, <1>3, <1>4
  <1> QED BY <1>5 DEF p

LEMMA Division ==
    ASSUME NEW m \in Nat \ {0}, NEW a \in Int
    PROVE  \E q \in Int : a = m * q + (a % m)
  <1>1. a \div m \in Int /\ a = m * (a \div m) + (a % m)
    OBVIOUS
  <1> QED BY <1>1, Zenon

LEMMA SeqNumbers ==
    /\ SeqWidth \in Nat \ {0}
    /\ \A a \in Int : Mod(a) \in 0 .. SeqWidth - 1
    /\ \A a \in 0 .. SeqWidth - 1 : Mod(a) = a
    /\ \A a, b \in Int : Mod(Mod(a) + b) = Mod(a + b) /\ Mod(Mod(a) - b) = Mod(a - b)
    /\ \A a, b \in Int : Mod(a) = Mod(b) /\ a - b < SeqWidth /\ b - a < SeqWidth => a = b
  <1> DEFINE W == SeqWidth
  <1>1. W \in Nat \ {0}
    BY TcpAssumption
  <1>2. \A a \in Int : Mod(a) \in 0 .. W - 1
    BY <1>1 DEF Mod
  <1>3. ASSUME NEW a \in Int PROVE \E q \in Int : a = W * q + Mod(a)
    <2>1. \E q \in Int : a = W * q + (a % W)
      BY <1>1, <1>3, Division
    <2> QED BY <2>1 DEF Mod
  <1>4. ASSUME NEW a \in Int, NEW b \in Int, Mod(a) = Mod(b), a - b < W, b - a < W
        PROVE  a = b
    <2>1. PICK q \in Int : a = W * q + Mod(a)
      BY <1>3
    <2>2. PICK r \in Int : b = W * r + Mod(b)
      BY <1>3
    <2> DEFINE e == q - r  p == W * e  x == Mod(a)
    <2>3. x \in Int
      BY <1>2
    <2>4. e \in Int /\ W * q \in Int /\ W * r \in Int /\ p = W * q - W * r
      BY <1>1
    <2>5. a = W * q + x /\ b = W * r + x
      BY <2>1, <2>2, <1>4
    <2>6. /\ e >= 1 => p >= W
          /\ e <= -1 => p <= -W
          /\ e = 0 => p = 0
      <3> HIDE DEF e
      <3> QED BY <1>1, <2>4, Multiples
    <2> HIDE DEF e, p, x
    <2> QED BY <1>1, <1>4, <2>3, <2>4, <2>5, <2>6
  <1>5. ASSUME NEW a \in 0 .. W - 1 PROVE Mod(a) = a
    <2> DEFINE x == Mod(a)
    <2>1. PICK q \in Int : a = W * q + x
      <3>1. a \in Int
        BY <1>1
      <3> QED BY <1>3, <3>1, Zenon
    <2>2. x \in 0 .. W - 1
      BY <1>1, <1>2
    <2> DEFINE p == W * q
    <2>3. p \in Int /\ a = p + x
      BY <1>1, <2>1
    <2>4. /\ q >= 1 => p >= W
          /\ q <= -1 => p <= -W
          /\ q = 0 => p = 0
      BY <1>1, <2>1, Multiples
    <2> HIDE DEF p, x
    <2>5. p = 0
      BY <1>1, <2>1, <2>2, <2>3, <2>4
    <2> QED BY <2>2, <2>3, <2>5 DEF x
  <1>6. ASSUME NEW a \in Int, NEW b \in Int PROVE Mod(Mod(a) + b) = Mod(a + b)
    <2>1. PICK q \in Int : a = W * q + Mod(a)
      BY <1>3
    <2> DEFINE x == Mod(a)
    <2>2. x \in Int /\ -q \in Int /\ W * q \in Int /\ W * (-q) = -(W * q)
      BY <1>1, <1>2
    <2>3. a = W * q + x
      BY <2>1
    <2> HIDE DEF x
    <2>4. x + b \in Int /\ a + b \in Int /\ (x + b) - (a + b) = W * (-q)
      BY <2>2, <2>3
    <2>5. (x + b) % W = (a + b) % W
      BY <1>1, <2>2, <2>4, SameRemainder
    <2> QED BY <2>5 DEF x, Mod
  <1>7. ASSUME NEW a \in Int, NEW b \in Int PROVE Mod(Mod(a) - b) = Mod(a - b)
    <2> DEFINE x == Mod(a)
    <2>1. x \in Int /\ -b \in Int
      BY <1>2
    <2>2. Mod(x + (-b)) = Mod(a + (-b))
      BY <1>6, <2>1
    <2> HIDE DEF x
    <2>3. x + (-b) = x - b /\ a + (-b) = a - b
      BY <2>1
    <2> QED BY <2>2, <2>3 DEF x
  <1> QED BY <1>1, <1>2, <1>4, <1>5, <1>6, <1>7

LEMMA ModIsSeq ==
    ASSUME NEW a \in Int
    PROVE  Mod(a) \in Int /\ Mod(a) \in 0 .. SeqWidth - 1
  <1>1. Mod(a) \in 0 .. SeqWidth - 1 /\ SeqWidth \in Nat \ {0}
    BY SeqNumbers, Zenon
  <1> QED BY <1>1

LEMMA LeastExists ==
    ASSUME NEW S \in SUBSET Nat, S # {}
    PROVE  Least(S) \in S /\ \A y \in S : Least(S) <= y
  <1> DEFINE R == OpToRel(<, Nat)
  <1>1. IsWellFoundedOn(R, Nat)
    BY NatLessThanWellFounded, Zenon
  <1>2. \A y, z \in Nat : y < z => <<y, z>> \in R
    BY Zenon DEF OpToRel
  <1> HIDE DEF R
  <1>3. PICK x \in S : \A y \in S : ~ (<<y, x>> \in R)
    BY <1>1, WFMin, Zenon
  <1>4. ASSUME NEW y \in S PROVE x <= y
    <2>1. ~(y < x)
      BY <1>2, <1>3, Zenon
    <2> QED BY <2>1
  <1>5. \E z \in S : \A y \in S : z <= y
    BY <1>4
  <1> QED BY <1>5 DEF Least

-----------------------------------------------------------------------------
(* The types.  What the other end has to send leaves room in the sequence  *)
(* space (TcpAssumption).                                                  *)
CallNames == {"none", "connect", "send", "recv", "close"}
Bytes     == [port : Nat, byte : Int]
SocketT   == [used : BOOLEAN, state : States, local_port : Nat, seq : Int,
              ack : Int, snd_una : Int, rxbuf : Seq(Bytes), rx_closed : BOOLEAN,
              got : Seq(Bytes), gap : BOOLEAN, told : Nat, late : Nat]
Totals    == {n \in Nat : n + 2 < SeqWidth}
PeerT     == [iss : Seqs, irs : Seqs, total : Totals, rcv : Nat]
SentT     == [port : Nat, kind : {"SYN", "DATA", "FIN"}, seq : Int, len : Nat]

TypeOK ==
    /\ socks \in [Sockets -> SocketT]
    /\ \A i \in Sockets : Len(socks[i].rxbuf) <= RxBufSize
    /\ peer \in [Ports -> PeerT]
    /\ next_ephemeral \in 1 .. MaxPorts + 1
    /\ call \in [name : CallNames, sock : Sockets, n : Nat, sent : Nat]
    /\ held \subseteq Sockets
    /\ out \subseteq SentT

(* What may arrive from the other end, q.                                  *)
SegmentOK(seg, q) ==
    /\ seg.first \in Nat /\ seg.len \in Nat /\ seg.ack \in Int
    /\ seg.seq = Mod(q.irs + seg.first)
    /\ "RST" \in seg.flags \/ \E x \in 1 .. q.rcv : seg.ack = Mod(q.iss + x)
    /\ "SYN" \in seg.flags => /\ "RST" \notin seg.flags /\ seg.first = 0 /\ seg.len = 0
                              /\ seg.ack = Mod(q.iss + 1)
    /\ seg.len > 0 => seg.first >= 1 /\ seg.first + seg.len <= q.total + 1
    /\ "FIN" \in seg.flags => seg.first >= 1 /\ seg.first + seg.len = q.total + 1

LEMMA Constants ==
    /\ MaxSockets \in Nat \ {0} /\ RxBufSize \in Nat \ {0} /\ MaxSegment \in Nat \ {0}
    /\ MaxPorts \in Nat /\ MaxSend \in Nat
    /\ 0 \in Totals /\ PeerTotals \subseteq Totals /\ MaxSend + 3 < SeqWidth
    /\ Isns \subseteq Seqs /\ PeerIsns \subseteq Seqs
    /\ SendSizes \subseteq Nat \ {0} /\ RecvSizes \subseteq Nat \ {0}
    /\ 0 \in Sockets /\ Sockets \subseteq Nat /\ 0 \in Seqs /\ Seqs \subseteq Int
  <1>1. /\ MaxSockets \in Nat \ {0} /\ RxBufSize \in Nat \ {0} /\ MaxSegment \in Nat \ {0}
        /\ SeqWidth \in Nat \ {0} /\ MaxPorts \in Nat /\ MaxSend \in Nat
        /\ Isns \subseteq Seqs /\ PeerIsns \subseteq Seqs
        /\ SendSizes \subseteq Nat \ {0} /\ RecvSizes \subseteq Nat \ {0}
    BY TcpAssumption DEF Seqs
  <1>2. MaxSend + RxBufSize + 2 < SeqWidth
    BY TcpAssumption
  <1>3. PeerTotals \subseteq Totals
    BY <1>1, TcpAssumption DEF Totals
  <1> QED BY <1>1, <1>2, <1>3 DEF Totals, Sockets, Seqs

LEMMA WindowBound ==
    ASSUME TypeOK, NEW p \in Ports
    PROVE  Window(p) \in Int /\ Window(p) <= peer[p].total
  <1>1. peer[p].total \in Nat /\ peer[p].irs \in Int
    BY Constants DEF TypeOK, PeerT, Totals
  <1>2. CASE Current(p) = {}
    BY <1>1, <1>2 DEF Window
  <1>3. CASE Current(p) # {}
    <2> DEFINE i == Least(Current(p))  x == Mod(socks[i].ack - peer[p].irs - 1)
    <2>1. Current(p) \in SUBSET Nat /\ Current(p) \subseteq Sockets
      BY Constants DEF Current
    <2>2. i \in Sockets
      BY <1>3, <2>1, LeastExists
    <2> HIDE DEF i
    <2>3. socks[i].ack - peer[p].irs - 1 \in Int
      BY <1>1, <2>2, SMTT(30) DEF TypeOK, SocketT
    <2>4. x \in Int
      BY <2>3, ModIsSeq
    <2>5. Window(p) = Lower(peer[p].total, x + RxBufSize)
      BY <1>3 DEF Window, i
    <2> HIDE DEF x
    <2> QED BY <1>1, <2>4, <2>5, Constants DEF Lower
  <1> QED BY <1>2, <1>3

LEMMA Segments ==
    ASSUME TypeOK, NEW p \in Ports, NEW seg \in PeerSegments(p)
    PROVE  seg.port = p /\ SegmentOK(seg, peer[p]) /\ peer[p].rcv > 0
  <1> DEFINE q == peer[p]
             Segment(flags, first, len, ack) ==
                 [port |-> p, flags |-> flags, first |-> first, len |-> len,
                  seq |-> Mod(q.irs + first), ack |-> Mod(q.iss + ack)]
             Data == {y \in (1 .. q.total + 1) \X (0 .. MaxSegment) \X (1 .. q.rcv) :
                         y[1] + y[2] - 1 <= Window(p)}
             Last == {y \in (0 .. Lower(MaxSegment, q.total)) \X (1 .. q.rcv) :
                         q.total <= Window(p)}
  <1>1. /\ q.total \in Nat /\ q.rcv \in Nat /\ q.irs \in Int /\ q.iss \in Int
        /\ MaxSegment \in Nat
    BY Constants DEF TypeOK, PeerT, Totals
  <1>2. Window(p) \in Int /\ Window(p) <= q.total
    BY WindowBound
  <1>3. q.rcv > 0
    BY <1>1 DEF PeerSegments
  <1>4. \/ seg = Segment({"SYN", "ACK"}, 0, 0, 1)
        \/ seg = Segment({"RST"}, 0, 0, 0)
        \/ \E y \in Data : seg = Segment({"ACK"}, y[1], y[2], y[3])
        \/ \E y \in Last : seg = Segment({"ACK", "FIN"}, q.total + 1 - y[1], y[1], y[2])
    <2>1. q.rcv # 0
      BY <1>1, <1>3
    <2>2. PeerSegments(p) =
             IF q.rcv = 0 THEN {}
             ELSE {Segment({"SYN", "ACK"}, 0, 0, 1), Segment({"RST"}, 0, 0, 0)}
                    \union {Segment({"ACK"}, y[1], y[2], y[3]) : y \in Data}
                    \union {Segment({"ACK", "FIN"}, q.total + 1 - y[1], y[1], y[2]) : y \in Last}
      BY Zenon DEF PeerSegments
    <2> DEFINE S == {Segment({"SYN", "ACK"}, 0, 0, 1), Segment({"RST"}, 0, 0, 0)}
               T == {Segment({"ACK"}, y[1], y[2], y[3]) : y \in Data}
               U == {Segment({"ACK", "FIN"}, q.total + 1 - y[1], y[1], y[2]) : y \in Last}
    <2> HIDE DEF Segment, Data, Last, q
    <2>3. PeerSegments(p) = IF q.rcv = 0 THEN {} ELSE S \union T \union U
      BY <2>2, Zenon
    <2>4. seg \in S \/ seg \in T \/ seg \in U
      <3> HIDE DEF S, T, U
      <3> QED BY <2>1, <2>3
    <2>5. seg \in S => \/ seg = Segment({"SYN", "ACK"}, 0, 0, 1)
                       \/ seg = Segment({"RST"}, 0, 0, 0)
      BY Zenon
    <2>6. seg \in T => \E y \in Data : seg = Segment({"ACK"}, y[1], y[2], y[3])
      BY Zenon
    <2>7. seg \in U => \E y \in Last :
              seg = Segment({"ACK", "FIN"}, q.total + 1 - y[1], y[1], y[2])
      BY Zenon
    <2> HIDE DEF S, T, U
    <2> QED BY <2>4, <2>5, <2>6, <2>7, Zenon
  <1> HIDE DEF q
  <1>5. ASSUME NEW x \in Nat PROVE Mod(q.iss + x) \in Int
    <2>1. q.iss + x \in Int
      BY <1>1
    <2> QED BY <2>1, ModIsSeq
  <1>6. CASE seg = Segment({"SYN", "ACK"}, 0, 0, 1)
    BY <1>1, <1>3, <1>5, <1>6 DEF SegmentOK, q
  <1>7. CASE seg = Segment({"RST"}, 0, 0, 0)
    BY <1>1, <1>3, <1>5, <1>7 DEF SegmentOK, q
  <1>8. ASSUME NEW y \in Data, seg = Segment({"ACK"}, y[1], y[2], y[3])
        PROVE  seg.port = p /\ SegmentOK(seg, q)
    <2>1. /\ y[1] \in Nat /\ y[1] >= 1 /\ y[2] \in Nat /\ y[3] \in 1 .. q.rcv
          /\ y[1] + y[2] - 1 <= Window(p)
      BY <1>1, <1>8
    <2> QED BY <1>1, <1>2, <1>5, <1>8, <2>1 DEF SegmentOK
  <1>9. ASSUME NEW y \in Last, seg = Segment({"ACK", "FIN"}, q.total + 1 - y[1], y[1], y[2])
        PROVE  seg.port = p /\ SegmentOK(seg, q)
    <2>1. y[1] \in Nat /\ y[1] <= q.total /\ y[2] \in 1 .. q.rcv
      BY <1>1, <1>9 DEF Lower
    <2>2. q.total + 1 - y[1] \in Nat /\ q.total + 1 - y[1] >= 1
      BY <1>1, <2>1
    <2> QED BY <1>1, <1>5, <1>9, <2>1, <2>2 DEF SegmentOK
  <1> QED BY <1>3, <1>4, <1>6, <1>7, <1>8, <1>9 DEF q

(* What a step does to the sockets: the new value of the one it is about.  *)
NewSocket(isn) ==
    [Unused EXCEPT !.used = TRUE, !.state = "SYN_SENT",
                   !.local_port = next_ephemeral, !.seq = isn, !.snd_una = isn]
Connecting(isn) == [NewSocket(isn) EXCEPT !.seq = Mod(@ + 1)]
FreeSockets == {i \in Sockets : ~socks[i].used}

Taken(s, seg) == IF IsNext(s, seg) THEN seg.len ELSE 0
Finishes(s, seg) == "FIN" \in seg.flags /\ s.state = "ESTABLISHED"
Early(s, seg) == Finishes(s, seg) /\ Mod(s.ack + Taken(s, seg)) # Mod(seg.seq + seg.len)
Data(s, seg) ==
    [k \in 1 .. Kept(s, Taken(s, seg)) |-> [port |-> seg.port, byte |-> seg.first + k - 1]]
Receives(s, seg) ==
    [s EXCEPT !.rxbuf = @ \o Data(s, seg),
              !.ack = Mod(@ + Taken(s, seg) + (IF Finishes(s, seg) THEN 1 ELSE 0)),
              !.snd_una = seg.ack,
              !.state = IF Finishes(s, seg) THEN "CLOSE_WAIT" ELSE @,
              !.rx_closed = @ \/ Finishes(s, seg),
              !.gap = @ \/ Kept(s, Taken(s, seg)) < Taken(s, seg) \/ Early(s, seg)]

Reads(s, n) ==
    [s EXCEPT !.rxbuf = SubSeq(@, n + 1, Len(@)), !.got = @ \o SubSeq(s.rxbuf, 1, n)]

LEMMA NewSockets ==
    ASSUME TypeOK, FreeSockets # {}, NEW isn \in Seqs
    PROVE  /\ Least(FreeSockets) \in Sockets /\ ~socks[Least(FreeSockets)].used
           /\ NewSocket(isn).seq = isn /\ NewSocket(isn).local_port = next_ephemeral
           /\ Connecting(isn) \in SocketT
           /\ Connecting(isn).used /\ Connecting(isn).state = "SYN_SENT"
           /\ Connecting(isn).local_port = next_ephemeral
           /\ Connecting(isn).seq = Mod(isn + 1) /\ Connecting(isn).snd_una = isn
           /\ Connecting(isn).rxbuf = <<>> /\ Connecting(isn).got = <<>>
           /\ ~Connecting(isn).gap
  <1>1. FreeSockets \in SUBSET Nat
    BY Constants DEF FreeSockets
  <1>2. Least(FreeSockets) \in FreeSockets
    BY <1>1, LeastExists
  <1>3. isn \in Int /\ next_ephemeral \in Nat /\ <<>> \in Seq(Bytes)
    BY Constants DEF TypeOK
  <1>4. isn + 1 \in Int
    BY <1>3
  <1>5. Mod(isn + 1) \in Int
    BY <1>4, ModIsSeq
  <1>6. Unused \in SocketT
    BY <1>3 DEF Unused, SocketT, States
  <1>7. /\ NewSocket(isn) \in SocketT
        /\ NewSocket(isn).used /\ NewSocket(isn).state = "SYN_SENT"
        /\ NewSocket(isn).local_port = next_ephemeral
        /\ NewSocket(isn).seq = isn /\ NewSocket(isn).snd_una = isn
        /\ NewSocket(isn).rxbuf = Unused.rxbuf /\ NewSocket(isn).got = Unused.got
        /\ NewSocket(isn).gap = Unused.gap
    BY <1>3, <1>6 DEF NewSocket, SocketT, States
  <1>8. Connecting(isn) = [NewSocket(isn) EXCEPT !.seq = Mod(isn + 1)]
    BY <1>7 DEF Connecting
  <1>9. Unused.rxbuf = <<>> /\ Unused.got = <<>> /\ ~Unused.gap
    BY DEF Unused
  <1> QED BY <1>2, <1>5, <1>7, <1>8, <1>9 DEF FreeSockets, SocketT

LEMMA ReadType ==
    ASSUME NEW s \in SocketT, NEW m \in Nat
    PROVE  LET n == Lower(Len(s.rxbuf), m)
           IN  /\ n \in Nat /\ n <= Len(s.rxbuf)
               /\ SubSeq(s.rxbuf, 1, n) \in Seq(Bytes) /\ Len(SubSeq(s.rxbuf, 1, n)) = n
               /\ SubSeq(s.rxbuf, n + 1, Len(s.rxbuf)) \in Seq(Bytes)
               /\ Len(SubSeq(s.rxbuf, n + 1, Len(s.rxbuf))) = Len(s.rxbuf) - n
               /\ Reads(s, n) \in SocketT
  <1> DEFINE n == Lower(Len(s.rxbuf), m)  b == s.rxbuf
  <1>1. b \in Seq(Bytes) /\ s.got \in Seq(Bytes)
    BY DEF SocketT
  <1>2. n \in Nat /\ n <= Len(b)
    BY <1>1 DEF Lower
  <1> HIDE DEF n, b
  <1>3. SubSeq(b, 1, n) \in Seq(Bytes) /\ Len(SubSeq(b, 1, n)) = n
    BY <1>1, <1>2
  <1>4. /\ SubSeq(b, n + 1, Len(b)) \in Seq(Bytes)
        /\ Len(SubSeq(b, n + 1, Len(b))) = Len(b) - n
    BY <1>1, <1>2
  <1>5. s.got \o SubSeq(b, 1, n) \in Seq(Bytes)
    BY <1>1, <1>3
  <1> DEFINE x == SubSeq(b, 1, n)  y == SubSeq(b, n + 1, Len(b))
  <1>6. x \in Seq(Bytes) /\ y \in Seq(Bytes) /\ s.got \o x \in Seq(Bytes)
    BY <1>3, <1>4, <1>5
  <1>7. Reads(s, n) = [s EXCEPT !.rxbuf = y, !.got = s.got \o x]
    BY DEF Reads, b
  <1> HIDE DEF x, y
  <1>8. Reads(s, n) \in SocketT
    BY <1>6, <1>7 DEF SocketT
  <1> QED BY <1>2, <1>3, <1>4, <1>8 DEF n, b

LEMMA ReceiveType ==
    ASSUME NEW s \in SocketT, NEW seg, NEW q \in PeerT, SegmentOK(seg, q),
           seg.port \in Nat, Len(s.rxbuf) <= RxBufSize
    PROVE  /\ Taken(s, seg) \in Nat
           /\ Kept(s, Taken(s, seg)) \in Nat /\ Kept(s, Taken(s, seg)) <= Taken(s, seg)
           /\ Len(s.rxbuf) + Kept(s, Taken(s, seg)) <= RxBufSize
           /\ Data(s, seg) \in Seq(Bytes) /\ Len(Data(s, seg)) = Kept(s, Taken(s, seg))
           /\ Receives(s, seg) \in SocketT
  <1> DEFINE t == Taken(s, seg)  k == Kept(s, t)  d == Data(s, seg)  f == Finishes(s, seg)
  <1>1. s.rxbuf \in Seq(Bytes) /\ s.ack \in Int /\ s.state \in States
    BY DEF SocketT
  <1>2. t \in Nat
    BY DEF SegmentOK, Taken
  <1>3. k \in Nat /\ k <= t /\ Len(s.rxbuf) + k <= RxBufSize
    BY <1>1, <1>2, Constants DEF Kept, Lower
  <1>4. d = [j \in 1 .. k |-> [port |-> seg.port, byte |-> seg.first + j - 1]]
    BY DEF Data
  <1>5. seg.first \in Nat /\ seg.ack \in Int
    BY DEF SegmentOK
  <1> HIDE DEF t, k, d, f
  <1>6. \A j \in 1 .. k : [port |-> seg.port, byte |-> seg.first + j - 1] \in Bytes
    BY <1>3, <1>5 DEF Bytes
  <1>7. d \in Seq(Bytes) /\ Len(d) = k
    BY <1>3, <1>4, <1>6
  <1>8. s.rxbuf \o d \in Seq(Bytes)
    BY <1>1, <1>7
  <1> DEFINE a == Mod(s.ack + t + (IF f THEN 1 ELSE 0))
             b == s.rxbuf \o d
             g == s.gap \/ k < t \/ Early(s, seg)
             c == s.rx_closed \/ f
             e == IF f THEN "CLOSE_WAIT" ELSE s.state
  <1>9. s.ack + t + (IF f THEN 1 ELSE 0) \in Int
    BY <1>1, <1>2
  <1>10. a \in Int
    BY <1>9, ModIsSeq
  <1>11. Receives(s, seg) = [s EXCEPT !.rxbuf = b, !.ack = a, !.snd_una = seg.ack,
             !.state = e, !.rx_closed = c, !.gap = g]
    BY DEF Receives, t, k, d, f
  <1>12. e \in States
    BY <1>1 DEF States
  <1>13. c \in BOOLEAN /\ g \in BOOLEAN
    OBVIOUS
  <1>14. b \in Seq(Bytes)
    BY <1>8
  <1> HIDE DEF a, b, g, c, e
  <1>15. ASSUME NEW b1 \in Seq(Bytes), NEW a1 \in Int, NEW u1 \in Int, NEW t1 \in States,
                NEW c1 \in BOOLEAN, NEW g1 \in BOOLEAN
         PROVE  [s EXCEPT !.rxbuf = b1, !.ack = a1, !.snd_una = u1, !.state = t1,
                   !.rx_closed = c1, !.gap = g1] \in SocketT
    BY DEF SocketT
  <1>16. seg.ack \in Int
    BY <1>5
  <1>17. [s EXCEPT !.rxbuf = b, !.ack = a, !.snd_una = seg.ack,
             !.state = e, !.rx_closed = c, !.gap = g] \in SocketT
    BY <1>10, <1>12, <1>13, <1>14, <1>15, <1>16, Zenon
  <1>18. Receives(s, seg) \in SocketT
    BY <1>11, <1>17, Zenon
  <1> QED BY <1>2, <1>3, <1>7, <1>18 DEF t, k, d

(* What an arriving segment, and what a call, makes of a socket r.         *)
SameStream(r, s) == s.rxbuf = r.rxbuf /\ s.got = r.got /\ s.gap = r.gap
SameNumbers(r, s) == s.seq = r.seq /\ s.snd_una = r.snd_una
SameDues(r, s) == s.told = r.told /\ s.late = r.late
Change(i, s) ==
    /\ s \in SocketT /\ Len(s.rxbuf) <= RxBufSize
    /\ socks' = [socks EXCEPT ![i] = s]

RxOutcome(r, s, seg) ==
    \/ /\ s.state = "CLOSED"
       /\ SameStream(r, s) /\ SameNumbers(r, s)
    \/ /\ "SYN" \in seg.flags /\ "RST" \notin seg.flags /\ r.state = "SYN_SENT"
       /\ s.state = "ESTABLISHED" /\ s.ack = Mod(seg.seq + 1) /\ s.seq = seg.ack
       /\ SameStream(r, s) /\ s.snd_una = r.snd_una
    \/ /\ "RST" \notin seg.flags /\ r.state \in {"ESTABLISHED", "CLOSE_WAIT"}
       /\ s = Receives(r, seg)
    \/ /\ r.state \in {"FIN_WAIT1", "FIN_WAIT2"} /\ s.state \in {"TIME_WAIT", "FIN_WAIT2"}
       /\ SameStream(r, s) /\ SameNumbers(r, s)

LEMMA RxEffect ==
    ASSUME TypeOK, NEW p \in Ports, NEW seg \in PeerSegments(p), tcp_rx(seg)
    PROVE  /\ UNCHANGED <<next_ephemeral, call, held, out, peer>>
           /\ \E i \in Sockets, s \in SocketT :
                 /\ socks[i].used /\ socks[i].local_port = p
                 /\ Change(i, s) /\ s.used /\ s.local_port = p
                 /\ RxOutcome(socks[i], s, seg) /\ SameDues(socks[i], s)
  <1>1. PICK i \in Sockets : \/ RxReset(i, seg) \/ RxSynAck(i, seg)
                             \/ RxEstablished(i, seg) \/ RxFinWait(i, seg)
    BY DEF tcp_rx
  <1> DEFINE r == socks[i]
  <1>2. r \in SocketT /\ Len(r.rxbuf) <= RxBufSize /\ socks \in [Sockets -> SocketT]
    BY DEF TypeOK
  <1>3. seg.port = p /\ SegmentOK(seg, peer[p]) /\ p \in Nat /\ peer[p] \in PeerT
    BY Segments, Constants DEF Ports, TypeOK
  <1>4. r.used /\ r.local_port = p
    BY <1>1, <1>3 DEF RxReset, RxSynAck, RxEstablished, RxFinWait, IsFor, Matches
  <1> DEFINE Goal(s) ==
                 /\ s \in SocketT
                 /\ Change(i, s) /\ s.used /\ s.local_port = p
                 /\ RxOutcome(r, s, seg) /\ SameDues(r, s)
  <1>5. ASSUME RxReset(i, seg) PROVE \E s : Goal(s)
    <2> DEFINE s == [r EXCEPT !.state = "CLOSED", !.rx_closed = TRUE]
    <2>1. s \in SocketT
      BY <1>2 DEF SocketT, States
    <2>2. socks' = [socks EXCEPT ![i] = s]
      BY <1>2, <1>5 DEF RxReset
    <2>3. /\ s.used = r.used /\ s.local_port = r.local_port /\ s.state = "CLOSED"
          /\ SameStream(r, s) /\ SameNumbers(r, s) /\ SameDues(r, s)
      BY <1>2 DEF SocketT, SameStream, SameNumbers, SameDues
    <2> HIDE DEF s
    <2>4. Goal(s)
      BY <1>2, <1>4, <2>1, <2>2, <2>3 DEF Change, RxOutcome, SameStream
    <2> QED BY <2>4, Zenon
  <1>6. ASSUME RxSynAck(i, seg), ~RxReset(i, seg) PROVE \E s : Goal(s)
    <2> DEFINE s == [r EXCEPT !.ack = Mod(seg.seq + 1), !.seq = seg.ack,
                              !.state = "ESTABLISHED"]
    <2>1. seg.ack \in Int /\ seg.seq \in Int
      <3>1. peer[p].irs + seg.first \in Int
        <4>1. peer[p].irs \in Int
          BY <1>3, Constants DEF PeerT
        <4> QED BY <1>3, <4>1 DEF SegmentOK
      <3> QED BY <1>3, <3>1, ModIsSeq DEF SegmentOK
    <2>2. Mod(seg.seq + 1) \in Int
      <3>1. seg.seq + 1 \in Int
        BY <2>1
      <3> QED BY <3>1, ModIsSeq
    <2>3. s \in SocketT
      BY <1>2, <2>1, <2>2 DEF SocketT, States
    <2>4. socks' = [socks EXCEPT ![i] = s]
      BY <1>2, <1>6 DEF RxSynAck
    <2>5. /\ s.used = r.used /\ s.local_port = r.local_port /\ s.state = "ESTABLISHED"
          /\ s.ack = Mod(seg.seq + 1) /\ s.seq = seg.ack
          /\ SameStream(r, s) /\ s.snd_una = r.snd_una /\ SameDues(r, s)
      BY <1>2 DEF SocketT, SameStream, SameDues
    <2>6. "SYN" \in seg.flags /\ r.state = "SYN_SENT"
      BY <1>6 DEF RxSynAck
    <2>7. "RST" \notin seg.flags
      BY <1>3, <2>6 DEF SegmentOK
    <2> HIDE DEF s
    <2>8. Goal(s)
      BY <1>2, <1>4, <2>3, <2>4, <2>5, <2>6, <2>7 DEF Change, RxOutcome, SameStream
    <2> QED BY <2>8, Zenon
  <1>7. ASSUME RxEstablished(i, seg) PROVE \E s : Goal(s)
    <2> DEFINE s == Receives(r, seg)
    <2>1. s \in SocketT /\ Len(s.rxbuf) <= RxBufSize
      <3>1. /\ s \in SocketT /\ Data(r, seg) \in Seq(Bytes)
            /\ Len(r.rxbuf) + Len(Data(r, seg)) <= RxBufSize
        BY <1>2, <1>3, ReceiveType
      <3>2. s.rxbuf = r.rxbuf \o Data(r, seg) /\ r.rxbuf \in Seq(Bytes)
        BY <1>2 DEF Receives, SocketT
      <3> HIDE DEF s, r
      <3> DEFINE d == Data(r, seg)
      <3>3. d \in Seq(Bytes) /\ Len(r.rxbuf) + Len(d) <= RxBufSize /\ s.rxbuf = r.rxbuf \o d
        BY <3>1, <3>2
      <3> HIDE DEF d
      <3>4. Len(s.rxbuf) = Len(r.rxbuf) + Len(d)
        BY <3>2, <3>3
      <3> QED BY <3>1, <3>3, <3>4
    <2>2. socks' = [socks EXCEPT ![i] = s]
      BY <1>7 DEF RxEstablished, Receives, Data, Taken, Finishes, Early
    <2>3. s.used = r.used /\ s.local_port = r.local_port /\ SameDues(r, s)
      BY <1>2 DEF SocketT, Receives, SameDues
    <2>4. "RST" \notin seg.flags /\ r.state \in {"ESTABLISHED", "CLOSE_WAIT"}
      BY <1>7 DEF RxEstablished
    <2>5. Goal(s)
      <3> HIDE DEF s
      <3>1. s = Receives(r, seg)
        BY DEF s
      <3> QED BY <1>4, <2>1, <2>2, <2>3, <2>4, <3>1 DEF Change, RxOutcome
    <2> QED BY <2>5, Zenon
  <1>8. ASSUME RxFinWait(i, seg) PROVE \E s : Goal(s)
    <2> DEFINE fin == "FIN" \in seg.flags
               s == [r EXCEPT !.state = IF fin THEN "TIME_WAIT" ELSE "FIN_WAIT2",
                              !.ack = IF fin THEN Mod(@ + 1) ELSE @,
                              !.rx_closed = @ \/ fin]
    <2>1. r.ack \in Int /\ Mod(r.ack + 1) \in Int
      <3>1. r.ack \in Int /\ r.ack + 1 \in Int
        BY <1>2 DEF SocketT
      <3> QED BY <3>1, ModIsSeq
    <2>2. fin \in BOOLEAN
      OBVIOUS
    <2>3. socks' = [socks EXCEPT ![i] = s]
      BY <1>8 DEF RxFinWait
    <2> HIDE DEF fin
    <2>4. s \in SocketT
      BY <1>2, <2>1, <2>2 DEF SocketT, States
    <2>5. /\ s.used = r.used /\ s.local_port = r.local_port
          /\ s.state \in {"TIME_WAIT", "FIN_WAIT2"}
          /\ SameStream(r, s) /\ SameNumbers(r, s) /\ SameDues(r, s)
      BY <1>2 DEF SocketT, SameStream, SameNumbers, SameDues
    <2>6. r.state \in {"FIN_WAIT1", "FIN_WAIT2"}
      BY <1>8 DEF RxFinWait
    <2> HIDE DEF s
    <2>7. Goal(s)
      BY <1>2, <1>4, <2>3, <2>4, <2>5, <2>6 DEF Change, RxOutcome, SameStream
    <2> QED BY <2>7, Zenon
  <1>9. UNCHANGED <<next_ephemeral, call, held, out, peer>>
    BY <1>1 DEF RxReset, RxSynAck, RxEstablished, RxFinWait
  <1>10. \E s : Goal(s)
    BY <1>1, <1>5, <1>6, <1>7, <1>8, Zenon
  <1> QED BY <1>4, <1>9, <1>10

LEMMA ReleaseEffect ==
    ASSUME TypeOK, NEW i \in Sockets, Release(i)
    PROVE  Change(i, Unused) /\ ~Unused.used
  <1>1. Unused \in SocketT /\ Unused.rxbuf = <<>> /\ ~Unused.used
    BY DEF Unused, SocketT, States
  <1>2. Len(Unused.rxbuf) <= RxBufSize
    BY <1>1, Constants
  <1> QED BY <1>1, <1>2 DEF Release, Change

LEMMA ConnectEffect ==
    ASSUME TypeOK, NEW isn \in Isns, NEW irs \in PeerIsns, NEW total \in PeerTotals,
           Connect(isn, irs, total)
    PROVE  \E i \in Sockets :
              /\ call = NoCall /\ ~socks[i].used /\ Change(i, Connecting(isn))
              /\ Sent(NewSocket(isn), "SYN", 1) /\ UNCHANGED held
              /\ next_ephemeral \in Ports /\ next_ephemeral' = next_ephemeral + 1
              /\ call' = [name |-> "connect", sock |-> i, n |-> 0, sent |-> 0]
              /\ peer' = [peer EXCEPT ![next_ephemeral] =
                             [iss |-> isn, irs |-> irs, total |-> total, rcv |-> 0]]
  <1> DEFINE i == Least(FreeSockets)
  <1>1. /\ call = NoCall /\ FreeSockets # {} /\ next_ephemeral <= MaxPorts
        /\ Sent(NewSocket(isn), "SYN", 1) /\ UNCHANGED held
        /\ socks' = [socks EXCEPT ![i] = Connecting(isn)]
        /\ next_ephemeral' = next_ephemeral + 1
        /\ call' = [name |-> "connect", sock |-> i, n |-> 0, sent |-> 0]
        /\ peer' = [peer EXCEPT ![next_ephemeral] =
                       [iss |-> isn, irs |-> irs, total |-> total, rcv |-> 0]]
    BY Zenon DEF Connect, NewSocket, Connecting, FreeSockets
  <1>2. isn \in Seqs
    BY Constants
  <1>3. i \in Sockets /\ ~socks[i].used /\ Connecting(isn) \in SocketT
        /\ Connecting(isn).rxbuf = <<>>
    BY <1>1, <1>2, NewSockets
  <1>4. next_ephemeral \in Ports
    BY <1>1, Constants DEF TypeOK, Ports
  <1>5. Len(Connecting(isn).rxbuf) <= RxBufSize
    BY <1>3, Constants
  <1> HIDE DEF i
  <1> QED BY <1>1, <1>3, <1>4, <1>5 DEF Change

LEMMA ChunkEffect ==
    ASSUME TypeOK, NEW i \in Sockets, NEW n \in Nat, SendChunk(i, n)
    PROVE  \E s \in SocketT, chunk \in Nat :
              /\ chunk <= n /\ Change(i, s) /\ Sent(socks[i], "DATA", chunk)
              /\ s = [socks[i] EXCEPT !.seq = Mod(socks[i].seq + chunk)]
              /\ call' = [name |-> "send", sock |-> i, n |-> n - chunk, sent |-> call.sent + chunk]
              /\ UNCHANGED <<next_ephemeral, held, peer>> /\ chunk <= MaxSegment
  <1> DEFINE r == socks[i]  chunk == Lower(n, MaxSegment)
             s == [r EXCEPT !.seq = Mod(r.seq + chunk)]
  <1>1. chunk \in Nat /\ chunk <= n /\ chunk <= MaxSegment
    BY Constants DEF Lower
  <1>2. r \in SocketT /\ Len(r.rxbuf) <= RxBufSize /\ socks \in [Sockets -> SocketT]
    BY DEF TypeOK
  <1>3. /\ Sent(r, "DATA", chunk) /\ UNCHANGED <<next_ephemeral, held, peer>>
        /\ call' = [name |-> "send", sock |-> i, n |-> n - chunk, sent |-> call.sent + chunk]
        /\ socks' = [socks EXCEPT ![i].seq = Mod(@ + chunk)]
    BY DEF SendChunk
  <1> HIDE DEF chunk
  <1>4. r.seq + chunk \in Int
    BY <1>1, <1>2 DEF SocketT
  <1>5. Mod(r.seq + chunk) \in Int
    BY <1>4, ModIsSeq
  <1>6. s \in SocketT /\ s.rxbuf = r.rxbuf
    BY <1>2, <1>5 DEF SocketT
  <1>7. socks' = [socks EXCEPT ![i] = s]
    BY <1>2, <1>3
  <1>8. s = [r EXCEPT !.seq = Mod(r.seq + chunk)]
    OBVIOUS
  <1> HIDE DEF s
  <1>9. Change(i, s)
    BY <1>2, <1>6, <1>7 DEF Change
  <1> QED BY <1>1, <1>3, <1>6, <1>8, <1>9

LEMMA CloseEffect ==
    ASSUME TypeOK, NEW i \in Sockets, CloseBegin(i)
    PROVE  /\ call = NoCall /\ i \in held /\ held' = held \ {i}
           /\ UNCHANGED <<next_ephemeral, peer>>
           /\ \/ /\ \E s \in SocketT :
                       /\ Change(i, s)
                       /\ s = [socks[i] EXCEPT !.seq = Mod(socks[i].seq + 1), !.state = "FIN_WAIT1"]
                 /\ socks[i].state = "ESTABLISHED" /\ Sent(socks[i], "FIN", 1)
                 /\ call' = [name |-> "close", sock |-> i, n |-> 0, sent |-> 0]
              \/ Release(i) /\ call' = call /\ (Sent(socks[i], "FIN", 1) \/ out' = out)
  <1> DEFINE r == socks[i]  s == [r EXCEPT !.seq = Mod(r.seq + 1), !.state = "FIN_WAIT1"]
  <1>1. r \in SocketT /\ Len(r.rxbuf) <= RxBufSize /\ socks \in [Sockets -> SocketT]
    BY DEF TypeOK
  <1>2. r.seq + 1 \in Int
    BY <1>1 DEF SocketT
  <1>3. Mod(r.seq + 1) \in Int
    BY <1>2, ModIsSeq
  <1>4. s \in SocketT /\ s.rxbuf = r.rxbuf
    BY <1>1, <1>3 DEF SocketT, States
  <1>5. s = [r EXCEPT !.seq = Mod(r.seq + 1), !.state = "FIN_WAIT1"]
    OBVIOUS
  <1>6. CASE r.state = "ESTABLISHED"
    <2>1. /\ call = NoCall /\ i \in held /\ held' = held \ {i}
          /\ UNCHANGED <<next_ephemeral, peer>> /\ Sent(r, "FIN", 1)
          /\ socks' = [socks EXCEPT ![i].seq = Mod(@ + 1), ![i].state = "FIN_WAIT1"]
          /\ call' = [name |-> "close", sock |-> i, n |-> 0, sent |-> 0]
      BY <1>6 DEF CloseBegin
    <2>2. socks' = [socks EXCEPT ![i] = s]
      BY <1>1, <2>1
    <2> HIDE DEF s
    <2>3. Change(i, s)
      BY <1>1, <1>4, <2>2 DEF Change
    <2> QED BY <1>4, <1>5, <1>6, <2>1, <2>3
  <1>7. CASE r.state # "ESTABLISHED"
    BY <1>7 DEF CloseBegin
  <1> QED BY <1>6, <1>7

LEMMA ReadEffect ==
    ASSUME TypeOK, RecvReturn
    PROVE  /\ \E n \in Nat :
                 /\ n <= Len(socks[call.sock].rxbuf)
                 /\ Change(call.sock, Reads(socks[call.sock], n))
           /\ call.name = "recv" /\ call' = NoCall
           /\ UNCHANGED <<next_ephemeral, held, out, peer>>
  <1> DEFINE i == call.sock  r == socks[i]  n == Lower(Len(r.rxbuf), call.n)
  <1>1. i \in Sockets /\ call.n \in Nat
    BY DEF TypeOK
  <1>2. r \in SocketT /\ Len(r.rxbuf) <= RxBufSize
    BY <1>1 DEF TypeOK
  <1>3. /\ n \in Nat /\ n <= Len(r.rxbuf) /\ Reads(r, n) \in SocketT
        /\ SubSeq(r.rxbuf, n + 1, Len(r.rxbuf)) \in Seq(Bytes)
        /\ Len(SubSeq(r.rxbuf, n + 1, Len(r.rxbuf))) = Len(r.rxbuf) - n
    BY <1>1, <1>2, ReadType
  <1>4. /\ call.name = "recv" /\ call' = NoCall
        /\ UNCHANGED <<next_ephemeral, held, out, peer>>
        /\ socks' = [socks EXCEPT ![i] = Reads(r, n)]
    BY DEF RecvReturn, Reads
  <1> HIDE DEF n
  <1>5. Reads(r, n).rxbuf = SubSeq(r.rxbuf, n + 1, Len(r.rxbuf))
    BY <1>2 DEF Reads, SocketT
  <1>6. Len(r.rxbuf) \in Nat
    BY <1>2 DEF SocketT
  <1>7. Len(Reads(r, n).rxbuf) <= RxBufSize
    <2> DEFINE x == Len(Reads(r, n).rxbuf)  y == Len(r.rxbuf)
    <2>1. x = y - n
      BY <1>3, <1>5
    <2>2. y \in Nat /\ y <= RxBufSize /\ n \in Nat
      BY <1>2, <1>3, <1>6
    <2> HIDE DEF x, y
    <2>3. x <= RxBufSize
      BY <2>1, <2>2, Constants
    <2> QED BY <2>3 DEF x
  <1>8. Change(i, Reads(r, n))
    BY <1>3, <1>4, <1>7 DEF Change
  <1> QED BY <1>3, <1>4, <1>8

(* The end of a send, by its deadline (k = 1) or before it.                *)
Returned(r, n, k) == [r EXCEPT !.told = r.told + n, !.late = r.late + k]
EndsSend(k) ==
    /\ call.name = "send" /\ call' = NoCall
    /\ socks' = [socks EXCEPT ![call.sock] = Returned(socks[call.sock], call.sent, k)]
    /\ UNCHANGED <<next_ephemeral, held, out, peer>>

LEMMA ReturnEffect ==
    ASSUME TypeOK, NEW k \in Nat, EndsSend(k)
    PROVE  LET r == socks[call.sock]
               s == Returned(r, call.sent, k)
           IN  /\ r \in SocketT /\ Change(call.sock, s) /\ SameStream(r, s) /\ SameNumbers(r, s)
               /\ s.used = r.used /\ s.local_port = r.local_port
               /\ s.state = r.state /\ s.ack = r.ack
               /\ s.told = r.told + call.sent /\ s.late = r.late + k
  <1> DEFINE r == socks[call.sock]  s == Returned(r, call.sent, k)
  <1>1. r \in SocketT /\ Len(r.rxbuf) <= RxBufSize /\ call.sent \in Nat
    BY DEF TypeOK
  <1>2. r.told + call.sent \in Nat /\ r.late + k \in Nat
    <2> DEFINE x == r.told  y == r.late  z == call.sent
    <2>1. x \in Nat /\ y \in Nat /\ z \in Nat
      BY <1>1 DEF SocketT
    <2> HIDE DEF x, y, z
    <2>2. x + z \in Nat /\ y + k \in Nat
      BY <2>1
    <2> QED BY <2>2 DEF x, y, z
  <1>3. /\ s \in SocketT /\ SameStream(r, s) /\ SameNumbers(r, s)
        /\ s.used = r.used /\ s.local_port = r.local_port
        /\ s.state = r.state /\ s.ack = r.ack
        /\ s.told = r.told + call.sent /\ s.late = r.late + k
    BY <1>1, <1>2 DEF SocketT, Returned, SameStream, SameNumbers
  <1>4. socks' = [socks EXCEPT ![call.sock] = s]
    BY DEF EndsSend
  <1> HIDE DEF s
  <1>5. Change(call.sock, s)
    BY <1>1, <1>3, <1>4 DEF Change, SameStream
  <1> QED BY <1>1, <1>3, <1>5 DEF s

LEMMA SendEnds ==
    ASSUME TypeOK
    PROVE  /\ SendNext => SendChunk(call.sock, call.n) \/ EndsSend(0)
           /\ Expire => \/ call.name \in {"connect", "close"} /\ Release(call.sock)
                        \/ call.name = "recv" /\ UNCHANGED socks
                        \/ EndsSend(1)
  <1> DEFINE r == socks[call.sock]
  <1>1. r \in SocketT /\ r.late \in Nat /\ socks \in [Sockets -> SocketT]
    BY DEF TypeOK, SocketT
  <1>2. ASSUME socks' = [socks EXCEPT ![call.sock].told = @ + call.sent]
        PROVE  socks' = [socks EXCEPT ![call.sock] = Returned(r, call.sent, 0)]
    <2> DEFINE t == r.told + call.sent
    <2>1. Returned(r, call.sent, 0) = [r EXCEPT !.told = t, !.late = r.late + 0]
      BY DEF Returned
    <2>2. r.late + 0 = r.late
      BY <1>1
    <2> HIDE DEF t
    <2>3. [r EXCEPT !.told = t, !.late = r.late] = [r EXCEPT !.told = t]
      BY <1>1 DEF SocketT
    <2>4. [r EXCEPT !.told = t] = Returned(r, call.sent, 0)
      BY <2>1, <2>2, <2>3
    <2> QED BY <1>1, <1>2, <2>4 DEF t
  <1>3. ASSUME SendExpires
        PROVE  socks' = [socks EXCEPT ![call.sock] = Returned(r, call.sent, 1)]
    BY <1>1, <1>3 DEF SendExpires, Returned
  <1>4. SendNext => SendChunk(call.sock, call.n) \/ EndsSend(0)
    BY <1>2 DEF SendNext, EndsSend
  <1>5. Expire => \/ call.name \in {"connect", "close"} /\ Release(call.sock)
                  \/ call.name = "recv" /\ UNCHANGED socks
                  \/ EndsSend(1)
    BY <1>3 DEF Expire, EndsSend
  <1> QED BY <1>4, <1>5

-----------------------------------------------------------------------------
(* The table: a socket in use belongs to the program or to the call that   *)
(* is connecting or closing it, and has a port of its own.                 *)
InCall(i) == call.name \in {"connect", "close"} /\ call.sock = i
TableOK ==
    /\ SocketsAreHeld
    /\ call.name \in {"connect", "close"} => call.sock \notin held
    /\ call.name \in {"send", "recv"} => call.sock \in held
    /\ \A i \in Sockets : socks[i].used => socks[i].local_port \in 1 .. next_ephemeral - 1
    /\ \A i, j \in Sockets :
          socks[i].used /\ socks[j].used /\ socks[i].local_port = socks[j].local_port => i = j
    /\ \A seg \in out : seg.port \in 1 .. next_ephemeral - 1

TableInv == TypeOK /\ TableOK

LEMMA TableInit == Init => TableInv
  <1> SUFFICES ASSUME Init PROVE TableInv
    OBVIOUS
  <1>1. Unused \in SocketT /\ Unused.rxbuf = <<>> /\ ~Unused.used
    BY DEF Unused, SocketT, States
  <1>2. Len(Unused.rxbuf) <= RxBufSize
    BY <1>1, Constants
  <1>3. socks \in [Sockets -> SocketT] /\ \A i \in Sockets : socks[i] = Unused
    BY <1>1 DEF Init
  <1>4. NoPeer \in PeerT
    BY Constants DEF NoPeer, PeerT
  <1>5. peer \in [Ports -> PeerT]
    BY <1>4 DEF Init
  <1>6. NoCall \in [name : CallNames, sock : Sockets, n : Nat, sent : Nat] /\ NoCall.name = "none"
    BY Constants DEF NoCall, CallNames
  <1>7. call = NoCall /\ held = {} /\ out = {} /\ next_ephemeral = 1
    BY DEF Init
  <1>8. TypeOK
    BY <1>2, <1>3, <1>5, <1>6, <1>7, Constants DEF TypeOK
  <1>9. TableOK
    BY <1>1, <1>3, <1>6, <1>7 DEF TableOK, SocketsAreHeld
  <1> QED BY <1>8, <1>9 DEF TableInv

(* The types of the sockets, and what a segment sent adds to out.          *)
LEMMA ChangeType ==
    ASSUME TypeOK, NEW i \in Sockets, NEW s, Change(i, s)
    PROVE  /\ socks' \in [Sockets -> SocketT]
           /\ \A j \in Sockets : Len(socks'[j].rxbuf) <= RxBufSize
           /\ socks'[i] = s /\ \A j \in Sockets \ {i} : socks'[j] = socks[j]
  <1>1. /\ socks \in [Sockets -> SocketT] /\ s \in SocketT /\ Len(s.rxbuf) <= RxBufSize
        /\ socks' = [socks EXCEPT ![i] = s] /\ \A j \in Sockets : Len(socks[j].rxbuf) <= RxBufSize
    BY DEF TypeOK, Change
  <1>2. /\ socks' \in [Sockets -> SocketT]
        /\ socks'[i] = s /\ \A j \in Sockets \ {i} : socks'[j] = socks[j]
    BY <1>1
  <1> QED BY <1>1, <1>2

LEMMA SentType ==
    ASSUME TypeOK, NEW s \in SocketT, NEW kind \in {"SYN", "DATA", "FIN"}, NEW len \in Nat,
           Sent(s, kind, len)
    PROVE  /\ out' \subseteq SentT
           /\ \A seg \in out' : seg \in out \/ seg.port = s.local_port
  <1>1. [port |-> s.local_port, kind |-> kind, seq |-> s.seq, len |-> len] \in SentT
    BY DEF SocketT, SentT
  <1>2. \A seg \in out' : \/ seg \in out
           \/ seg = [port |-> s.local_port, kind |-> kind, seq |-> s.seq, len |-> len]
    BY DEF Sent
  <1> QED BY <1>1, <1>2 DEF TypeOK

(* Steps after which every socket in use was so before, with its port.     *)
LEMMA TableShrinks ==
    ASSUME TableInv, UNCHANGED next_ephemeral,
           \A j \in Sockets : socks'[j].used =>
               socks[j].used /\ socks'[j].local_port = socks[j].local_port,
           \A seg \in out' : seg \in out \/ \E j \in Sockets :
               socks[j].used /\ seg.port = socks[j].local_port,
           SocketsAreHeld',
           call'.name \in {"connect", "close"} => call'.sock \notin held',
           call'.name \in {"send", "recv"} => call'.sock \in held'
    PROVE  TableOK'
  BY DEF TableInv, TableOK

LEMMA SendsKeepTable ==
    ASSUME TableInv, NEW i \in held, NEW n \in Nat, SendChunk(i, n),
           call.name \notin {"connect", "close"}
    PROVE  TableInv'
  <1>1. TypeOK /\ TableOK /\ i \in Sockets /\ SocketsAreHeld
    BY DEF TableInv, TypeOK, TableOK
  <1>2. PICK s \in SocketT, chunk \in Nat :
              /\ chunk <= n /\ Change(i, s) /\ Sent(socks[i], "DATA", chunk)
              /\ s = [socks[i] EXCEPT !.seq = Mod(socks[i].seq + chunk)]
              /\ call' = [name |-> "send", sock |-> i, n |-> n - chunk, sent |-> call.sent + chunk]
              /\ UNCHANGED <<next_ephemeral, held, peer>>
    BY <1>1, ChunkEffect
  <1>3. socks[i] \in SocketT /\ socks[i].used
    BY <1>1 DEF TypeOK, SocketsAreHeld
  <1>4. /\ socks' \in [Sockets -> SocketT]
        /\ \A j \in Sockets : Len(socks'[j].rxbuf) <= RxBufSize
        /\ socks'[i] = s /\ \A j \in Sockets \ {i} : socks'[j] = socks[j]
    BY <1>1, <1>2, ChangeType
  <1>5. s.used = socks[i].used /\ s.local_port = socks[i].local_port
    BY <1>2, <1>3 DEF SocketT
  <1>6. /\ out' \subseteq SentT
        /\ \A seg \in out' : seg \in out \/ seg.port = socks[i].local_port
    BY <1>1, <1>2, <1>3, SentType
  <1>7. n - chunk \in Nat
    BY <1>2
  <1>8. TypeOK'
    BY <1>1, <1>2, <1>4, <1>6, <1>7 DEF TypeOK, CallNames
  <1>9. call'.name = "send" /\ call'.sock = i
    BY <1>2
  <1>10. \A j \in Sockets : /\ socks'[j].used = socks[j].used
                            /\ socks'[j].local_port = socks[j].local_port
    BY <1>4, <1>5
  <1>11. SocketsAreHeld'
    BY <1>1, <1>2, <1>9, <1>10 DEF SocketsAreHeld, TableOK
  <1> QED BY <1>1, <1>2, <1>3, <1>6, <1>8, <1>9, <1>10, <1>11, TableShrinks DEF TableInv

LEMMA ConnectKeepsTable ==
    ASSUME TableInv, NEW isn \in Isns, NEW irs \in PeerIsns, NEW total \in PeerTotals,
           Connect(isn, irs, total)
    PROVE  TableInv'
  <1>1. TypeOK /\ TableOK /\ SocketsAreHeld
    BY DEF TableInv, TableOK
  <1>2. PICK i \in Sockets :
              /\ call = NoCall /\ ~socks[i].used /\ Change(i, Connecting(isn))
              /\ Sent(NewSocket(isn), "SYN", 1) /\ UNCHANGED held
              /\ next_ephemeral \in Ports /\ next_ephemeral' = next_ephemeral + 1
              /\ call' = [name |-> "connect", sock |-> i, n |-> 0, sent |-> 0]
              /\ peer' = [peer EXCEPT ![next_ephemeral] =
                             [iss |-> isn, irs |-> irs, total |-> total, rcv |-> 0]]
    BY <1>1, ConnectEffect
  <1>3. isn \in Seqs /\ irs \in Seqs /\ total \in Totals
    BY Constants
  <1>4. FreeSockets # {}
    BY <1>2 DEF FreeSockets
  <1>5. /\ NewSocket(isn).seq = isn /\ NewSocket(isn).local_port = next_ephemeral
        /\ Connecting(isn).used /\ Connecting(isn).local_port = next_ephemeral
    BY <1>1, <1>3, <1>4, NewSockets
  <1> DEFINE s == Connecting(isn)
  <1> HIDE DEF s
  <1>6. /\ socks' \in [Sockets -> SocketT]
        /\ \A j \in Sockets : Len(socks'[j].rxbuf) <= RxBufSize
        /\ socks'[i] = s /\ \A j \in Sockets \ {i} : socks'[j] = socks[j]
    BY <1>1, <1>2, ChangeType DEF s
  <1>7. [iss |-> isn, irs |-> irs, total |-> total, rcv |-> 0] \in PeerT
    BY <1>3 DEF PeerT
  <1>8. peer' \in [Ports -> PeerT]
    BY <1>1, <1>2, <1>7 DEF TypeOK
  <1>9. out' = {seg \in out : Current(seg.port) # {}}
                   \union {[port |-> next_ephemeral, kind |-> "SYN", seq |-> isn, len |-> 1]}
    BY <1>2, <1>5 DEF Sent
  <1>10. /\ next_ephemeral \in Nat /\ next_ephemeral >= 1 /\ next_ephemeral <= MaxPorts
         /\ isn \in Int /\ MaxPorts \in Nat
    BY <1>2, <1>3, Constants DEF Ports
  <1>11. [port |-> next_ephemeral, kind |-> "SYN", seq |-> isn, len |-> 1] \in SentT
    BY <1>10 DEF SentT
  <1>12. out' \subseteq SentT
    BY <1>1, <1>9, <1>11 DEF TypeOK
  <1>13. next_ephemeral' \in 1 .. MaxPorts + 1
    BY <1>2, <1>10
  <1>14. TypeOK'
    BY <1>1, <1>2, <1>6, <1>8, <1>12, <1>13 DEF TypeOK, CallNames
  <1>15. call'.name = "connect" /\ call'.sock = i /\ call.name = "none" /\ i \notin held
    BY <1>1, <1>2 DEF NoCall, SocketsAreHeld
  <1>16. SocketsAreHeld'
    BY <1>1, <1>2, <1>5, <1>6, <1>15 DEF SocketsAreHeld, s
  <1>17. s.used /\ s.local_port = next_ephemeral
    BY <1>5 DEF s
  <1>18. \A seg \in out' : seg.port \in 1 .. next_ephemeral' - 1
    <2>1. \A seg \in out : seg.port \in 1 .. next_ephemeral - 1
      BY <1>1 DEF TableOK
    <2>2. \A seg \in out' : seg \in out \/ seg.port = next_ephemeral
      BY <1>9
    <2> QED BY <1>2, <1>10, <2>1, <2>2
  <1>19. \A j \in Sockets : socks[j].used => socks[j].local_port \in 1 .. next_ephemeral - 1
    BY <1>1 DEF TableOK
  <1>20. \A j \in Sockets : socks'[j].used => socks'[j].local_port \in 1 .. next_ephemeral' - 1
    BY <1>2, <1>6, <1>10, <1>17, <1>19
  <1>21. \A j \in Sockets \ {i} : socks'[j].used => socks'[j].local_port # next_ephemeral
    BY <1>6, <1>10, <1>19
  <1>22. \A j, k \in Sockets :
            socks'[j].used /\ socks'[k].used /\ socks'[j].local_port = socks'[k].local_port
               => j = k
    <2> SUFFICES ASSUME NEW j \in Sockets, NEW k \in Sockets, socks'[j].used, socks'[k].used,
                        socks'[j].local_port = socks'[k].local_port, j # k
                 PROVE  FALSE
      OBVIOUS
    <2>1. CASE j = i \/ k = i
      BY <2>1, <1>6, <1>17, <1>21
    <2>2. CASE j # i /\ k # i
      BY <2>2, <1>1, <1>6 DEF TableOK
    <2> QED BY <2>1, <2>2
  <1>23. TableOK'
    BY <1>2, <1>15, <1>16, <1>18, <1>20, <1>22 DEF TableOK
  <1> QED BY <1>14, <1>23 DEF TableInv

LEMMA ReleaseKeepsTable ==
    ASSUME TableInv, NEW i \in Sockets, Release(i), call' = NoCall, UNCHANGED <<next_ephemeral, peer>>,
           held' = held \ {i}, InCall(i) \/ call = NoCall,
           out' \subseteq SentT,
           \A seg \in out' : seg \in out \/ (socks[i].used /\ seg.port = socks[i].local_port)
    PROVE  TableInv'
  <1>1. TypeOK /\ TableOK /\ SocketsAreHeld
    BY DEF TableInv, TableOK
  <1>2. Change(i, Unused) /\ ~Unused.used
    BY <1>1, ReleaseEffect
  <1> DEFINE s == Unused
  <1> HIDE DEF s
  <1>3. ~s.used
    BY <1>2 DEF s
  <1>4. /\ socks' \in [Sockets -> SocketT]
        /\ \A j \in Sockets : Len(socks'[j].rxbuf) <= RxBufSize
        /\ socks'[i] = s /\ \A j \in Sockets \ {i} : socks'[j] = socks[j]
    BY <1>1, <1>2, ChangeType DEF s
  <1>5. NoCall \in [name : CallNames, sock : Sockets, n : Nat, sent : Nat] /\ NoCall.name = "none"
    BY Constants DEF NoCall, CallNames
  <1>6. TypeOK'
    BY <1>1, <1>4, <1>5 DEF TypeOK
  <1>7. SocketsAreHeld'
    BY <1>1, <1>3, <1>4, <1>5 DEF SocketsAreHeld, InCall
  <1>8. TableOK'
    BY <1>1, <1>3, <1>4, <1>5, <1>7, TableShrinks
  <1> QED BY <1>6, <1>8 DEF TableInv

(* Steps that end a call, begin a recv or deliver a segment.               *)
LEMMA OtherwiseTable ==
    ASSUME TableInv, UNCHANGED <<next_ephemeral, out>>, TypeOK',
           held' = held \/ (call.name = "connect" /\ held' = held \union {call.sock}),
           \A j \in Sockets : /\ socks'[j].used = socks[j].used
                              /\ socks'[j].local_port = socks[j].local_port,
           \/ call' = call /\ held' = held
           \/ call' = NoCall /\ held' = held /\ call.name \notin {"connect", "close"}
           \/ call' = NoCall /\ held' # held
           \/ call = NoCall /\ held' = held /\ call'.name = "recv" /\ call'.sock \in held
    PROVE  TableInv'
  <1>1. TypeOK /\ TableOK /\ SocketsAreHeld
    BY DEF TableInv, TableOK
  <1>2. NoCall.name = "none"
    BY DEF NoCall
  <1>3. SocketsAreHeld'
    BY <1>1, <1>2 DEF SocketsAreHeld, TableOK
  <1>4. /\ call'.name \in {"connect", "close"} => call'.sock \notin held'
        /\ call'.name \in {"send", "recv"} => call'.sock \in held'
    BY <1>1, <1>2 DEF TableOK
  <1>5. TableOK'
    BY <1>3, <1>4, TableShrinks
  <1> QED BY <1>5 DEF TableInv

LEMMA CloseKeepsTable ==
    ASSUME TableInv, NEW i \in Sockets, CloseBegin(i)
    PROVE  TableInv'
  <1>1. TypeOK /\ TableOK /\ SocketsAreHeld
    BY DEF TableInv, TableOK
  <1>2. /\ call = NoCall /\ i \in held /\ held' = held \ {i}
        /\ UNCHANGED <<next_ephemeral, peer>>
    BY <1>1, CloseEffect, Zenon
  <1>3. socks[i] \in SocketT /\ socks[i].used
    BY <1>1, <1>2 DEF TypeOK, SocketsAreHeld
  <1>4. ASSUME Sent(socks[i], "FIN", 1) \/ out' = out
        PROVE  /\ out' \subseteq SentT
               /\ \A seg \in out' : seg \in out \/ (socks[i].used /\ seg.port = socks[i].local_port)
    <2>1. CASE Sent(socks[i], "FIN", 1)
      BY <1>1, <1>3, <2>1, SentType
    <2>2. CASE out' = out
      BY <1>1, <2>2 DEF TypeOK
    <2> QED BY <1>4, <2>1, <2>2
  <1>5. CASE Release(i) /\ call' = call /\ (Sent(socks[i], "FIN", 1) \/ out' = out)
    BY <1>2, <1>4, <1>5, ReleaseKeepsTable
  <1>6. CASE /\ \E s \in SocketT :
                   /\ Change(i, s)
                   /\ s = [socks[i] EXCEPT !.seq = Mod(socks[i].seq + 1), !.state = "FIN_WAIT1"]
             /\ socks[i].state = "ESTABLISHED" /\ Sent(socks[i], "FIN", 1)
             /\ call' = [name |-> "close", sock |-> i, n |-> 0, sent |-> 0]
    <2>1. PICK s \in SocketT :
             /\ Change(i, s)
             /\ s = [socks[i] EXCEPT !.seq = Mod(socks[i].seq + 1), !.state = "FIN_WAIT1"]
      BY <1>6
    <2>2. /\ socks' \in [Sockets -> SocketT]
          /\ \A j \in Sockets : Len(socks'[j].rxbuf) <= RxBufSize
          /\ socks'[i] = s /\ \A j \in Sockets \ {i} : socks'[j] = socks[j]
      BY <1>1, <2>1, ChangeType
    <2>3. s.used = socks[i].used /\ s.local_port = socks[i].local_port
      BY <1>3, <2>1 DEF SocketT
    <2>4. \A j \in Sockets : /\ socks'[j].used = socks[j].used
                             /\ socks'[j].local_port = socks[j].local_port
      BY <2>2, <2>3
    <2>5. call'.name = "close" /\ call'.sock = i /\ call.name = "none"
      BY <1>2, <1>6 DEF NoCall
    <2>6. TypeOK'
      BY <1>1, <1>2, <1>4, <1>6, <2>2 DEF TypeOK, CallNames
    <2>7. SocketsAreHeld'
      BY <1>1, <1>2, <2>4, <2>5 DEF SocketsAreHeld
    <2>8. \A seg \in out' : seg \in out \/ \E j \in Sockets :
               socks[j].used /\ seg.port = socks[j].local_port
      BY <1>4, <1>6
    <2>9. TableOK'
      BY <1>2, <2>4, <2>5, <2>7, <2>8, TableShrinks
    <2> QED BY <2>6, <2>9 DEF TableInv
  <1> QED BY <1>1, <1>5, <1>6, CloseEffect, Zenon

LEMMA PeerEffect ==
    ASSUME TypeOK, NEW p \in Ports, NEW n \in Nat, peer' = [peer EXCEPT ![p].rcv = @ + n]
    PROVE  /\ peer' \in [Ports -> PeerT] /\ peer'[p].rcv = peer[p].rcv + n
           /\ \A q \in Ports : /\ peer'[q].iss = peer[q].iss /\ peer'[q].irs = peer[q].irs
                               /\ peer'[q].total = peer[q].total
                               /\ q # p => peer'[q] = peer[q]
  <1> DEFINE r == peer[p]  s == [r EXCEPT !.rcv = r.rcv + n]
  <1>1. r \in PeerT /\ peer \in [Ports -> PeerT]
    BY DEF TypeOK
  <1>2. peer' = [peer EXCEPT ![p] = s]
    BY <1>1
  <1>3. r.rcv + n \in Nat
    BY <1>1 DEF PeerT
  <1>4. /\ s \in PeerT /\ s.rcv = r.rcv + n
        /\ s.iss = r.iss /\ s.irs = r.irs /\ s.total = r.total
    BY <1>1, <1>3 DEF PeerT
  <1> HIDE DEF s
  <1> QED BY <1>1, <1>2, <1>4

LEMMA TableStep == TableInv /\ [Next]_vars => TableInv'
  <1> SUFFICES ASSUME TableInv, [Next]_vars PROVE TableInv'
    OBVIOUS
  <1>1. TypeOK /\ TableOK /\ SocketsAreHeld
    BY DEF TableInv, TableOK
  <1>2. call.sock \in Sockets /\ held \subseteq Sockets /\ call.n \in Nat /\ call.sent \in Nat
    BY <1>1 DEF TypeOK
  <1>3. NoCall \in [name : CallNames, sock : Sockets, n : Nat, sent : Nat] /\ NoCall.name = "none"
    BY Constants DEF NoCall, CallNames
  <1>4. ASSUME Release(call.sock), call' = NoCall, call.name \in {"connect", "close"},
               UNCHANGED <<next_ephemeral, held, out, peer>>
        PROVE  TableInv'
    <2>1. held' = held \ {call.sock}
      BY <1>1, <1>4 DEF TableOK
    <2>2. out' \subseteq SentT
      BY <1>1, <1>4 DEF TypeOK
    <2> QED BY <1>2, <1>4, <2>1, <2>2, ReleaseKeepsTable DEF InCall
  <1>5. ASSUME NEW i \in Sockets, NEW s \in SocketT, Change(i, s), TypeOK',
               s.used = socks[i].used, s.local_port = socks[i].local_port
        PROVE  \A j \in Sockets : /\ socks'[j].used = socks[j].used
                                  /\ socks'[j].local_port = socks[j].local_port
    BY <1>1, <1>5, ChangeType
  <1>6. ASSUME NEW k \in Nat, EndsSend(k) PROVE TableInv'
    <2> DEFINE i == call.sock  s == Returned(socks[i], call.sent, k)
    <2>1. /\ Change(i, s) /\ s.used = socks[i].used /\ s.local_port = socks[i].local_port
          /\ call.name = "send" /\ call' = NoCall /\ UNCHANGED <<next_ephemeral, held, out, peer>>
      BY <1>1, <1>6, ReturnEffect DEF EndsSend
    <2> HIDE DEF s
    <2>2. s \in SocketT
      BY <2>1 DEF Change
    <2>3. TypeOK'
      BY <1>1, <1>2, <1>3, <2>1, ChangeType DEF TypeOK
    <2>4. \A j \in Sockets : /\ socks'[j].used = socks[j].used
                             /\ socks'[j].local_port = socks[j].local_port
      BY <1>2, <1>5, <2>1, <2>2, <2>3
    <2> QED BY <2>1, <2>3, <2>4, OtherwiseTable
  <1>18. CASE \E isn \in Isns, irs \in PeerIsns, total \in PeerTotals : Connect(isn, irs, total)
    BY <1>18, ConnectKeepsTable
  <1>7. CASE \E i \in Sockets, n \in SendSizes : SendBegin(i, n)
    <2>1. PICK i \in Sockets, n \in SendSizes : SendBegin(i, n)
      BY <1>7
    <2>2. i \in held /\ SendChunk(i, n) /\ call = NoCall /\ n \in Nat
      BY <2>1, Constants DEF SendBegin
    <2> QED BY <1>3, <2>2, SendsKeepTable
  <1>8. CASE \E i \in Sockets, n \in RecvSizes : RecvBegin(i, n)
    <2>1. PICK i \in Sockets, n \in RecvSizes : RecvBegin(i, n)
      BY <1>8
    <2>2. /\ call = NoCall /\ i \in held /\ n \in Nat
          /\ call' = [name |-> "recv", sock |-> i, n |-> n, sent |-> 0]
          /\ UNCHANGED <<socks, next_ephemeral, held, out, peer>>
      BY <2>1, Constants DEF RecvBegin
    <2>3. TypeOK'
      BY <1>1, <2>2 DEF TypeOK, CallNames
    <2> QED BY <2>2, <2>3, OtherwiseTable
  <1>9. CASE \E i \in Sockets : CloseBegin(i)
    BY <1>9, CloseKeepsTable
  <1>10. CASE ConnectReturn
    <2>1. /\ call.name = "connect" /\ call' = NoCall
          /\ UNCHANGED <<next_ephemeral, out, peer>>
          /\ \/ held' = held \union {call.sock} /\ UNCHANGED socks
             \/ Release(call.sock) /\ UNCHANGED held
      BY <1>10 DEF ConnectReturn
    <2>2. CASE held' = held \union {call.sock} /\ UNCHANGED socks
      <3>1. TypeOK'
        BY <1>1, <1>2, <1>3, <2>1, <2>2 DEF TypeOK
      <3>2. held' # held
        BY <1>1, <2>1, <2>2 DEF TableOK
      <3> QED BY <2>1, <2>2, <3>1, <3>2, OtherwiseTable
    <2>3. CASE Release(call.sock) /\ UNCHANGED held
      BY <1>4, <2>1, <2>3
    <2> QED BY <2>1, <2>2, <2>3
  <1>11. CASE SendNext
    <2>1. call.name = "send" /\ call.sock \in held
      BY <1>1, <1>11 DEF SendNext, TableOK
    <2>2. CASE SendChunk(call.sock, call.n)
      BY <1>2, <2>1, <2>2, SendsKeepTable
    <2> QED BY <1>1, <1>6, <1>11, <2>2, SendEnds
  <1>12. CASE RecvReturn
    <2>1. PICK n \in Nat : /\ n <= Len(socks[call.sock].rxbuf)
                           /\ Change(call.sock, Reads(socks[call.sock], n))
      BY <1>1, <1>12, ReadEffect
    <2>2. /\ call.name = "recv" /\ call' = NoCall
          /\ UNCHANGED <<next_ephemeral, held, out, peer>>
      BY <1>1, <1>12, ReadEffect
    <2> DEFINE r == socks[call.sock]  s == Reads(r, n)
    <2>3. r \in SocketT /\ s \in SocketT
      BY <1>1, <1>2, <2>1 DEF TypeOK, Change
    <2>4. s.used = r.used /\ s.local_port = r.local_port
      BY <2>3 DEF Reads, SocketT
    <2> HIDE DEF s
    <2>5. Change(call.sock, s)
      BY <2>1 DEF s
    <2>6. TypeOK'
      BY <1>1, <1>2, <1>3, <2>2, <2>5, ChangeType DEF TypeOK
    <2>7. \A j \in Sockets : /\ socks'[j].used = socks[j].used
                             /\ socks'[j].local_port = socks[j].local_port
      BY <1>2, <1>5, <2>3, <2>4, <2>5, <2>6
    <2> QED BY <2>2, <2>6, <2>7, OtherwiseTable
  <1>13. CASE CloseReturn
    BY <1>4, <1>13 DEF CloseReturn
  <1>14. CASE Expire
    <2>1. call' = NoCall /\ UNCHANGED <<next_ephemeral, held, out, peer>>
      BY <1>14 DEF Expire
    <2>2. CASE call.name = "recv" /\ UNCHANGED socks
      <3>1. TypeOK'
        BY <1>1, <1>3, <2>1, <2>2 DEF TypeOK
      <3> QED BY <2>1, <2>2, <3>1, OtherwiseTable
    <2> QED BY <1>1, <1>4, <1>6, <1>14, <2>1, <2>2, SendEnds
  <1>15. CASE \E p \in Ports : \E seg \in PeerSegments(p) : tcp_rx(seg)
    <2>0. PICK p \in Ports : \E seg \in PeerSegments(p) : tcp_rx(seg)
      BY <1>15
    <2>1. PICK seg \in PeerSegments(p) : tcp_rx(seg)
      BY <2>0
    <2>2. UNCHANGED <<next_ephemeral, call, held, out, peer>>
      BY <1>1, <2>1, RxEffect
    <2>3. PICK i \in Sockets, s \in SocketT :
                 /\ socks[i].used /\ socks[i].local_port = p
                 /\ Change(i, s) /\ s.used /\ s.local_port = p
      BY <1>1, <2>1, RxEffect
    <2>4. TypeOK'
      BY <1>1, <2>2, <2>3, ChangeType DEF TypeOK
    <2>5. socks[i] \in SocketT
      BY <1>1 DEF TypeOK
    <2>6. s.used = socks[i].used
      BY <2>3, <2>5 DEF SocketT
    <2>7. \A j \in Sockets : /\ socks'[j].used = socks[j].used
                             /\ socks'[j].local_port = socks[j].local_port
      BY <1>5, <2>3, <2>4, <2>6
    <2> QED BY <2>2, <2>4, <2>7, OtherwiseTable
  <1>16. CASE \E seg \in out : PeerReceives(seg)
    <2>1. PICK seg \in out : PeerReceives(seg)
      BY <1>16
    <2>2. /\ peer' = [peer EXCEPT ![seg.port].rcv = @ + seg.len]
          /\ UNCHANGED <<socks, next_ephemeral, call, held, out>>
      BY <2>1 DEF PeerReceives
    <2>3. seg.len \in Nat /\ seg.port \in Ports
      <3>1. seg.len \in Nat /\ seg.port \in 1 .. next_ephemeral - 1
        BY <1>1 DEF TypeOK, SentT, TableOK
      <3>2. next_ephemeral \in 1 .. MaxPorts + 1
        BY <1>1 DEF TypeOK
      <3> QED BY <3>1, <3>2, Constants DEF Ports
    <2>4. peer' \in [Ports -> PeerT]
      BY <1>1, <2>2, <2>3, PeerEffect
    <2>5. TypeOK'
      BY <1>1, <2>2, <2>4 DEF TypeOK
    <2> QED BY <2>2, <2>5, OtherwiseTable
  <1>17. CASE UNCHANGED vars
    <2>1. UNCHANGED <<socks, next_ephemeral, call, held, out, peer>>
      BY <1>17 DEF vars
    <2>2. TypeOK'
      BY <1>1, <2>1 DEF TypeOK
    <2> QED BY <2>1, <2>2, OtherwiseTable
  <1> QED BY <1>7, <1>8, <1>9, <1>10, <1>11, <1>12, <1>13, <1>14, <1>15, <1>16, <1>17, <1>18
          DEF Next, Returns

(* The table is not used up: a socket is in use exactly while the program  *)
(* has it, or tcp_connect or tcp_close is at work on it, and both give it  *)
(* back however they end.                                                  *)
THEOREM SocketsAreGivenBack == Spec => []SocketsAreHeld
  <1>1. TableInv => SocketsAreHeld
    BY DEF TableInv, TableOK
  <1> QED BY <1>1, TableInit, TableStep, PTL DEF Spec

-----------------------------------------------------------------------------
(* What a program has read or may read, and where in the other end's       *)
(* stream the socket is: a counts the bytes it has acknowledged and the    *)
(* FIN.  After a FIN that overtook data, a is one too large, and what      *)
(* comes later is taken one byte too late, but still in order.             *)
Text(s) == s.got \o s.rxbuf

Position(s, q, a) ==
    /\ s.ack = Mod(q.irs + 1 + a)
    /\ \A k \in 1 .. Len(Text(s)) : Text(s)[k].byte <= a
    /\ s.state = "ESTABLISHED" => a <= q.total
    /\ ~s.gap /\ s.state = "ESTABLISHED" => Len(Text(s)) = a
    /\ ~s.gap /\ s.state = "CLOSE_WAIT" => Len(Text(s)) = q.total /\ a = q.total + 1

InOrder(t, port) ==
    /\ \A k \in 1 .. Len(t) : t[k].port = port
    /\ \A k, m \in 1 .. Len(t) : k < m => t[k].byte < t[m].byte

StreamOK(s, q) ==
    /\ InOrder(Text(s), s.local_port)
    /\ ~s.gap => \A k \in 1 .. Len(Text(s)) : Text(s)[k].byte = k
    /\ s.state = "SYN_SENT" => Len(Text(s)) = 0 /\ ~s.gap
    /\ s.state \in {"ESTABLISHED", "CLOSE_WAIT"} => \E a \in 0 .. q.total + 1 : Position(s, q, a)

StreamsOK == \A i \in Sockets : socks[i].used => StreamOK(socks[i], peer[socks[i].local_port])

LEMMA Texts ==
    ASSUME NEW s \in SocketT
    PROVE  Text(s) \in Seq(Bytes) /\ Len(Text(s)) = Len(s.got) + Len(s.rxbuf)
  <1>1. s.got \in Seq(Bytes) /\ s.rxbuf \in Seq(Bytes)
    BY DEF SocketT
  <1> QED BY <1>1 DEF Text

LEMMA ReadsText ==
    ASSUME NEW s \in SocketT, NEW n \in Nat, n <= Len(s.rxbuf)
    PROVE  /\ Text(Reads(s, n)) = Text(s) /\ Reads(s, n).local_port = s.local_port
           /\ Reads(s, n).state = s.state /\ Reads(s, n).ack = s.ack /\ Reads(s, n).gap = s.gap
           /\ Reads(s, n).seq = s.seq /\ Reads(s, n).snd_una = s.snd_una
           /\ Reads(s, n).used = s.used
  <1> DEFINE g == s.got  b == s.rxbuf  x == SubSeq(b, 1, n)  y == SubSeq(b, n + 1, Len(b))
  <1>1. g \in Seq(Bytes) /\ b \in Seq(Bytes)
    BY DEF SocketT
  <1>2. /\ Reads(s, n).got = g \o x /\ Reads(s, n).rxbuf = y
        /\ Reads(s, n).local_port = s.local_port
        /\ Reads(s, n).state = s.state /\ Reads(s, n).ack = s.ack /\ Reads(s, n).gap = s.gap
        /\ Reads(s, n).seq = s.seq /\ Reads(s, n).snd_una = s.snd_una
        /\ Reads(s, n).used = s.used
    BY DEF Reads, SocketT
  <1>3. n <= Len(b)
    OBVIOUS
  <1> HIDE DEF g, b
  <1>4. x \in Seq(Bytes) /\ y \in Seq(Bytes)
    BY <1>1, <1>3
  <1>5. x \o y = b
    <2>1. 1 \in 1 .. Len(b) + 1 /\ n \in 1 - 1 .. Len(b) /\ Len(b) \in n .. Len(b)
      BY <1>1, <1>3
    <2>2. x \o y = SubSeq(b, 1, Len(b))
      BY <1>1, <2>1, ConcatAdjacentSubSeq, Zenon
    <2> QED BY <1>1, <2>2, SubSeqFull, Zenon
  <1> HIDE DEF x, y
  <1>6. (g \o x) \o y = g \o b
    <2>1. (g \o x) \o y = g \o (x \o y)
      BY <1>1, <1>4, ConcatAssociative, SMTT(30)
    <2> QED BY <1>5, <2>1, Zenon
  <1> QED BY <1>2, <1>6 DEF Text, g, b

(* Data that follows what is there: first is its position, and each byte   *)
(* its own.                                                                *)
Follows(t, port, a, n, first, d) ==
    /\ t \in Seq(Bytes) /\ port \in Nat /\ a \in Nat /\ n \in Nat
    /\ first \in Nat /\ (n > 0 => first = a + 1)
    /\ d \in Seq(Bytes) /\ Len(d) = n
    /\ \A k \in 1 .. n : d[k] = [port |-> port, byte |-> first + k - 1]
    /\ InOrder(t, port) /\ \A k \in 1 .. Len(t) : t[k].byte <= a

LEMMA AppendInOrder ==
    ASSUME NEW t, NEW port, NEW a, NEW n, NEW first, NEW d,
           Follows(t, port, a, n, first, d)
    PROVE  /\ InOrder(t \o d, port) /\ Len(t \o d) = Len(t) + n
           /\ \A k \in 1 .. Len(t) + n : (t \o d)[k].byte <= a + n
           /\ Len(t) = a /\ (\A k \in 1 .. Len(t) : t[k].byte = k)
                 => \A k \in 1 .. Len(t) + n : (t \o d)[k].byte = k
           /\ n = 0 => \A k \in 1 .. Len(t) + n : (t \o d)[k] = t[k]
  <1> USE DEF Follows
  <1> DEFINE u == t \o d  m == Len(t)
  <1>1. m \in Nat /\ Len(u) = m + n
    <2>1. Len(t \o d) = Len(t) + Len(d)
      BY ConcatProperties, Zenon
    <2>2. Len(t) \in Nat
      OBVIOUS
    <2> QED BY <2>1, <2>2
  <1>2. \A k \in 1 .. m + n : u[k] = IF k <= m THEN t[k] ELSE d[k - m]
    <2>1. \A k \in 1 .. Len(t) + Len(d) : (t \o d)[k] = IF k <= Len(t) THEN t[k] ELSE d[k - Len(t)]
      BY ConcatProperties, Zenon
    <2> QED BY <2>1, Zenon
  <1>3. \A k \in 1 .. m : t[k] \in Bytes
    OBVIOUS
  <1>4. \A k \in 1 .. m : u[k] = t[k]
    <2> HIDE DEF u, m
    <2> QED BY <1>1, <1>2
  <1>5. ASSUME NEW k \in m + 1 .. m + n
        PROVE  u[k].port = port /\ u[k].byte = a + (k - m)
    <2> DEFINE j == k - m
    <2>1. j \in 1 .. n /\ ~(k <= m) /\ k \in 1 .. m + n
      BY <1>1
    <2>2. u[k] = d[j]
      <3> HIDE DEF u
      <3> QED BY <1>2, <2>1
    <2>3. d[j] = [port |-> port, byte |-> first + j - 1]
      BY <2>1
    <2>4. first = a + 1
      BY <2>1
    <2> HIDE DEF j, u
    <2>5. u[k].port = port /\ u[k].byte = a + j
      BY <2>1, <2>2, <2>3, <2>4
    <2> QED BY <2>5 DEF j
  <1> HIDE DEF u, m
  <1>6. \A k \in 1 .. m : t[k].port = port /\ t[k].byte \in Int /\ t[k].byte <= a
    BY <1>3 DEF InOrder, Bytes, m
  <1>7. \A k, l \in 1 .. m : k < l => t[k].byte < t[l].byte
    BY DEF InOrder, m
  <1>8. \A k \in 1 .. m + n : k \in 1 .. m \/ k \in m + 1 .. m + n
    BY <1>1
  <1>9. \A k \in 1 .. m + n : u[k].port = port
    BY <1>4, <1>5, <1>6, <1>8
  <1>10. ASSUME NEW k \in 1 .. m + n, NEW l \in 1 .. m + n, k < l
        PROVE  u[k].byte < u[l].byte
    <2>1. CASE k \in 1 .. m /\ l \in 1 .. m
      BY <1>4, <1>7, <1>10, <2>1
    <2>2. CASE k \in 1 .. m /\ l \in m + 1 .. m + n
      <3>1. u[k].byte \in Int /\ u[k].byte <= a
        BY <1>4, <1>6, <2>2
      <3>2. u[l].byte = a + (l - m)
        BY <1>5, <2>2
      <3> QED BY <1>1, <2>2, <3>1, <3>2
    <2>3. CASE k \in m + 1 .. m + n /\ l \in m + 1 .. m + n
      <3>1. u[k].byte = a + (k - m) /\ u[l].byte = a + (l - m)
        BY <1>5, <2>3
      <3> QED BY <1>1, <1>10, <2>3, <3>1
    <2> QED BY <1>1, <1>8, <1>10, <2>1, <2>2, <2>3
  <1>11. InOrder(u, port)
    BY <1>1, <1>9, <1>10 DEF InOrder
  <1>12. ASSUME NEW k \in 1 .. m + n PROVE u[k].byte <= a + n
    <2>1. CASE k \in 1 .. m
      BY <1>1, <1>4, <1>6, <2>1
    <2>2. CASE k \in m + 1 .. m + n
      <3>1. u[k].byte = a + (k - m)
        BY <1>5, <2>2
      <3> QED BY <1>1, <2>2, <3>1
    <2> QED BY <1>8, <2>1, <2>2
  <1>13. ASSUME m = a, \A k \in 1 .. m : t[k].byte = k, NEW k \in 1 .. m + n
         PROVE  u[k].byte = k
    <2>1. CASE k \in 1 .. m
      BY <1>4, <1>13, <2>1
    <2>2. CASE k \in m + 1 .. m + n
      <3>1. u[k].byte = a + (k - m)
        BY <1>5, <2>2
      <3> QED BY <1>1, <1>13, <2>2, <3>1
    <2> QED BY <1>8, <2>1, <2>2
  <1>14. n = 0 => \A k \in 1 .. m + n : u[k] = t[k]
    BY <1>1, <1>4
  <1> QED BY <1>1, <1>11, <1>12, <1>13, <1>14 DEF u, m

(* A socket whose bytes and position stay, or that leaves the states in    *)
(* which it takes bytes.                                                   *)
LEMMA StreamKept ==
    ASSUME NEW r, NEW s, NEW q, NEW w, StreamOK(r, q),
           Text(s) = Text(r), s.gap = r.gap, s.local_port = r.local_port,
           w.irs = q.irs, w.total = q.total,
           \/ s.state = r.state /\ s.ack = r.ack
           \/ s.state \notin {"SYN_SENT", "ESTABLISHED", "CLOSE_WAIT"}
    PROVE  StreamOK(s, w)
  <1>1. CASE s.state = r.state /\ s.ack = r.ack
    BY <1>1 DEF StreamOK, Position
  <1>2. CASE s.state \notin {"SYN_SENT", "ESTABLISHED", "CLOSE_WAIT"}
    BY <1>2 DEF StreamOK
  <1> QED BY <1>1, <1>2

(* The test seq == ack finds the byte after the a-th.                      *)
LEMMA NextByte ==
    ASSUME NEW irs \in Int, NEW total \in Nat, total + 2 < SeqWidth, NEW a \in 0 .. total + 1,
           NEW first \in 1 .. total + 1, Mod(irs + first) = Mod(irs + 1 + a)
    PROVE  first = a + 1
  <1> DEFINE y == irs + first  z == irs + 1 + a
  <1>1. y \in Int /\ z \in Int /\ y - z = first - (1 + a) /\ z - y = (1 + a) - first
    OBVIOUS
  <1>2. SeqWidth \in Nat \ {0}
    BY SeqNumbers, Zenon
  <1>3. first - (1 + a) < SeqWidth /\ (1 + a) - first < SeqWidth
    BY <1>2
  <1>4. y - z < SeqWidth /\ z - y < SeqWidth
    BY <1>1, <1>3
  <1>5. y = z
    <2>1. Mod(y) = Mod(z)
      OBVIOUS
    <2> HIDE DEF y, z
    <2> QED BY <1>1, <1>4, <2>1, SeqNumbers, Zenon
  <1>6. y = z => first = a + 1
    OBVIOUS
  <1> HIDE DEF y, z
  <1> QED BY <1>5, <1>6

LEMMA AddToMod ==
    ASSUME NEW a \in Int, NEW b \in Int, NEW c \in Int, c = a + b
    PROVE  Mod(Mod(a) + b) = Mod(c)
  BY SeqNumbers, Zenon

(* A segment taken in, or not.                                             *)
LEMMA ReceiveOK ==
    ASSUME NEW r \in SocketT, NEW q \in PeerT, NEW seg, SegmentOK(seg, q),
           seg.port = r.local_port, Len(r.rxbuf) <= RxBufSize,
           r.state \in {"ESTABLISHED", "CLOSE_WAIT"}, StreamOK(r, q)
    PROVE  StreamOK(Receives(r, seg), q)
  <1> DEFINE s == Receives(r, seg)  d == Data(r, seg)  n == Taken(r, seg)
             k == Kept(r, n)  f == Finishes(r, seg)  x == IF f THEN 1 ELSE 0
             t == Text(r)  total == q.total  irs == q.irs  first == seg.first
             len == seg.len  port == r.local_port
  <1>1. /\ port \in Nat /\ r.gap \in BOOLEAN /\ t \in Seq(Bytes)
        /\ r.rxbuf \in Seq(Bytes) /\ r.got \in Seq(Bytes)
    BY Texts DEF SocketT
  <1>2. total \in Nat /\ total + 2 < SeqWidth /\ irs \in Int
    BY Constants DEF PeerT, Totals
  <1>3. /\ n \in Nat /\ k \in Nat /\ k <= n /\ s \in SocketT
        /\ d \in Seq(Bytes) /\ Len(d) = k
    BY <1>1, ReceiveType
  <1>4. /\ s.got = r.got /\ s.rxbuf = r.rxbuf \o d /\ s.local_port = port
        /\ s.ack = Mod(r.ack + n + x)
        /\ s.state = IF f THEN "CLOSE_WAIT" ELSE r.state
        /\ s.gap = (r.gap \/ k < n \/ Early(r, seg))
    BY DEF Receives, SocketT
  <1>5. \A j \in 1 .. k : d[j] = [port |-> port, byte |-> first + j - 1]
    BY DEF Data
  <1>6. n > 0 => n = len /\ seg.seq = r.ack
    BY DEF Taken, IsNext
  <1>7. Early(r, seg) <=> f /\ Mod(r.ack + n) # Mod(seg.seq + len)
    BY DEF Early
  <1>8. f \in BOOLEAN /\ (f => "FIN" \in seg.flags /\ r.state = "ESTABLISHED")
    BY DEF Finishes
  <1>9. /\ first \in Nat /\ len \in Nat /\ seg.seq = Mod(irs + first)
        /\ len > 0 => first >= 1 /\ first + len <= total + 1
        /\ "FIN" \in seg.flags => first + len = total + 1
    BY DEF SegmentOK
  <1>10. x \in {0, 1} /\ (f => x = 1) /\ (~f => x = 0)
    OBVIOUS
  <1>11. PICK a \in 0 .. total + 1 : Position(r, q, a)
    BY DEF StreamOK
  <1>12. /\ r.ack = Mod(irs + 1 + a)
         /\ \A j \in 1 .. Len(t) : t[j].byte <= a
         /\ r.state = "ESTABLISHED" => a <= total
         /\ ~r.gap /\ r.state = "ESTABLISHED" => Len(t) = a
         /\ ~r.gap /\ r.state = "CLOSE_WAIT" => Len(t) = total /\ a = total + 1
    BY <1>11 DEF Position
  <1>13. InOrder(t, port) /\ (~r.gap => \A j \in 1 .. Len(t) : t[j].byte = j)
    BY DEF StreamOK
  <1>14. Text(s) = t \o d
    <2> DEFINE g == r.got  b == r.rxbuf
    <2>1. Text(s) = g \o (b \o d) /\ t = g \o b
      BY <1>4 DEF Text
    <2> HIDE DEF g, b, d, s, t
    <2>2. g \in Seq(Bytes) /\ b \in Seq(Bytes) /\ d \in Seq(Bytes)
      BY <1>1, <1>3 DEF g, b
    <2>3. (g \o b) \o d = g \o (b \o d)
      BY <2>2, ConcatAssociative, SMTT(30)
    <2> QED BY <2>1, <2>3
  <1> HIDE DEF n, k, d, f, s, x, t, total, irs, first, len, port
  <1>15. a \in Nat /\ a <= total + 1
    BY <1>2, <1>11
  <1>16. n > 0 => first = a + 1 /\ a + n <= total
    <2> SUFFICES ASSUME n > 0 PROVE first = a + 1 /\ a + n <= total
      OBVIOUS
    <2>1. Mod(irs + first) = Mod(irs + 1 + a) /\ n = len
      BY <1>6, <1>9, <1>12
    <2>2. first \in 1 .. total + 1 /\ first + n <= total + 1
      BY <1>2, <1>3, <1>9, <2>1
    <2>3. first = a + 1
      BY <1>2, <1>11, <2>1, <2>2, NextByte
    <2> QED BY <1>2, <1>3, <1>15, <2>2, <2>3
  <1>17. k > 0 => first = a + 1
    BY <1>3, <1>16
  <1>18. s.ack = Mod(irs + 1 + (a + n + x)) /\ Mod(r.ack + n) = Mod(irs + 1 + a + n)
    <2> DEFINE z == irs + 1 + a
    <2>1. z \in Int /\ n + x \in Int /\ n \in Int /\ z + n \in Int
          /\ z + (n + x) = irs + 1 + (a + n + x)
          /\ irs + 1 + (a + n + x) \in Int
      BY <1>2, <1>3, <1>10, <1>15
    <2>2. Mod(z) \in Int
      BY <2>1, ModIsSeq
    <2>3. r.ack = Mod(z)
      BY <1>12
    <2>4. Mod(z) + n + x = Mod(z) + (n + x)
      <3> DEFINE y == Mod(z)
      <3> HIDE DEF y, z
      <3>1. y \in Int
        BY <2>2 DEF y
      <3>2. y + n + x = y + (n + x)
        BY <3>1, <1>3, <1>10
      <3> QED BY <3>2 DEF y
    <2>5. Mod(Mod(z) + (n + x)) = Mod(irs + 1 + (a + n + x))
      BY <2>1, AddToMod
    <2>6. Mod(Mod(z) + n) = Mod(z + n)
      BY <2>1, AddToMod
    <2> QED BY <1>4, <2>3, <2>4, <2>5, <2>6
  <1>19. /\ InOrder(t \o d, port) /\ Len(t \o d) = Len(t) + k
         /\ \A j \in 1 .. Len(t) + k : (t \o d)[j].byte <= a + k
         /\ Len(t) = a /\ (\A j \in 1 .. Len(t) : t[j].byte = j)
               => \A j \in 1 .. Len(t) + k : (t \o d)[j].byte = j
         /\ k = 0 => \A j \in 1 .. Len(t) + k : (t \o d)[j] = t[j]
    <2>1. t \in Seq(Bytes) /\ port \in Nat /\ a \in Nat /\ k \in Nat /\ first \in Nat
      BY <1>1, <1>3, <1>9, <1>15
    <2>2. d \in Seq(Bytes) /\ Len(d) = k /\ (k > 0 => first = a + 1)
      BY <1>3, <1>17
    <2>3. \A j \in 1 .. Len(t) : t[j].byte <= a
      BY <1>12
    <2>4. Follows(t, port, a, k, first, d)
      BY <1>5, <1>13, <2>1, <2>2, <2>3 DEF Follows
    <2> QED BY <2>4, AppendInOrder
  <1> DEFINE u == Text(s)
  <1>20. /\ InOrder(u, port) /\ Len(u) = Len(t) + k
         /\ \A j \in 1 .. Len(u) : u[j].byte <= a + k
         /\ Len(t) = a /\ (\A j \in 1 .. Len(t) : t[j].byte = j)
               => \A j \in 1 .. Len(u) : u[j].byte = j
         /\ k = 0 => \A j \in 1 .. Len(u) : u[j] = t[j]
    BY <1>14, <1>19, Zenon
  <1> HIDE DEF u
  <1> DEFINE b == a + n + x
  <1>21. ~s.gap => ~r.gap /\ ~(k < n) /\ ~Early(r, seg)
    BY <1>4, Zenon
  <1>22. Len(t) \in Nat
    BY <1>1
  <1>23. /\ b \in 0 .. total + 1
         /\ a + k <= b
         /\ s.state = "ESTABLISHED" => r.state = "ESTABLISHED" /\ ~f /\ b <= total /\ b = a + n
    BY <1>2, <1>3, <1>4, <1>8, <1>10, <1>12, <1>15, <1>16
  <1>24. \A j \in 1 .. Len(u) : u[j].byte <= b
    <2>1. \A j \in 1 .. Len(u) : u[j] \in Bytes
      <3>1. u \in Seq(Bytes)
        BY <1>1, <1>3, <1>14 DEF u
      <3> QED BY <3>1
    <2> SUFFICES ASSUME NEW j \in 1 .. Len(u) PROVE u[j].byte <= b
      OBVIOUS
    <2>2. u[j].byte \in Int /\ u[j].byte <= a + k
      BY <1>20, <2>1 DEF Bytes
    <2>3. a + k \in Int /\ b \in Int
      BY <1>3, <1>10, <1>15
    <2> HIDE DEF b
    <2> QED BY <1>23, <2>2, <2>3
  <1>25. ASSUME ~s.gap, s.state = "ESTABLISHED" PROVE Len(u) = b
    <2>1. ~r.gap /\ r.state = "ESTABLISHED" /\ b = a + n /\ k = n
      BY <1>3, <1>21, <1>23, <1>25
    <2> QED BY <1>12, <1>20, <2>1
  <1>26. ASSUME ~s.gap, s.state = "CLOSE_WAIT" PROVE Len(u) = total /\ b = total + 1
    <2>1. ~r.gap /\ k = n /\ ~Early(r, seg)
      BY <1>3, <1>21, <1>26
    <2>2. CASE f
      <3>1. r.state = "ESTABLISHED" /\ a <= total /\ Len(t) = a /\ first + len = total + 1 /\ x = 1
        BY <1>8, <1>9, <1>10, <1>12, <2>1, <2>2
      <3>2. Mod(irs + 1 + a + n) = Mod(seg.seq + len)
        BY <1>7, <1>18, <2>1, <2>2
      <3>3. Mod(seg.seq + len) = Mod(irs + (total + 1))
        <4>1. irs + first \in Int /\ len \in Int /\ irs + (total + 1) \in Int
              /\ irs + (total + 1) = irs + first + len
          BY <1>2, <1>9, <3>1, SMTT(30)
        <4> QED BY <1>9, <4>1, AddToMod
      <3>4. a + n \in 0 .. total + 1 /\ total + 1 \in 1 .. total + 1
            /\ irs + 1 + (a + n) = irs + 1 + a + n
        BY <1>2, <1>3, <1>15, <1>16, <3>1
      <3>5. total + 1 = a + n + 1
        <4> DEFINE y == a + n
        <4>1. Mod(irs + (total + 1)) = Mod(irs + 1 + y)
          BY <3>2, <3>3, <3>4
        <4>2. y \in 0 .. total + 1
          BY <3>4
        <4> HIDE DEF y
        <4>3. total + 1 = y + 1
          BY <1>2, <3>4, <4>1, <4>2, NextByte
        <4> QED BY <4>3 DEF y
      <3> QED BY <1>2, <1>3, <1>15, <1>20, <2>1, <3>1, <3>5
    <2>3. CASE ~f
      <3>1. r.state = "CLOSE_WAIT" /\ Len(t) = total /\ a = total + 1 /\ x = 0
        BY <1>4, <1>10, <1>12, <1>26, <2>1, <2>3
      <3>2. n = 0
        BY <1>2, <1>3, <1>16, <3>1
      <3> QED BY <1>2, <1>20, <2>1, <3>1, <3>2
    <2> QED BY <1>8, <2>2, <2>3
  <1>27. Position(s, q, b)
    BY <1>18, <1>23, <1>24, <1>25, <1>26 DEF Position, u, total, irs
  <1>28. ASSUME ~s.gap PROVE \A j \in 1 .. Len(u) : u[j].byte = j
    <2>1. ~r.gap /\ k = n
      BY <1>3, <1>21, <1>28
    <2>2. CASE r.state = "ESTABLISHED"
      BY <1>12, <1>13, <1>20, <2>1, <2>2
    <2>3. CASE r.state # "ESTABLISHED"
      <3>1. a = total + 1
        BY <1>12, <2>1, <2>3
      <3>2. k = 0
        BY <1>2, <1>3, <1>16, <2>1, <3>1
      <3> QED BY <1>13, <1>20, <1>22, <2>1, <3>2
    <2> QED BY <2>2, <2>3
  <1>29. s.state # "SYN_SENT"
    BY <1>4
  <1> HIDE DEF b
  <1>30. \E c \in 0 .. q.total + 1 : Position(s, q, c)
    BY <1>23, <1>27 DEF total
  <1>31. StreamOK(s, q)
    BY <1>4, <1>20, <1>28, <1>29, <1>30 DEF StreamOK, u
  <1> QED BY <1>31 DEF s

(* Steps that leave the other ends' streams as they are and change at most *)
(* one socket, to a sound one.                                             *)
StreamsSame ==
    \A p \in Ports : p < next_ephemeral =>
        peer'[p].irs = peer[p].irs /\ peer'[p].total = peer[p].total

LEMMA PortsOfSockets ==
    ASSUME TableInv, NEW i \in Sockets, socks[i].used
    PROVE  socks[i].local_port \in Ports /\ socks[i].local_port < next_ephemeral
  <1>1. socks[i].local_port \in 1 .. next_ephemeral - 1 /\ next_ephemeral \in 1 .. MaxPorts + 1
    BY DEF TableInv, TypeOK, TableOK
  <1> QED BY <1>1, Constants DEF Ports

LEMMA OneStream ==
    ASSUME TableInv, StreamsOK, StreamsSame, NEW i \in Sockets, NEW s, Change(i, s),
           s.used => StreamOK(s, peer'[s.local_port])
    PROVE  StreamsOK'
  <1>1. TypeOK
    BY DEF TableInv
  <1>2. socks'[i] = s /\ \A j \in Sockets \ {i} : socks'[j] = socks[j]
    BY <1>1, ChangeType
  <1>3. ASSUME NEW j \in Sockets, j # i, socks[j].used
        PROVE  StreamOK(socks[j], peer'[socks[j].local_port])
    <2>1. socks[j].local_port \in Ports /\ socks[j].local_port < next_ephemeral
      BY <1>3, PortsOfSockets
    <2>2. StreamOK(socks[j], peer[socks[j].local_port])
      BY <1>3 DEF StreamsOK
    <2>3. /\ peer'[socks[j].local_port].irs = peer[socks[j].local_port].irs
          /\ peer'[socks[j].local_port].total = peer[socks[j].local_port].total
      BY <2>1 DEF StreamsSame
    <2> QED BY <2>2, <2>3, StreamKept
  <1> QED BY <1>2, <1>3 DEF StreamsOK

LEMMA NoStream ==
    ASSUME TableInv, StreamsOK, StreamsSame, UNCHANGED socks
    PROVE  StreamsOK'
  <1>1. ASSUME NEW j \in Sockets, socks[j].used
        PROVE  StreamOK(socks[j], peer'[socks[j].local_port])
    <2>1. socks[j].local_port \in Ports /\ socks[j].local_port < next_ephemeral
      BY <1>1, PortsOfSockets
    <2>2. StreamOK(socks[j], peer[socks[j].local_port])
      BY <1>1 DEF StreamsOK
    <2>3. /\ peer'[socks[j].local_port].irs = peer[socks[j].local_port].irs
          /\ peer'[socks[j].local_port].total = peer[socks[j].local_port].total
      BY <2>1 DEF StreamsSame
    <2> QED BY <2>2, <2>3, StreamKept
  <1> QED BY <1>1 DEF StreamsOK

LEMMA RxStreams ==
    ASSUME TableInv, StreamsOK, NEW p \in Ports, NEW seg \in PeerSegments(p), tcp_rx(seg)
    PROVE  StreamsOK'
  <1>1. TypeOK
    BY DEF TableInv
  <1>2. UNCHANGED peer
    BY <1>1, RxEffect
  <1>3. PICK i \in Sockets, s \in SocketT :
           /\ socks[i].used /\ socks[i].local_port = p
           /\ Change(i, s) /\ s.used /\ s.local_port = p
           /\ RxOutcome(socks[i], s, seg)
    BY <1>1, RxEffect
  <1> DEFINE r == socks[i]  q == peer[p]
  <1>4. r \in SocketT /\ Len(r.rxbuf) <= RxBufSize /\ q \in PeerT /\ r.local_port = p
    BY <1>1, <1>3 DEF TypeOK
  <1>5. seg.port = p /\ SegmentOK(seg, q)
    BY <1>1, Segments
  <1>6. StreamOK(r, q)
    BY <1>3 DEF StreamsOK
  <1>7. SameStream(r, s) => Text(s) = Text(r) /\ s.gap = r.gap
    BY DEF SameStream, Text
  <1> HIDE DEF r, q
  <1>8. StreamOK(s, q)
    <2>1. CASE s.state = "CLOSED" /\ SameStream(r, s)
      BY <1>3, <1>4, <1>6, <1>7, <2>1, StreamKept
    <2>2. CASE s.state \in {"TIME_WAIT", "FIN_WAIT2"} /\ SameStream(r, s)
      BY <1>3, <1>4, <1>6, <1>7, <2>2, StreamKept
    <2>3. CASE /\ "RST" \notin seg.flags /\ r.state \in {"ESTABLISHED", "CLOSE_WAIT"}
               /\ s = Receives(r, seg)
      BY <1>4, <1>5, <1>6, <2>3, ReceiveOK
    <2>4. CASE /\ "SYN" \in seg.flags /\ r.state = "SYN_SENT"
               /\ s.state = "ESTABLISHED" /\ s.ack = Mod(seg.seq + 1) /\ SameStream(r, s)
      <3>1. Len(Text(r)) = 0 /\ ~r.gap /\ InOrder(Text(r), r.local_port)
        BY <1>6, <2>4 DEF StreamOK
      <3>2. q.irs \in Int /\ q.total \in Nat
        BY <1>4, Constants DEF PeerT, Totals
      <3>3. seg.first = 0 /\ seg.seq = Mod(q.irs + seg.first)
        BY <1>5, <2>4 DEF SegmentOK
      <3>4. s.ack = Mod(q.irs + 1 + 0)
        <4> DEFINE irs == q.irs
        <4>1. irs + seg.first = irs /\ irs \in Int /\ irs + 1 + 0 = irs + 1 /\ irs + 1 \in Int
          BY <3>2, <3>3
        <4> HIDE DEF irs
        <4>2. Mod(Mod(irs) + 1) = Mod(irs + 1)
          BY <4>1, AddToMod
        <4> QED BY <2>4, <3>3, <4>1, <4>2 DEF irs
      <3>5. Position(s, q, 0)
        BY <1>7, <2>4, <3>1, <3>2, <3>4 DEF Position
      <3>6. 0 \in 0 .. q.total + 1
        BY <3>2
      <3> QED BY <1>3, <1>4, <1>7, <2>4, <3>1, <3>5, <3>6 DEF StreamOK
    <2>5. RxOutcome(r, s, seg)
      BY <1>3 DEF r
    <2> QED BY <2>1, <2>2, <2>3, <2>4, <2>5 DEF RxOutcome
  <1>9. StreamsSame
    BY <1>2 DEF StreamsSame
  <1>10. StreamOK(s, peer'[s.local_port])
    BY <1>2, <1>3, <1>8 DEF q
  <1> QED BY <1>3, <1>9, <1>10, OneStream

LEMMA StreamInit == Init => StreamsOK
  BY DEF Init, StreamsOK, Unused

LEMMA ConnectStreams ==
    ASSUME TableInv, StreamsOK, NEW isn \in Isns, NEW irs \in PeerIsns,
           NEW total \in PeerTotals, Connect(isn, irs, total)
    PROVE  StreamsOK'
  <1>1. TypeOK
    BY DEF TableInv
  <1>2. PICK i \in Sockets :
              /\ ~socks[i].used /\ Change(i, Connecting(isn))
              /\ next_ephemeral \in Ports
              /\ peer' = [peer EXCEPT ![next_ephemeral] =
                             [iss |-> isn, irs |-> irs, total |-> total, rcv |-> 0]]
    BY <1>1, ConnectEffect
  <1>3. isn \in Seqs /\ FreeSockets # {}
    BY <1>2, Constants DEF FreeSockets
  <1> DEFINE s == Connecting(isn)
  <1>4. /\ s.state = "SYN_SENT" /\ s.rxbuf = <<>> /\ s.got = <<>> /\ ~s.gap
    BY <1>1, <1>3, NewSockets
  <1> HIDE DEF s
  <1>5. Len(Text(s)) = 0
    BY <1>4 DEF Text
  <1>6. StreamOK(s, peer'[s.local_port])
    BY <1>4, <1>5 DEF StreamOK, InOrder
  <1>7. StreamsSame
    <2>1. ASSUME NEW p \in Ports, p < next_ephemeral PROVE peer'[p] = peer[p]
      <3>1. p # next_ephemeral
        BY <2>1, Constants DEF Ports
      <3> QED BY <1>1, <1>2, <3>1 DEF TypeOK
    <2> QED BY <2>1 DEF StreamsSame
  <1> QED BY <1>2, <1>6, <1>7, OneStream DEF s

(* A socket of which only the numbers of its own sending side change, or   *)
(* that is closed.                                                         *)
LEMMA CallStream ==
    ASSUME TableInv, StreamsOK, UNCHANGED peer, NEW i \in Sockets, socks[i].used,
           NEW s, Change(i, s), Text(s) = Text(socks[i]), s.gap = socks[i].gap,
           s.local_port = socks[i].local_port,
           \/ s.state = socks[i].state /\ s.ack = socks[i].ack
           \/ s.state = "FIN_WAIT1"
    PROVE  StreamsOK'
  <1>1. StreamOK(socks[i], peer[socks[i].local_port])
    BY DEF StreamsOK
  <1>2. StreamOK(s, peer[socks[i].local_port])
    BY <1>1, StreamKept
  <1>3. StreamsSame
    BY DEF StreamsSame
  <1> QED BY <1>2, <1>3, OneStream

LEMMA ReleaseStreams ==
    ASSUME TableInv, StreamsOK, UNCHANGED peer, NEW i \in Sockets, Release(i)
    PROVE  StreamsOK'
  <1>1. Change(i, Unused) /\ ~Unused.used
    BY ReleaseEffect DEF TableInv
  <1>2. StreamsSame
    BY DEF StreamsSame
  <1> QED BY <1>1, <1>2, OneStream

LEMMA SendStreams ==
    ASSUME TableInv, StreamsOK, NEW i \in held, NEW n \in Nat, SendChunk(i, n)
    PROVE  StreamsOK'
  <1>1. TypeOK /\ i \in Sockets /\ socks[i].used /\ socks[i] \in SocketT
    BY DEF TableInv, TableOK, TypeOK, SocketsAreHeld
  <1>2. PICK s \in SocketT, chunk \in Nat :
              /\ Change(i, s) /\ UNCHANGED peer
              /\ s = [socks[i] EXCEPT !.seq = Mod(socks[i].seq + chunk)]
    BY <1>1, ChunkEffect
  <1>3. /\ Text(s) = Text(socks[i]) /\ s.gap = socks[i].gap
        /\ s.local_port = socks[i].local_port
        /\ s.state = socks[i].state /\ s.ack = socks[i].ack
    BY <1>1, <1>2 DEF SocketT, Text
  <1> QED BY <1>1, <1>2, <1>3, CallStream

LEMMA StreamStep == TableInv /\ StreamsOK /\ [Next]_vars => StreamsOK'
  <1> SUFFICES ASSUME TableInv, StreamsOK, [Next]_vars PROVE StreamsOK'
    OBVIOUS
  <1>1. TypeOK /\ TableOK /\ SocketsAreHeld
    BY DEF TableInv, TableOK
  <1>2. call.sock \in Sockets /\ held \subseteq Sockets /\ call.n \in Nat /\ call.sent \in Nat
    BY <1>1 DEF TypeOK
  <1>3. ASSUME UNCHANGED <<socks, peer>> PROVE StreamsOK'
    BY <1>3, NoStream DEF StreamsSame
  <1>4. CASE \E isn \in Isns, irs \in PeerIsns, total \in PeerTotals : Connect(isn, irs, total)
    BY <1>4, ConnectStreams
  <1>5. CASE \E i \in Sockets, n \in SendSizes : SendBegin(i, n)
    <2>1. PICK i \in Sockets, n \in SendSizes : SendBegin(i, n)
      BY <1>5
    <2>2. i \in held /\ SendChunk(i, n) /\ n \in Nat
      BY <2>1, Constants DEF SendBegin
    <2> QED BY <2>2, SendStreams
  <1>6. CASE \E i \in Sockets, n \in RecvSizes : RecvBegin(i, n)
    BY <1>3, <1>6 DEF RecvBegin
  <1>7. CASE \E i \in Sockets : CloseBegin(i)
    <2>1. PICK i \in Sockets : CloseBegin(i)
      BY <1>7
    <2>0. i \in held /\ UNCHANGED peer
      BY <1>1, <2>1, CloseEffect, Zenon
    <2>2. socks[i].used /\ socks[i] \in SocketT /\ UNCHANGED peer
      BY <1>1, <2>0 DEF SocketsAreHeld, TypeOK
    <2>3. CASE Release(i)
      BY <2>2, <2>3, ReleaseStreams
    <2>4. ASSUME NEW s \in SocketT, Change(i, s),
                 s = [socks[i] EXCEPT !.seq = Mod(socks[i].seq + 1), !.state = "FIN_WAIT1"]
          PROVE  StreamsOK'
      <3>1. /\ Text(s) = Text(socks[i]) /\ s.gap = socks[i].gap
            /\ s.local_port = socks[i].local_port /\ s.state = "FIN_WAIT1"
        BY <2>2, <2>4 DEF SocketT, Text
      <3> QED BY <2>2, <2>4, <3>1, CallStream
    <2> QED BY <1>1, <2>1, <2>3, <2>4, CloseEffect, Zenon
  <1>8. CASE ConnectReturn
    BY <1>2, <1>3, <1>8, ReleaseStreams DEF ConnectReturn
  <1>16. ASSUME NEW k \in Nat, EndsSend(k) PROVE StreamsOK'
    <2> DEFINE i == call.sock  r == socks[i]  s == Returned(r, call.sent, k)
    <2>1. /\ r \in SocketT /\ Change(i, s) /\ SameStream(r, s) /\ s.local_port = r.local_port
          /\ s.state = r.state /\ s.ack = r.ack /\ call.name = "send" /\ UNCHANGED peer
      BY <1>1, <1>16, ReturnEffect DEF EndsSend
    <2>2. r.used
      BY <1>1, <1>2, <2>1 DEF TableOK, SocketsAreHeld
    <2> HIDE DEF s
    <2>3. Text(s) = Text(r) /\ s.gap = r.gap
      BY <2>1 DEF Text, SameStream
    <2> QED BY <1>2, <2>1, <2>2, <2>3, CallStream
  <1>9. CASE SendNext
    <2>1. call.name = "send" /\ call.sock \in held
      BY <1>1, <1>9 DEF SendNext, TableOK
    <2> QED BY <1>1, <1>2, <1>9, <1>16, <2>1, SendStreams, SendEnds
  <1>10. CASE RecvReturn
    <2> DEFINE i == call.sock  r == socks[i]
    <2>1. PICK n \in Nat : n <= Len(r.rxbuf) /\ Change(i, Reads(r, n))
      BY <1>1, <1>10, ReadEffect
    <2>2. call.name = "recv" /\ UNCHANGED peer
      BY <1>1, <1>10, ReadEffect
    <2>3. r \in SocketT /\ r.used
      BY <1>1, <1>2, <2>2 DEF TypeOK, TableOK, SocketsAreHeld
    <2> DEFINE s == Reads(r, n)
    <2>4. /\ Text(s) = Text(r) /\ s.local_port = r.local_port
          /\ s.state = r.state /\ s.ack = r.ack /\ s.gap = r.gap
      BY <2>1, <2>3, ReadsText
    <2> HIDE DEF s
    <2> QED BY <1>2, <2>1, <2>2, <2>3, <2>4, CallStream DEF s
  <1>11. CASE CloseReturn
    BY <1>2, <1>11, ReleaseStreams DEF CloseReturn
  <1>12. CASE Expire
    <2>1. UNCHANGED peer
      BY <1>12 DEF Expire
    <2> QED BY <1>1, <1>2, <1>3, <1>12, <1>16, <2>1, ReleaseStreams, SendEnds
  <1>13. CASE \E p \in Ports : \E seg \in PeerSegments(p) : tcp_rx(seg)
    BY <1>13, RxStreams
  <1>14. CASE \E seg \in out : PeerReceives(seg)
    <2>1. PICK seg \in out : PeerReceives(seg)
      BY <1>14
    <2>2. /\ peer' = [peer EXCEPT ![seg.port].rcv = @ + seg.len]
          /\ UNCHANGED socks
      BY <2>1 DEF PeerReceives
    <2>3. seg.len \in Nat /\ seg.port \in Ports
      <3>1. seg.len \in Nat /\ seg.port \in 1 .. next_ephemeral - 1
        BY <1>1 DEF TypeOK, SentT, TableOK
      <3>2. next_ephemeral \in 1 .. MaxPorts + 1
        BY <1>1 DEF TypeOK
      <3> QED BY <3>1, <3>2, Constants DEF Ports
    <2>4. StreamsSame
      BY <1>1, <2>2, <2>3, PeerEffect DEF StreamsSame
    <2> QED BY <2>2, <2>4, NoStream
  <1>15. CASE UNCHANGED vars
    BY <1>3, <1>15 DEF vars
  <1> QED BY <1>4, <1>5, <1>6, <1>7, <1>8, <1>9, <1>10, <1>11, <1>12, <1>13, <1>14, <1>15
          DEF Next, Returns

(* What a program reads is of its own connection and in the order in which *)
(* it was sent, none of it twice, over lost, repeated and reordered        *)
(* segments, wraps of the sequence numbers and reuse of the socket.        *)
THEOREM StreamsAreOrdered == Spec => []BytesInOrder
  <1>1. TableInv /\ StreamsOK => BytesInOrder
    <2> SUFFICES ASSUME TableInv, StreamsOK, NEW i \in Sockets, socks[i].used
                 PROVE  /\ Len(socks[i].rxbuf) <= RxBufSize
                        /\ \A k \in DOMAIN Stream(i) : Stream(i)[k].port = socks[i].local_port
                        /\ \A k, m \in DOMAIN Stream(i) :
                               k < m => Stream(i)[k].byte < Stream(i)[m].byte
      BY DEF BytesInOrder
    <2>1. Len(socks[i].rxbuf) <= RxBufSize /\ socks[i] \in SocketT
      BY DEF TableInv, TypeOK
    <2>2. Stream(i) = Text(socks[i])
      BY DEF Stream, Text
    <2>3. DOMAIN Stream(i) = 1 .. Len(Text(socks[i]))
      BY <2>1, <2>2, Texts
    <2>4. InOrder(Text(socks[i]), socks[i].local_port)
      BY DEF StreamsOK, StreamOK
    <2> QED BY <2>1, <2>2, <2>3, <2>4 DEF InOrder
  <1> QED BY <1>1, TableInit, TableStep, StreamInit, StreamStep, PTL DEF Spec

(* Without an overflow of the ring or a FIN that overtakes data, what is   *)
(* read is a prefix of what was sent, and all of it when the FIN is taken. *)
THEOREM StreamsHaveNoGaps == Spec => []GapsAreKnown
  <1>1. TableInv /\ StreamsOK => GapsAreKnown
    <2> SUFFICES ASSUME TableInv, StreamsOK, NEW i \in Sockets, socks[i].used, ~socks[i].gap
                 PROVE  /\ \A k \in DOMAIN Stream(i) : Stream(i)[k].byte = k
                        /\ socks[i].state = "CLOSE_WAIT" =>
                              Len(Stream(i)) = peer[socks[i].local_port].total
      BY DEF GapsAreKnown
    <2>1. socks[i] \in SocketT
      BY DEF TableInv, TypeOK
    <2>2. Stream(i) = Text(socks[i])
      BY DEF Stream, Text
    <2>3. DOMAIN Stream(i) = 1 .. Len(Text(socks[i]))
      BY <2>1, <2>2, Texts
    <2>4. StreamOK(socks[i], peer[socks[i].local_port])
      BY DEF StreamsOK
    <2> QED BY <2>2, <2>3, <2>4 DEF StreamOK, Position
  <1> QED BY <1>1, TableInit, TableStep, StreamInit, StreamStep, PTL DEF Spec

-----------------------------------------------------------------------------
(* Our side: c counts what was sent on the connection, with SYN and FIN,   *)
(* and u what the last acknowledgement covers.                             *)
NumbersOK(s, q, c, u) ==
    /\ s.seq = Mod(q.iss + c) /\ q.rcv <= c
    /\ s.snd_una = Mod(q.iss + u) /\ u <= q.rcv
    /\ s.state = "SYN_SENT" => c = 1

SegmentsOK(segs, port, q, c) ==
    \A seg \in segs : seg.port = port =>
       /\ \E k \in 0 .. c : seg.seq = Mod(q.iss + k) /\ k + seg.len <= c
       /\ seg.kind = "SYN" => seg.len = 1

(* No more is sent than MaxSend, but for the SYN and the FIN.              *)
SizeOK(i, s, c, h, cl) ==
    /\ i \in h => c <= MaxSend + 1 /\ s.state # "SYN_SENT"
    /\ cl.name = "connect" /\ cl.sock = i => c = 1
    /\ cl.name = "send" /\ cl.sock = i => c + cl.n <= MaxSend + 1

Counts == 1 .. MaxSend + 2
SenderOK(i, s, q, h, cl, segs) ==
    /\ q.iss \in Isns
    /\ \E c \in Counts, u \in 0 .. MaxSend + 2 :
          NumbersOK(s, q, c, u) /\ SegmentsOK(segs, s.local_port, q, c) /\ SizeOK(i, s, c, h, cl)

SendersOK == \A i \in Sockets : socks[i].used =>
                SenderOK(i, socks[i], peer[socks[i].local_port], held, call, out)

LEMMA SenderInit == Init => SendersOK
  BY DEF Init, SendersOK, Unused

LEMMA NumberIs ==
    ASSUME NEW iss \in Int, NEW k \in 0 .. MaxSend + 2, NEW c \in 0 .. MaxSend + 2,
           Mod(iss + k) = Mod(iss + c)
    PROVE  k = c
  <1>1. MaxSend \in Nat /\ MaxSend + 3 < SeqWidth /\ SeqWidth \in Nat \ {0}
    BY Constants, SeqNumbers
  <1> DEFINE y == iss + k  z == iss + c
  <1>2. y \in Int /\ z \in Int /\ y - z = k - c /\ z - y = c - k /\ (y = z => k = c)
    BY <1>1
  <1>3. k - c < SeqWidth /\ c - k < SeqWidth
    BY <1>1
  <1>4. Mod(y) = Mod(z)
    OBVIOUS
  <1> HIDE DEF y, z
  <1>5. y - z < SeqWidth /\ z - y < SeqWidth
    BY <1>2, <1>3
  <1>6. y = z
    BY <1>2, <1>4, <1>5, SeqNumbers, Zenon
  <1> QED BY <1>2, <1>6

LEMMA MoreSent ==
    ASSUME NEW s, NEW q \in PeerT, NEW c \in Nat, NEW n \in Nat, s.seq = Mod(q.iss + c)
    PROVE  Mod(s.seq + n) = Mod(q.iss + (c + n))
  <1> DEFINE iss == q.iss  z == iss + c
  <1>1. iss \in Int
    BY Constants DEF PeerT
  <1>2. z \in Int /\ iss + (c + n) = z + n /\ z + n \in Int
    BY <1>1
  <1>3. s.seq = Mod(z)
    OBVIOUS
  <1> HIDE DEF z
  <1>4. Mod(Mod(z) + n) = Mod(z + n)
    BY <1>2, AddToMod
  <1> QED BY <1>2, <1>3, <1>4

(* Of the segments sent, those of one port; one more of them.              *)
LEMMA SegmentAdded ==
    ASSUME NEW segs, NEW segs2, NEW port, NEW q, NEW c \in Nat, NEW n \in Nat,
           SegmentsOK(segs, port, q, c),
           \A seg \in segs2 : \/ seg \in segs
                              \/ seg.seq = Mod(q.iss + c) /\ seg.len = n /\ seg.kind # "SYN",
           \A seg \in segs : seg.len \in Nat
    PROVE  SegmentsOK(segs2, port, q, c + n)
  <1> SUFFICES ASSUME NEW seg \in segs2, seg.port = port
               PROVE  /\ \E k \in 0 .. c + n : seg.seq = Mod(q.iss + k) /\ k + seg.len <= c + n
                      /\ seg.kind = "SYN" => seg.len = 1
    BY DEF SegmentsOK
  <1>1. CASE seg \in segs
    <2>1. seg.kind = "SYN" => seg.len = 1
      BY <1>1 DEF SegmentsOK
    <2>2. PICK k \in 0 .. c : seg.seq = Mod(q.iss + k) /\ k + seg.len <= c
      BY <1>1 DEF SegmentsOK
    <2>3. k \in 0 .. c + n /\ k + seg.len <= c + n
      BY <1>1, <2>2
    <2> QED BY <2>1, <2>2, <2>3
  <1>2. CASE seg.seq = Mod(q.iss + c) /\ seg.len = n /\ seg.kind # "SYN"
    <2>1. c \in 0 .. c + n /\ c + seg.len <= c + n
      BY <1>2
    <2> QED BY <1>2, <2>1
  <1> QED BY <1>1, <1>2

LEMMA SegmentsSame ==
    ASSUME NEW segs, NEW segs2, NEW port, NEW q, NEW w, NEW c, SegmentsOK(segs, port, q, c),
           w.iss = q.iss, \A seg \in segs2 : seg \in segs \/ seg.port # port
    PROVE  SegmentsOK(segs2, port, w, c)
  BY DEF SegmentsOK

(* Steps that change at most one socket and send only for it.              *)
LEMMA OneSender ==
    ASSUME TableInv, SendersOK, NEW i \in Sockets, NEW s, Change(i, s),
           \A p \in Ports : p < next_ephemeral => peer'[p] = peer[p],
           held' \subseteq held \union {i},
           call' = call \/ call'.sock = i \/ call'.name \notin {"connect", "send"},
           \A seg \in out' : seg \in out \/ \A j \in Sockets \ {i} :
               socks[j].used => seg.port # socks[j].local_port,
           s.used => SenderOK(i, s, peer'[s.local_port], held', call', out')
    PROVE  SendersOK'
  <1>1. TypeOK
    BY DEF TableInv
  <1>2. socks'[i] = s /\ \A j \in Sockets \ {i} : socks'[j] = socks[j]
    BY <1>1, ChangeType
  <1>3. ASSUME NEW j \in Sockets, j # i, socks[j].used
        PROVE  SenderOK(j, socks[j], peer'[socks[j].local_port], held', call', out')
    <2> DEFINE r == socks[j]  q == peer[r.local_port]
    <2>1. peer'[r.local_port] = q
      BY <1>3, PortsOfSockets
    <2>2. SenderOK(j, r, q, held, call, out)
      BY <1>3 DEF SendersOK
    <2> HIDE DEF q
    <2>3. PICK c \in Counts, u \in 0 .. MaxSend + 2 :
             NumbersOK(r, q, c, u) /\ SegmentsOK(out, r.local_port, q, c)
                /\ SizeOK(j, r, c, held, call)
      BY <2>2 DEF SenderOK
    <2>4. \A seg \in out' : seg \in out \/ seg.port # r.local_port
      BY <1>3
    <2>5. SegmentsOK(out', r.local_port, q, c)
      BY <2>3, <2>4, SegmentsSame
    <2>6. SizeOK(j, r, c, held', call')
      BY <1>3, <2>3 DEF SizeOK
    <2>7. SenderOK(j, r, q, held', call', out')
      BY <2>2, <2>3, <2>5, <2>6 DEF SenderOK
    <2> QED BY <2>1, <2>7
  <1> QED BY <1>2, <1>3 DEF SendersOK

(* A socket of which the numbers stay, after a call on it has ended, or a  *)
(* recv or nothing has begun.                                              *)
LEMMA SenderKept ==
    ASSUME TableInv, NEW i \in Sockets, NEW r, NEW s, NEW q, NEW h, NEW cl,
           SenderOK(i, r, q, held, call, out),
           SameNumbers(r, s), s.local_port = r.local_port,
           s.state = r.state \/ s.state # "SYN_SENT",
           \/ h = held
           \/ h = held \union {i} /\ call.name = "connect" /\ call.sock = i /\ s.state # "SYN_SENT",
           cl = call \/ cl.name \notin {"connect", "send"}
    PROVE  SenderOK(i, s, q, h, cl, out)
  <1>1. PICK c \in Counts, u \in 0 .. MaxSend + 2 :
           NumbersOK(r, q, c, u) /\ SegmentsOK(out, r.local_port, q, c)
              /\ SizeOK(i, r, c, held, call)
    BY DEF SenderOK
  <1>2. NumbersOK(s, q, c, u)
    BY <1>1 DEF NumbersOK, SameNumbers
  <1>3. c = 1 => c <= MaxSend + 1
    BY Constants
  <1>4. SizeOK(i, s, c, h, cl)
    BY <1>1, <1>3 DEF SizeOK
  <1>5. q.iss \in Isns
    BY DEF SenderOK
  <1> QED BY <1>1, <1>2, <1>4, <1>5 DEF SenderOK
(* A segment that arrives: the SYN-ACK sets seq to what it is already, and *)
(* an acknowledgement covers no more than the other end has.               *)
LEMMA RxSender ==
    ASSUME TableInv, NEW i \in Sockets, NEW r \in SocketT, NEW s, NEW q \in PeerT, NEW seg,
           SegmentOK(seg, q), SenderOK(i, r, q, held, call, out), RxOutcome(r, s, seg),
           s.local_port = r.local_port
    PROVE  SenderOK(i, s, q, held, call, out)
  <1>1. CASE SameNumbers(r, s) /\ s.state # "SYN_SENT"
    BY <1>1, SenderKept, Zenon
  <1>2. PICK c \in Counts, u \in 0 .. MaxSend + 2 :
           NumbersOK(r, q, c, u) /\ SegmentsOK(out, r.local_port, q, c)
              /\ SizeOK(i, r, c, held, call)
    BY DEF SenderOK
  <1>3. q.iss \in Isns
    BY DEF SenderOK
  <1>4. c \in Nat /\ c <= MaxSend + 2 /\ MaxSend \in Nat /\ q.rcv \in Nat /\ q.rcv <= c
    BY <1>2, Constants DEF Counts, NumbersOK, PeerT
  <1>5. CASE /\ "SYN" \in seg.flags /\ r.state = "SYN_SENT" /\ s.state = "ESTABLISHED"
             /\ s.seq = seg.ack /\ s.snd_una = r.snd_una
    <2>1. seg.ack = Mod(q.iss + 1) /\ c = 1
      BY <1>2, <1>5 DEF SegmentOK, NumbersOK
    <2>2. NumbersOK(s, q, c, u)
      BY <1>2, <1>5, <2>1 DEF NumbersOK
    <2>3. SizeOK(i, s, c, held, call)
      BY <1>2, <1>5 DEF SizeOK
    <2> QED BY <1>2, <1>3, <2>2, <2>3 DEF SenderOK
  <1>6. CASE /\ "RST" \notin seg.flags /\ r.state \in {"ESTABLISHED", "CLOSE_WAIT"}
             /\ s = Receives(r, seg)
    <2>1. PICK x \in 1 .. q.rcv : seg.ack = Mod(q.iss + x)
      BY <1>6 DEF SegmentOK
    <2>2. x \in 0 .. MaxSend + 2 /\ x <= q.rcv
      BY <1>4, <2>1
    <2>3. s.seq = r.seq /\ s.snd_una = seg.ack /\ s.state # "SYN_SENT"
      BY <1>6 DEF Receives, SocketT
    <2>4. NumbersOK(s, q, c, x)
      BY <1>2, <2>1, <2>2, <2>3 DEF NumbersOK
    <2>5. SizeOK(i, s, c, held, call)
      BY <1>2, <2>3 DEF SizeOK
    <2> QED BY <1>2, <1>3, <2>2, <2>4, <2>5 DEF SenderOK
  <1> QED BY <1>1, <1>5, <1>6 DEF RxOutcome

LEMMA RxSenders ==
    ASSUME TableInv, SendersOK, NEW p \in Ports, NEW seg \in PeerSegments(p), tcp_rx(seg)
    PROVE  SendersOK'
  <1>1. TypeOK
    BY DEF TableInv
  <1>2. UNCHANGED <<next_ephemeral, call, held, out, peer>>
    BY <1>1, RxEffect
  <1>3. PICK i \in Sockets, s \in SocketT :
           /\ socks[i].used /\ socks[i].local_port = p
           /\ Change(i, s) /\ s.used /\ s.local_port = p
           /\ RxOutcome(socks[i], s, seg)
    BY <1>1, RxEffect
  <1>4. socks[i] \in SocketT /\ peer[p] \in PeerT
    BY <1>1 DEF TypeOK
  <1>5. SegmentOK(seg, peer[p])
    BY <1>1, Segments
  <1>6. SenderOK(i, socks[i], peer[p], held, call, out)
    BY <1>3 DEF SendersOK
  <1>7. SenderOK(i, s, peer[p], held, call, out)
    BY <1>3, <1>4, <1>5, <1>6, RxSender
  <1> QED BY <1>2, <1>3, <1>7, OneSender

(* The first segment of a connection.                                      *)
LEMMA ConnectSenders ==
    ASSUME TableInv, SendersOK,
           NEW isn \in Isns, NEW irs \in PeerIsns, NEW total \in PeerTotals,
           Connect(isn, irs, total)
    PROVE  SendersOK'
  <1>1. TypeOK /\ TableOK /\ SocketsAreHeld /\ peer \in [Ports -> PeerT]
    BY DEF TableInv, TableOK, TypeOK
  <1>2. PICK i \in Sockets :
              /\ call = NoCall /\ ~socks[i].used /\ Change(i, Connecting(isn))
              /\ Sent(NewSocket(isn), "SYN", 1) /\ UNCHANGED held
              /\ next_ephemeral \in Ports /\ next_ephemeral' = next_ephemeral + 1
              /\ call' = [name |-> "connect", sock |-> i, n |-> 0, sent |-> 0]
              /\ peer' = [peer EXCEPT ![next_ephemeral] =
                             [iss |-> isn, irs |-> irs, total |-> total, rcv |-> 0]]
    BY <1>1, ConnectEffect
  <1>3. isn \in Seqs /\ isn \in Int /\ FreeSockets # {}
    BY <1>2, Constants DEF FreeSockets
  <1> DEFINE s == Connecting(isn)  q == peer'[next_ephemeral]  port == next_ephemeral
  <1>4. /\ NewSocket(isn).seq = isn /\ NewSocket(isn).local_port = port
        /\ s.seq = Mod(isn + 1) /\ s.snd_una = isn /\ s.local_port = port
        /\ s.state = "SYN_SENT"
    <2>1. NewSocket(isn).seq = isn /\ NewSocket(isn).local_port = port
      BY <1>1, <1>3, NewSockets
    <2> QED BY <2>1 DEF Connecting, NewSocket, Unused
  <1>5. q.iss = isn /\ q.rcv = 0
    BY <1>1, <1>2
  <1>6. \A p \in Ports : p < port => peer'[p] = peer[p]
    BY <1>1, <1>2, Constants DEF Ports
  <1>7. \A seg \in out' : seg \in out \/
            seg = [port |-> port, kind |-> "SYN", seq |-> isn, len |-> 1]
    BY <1>2, <1>4 DEF Sent
  <1>8. \A j \in Sockets : socks[j].used => port # socks[j].local_port
    BY <1>2, Constants, PortsOfSockets DEF Ports
  <1> HIDE DEF s, q
  <1>9. MaxSend \in Nat
    BY Constants
  <1>10. Mod(isn + 0) = isn
    BY <1>3, SeqNumbers DEF Seqs
  <1>11. NumbersOK(s, q, 1, 0)
    BY <1>4, <1>5, <1>10 DEF NumbersOK
  <1>12. SegmentsOK(out', port, q, 1)
    <2> SUFFICES ASSUME NEW seg \in out', seg.port = port
                 PROVE  /\ \E k \in 0 .. 1 : seg.seq = Mod(q.iss + k) /\ k + seg.len <= 1
                        /\ seg.kind = "SYN" => seg.len = 1
      BY DEF SegmentsOK
    <2>1. seg \notin out
      BY <1>1, <1>2, Constants DEF TableOK, Ports
    <2>2. seg = [port |-> port, kind |-> "SYN", seq |-> isn, len |-> 1]
      BY <1>7, <2>1
    <2>3. 0 \in 0 .. 1 /\ seg.seq = Mod(q.iss + 0) /\ 0 + seg.len <= 1 /\ seg.len = 1
      BY <1>5, <1>10, <2>2
    <2> QED BY <2>3
  <1>13. i \notin held' /\ call'.name = "connect" /\ call'.sock = i
    BY <1>1, <1>2 DEF SocketsAreHeld
  <1>14. SizeOK(i, s, 1, held', call')
    BY <1>13 DEF SizeOK
  <1>15. SenderOK(i, s, q, held', call', out')
    BY <1>4, <1>5, <1>9, <1>11, <1>12, <1>14 DEF SenderOK, Counts
  <1>16. \A seg \in out' : seg \in out \/ \A j \in Sockets \ {i} :
            socks[j].used => seg.port # socks[j].local_port
    BY <1>7, <1>8
  <1> QED BY <1>2, <1>4, <1>6, <1>13, <1>15, <1>16, OneSender DEF s, q
(* A chunk, when there is room for it.                                     *)
LEMMA SendSenders ==
    ASSUME TableInv, SendersOK, NEW i \in held, NEW n \in Nat, SendChunk(i, n),
           NEW c \in Counts, NEW u \in 0 .. MaxSend + 2,
           NumbersOK(socks[i], peer[socks[i].local_port], c, u),
           SegmentsOK(out, socks[i].local_port, peer[socks[i].local_port], c),
           c + n <= MaxSend + 1, socks[i].state # "SYN_SENT"
    PROVE  SendersOK'
  <1> DEFINE r == socks[i]  port == r.local_port  q == peer[port]
  <1>1. TypeOK /\ TableOK /\ i \in Sockets /\ r.used /\ r \in SocketT
    BY DEF TableInv, TableOK, TypeOK, SocketsAreHeld
  <1>2. PICK s \in SocketT, chunk \in Nat :
              /\ chunk <= n /\ Change(i, s) /\ Sent(r, "DATA", chunk)
              /\ s = [r EXCEPT !.seq = Mod(r.seq + chunk)]
              /\ call' = [name |-> "send", sock |-> i, n |-> n - chunk, sent |-> call.sent + chunk]
              /\ UNCHANGED <<next_ephemeral, held, peer>>
    BY <1>1, ChunkEffect
  <1>3. /\ s.seq = Mod(r.seq + chunk) /\ s.snd_una = r.snd_una /\ s.state = r.state
        /\ s.local_port = port /\ r.seq = Mod(q.iss + c)
    BY <1>1, <1>2 DEF SocketT, NumbersOK
  <1>4. q \in PeerT /\ q.iss \in Isns /\ q.rcv \in Nat
    BY <1>1, PortsOfSockets DEF TypeOK, SendersOK, SenderOK, PeerT
  <1>5. \A seg \in out' : seg \in out \/
           seg = [port |-> port, kind |-> "DATA", seq |-> r.seq, len |-> chunk]
    BY <1>2 DEF Sent
  <1>6. \A seg \in out' : seg \in out \/ \A j \in Sockets \ {i} :
            socks[j].used => seg.port # socks[j].local_port
    BY <1>1, <1>5 DEF TableOK
  <1>7. \A seg \in out' : seg \in out \/
           (seg.seq = Mod(q.iss + c) /\ seg.len = chunk /\ seg.kind # "SYN")
    BY <1>3, <1>5
  <1>8. \A seg \in out : seg.len \in Nat
    BY <1>1 DEF TypeOK, SentT
  <1> HIDE DEF r, q, port
  <1>9. /\ c \in Nat /\ c + chunk \in Counts /\ q.rcv <= c /\ c <= c + chunk
        /\ c + chunk <= MaxSend + 1 /\ c + chunk + (n - chunk) <= MaxSend + 1
    BY <1>2, Constants DEF Counts, NumbersOK, r, q, port
  <1>10. Mod(s.seq) = Mod(s.seq) /\ s.seq = Mod(q.iss + (c + chunk))
    BY <1>3, <1>4, <1>9, MoreSent
  <1>11. SegmentsOK(out, port, q, c) /\ NumbersOK(r, q, c, u) /\ r.state # "SYN_SENT"
    BY DEF r, q, port
  <1>12. SegmentsOK(out', port, q, c + chunk)
    BY <1>7, <1>8, <1>9, <1>11, SegmentAdded
  <1>13. q.rcv <= c + chunk
    BY <1>4, <1>9
  <1>14. NumbersOK(s, q, c + chunk, u)
    BY <1>3, <1>10, <1>11, <1>13 DEF NumbersOK
  <1>15. SizeOK(i, s, c + chunk, held', call')
    BY <1>2, <1>3, <1>9, <1>11 DEF SizeOK
  <1>16. SenderOK(i, s, q, held', call', out')
    BY <1>3, <1>4, <1>9, <1>12, <1>14, <1>15 DEF SenderOK
  <1>17. SenderOK(i, s, peer'[s.local_port], held', call', out')
    BY <1>2, <1>3, <1>16 DEF q
  <1> QED BY <1>1, <1>2, <1>6, <1>17, OneSender

(* tcp_close: the FIN counts as well.                                      *)
LEMMA CloseSenders ==
    ASSUME TableInv, SendersOK, NEW i \in Sockets, CloseBegin(i)
    PROVE  SendersOK'
  <1> DEFINE r == socks[i]  port == r.local_port  q == peer[port]
  <1>0. TypeOK
    BY DEF TableInv
  <1>1. /\ call = NoCall /\ i \in held /\ held' = held \ {i}
        /\ UNCHANGED <<next_ephemeral, peer>>
    BY <1>0, CloseEffect, Zenon
  <1>2. TypeOK /\ TableOK /\ r.used /\ r \in SocketT
    BY <1>1 DEF TableInv, TableOK, TypeOK, SocketsAreHeld
  <1>3. NoCall.name = "none"
    BY DEF NoCall
  <1>4. ASSUME NEW kind, NEW n, Sent(r, kind, n)
        PROVE  \A seg \in out' : seg \in out \/ \A j \in Sockets \ {i} :
                  socks[j].used => seg.port # socks[j].local_port
    <2>1. \A seg \in out' : seg \in out \/ seg.port = port
      BY <1>4 DEF Sent
    <2> QED BY <1>2, <2>1 DEF TableOK
  <1>5. CASE Release(i) /\ call' = call /\ (Sent(r, "FIN", 1) \/ out' = out)
    <2>1. Change(i, Unused) /\ ~Unused.used
      BY <1>2, <1>5, ReleaseEffect
    <2>2. \A seg \in out' : seg \in out \/ \A j \in Sockets \ {i} :
              socks[j].used => seg.port # socks[j].local_port
      BY <1>4, <1>5
    <2> QED BY <1>1, <1>5, <2>1, <2>2, OneSender
  <1>6. ASSUME NEW s \in SocketT, Change(i, s), Sent(r, "FIN", 1),
               s = [r EXCEPT !.seq = Mod(r.seq + 1), !.state = "FIN_WAIT1"],
               call' = [name |-> "close", sock |-> i, n |-> 0, sent |-> 0]
        PROVE  SendersOK'
    <2>1. /\ s.seq = Mod(r.seq + 1) /\ s.snd_una = r.snd_una /\ s.state # "SYN_SENT"
          /\ s.local_port = port
      BY <1>2, <1>6 DEF SocketT
    <2>2. SenderOK(i, r, q, held, call, out)
      BY <1>2 DEF SendersOK
    <2>3. q \in PeerT /\ q.iss \in Isns /\ q.rcv \in Nat
      BY <1>2, <2>2, PortsOfSockets DEF TypeOK, SenderOK, PeerT
    <2>4. PICK c \in Counts, u \in 0 .. MaxSend + 2 :
             NumbersOK(r, q, c, u) /\ SegmentsOK(out, port, q, c) /\ SizeOK(i, r, c, held, call)
      BY <2>2 DEF SenderOK
    <2>5. r.seq = Mod(q.iss + c) /\ q.rcv <= c /\ c <= MaxSend + 1
      BY <1>1, <2>4 DEF NumbersOK, SizeOK
    <2>6. \A seg \in out' : seg \in out \/
             (seg.seq = Mod(q.iss + c) /\ seg.len = 1 /\ seg.kind # "SYN")
      BY <1>6, <2>5 DEF Sent
    <2>7. \A seg \in out : seg.len \in Nat
      BY <1>2 DEF TypeOK, SentT
    <2> HIDE DEF r, q, port
    <2>8. c \in Nat /\ c + 1 \in Counts /\ q.rcv <= c + 1
      BY <2>3, <2>5, Constants DEF Counts
    <2>9. s.seq = Mod(q.iss + (c + 1))
      BY <2>1, <2>3, <2>5, <2>8, MoreSent
    <2>10. SegmentsOK(out', port, q, c + 1)
      BY <2>4, <2>6, <2>7, <2>8, SegmentAdded
    <2>11. NumbersOK(s, q, c + 1, u)
      BY <2>1, <2>4, <2>8, <2>9 DEF NumbersOK
    <2>12. SizeOK(i, s, c + 1, held', call')
      BY <1>1, <1>6 DEF SizeOK
    <2>13. SenderOK(i, s, q, held', call', out')
      BY <2>1, <2>3, <2>8, <2>10, <2>11, <2>12 DEF SenderOK
    <2>14. SenderOK(i, s, peer'[s.local_port], held', call', out')
      BY <1>1, <2>1, <2>13 DEF q
    <2> QED BY <1>1, <1>4, <1>6, <2>14, OneSender
  <1>7. \/ /\ \E s \in SocketT :
                 /\ Change(i, s)
                 /\ s = [r EXCEPT !.seq = Mod(r.seq + 1), !.state = "FIN_WAIT1"]
           /\ Sent(r, "FIN", 1) /\ call' = [name |-> "close", sock |-> i, n |-> 0, sent |-> 0]
        \/ Release(i) /\ call' = call /\ (Sent(r, "FIN", 1) \/ out' = out)
    BY <1>0, CloseEffect, Zenon
  <1> HIDE DEF r, q, port
  <1> QED BY <1>5, <1>6, <1>7

(* What the other end takes is the next of ours: its sequence number comes *)
(* up once in what has been sent.                                          *)
LEMMA PeerSenders ==
    ASSUME TableInv, SendersOK, NEW seg \in out, PeerReceives(seg)
    PROVE  SendersOK'
  <1>1. TypeOK /\ TableOK
    BY DEF TableInv
  <1>2. /\ IF seg.kind = "SYN" THEN peer[seg.port].rcv = 0
           ELSE /\ peer[seg.port].rcv > 0
                /\ seg.seq = Mod(peer[seg.port].iss + peer[seg.port].rcv)
        /\ peer' = [peer EXCEPT ![seg.port].rcv = @ + seg.len]
        /\ UNCHANGED <<socks, next_ephemeral, call, held, out>>
    BY DEF PeerReceives
  <1>3. seg.len \in Nat /\ seg.port \in Ports
    <2>1. seg.len \in Nat /\ seg.port \in 1 .. next_ephemeral - 1
      BY <1>1 DEF TypeOK, SentT, TableOK
    <2>2. next_ephemeral \in 1 .. MaxPorts + 1
      BY <1>1 DEF TypeOK
    <2> QED BY <2>1, <2>2, Constants DEF Ports
  <1>4. /\ peer'[seg.port].rcv = peer[seg.port].rcv + seg.len
        /\ \A p \in Ports : /\ peer'[p].iss = peer[p].iss
                            /\ p # seg.port => peer'[p] = peer[p]
    BY <1>1, <1>2, <1>3, PeerEffect
  <1>5. SUFFICES ASSUME NEW i \in Sockets, socks[i].used
                 PROVE  SenderOK(i, socks[i], peer'[socks[i].local_port], held, call, out)
    BY <1>2 DEF SendersOK
  <1> DEFINE r == socks[i]  port == r.local_port  q == peer[port]  w == peer'[port]
  <1>6. SenderOK(i, r, q, held, call, out)
    BY <1>5 DEF SendersOK
  <1>7. port \in Ports /\ q \in PeerT
    BY <1>1, <1>5, PortsOfSockets DEF TypeOK
  <1>8. CASE seg.port # port
    BY <1>4, <1>6, <1>7, <1>8
  <1>9. CASE seg.port = port
    <2>1. PICK c \in Counts, u \in 0 .. MaxSend + 2 :
             NumbersOK(r, q, c, u) /\ SegmentsOK(out, port, q, c) /\ SizeOK(i, r, c, held, call)
      BY <1>6 DEF SenderOK
    <2>2. w.iss = q.iss /\ w.rcv = q.rcv + seg.len
      BY <1>4, <1>7, <1>9
    <2>3. q.rcv \in Nat /\ q.iss \in Int /\ q.rcv <= c /\ u <= q.rcv
          /\ MaxSend \in Nat /\ c <= MaxSend + 2 /\ c >= 1
      <3>1. q.rcv \in Nat /\ q.iss \in Int
        BY <1>7, Constants DEF PeerT
      <3>2. q.rcv <= c /\ u <= q.rcv
        BY <2>1 DEF NumbersOK
      <3>3. MaxSend \in Nat /\ c <= MaxSend + 2 /\ c >= 1
        BY Constants DEF Counts
      <3> QED BY <3>1, <3>2, <3>3
    <2>4. q.rcv + seg.len <= c
      <3>1. CASE seg.kind = "SYN"
        <4>1. seg.len = 1 /\ q.rcv = 0
          BY <1>2, <1>9, <2>1, <3>1 DEF SegmentsOK
        <4> QED BY <2>3, <4>1
      <3>2. CASE seg.kind # "SYN"
        <4>1. seg.seq = Mod(q.iss + q.rcv)
          BY <1>2, <1>9, <3>2
        <4>2. PICK k \in 0 .. c : seg.seq = Mod(q.iss + k) /\ k + seg.len <= c
          BY <1>9, <2>1 DEF SegmentsOK
        <4>3. k \in 0 .. MaxSend + 2 /\ q.rcv \in 0 .. MaxSend + 2
          BY <2>3, <4>2 DEF Counts
        <4> HIDE DEF q
        <4>4. k = q.rcv
          BY <2>3, <4>1, <4>2, <4>3, NumberIs
        <4> QED BY <4>2, <4>4
      <3> QED BY <3>1, <3>2
    <2> HIDE DEF r, q, w, port
    <2>5. NumbersOK(r, w, c, u)
      BY <1>3, <2>1, <2>2, <2>3, <2>4 DEF NumbersOK
    <2>6. SegmentsOK(out, port, w, c)
      BY <2>1, <2>2, SegmentsSame
    <2>7. w.iss \in Isns
      BY <1>6, <2>2 DEF SenderOK
    <2>8. SenderOK(i, r, w, held, call, out)
      BY <2>1, <2>5, <2>6, <2>7 DEF SenderOK, port
    <2> QED BY <2>8 DEF r, w, port
  <1> QED BY <1>8, <1>9
(* Steps that send nothing and leave every socket's numbers as they are,   *)
(* or give a socket back.                                                  *)
LEMMA SendersStay ==
    ASSUME TableInv, SendersOK, UNCHANGED <<peer, held, out>>,
           call' = call \/ call'.name \notin {"connect", "send"},
           \A j \in Sockets : socks'[j].used =>
              /\ socks[j].used /\ SameNumbers(socks[j], socks'[j])
              /\ socks'[j].local_port = socks[j].local_port
              /\ socks'[j].state = socks[j].state
    PROVE  SendersOK'
  <1> SUFFICES ASSUME NEW j \in Sockets, socks'[j].used
               PROVE  SenderOK(j, socks'[j], peer[socks[j].local_port], held, call', out)
    BY DEF SendersOK
  <1>1. SenderOK(j, socks[j], peer[socks[j].local_port], held, call, out)
    BY DEF SendersOK
  <1> QED BY <1>1, SenderKept

LEMMA ReleaseSenders ==
    ASSUME TableInv, SendersOK, NEW i \in Sockets, Release(i), call' = NoCall,
           UNCHANGED <<peer, held, out>>
    PROVE  SendersOK'
  <1>1. TypeOK /\ NoCall.name = "none"
    BY DEF TableInv, NoCall
  <1>2. Change(i, Unused) /\ ~Unused.used
    BY <1>1, ReleaseEffect
  <1>3. ~socks'[i].used /\ \A j \in Sockets \ {i} : socks'[j] = socks[j]
    BY <1>1, <1>2, ChangeType
  <1> QED BY <1>1, <1>3, SendersStay DEF SameNumbers

(* The process counts what it has sent as the socket does.                 *)
LEMMA SentSoFarIs ==
    ASSUME NEW seq, NEW iss \in Int, NEW c \in Counts, seq = Mod(iss + c)
    PROVE  Mod(seq - iss - 1) = c - 1
  <1> DEFINE a == iss + c  b == iss + 1
  <1>1. MaxSend \in Nat /\ MaxSend + 3 < SeqWidth /\ SeqWidth \in Nat \ {0}
    BY Constants, SeqNumbers
  <1>2. a \in Int /\ b \in Int /\ a - b = c - 1 /\ c - 1 \in 0 .. SeqWidth - 1
    BY <1>1 DEF Counts
  <1>3. Mod(a) \in Int
    BY <1>2, ModIsSeq
  <1>4. Mod(a) - iss - 1 = Mod(a) - b
    BY <1>3
  <1> HIDE DEF a, b
  <1>5. Mod(Mod(a) - b) = Mod(a - b)
    BY <1>2, SeqNumbers, Zenon
  <1>6. Mod(c - 1) = c - 1
    BY <1>2, SeqNumbers, Zenon
  <1> QED BY <1>2, <1>4, <1>5, <1>6 DEF a

LEMMA SenderStep == TableInv /\ SendersOK /\ [Next]_vars => SendersOK'
  <1> SUFFICES ASSUME TableInv, SendersOK, [Next]_vars PROVE SendersOK'
    OBVIOUS
  <1>1. TypeOK /\ TableOK /\ SocketsAreHeld
    BY DEF TableInv, TableOK
  <1>2. call.sock \in Sockets /\ held \subseteq Sockets /\ call.n \in Nat /\ call.sent \in Nat
    BY <1>1 DEF TypeOK
  <1>3. NoCall.name = "none"
    BY DEF NoCall
  <1>4. ASSUME UNCHANGED <<socks, peer, held, out>>,
               call' = call \/ call'.name \notin {"connect", "send"}
        PROVE  SendersOK'
    BY <1>4, SendersStay DEF SameNumbers
  <1>5. ASSUME NEW i \in held
        PROVE  /\ i \in Sockets /\ peer[socks[i].local_port].iss \in Int
               /\ \E c \in Counts, u \in 0 .. MaxSend + 2 :
                     /\ NumbersOK(socks[i], peer[socks[i].local_port], c, u)
                     /\ SegmentsOK(out, socks[i].local_port, peer[socks[i].local_port], c)
                     /\ SizeOK(i, socks[i], c, held, call)
    <2>1. SenderOK(i, socks[i], peer[socks[i].local_port], held, call, out)
      BY <1>1, <1>2 DEF SendersOK, SocketsAreHeld
    <2> QED BY <1>2, <2>1, Constants DEF SenderOK
  <1>18. ASSUME NEW k \in Nat, EndsSend(k) PROVE SendersOK'
    <2> DEFINE i == call.sock  r == socks[i]  s == Returned(r, call.sent, k)
    <2>1. /\ Change(i, s) /\ SameNumbers(r, s) /\ s.used = r.used
          /\ s.local_port = r.local_port /\ s.state = r.state
          /\ call' = NoCall /\ UNCHANGED <<held, out, peer>>
      BY <1>1, <1>18, ReturnEffect DEF EndsSend
    <2> HIDE DEF s
    <2>2. socks'[i] = s /\ \A j \in Sockets \ {i} : socks'[j] = socks[j]
      BY <1>1, <1>2, <2>1, ChangeType
    <2> QED BY <1>3, <2>1, <2>2, SendersStay DEF SameNumbers
  <1>6. CASE \E isn \in Isns, irs \in PeerIsns, total \in PeerTotals : Connect(isn, irs, total)
    BY <1>6, ConnectSenders
  <1>7. CASE \E i \in Sockets, n \in SendSizes : SendBegin(i, n)
    <2>1. PICK i \in Sockets, n \in SendSizes : SendBegin(i, n)
      BY <1>7
    <2>2. i \in held /\ SendChunk(i, n) /\ n \in Nat /\ SentSoFar(i) + n <= MaxSend
      BY <2>1, Constants DEF SendBegin
    <2>3. PICK c \in Counts, u \in 0 .. MaxSend + 2 :
             /\ NumbersOK(socks[i], peer[socks[i].local_port], c, u)
             /\ SegmentsOK(out, socks[i].local_port, peer[socks[i].local_port], c)
             /\ SizeOK(i, socks[i], c, held, call)
      BY <1>5, <2>2
    <2>4. SentSoFar(i) = c - 1
      BY <1>5, <2>2, <2>3, SentSoFarIs DEF SentSoFar, NumbersOK
    <2>5. c + n <= MaxSend + 1
      BY <2>2, <2>4, Constants DEF Counts
    <2>6. socks[i].state # "SYN_SENT"
      BY <2>2, <2>3 DEF SizeOK
    <2> QED BY <2>2, <2>3, <2>5, <2>6, SendSenders
  <1>8. CASE \E i \in Sockets, n \in RecvSizes : RecvBegin(i, n)
    BY <1>4, <1>8 DEF RecvBegin
  <1>9. CASE \E i \in Sockets : CloseBegin(i)
    BY <1>9, CloseSenders
  <1>10. CASE ConnectReturn
    <2> DEFINE i == call.sock
    <2>1. /\ call.name = "connect" /\ call' = NoCall /\ socks[i].state # "SYN_SENT"
          /\ UNCHANGED <<next_ephemeral, out, peer>>
          /\ \/ held' = held \union {i} /\ UNCHANGED socks
             \/ Release(i) /\ UNCHANGED held
      BY <1>10 DEF ConnectReturn
    <2>2. CASE held' = held \union {i} /\ UNCHANGED socks
      <3>1. socks[i].used
        BY <1>1, <1>2, <2>1 DEF SocketsAreHeld
      <3>2. Change(i, socks[i])
        BY <1>1, <1>2, <2>2 DEF Change, TypeOK
      <3>3. SenderOK(i, socks[i], peer[socks[i].local_port], held, call, out)
        BY <1>2, <3>1 DEF SendersOK
      <3>4. SenderOK(i, socks[i], peer[socks[i].local_port], held', call', out)
        BY <1>2, <1>3, <2>1, <2>2, <3>3, SenderKept DEF SameNumbers
      <3> QED BY <1>2, <1>3, <2>1, <2>2, <3>2, <3>4, OneSender
    <2>3. CASE Release(i) /\ UNCHANGED held
      BY <1>2, <2>1, <2>3, ReleaseSenders
    <2> QED BY <2>1, <2>2, <2>3
  <1>11. CASE SendNext
    <2> DEFINE i == call.sock
    <2>1. call.name = "send" /\ i \in held
      BY <1>1, <1>11 DEF SendNext, TableOK
    <2>2. CASE SendChunk(i, call.n)
      <3>1. PICK c \in Counts, u \in 0 .. MaxSend + 2 :
               /\ NumbersOK(socks[i], peer[socks[i].local_port], c, u)
               /\ SegmentsOK(out, socks[i].local_port, peer[socks[i].local_port], c)
               /\ SizeOK(i, socks[i], c, held, call)
        BY <1>5, <2>1
      <3>2. c + call.n <= MaxSend + 1 /\ socks[i].state # "SYN_SENT"
        BY <2>1, <3>1 DEF SizeOK
      <3> QED BY <1>2, <2>1, <2>2, <3>1, <3>2, SendSenders
    <2> QED BY <1>1, <1>11, <1>18, <2>2, SendEnds
  <1>12. CASE RecvReturn
    <2> DEFINE i == call.sock  r == socks[i]
    <2>1. PICK n \in Nat : n <= Len(r.rxbuf) /\ Change(i, Reads(r, n))
      BY <1>1, <1>12, ReadEffect
    <2>2. call.name = "recv" /\ call' = NoCall /\ UNCHANGED <<next_ephemeral, held, out, peer>>
      BY <1>1, <1>12, ReadEffect
    <2>3. r \in SocketT /\ r.used
      BY <1>1, <1>2, <2>2 DEF TypeOK, TableOK, SocketsAreHeld
    <2> DEFINE s == Reads(r, n)
    <2>4. SameNumbers(r, s) /\ s.local_port = r.local_port /\ s.state = r.state
      BY <2>3 DEF Reads, SocketT, SameNumbers
    <2> HIDE DEF s
    <2>5. socks'[i] = s /\ \A j \in Sockets \ {i} : socks'[j] = socks[j]
      BY <1>1, <1>2, <2>1, ChangeType DEF s
    <2> QED BY <1>3, <2>2, <2>3, <2>4, <2>5, SendersStay DEF SameNumbers
  <1>13. CASE CloseReturn
    BY <1>2, <1>13, ReleaseSenders DEF CloseReturn
  <1>14. CASE Expire
    <2>1. call' = NoCall /\ UNCHANGED <<held, out, peer>>
      BY <1>14 DEF Expire
    <2> QED BY <1>1, <1>2, <1>3, <1>4, <1>14, <1>18, <2>1, ReleaseSenders, SendEnds
  <1>15. CASE \E p \in Ports : \E seg \in PeerSegments(p) : tcp_rx(seg)
    BY <1>15, RxSenders
  <1>16. CASE \E seg \in out : PeerReceives(seg)
    BY <1>16, PeerSenders
  <1>17. CASE UNCHANGED vars
    BY <1>4, <1>17 DEF vars
  <1> QED BY <1>6, <1>7, <1>8, <1>9, <1>10, <1>11, <1>12, <1>13, <1>14, <1>15, <1>16, <1>17
          DEF Next, Returns

-----------------------------------------------------------------------------
(* What the callers were told.  A sequence number that has not wrapped     *)
(* shows how much was counted; what an acknowledgement of it all covers    *)
(* the other end has.                                                      *)
LEMMA Unwrapped ==
    ASSUME NEW iss \in Seqs, NEW c \in 0 .. SeqWidth - 1, Mod(iss + c) >= iss
    PROVE  Mod(iss + c) = iss + c
  <1>1. SeqWidth \in Nat \ {0} /\ iss \in 0 .. SeqWidth - 1
    BY SeqNumbers DEF Seqs
  <1>2. CASE iss + c < SeqWidth
    <2>1. iss + c \in 0 .. SeqWidth - 1
      BY <1>1, <1>2
    <2> QED BY <2>1, SeqNumbers
  <1>3. CASE iss + c >= SeqWidth
    <2> DEFINE a == iss + c  b == iss + c - SeqWidth
    <2>1. b \in 0 .. SeqWidth - 1 /\ b < iss /\ b \in Int /\ a \in Int /\ a - b = SeqWidth * 1
      BY <1>1, <1>3
    <2> DEFINE d == 1
    <2>4. d \in Int /\ a - b = SeqWidth * d
      BY <2>1
    <2> HIDE DEF a, b, d
    <2>2. a % SeqWidth = b % SeqWidth
      BY <1>1, <2>1, <2>4, SameRemainder
    <2>3. Mod(a) = Mod(b) /\ Mod(b) = b
      BY <2>1, <2>2, SeqNumbers DEF Mod
    <2> QED BY <1>1, <2>1, <2>3 DEF a
  <1> QED BY <1>1, <1>2, <1>3

LEMMA AllAcknowledged ==
    ASSUME NEW s, NEW q \in PeerT, NEW c \in Counts, NEW u \in 0 .. MaxSend + 2,
           NumbersOK(s, q, c, u), s.seq >= q.iss, ~AwaitsAck(s)
    PROVE  q.rcv = c /\ s.seq = q.iss + c
  <1> DEFINE iss == q.iss  seq == s.seq  una == s.snd_una  rcv == q.rcv
  <1>1. /\ SeqWidth \in Nat \ {0} /\ MaxSend \in Nat /\ MaxSend + 3 < SeqWidth
        /\ iss \in 0 .. SeqWidth - 1 /\ rcv \in Nat
    BY Constants, SeqNumbers DEF PeerT, Seqs
  <1>2. /\ seq = Mod(iss + c) /\ una = Mod(iss + u) /\ rcv <= c /\ u <= rcv /\ seq >= iss
        /\ ~(una < seq)
    BY DEF NumbersOK, AwaitsAck
  <1> HIDE DEF iss, seq, una, rcv
  <1>3. c \in 0 .. SeqWidth - 1 /\ c \in Nat /\ u \in Nat
    BY <1>1 DEF Counts
  <1>4. iss \in Seqs
    BY <1>1 DEF Seqs
  <1>5. seq = iss + c
    BY <1>2, <1>3, <1>4, Unwrapped
  <1>6. seq \in 0 .. SeqWidth - 1
    BY <1>1, <1>2, <1>3, SeqNumbers
  <1>7. iss + u \in 0 .. SeqWidth - 1
    BY <1>1, <1>2, <1>3, <1>5, <1>6
  <1>8. una = iss + u
    BY <1>2, <1>7, SeqNumbers
  <1>9. rcv = c
    BY <1>1, <1>2, <1>3, <1>5, <1>8
  <1> QED BY <1>5, <1>9 DEF iss, seq, rcv

(* What a send in progress has sent, and how many there are.               *)
InSend(i, cl) == cl.name = "send" /\ cl.sock = i
Pending(i, cl) == IF InSend(i, cl) THEN cl.sent ELSE 0
Sends(i, cl) == IF InSend(i, cl) THEN 1 ELSE 0
Owns(i, h, cl) == i \in h \/ (cl.name = "connect" /\ cl.sock = i)

OwedOK(i, s, q, cl) ==
    /\ s.state = "SYN_SENT" => s.told = 0 /\ s.late = 0
    /\ s.state # "SYN_SENT" =>
          /\ q.rcv >= 1
          /\ s.seq >= q.iss =>
                /\ s.told + Pending(i, cl) = s.seq - q.iss - 1
                /\ s.seq - q.iss - q.rcv <= MaxSegment * (s.late + Sends(i, cl))
                /\ s.seq - q.iss - q.rcv <= MaxSegment * s.late + Pending(i, cl)

OwedInv == \A i \in Sockets : Owns(i, held, call) =>
               OwedOK(i, socks[i], peer[socks[i].local_port], call)

LEMMA OwedInit == Init => OwedInv
  BY DEF Init, OwedInv, Owns, NoCall

LEMMA OwedTypes ==
    ASSUME NEW r \in SocketT, NEW q \in PeerT, NEW k \in Nat
    PROVE  /\ r.seq \in Int /\ r.told \in Nat /\ r.late \in Nat
           /\ q.iss \in 0 .. SeqWidth - 1 /\ q.iss \in Int /\ q.rcv \in Nat
           /\ MaxSegment * (r.late + k) \in Nat
           /\ MaxSegment * (r.late + k) = MaxSegment * r.late + MaxSegment * k
           /\ MaxSegment * r.late \in Nat
  <1> DEFINE l == r.late
  <1>1. /\ r.seq \in Int /\ r.told \in Nat /\ l \in Nat
        /\ q.iss \in 0 .. SeqWidth - 1 /\ q.rcv \in Nat /\ MaxSegment \in Nat
    BY Constants DEF SocketT, PeerT, Seqs
  <1>2. q.iss \in Int
    BY Constants DEF PeerT
  <1> HIDE DEF l
  <1>3. /\ MaxSegment * (l + k) = MaxSegment * l + MaxSegment * k
        /\ MaxSegment * l \in Nat /\ MaxSegment * k \in Nat
    BY <1>1
  <1> QED BY <1>1, <1>2, <1>3 DEF l

(* Steps that leave the numbers of a socket and what was told of it.       *)
LEMMA OwedKept ==
    ASSUME NEW i, NEW r \in SocketT, NEW s, NEW q \in PeerT, NEW w \in PeerT, NEW cl,
           OwedOK(i, r, q, call), call.sent \in Nat, SameDues(r, s), s.seq = r.seq,
           s.state = r.state \/ "SYN_SENT" \notin {r.state, s.state},
           w.iss = q.iss, w.rcv >= q.rcv,
           cl = call \/ (~InSend(i, call) /\ ~InSend(i, cl))
    PROVE  OwedOK(i, s, w, cl)
  <1>1. Pending(i, cl) = Pending(i, call) /\ Sends(i, cl) = Sends(i, call)
    BY DEF Pending, Sends
  <1> DEFINE seq == r.seq  iss == q.iss  rcv == q.rcv  rcv2 == w.rcv  late == r.late
             m == MaxSegment * (late + Sends(i, call))
             m2 == MaxSegment * late + Pending(i, call)
  <1>2. Sends(i, call) = 0 \/ Sends(i, call) = 1
    BY DEF Sends
  <1>3. MaxSegment * (late + 0) \in Nat /\ seq \in Int /\ iss \in Int /\ rcv \in Nat
    BY OwedTypes
  <1>4. MaxSegment * (late + 1) \in Nat /\ MaxSegment * late \in Nat
    BY OwedTypes
  <1>5. rcv2 \in Nat /\ Pending(i, call) \in Int
    BY OwedTypes DEF Pending
  <1>6. m \in Int /\ m2 \in Int
    BY <1>2, <1>3, <1>4, <1>5
  <1>7. rcv2 >= rcv
    OBVIOUS
  <1>8. OwedOK(i, r, q, call) => /\ r.state # "SYN_SENT" => rcv >= 1
                                 /\ r.state # "SYN_SENT" /\ seq >= iss =>
                                       seq - iss - rcv <= m /\ seq - iss - rcv <= m2
    BY DEF OwedOK
  <1> HIDE DEF seq, iss, rcv, rcv2, m, m2, late
  <1>9. seq - iss - rcv <= m => seq - iss - rcv2 <= m
    BY <1>3, <1>5, <1>6, <1>7
  <1>10. seq - iss - rcv <= m2 => seq - iss - rcv2 <= m2
    BY <1>3, <1>5, <1>6, <1>7
  <1>11. rcv >= 1 => rcv2 >= 1
    BY <1>3, <1>5, <1>7
  <1> QED BY <1>1, <1>8, <1>9, <1>10, <1>11
          DEF OwedOK, SameDues, seq, iss, rcv, rcv2, m, m2, late

LEMMA OwedQuiet ==
    ASSUME TableInv, OwedInv,
           \A j \in Sockets : Owns(j, held', call') =>
              /\ Owns(j, held, call) /\ SameDues(socks[j], socks'[j])
              /\ socks'[j].seq = socks[j].seq /\ socks'[j].state = socks[j].state
              /\ socks'[j].local_port = socks[j].local_port,
           call' = call \/ "send" \notin {call.name, call'.name},
           peer' \in [Ports -> PeerT],
           \A p \in Ports : peer'[p].iss = peer[p].iss /\ peer'[p].rcv >= peer[p].rcv
    PROVE  OwedInv'
  <1>1. TypeOK /\ SocketsAreHeld
    BY DEF TableInv, TableOK
  <1> SUFFICES ASSUME NEW j \in Sockets, Owns(j, held', call')
               PROVE  OwedOK(j, socks'[j], peer'[socks'[j].local_port], call')
    BY DEF OwedInv
  <1> DEFINE r == socks[j]  s == socks'[j]  port == r.local_port
  <1>2. Owns(j, held, call) /\ SameDues(r, s) /\ s.seq = r.seq /\ s.state = r.state
        /\ s.local_port = port
    OBVIOUS
  <1>3. r.used /\ r \in SocketT
    BY <1>1, <1>2 DEF Owns, SocketsAreHeld, TypeOK
  <1>4. port \in Ports
    BY <1>3, PortsOfSockets
  <1>5. OwedOK(j, r, peer[port], call)
    BY <1>2 DEF OwedInv
  <1>6. peer[port] \in PeerT /\ peer'[port] \in PeerT
    BY <1>1, <1>4 DEF TypeOK
  <1>7. peer'[port].iss = peer[port].iss /\ peer'[port].rcv >= peer[port].rcv
    BY <1>4
  <1>8. call' = call \/ (~InSend(j, call) /\ ~InSend(j, call'))
    BY DEF InSend
  <1> HIDE DEF r, s, port
  <1>9. call.sent \in Nat
    BY <1>1 DEF TypeOK
  <1>10. OwedOK(j, s, peer'[port], call')
    BY <1>9, <1>2, <1>3, <1>5, <1>6, <1>7, <1>8, OwedKept
  <1> QED BY <1>2, <1>10 DEF s

(* Steps about one socket.                                                 *)
LEMMA OneOwed ==
    ASSUME TableInv, OwedInv, NEW i \in Sockets, NEW s, Change(i, s),
           \A p \in Ports : p < next_ephemeral => peer'[p] = peer[p],
           \A j \in Sockets \ {i} : Owns(j, held', call') =>
              /\ Owns(j, held, call)
              /\ call' = call \/ (~InSend(j, call) /\ ~InSend(j, call')),
           Owns(i, held', call') => OwedOK(i, s, peer'[s.local_port], call')
    PROVE  OwedInv'
  <1>1. TypeOK /\ SocketsAreHeld
    BY DEF TableInv, TableOK
  <1>2. socks'[i] = s /\ \A j \in Sockets \ {i} : socks'[j] = socks[j]
    BY <1>1, ChangeType
  <1>3. ASSUME NEW j \in Sockets \ {i}, Owns(j, held', call')
        PROVE  OwedOK(j, socks[j], peer'[socks[j].local_port], call')
    <2> DEFINE r == socks[j]  port == r.local_port
    <2>1. Owns(j, held, call) /\ (call' = call \/ (~InSend(j, call) /\ ~InSend(j, call')))
      BY <1>3
    <2>2. r.used /\ r \in SocketT
      BY <1>1, <2>1 DEF Owns, SocketsAreHeld, TypeOK
    <2>3. port \in Ports /\ port < next_ephemeral
      BY <2>2, PortsOfSockets
    <2>4. OwedOK(j, r, peer[port], call) /\ peer[port] \in PeerT /\ peer'[port] = peer[port]
      BY <1>1, <2>1, <2>3 DEF OwedInv, TypeOK
    <2>5. peer[port].rcv >= peer[port].rcv /\ call.sent \in Nat
      BY <1>1, <2>4 DEF PeerT, TypeOK
    <2> HIDE DEF r, port
    <2>6. OwedOK(j, r, peer[port], call')
      BY <2>1, <2>2, <2>4, <2>5, OwedKept DEF SameDues
    <2> QED BY <2>4, <2>6 DEF r, port
  <1> QED BY <1>2, <1>3 DEF OwedInv

(* One chunk more: nothing was left unreceived, or the call begins.        *)
LEMMA OwedChunk ==
    ASSUME TableInv, SendersOK, OwedInv, NEW i \in held, NEW n \in Nat, SendChunk(i, n),
           call = NoCall \/ (InSend(i, call) /\ ~AwaitsAck(socks[i])),
           NEW c \in Counts, NEW u \in 0 .. MaxSend + 2,
           NumbersOK(socks[i], peer[socks[i].local_port], c, u),
           c + n <= MaxSend + 1, socks[i].state # "SYN_SENT"
    PROVE  OwedInv'
  <1> DEFINE r == socks[i]  port == r.local_port  q == peer[port]
  <1>1. TypeOK /\ TableOK /\ i \in Sockets /\ r.used /\ r \in SocketT
    BY DEF TableInv, TableOK, TypeOK, SocketsAreHeld
  <1>2. PICK s \in SocketT, chunk \in Nat :
              /\ chunk <= n /\ Change(i, s) /\ chunk <= MaxSegment
              /\ s = [r EXCEPT !.seq = Mod(r.seq + chunk)]
              /\ call' = [name |-> "send", sock |-> i, n |-> n - chunk, sent |-> call.sent + chunk]
              /\ UNCHANGED <<next_ephemeral, held, peer>>
    BY <1>1, ChunkEffect
  <1>3. /\ s.seq = Mod(r.seq + chunk) /\ s.state = r.state /\ s.local_port = port
        /\ SameDues(r, s) /\ r.seq = Mod(q.iss + c)
    BY <1>1, <1>2 DEF SocketT, NumbersOK, SameDues
  <1>4. q \in PeerT
    BY <1>1, PortsOfSockets DEF TypeOK
  <1>5. OwedOK(i, r, q, call) /\ NumbersOK(r, q, c, u) /\ r.state # "SYN_SENT"
    BY <1>1 DEF OwedInv, Owns
  <1>6. /\ call'.sent = call.sent + chunk /\ InSend(i, call')
        /\ call.sent \in Nat /\ call.sent = Pending(i, call)
        /\ \A j \in Sockets \ {i} : ~InSend(j, call) /\ ~InSend(j, call')
                                      /\ call'.name # "connect"
    BY <1>1, <1>2 DEF InSend, Pending, NoCall, TypeOK
  <1>7. call = NoCall => Sends(i, call) = 0
    BY DEF Sends, InSend, NoCall
  <1> DEFINE iss == q.iss  rcv == q.rcv  told == r.told  late == r.late  m == MaxSegment * late
             sent == call.sent  M == MaxSegment * (late + 1)
  <1>8. /\ iss \in 0 .. SeqWidth - 1 /\ iss \in Seqs /\ iss \in Int /\ rcv \in Nat
        /\ told \in Nat /\ late \in Nat /\ m \in Nat /\ M = m + MaxSegment /\ sent \in Nat
        /\ MaxSegment * (late + 0) = m /\ MaxSegment \in Nat
    <2>1. MaxSegment \in Nat /\ sent \in Nat
      BY <1>6, Constants
    <2>2. /\ iss \in 0 .. SeqWidth - 1 /\ iss \in Int /\ rcv \in Nat
          /\ told \in Nat /\ late \in Nat /\ m \in Nat
      BY <1>1, <1>4, OwedTypes
    <2>3. M = m + MaxSegment * 1
      BY <1>1, <1>4, OwedTypes
    <2> HIDE DEF m, M, iss, rcv, told, sent, r, q
    <2>4. late + 0 = late
      BY <2>2
    <2> QED BY <2>1, <2>2, <2>3, <2>4 DEF Seqs, m
  <1>9. /\ c \in Nat /\ MaxSend \in Nat /\ MaxSend + 3 < SeqWidth
        /\ c \in 0 .. SeqWidth - 1 /\ c + chunk \in 0 .. SeqWidth - 1
    <2>1. MaxSend \in Nat /\ MaxSend + 3 < SeqWidth /\ SeqWidth \in Nat
      BY Constants, SeqNumbers
    <2>2. c \in Nat
      BY <2>1 DEF Counts
    <2>3. c + chunk <= MaxSend + 1
      BY <1>2, <2>1, <2>2
    <2> QED BY <2>1, <2>2, <2>3
  <1>10. s.seq = Mod(iss + (c + chunk))
    BY <1>3, <1>4, <1>9, MoreSent
  <1>11. (InSend(i, call) /\ ~AwaitsAck(r)) /\ r.seq >= iss => rcv = c
    BY <1>4, <1>5, AllAcknowledged
  <1>12. /\ rcv >= 1
         /\ r.seq >= iss => /\ told + sent = r.seq - iss - 1
                            /\ r.seq - iss - rcv <= MaxSegment * (late + Sends(i, call))
                            /\ r.seq - iss - rcv <= m + sent
    BY <1>5, <1>6 DEF OwedOK
  <1> HIDE DEF r, q, iss, rcv, told, late, m, M, sent
  <1>13. ASSUME s.seq >= iss
         PROVE  /\ told + (sent + chunk) = s.seq - iss - 1
                /\ s.seq - iss - rcv <= M
                /\ s.seq - iss - rcv <= m + (sent + chunk)
    <2>1. s.seq = iss + (c + chunk)
      BY <1>8, <1>9, <1>10, <1>13, Unwrapped
    <2>2. s.seq \in 0 .. SeqWidth - 1
      BY <1>8, <1>9, <1>10, SeqNumbers
    <2>3. iss + c \in 0 .. SeqWidth - 1
      <3>1. chunk \in Nat /\ c \in Nat /\ iss \in Nat /\ SeqWidth \in Nat
        BY <1>8, <1>9, SeqNumbers
      <3> QED BY <2>1, <2>2, <3>1
    <2>4. r.seq = iss + c
      BY <1>3, <2>3, SeqNumbers DEF iss
    <2>5. told + sent = c - 1
      BY <1>8, <1>9, <1>12, <2>4
    <2>6. CASE call = NoCall
      <3>1. c - rcv <= m
        BY <1>7, <1>8, <1>9, <1>12, <2>4, <2>6
      <3> QED BY <1>2, <1>8, <1>9, <2>1, <2>5, <3>1
    <2>7. CASE InSend(i, call) /\ ~AwaitsAck(r)
      <3>1. rcv = c
        BY <1>8, <1>9, <1>11, <2>4, <2>7
      <3> QED BY <1>2, <1>8, <1>9, <2>1, <2>5, <3>1
    <2> QED BY <2>6, <2>7 DEF r
  <1>14. OwedOK(i, s, q, call')
    <2>1. Pending(i, call') = sent + chunk /\ Sends(i, call') = 1
      BY <1>6 DEF Pending, Sends, sent
    <2>2. s.state # "SYN_SENT" /\ s.told = told /\ s.late = late
      BY <1>3, <1>5 DEF SameDues, told, late
    <2> QED BY <1>12, <1>13, <2>1, <2>2 DEF OwedOK, iss, rcv, m, M
  <1>15. OwedOK(i, s, peer'[s.local_port], call')
    BY <1>2, <1>3, <1>14 DEF q
  <1>16. \A j \in Sockets \ {i} : Owns(j, held', call') =>
              /\ Owns(j, held, call)
              /\ call' = call \/ (~InSend(j, call) /\ ~InSend(j, call'))
    BY <1>2, <1>6 DEF Owns
  <1> QED BY <1>1, <1>2, <1>15, <1>16, OneOwed

(* The end of a send.                                                      *)
LEMMA OwedEnds ==
    ASSUME TableInv, SendersOK, OwedInv, NEW k \in {0, 1}, EndsSend(k),
           k = 0 => ~AwaitsAck(socks[call.sock])
    PROVE  OwedInv'
  <1> DEFINE i == call.sock  r == socks[i]  port == r.local_port  q == peer[port]
             n == call.sent  s == Returned(r, n, k)
  <1>1. TypeOK /\ TableOK /\ call.name = "send" /\ call' = NoCall
        /\ UNCHANGED <<next_ephemeral, held, out, peer>>
    BY DEF TableInv, EndsSend
  <1>2. i \in Sockets /\ i \in held /\ r.used /\ r \in SocketT /\ n \in Nat /\ k \in Nat
    BY <1>1 DEF TypeOK, TableOK, SocketsAreHeld
  <1>3. /\ Change(i, s) /\ s.seq = r.seq /\ s.local_port = port /\ s.state = r.state
        /\ s.told = r.told + n /\ s.late = r.late + k
    BY <1>1, <1>2, ReturnEffect DEF SameNumbers
  <1>4. q \in PeerT
    BY <1>1, <1>2, PortsOfSockets DEF TypeOK
  <1>5. PICK c \in Counts, u \in 0 .. MaxSend + 2 :
           NumbersOK(r, q, c, u) /\ SizeOK(i, r, c, held, call)
    BY <1>2 DEF SendersOK, SenderOK
  <1>6. r.state # "SYN_SENT"
    BY <1>2, <1>5 DEF SizeOK
  <1>7. OwedOK(i, r, q, call)
    BY <1>2 DEF OwedInv, Owns
  <1>8. Pending(i, call) = n /\ Sends(i, call) = 1 /\ Pending(i, call') = 0 /\ Sends(i, call') = 0
    BY <1>1 DEF Pending, Sends, InSend, NoCall
  <1> DEFINE seq == r.seq  iss == q.iss  rcv == q.rcv  told == r.told  late == r.late
             m == MaxSegment * late  M == MaxSegment * (late + 1)  late2 == late + k
             m2 == MaxSegment * late2
  <1>9. /\ seq \in Int /\ iss \in Int /\ rcv \in Nat /\ told \in Nat /\ late \in Nat /\ m \in Nat
    BY <1>2, <1>4, OwedTypes
  <1>10. M \in Nat
    BY <1>2, <1>4, OwedTypes
  <1>11. k = 0 /\ seq >= iss => rcv = c /\ seq = iss + c
    BY <1>4, <1>5, AllAcknowledged
  <1>12. /\ rcv >= 1
         /\ seq >= iss => told + n = seq - iss - 1 /\ seq - iss - rcv <= M
    BY <1>6, <1>7, <1>8 DEF OwedOK
  <1>13. c \in Nat
    BY <1>5, Constants DEF Counts
  <1> HIDE DEF r, q, s, n
  <1>14. k = 1 => m2 = M
    OBVIOUS
  <1>15. k = 0 => m2 = m
    BY <1>9
  <1>16. MaxSegment * (late2 + 0) = m2
    BY <1>2, <1>9
  <1> HIDE DEF seq, iss, rcv, told, late, m, M, m2, late2
  <1>17. ASSUME seq >= iss
         PROVE  (told + n) + 0 = seq - iss - 1 /\ seq - iss - rcv <= m2 /\ seq - iss - rcv <= m2 + 0
    <2>1. told + n = seq - iss - 1 /\ seq - iss - rcv <= M
      BY <1>12, <1>17
    <2>2. CASE k = 1
      BY <1>2, <1>9, <1>10, <1>14, <2>1, <2>2
    <2>3. CASE k = 0
      <3>1. rcv = c /\ seq = iss + c
        BY <1>11, <1>17, <2>3
      <3> QED BY <1>2, <1>9, <1>13, <1>15, <2>1, <2>3, <3>1
    <2> QED BY <2>2, <2>3
  <1>18. OwedOK(i, s, q, call')
    BY <1>3, <1>6, <1>8, <1>12, <1>16, <1>17
       DEF OwedOK, r, q, seq, iss, rcv, told, late, m2, late2
  <1>19. OwedOK(i, s, peer'[s.local_port], call')
    BY <1>1, <1>3, <1>18 DEF q
  <1>20. \A j \in Sockets \ {i} : Owns(j, held', call') =>
              /\ Owns(j, held, call)
              /\ call' = call \/ (~InSend(j, call) /\ ~InSend(j, call'))
    BY <1>1 DEF Owns, InSend, NoCall
  <1> QED BY <1>1, <1>2, <1>3, <1>19, <1>20, OneOwed

(* The answer to the SYN, be it a SYN-ACK or a RST.                        *)
LEMMA OwedStart ==
    ASSUME TableInv, NEW i \in Sockets, NEW r \in SocketT, NEW s, NEW q \in PeerT,
           SenderOK(i, r, q, held, call, out), OwedOK(i, r, q, call),
           r.state = "SYN_SENT", s.state # "SYN_SENT", s.seq = Mod(q.iss + 1),
           SameDues(r, s), q.rcv > 0
    PROVE  OwedOK(i, s, q, call)
  <1>1. PICK c \in Counts, u \in 0 .. MaxSend + 2 :
           NumbersOK(r, q, c, u) /\ SizeOK(i, r, c, held, call)
    BY DEF SenderOK
  <1>2. c = 1 /\ q.rcv <= 1 /\ i \notin held
    BY <1>1 DEF NumbersOK, SizeOK
  <1>3. Pending(i, call) = 0 /\ Sends(i, call) = 0
    BY <1>2 DEF Pending, Sends, InSend, TableInv, TableOK
  <1>4. s.told = 0 /\ s.late = 0
    BY DEF OwedOK, SameDues
  <1> DEFINE iss == q.iss  rcv == q.rcv  seq == s.seq
  <1>5. iss \in Seqs /\ iss \in Int /\ rcv \in Nat /\ rcv <= 1 /\ rcv > 0
    BY <1>2, Constants DEF PeerT
  <1>6. seq = Mod(iss + 1) /\ 1 \in 0 .. SeqWidth - 1
    <2>1. SeqWidth \in Nat /\ MaxSend \in Nat /\ MaxSend + 3 < SeqWidth
      BY Constants, SeqNumbers
    <2> QED BY <2>1
  <1> HIDE DEF iss, rcv, seq
  <1>7. seq >= iss => seq = iss + 1
    BY <1>5, <1>6, Unwrapped
  <1>8. MaxSegment * (0 + 0) = 0 /\ MaxSegment * 0 = 0
    BY Constants
  <1>9. /\ rcv >= 1
        /\ seq >= iss => 0 + 0 = seq - iss - 1 /\ seq - iss - rcv <= 0 /\ seq - iss - rcv <= 0 + 0
    BY <1>5, <1>7
  <1> QED BY <1>3, <1>4, <1>8, <1>9 DEF OwedOK, iss, rcv, seq

LEMMA OwedRx ==
    ASSUME TableInv, SendersOK, OwedInv, NEW p \in Ports, NEW seg \in PeerSegments(p), tcp_rx(seg)
    PROVE  OwedInv'
  <1>1. TypeOK
    BY DEF TableInv
  <1>2. UNCHANGED <<next_ephemeral, call, held, out, peer>>
    BY <1>1, RxEffect
  <1>3. PICK i \in Sockets, s \in SocketT :
           /\ socks[i].used /\ socks[i].local_port = p
           /\ Change(i, s) /\ s.used /\ s.local_port = p
           /\ RxOutcome(socks[i], s, seg) /\ SameDues(socks[i], s)
    BY <1>1, RxEffect
  <1> DEFINE r == socks[i]  q == peer[p]
  <1>4. r \in SocketT /\ q \in PeerT
    BY <1>1 DEF TypeOK
  <1>5. SegmentOK(seg, q) /\ q.rcv > 0
    BY <1>1, Segments
  <1>6. SenderOK(i, r, q, held, call, out)
    BY <1>3 DEF SendersOK
  <1>7. q.rcv >= q.rcv /\ call.sent \in Nat
    BY <1>1, <1>4 DEF PeerT, TypeOK
  <1> HIDE DEF r, q
  <1>8. ASSUME OwedOK(i, r, q, call) PROVE OwedOK(i, s, q, call)
    <2>1. SameDues(r, s) /\ RxOutcome(r, s, seg)
      BY <1>3 DEF r
    <2>2. CASE r.state # "SYN_SENT"
      <3>1. s.seq = r.seq /\ s.state # "SYN_SENT"
        BY <1>4, <2>1, <2>2 DEF RxOutcome, SameNumbers, Receives, SocketT
      <3> QED BY <1>4, <1>7, <1>8, <2>1, <2>2, <3>1, OwedKept
    <2>3. CASE r.state = "SYN_SENT"
      <3>1. r.seq = Mod(q.iss + 1)
        BY <1>6, <2>3 DEF SenderOK, NumbersOK
      <3>2. s.state # "SYN_SENT" /\ s.seq = Mod(q.iss + 1)
        BY <1>5, <2>1, <2>3, <3>1 DEF RxOutcome, SameNumbers, SegmentOK
      <3> QED BY <1>4, <1>5, <1>6, <1>8, <2>1, <2>3, <3>2, OwedStart
    <2> QED BY <2>2, <2>3
  <1>9. Owns(i, held', call') => OwedOK(i, s, peer'[s.local_port], call')
    BY <1>2, <1>3, <1>8 DEF OwedInv, r, q
  <1> QED BY <1>2, <1>3, <1>9, OneOwed

LEMMA OwedConnect ==
    ASSUME TableInv, OwedInv, NEW isn \in Isns, NEW irs \in PeerIsns, NEW total \in PeerTotals,
           Connect(isn, irs, total)
    PROVE  OwedInv'
  <1>1. TypeOK /\ peer \in [Ports -> PeerT]
    BY DEF TableInv, TypeOK
  <1>2. PICK i \in Sockets :
              /\ call = NoCall /\ ~socks[i].used /\ Change(i, Connecting(isn)) /\ UNCHANGED held
              /\ next_ephemeral \in Ports
              /\ call' = [name |-> "connect", sock |-> i, n |-> 0, sent |-> 0]
              /\ peer' = [peer EXCEPT ![next_ephemeral] =
                             [iss |-> isn, irs |-> irs, total |-> total, rcv |-> 0]]
    BY <1>1, ConnectEffect
  <1> DEFINE s == Connecting(isn)
  <1>3. s.state = "SYN_SENT" /\ s.told = 0 /\ s.late = 0
    BY DEF Connecting, NewSocket, Unused
  <1>4. \A p \in Ports : p < next_ephemeral => peer'[p] = peer[p]
    BY <1>1, <1>2, Constants DEF Ports
  <1> HIDE DEF s
  <1>5. OwedOK(i, s, peer'[s.local_port], call')
    BY <1>3 DEF OwedOK
  <1>6. \A j \in Sockets \ {i} : Owns(j, held', call') =>
              /\ Owns(j, held, call)
              /\ call' = call \/ (~InSend(j, call) /\ ~InSend(j, call'))
    BY <1>2 DEF Owns, InSend, NoCall
  <1> QED BY <1>2, <1>4, <1>5, <1>6, OneOwed DEF s

LEMMA OwedStep == TableInv /\ SendersOK /\ OwedInv /\ [Next]_vars => OwedInv'
  <1> SUFFICES ASSUME TableInv, SendersOK, OwedInv, [Next]_vars PROVE OwedInv'
    OBVIOUS
  <1>1. TypeOK /\ TableOK /\ SocketsAreHeld /\ peer \in [Ports -> PeerT]
    BY DEF TableInv, TableOK, TypeOK
  <1>2. call.sock \in Sockets /\ held \subseteq Sockets /\ call.n \in Nat /\ call.sent \in Nat
    BY <1>1 DEF TypeOK
  <1>3. \A p \in Ports : peer[p].iss = peer[p].iss /\ peer[p].rcv >= peer[p].rcv
    BY <1>1 DEF PeerT
  <1>4. ASSUME UNCHANGED peer, call' = call \/ "send" \notin {call.name, call'.name},
               \A j \in Sockets : Owns(j, held', call') =>
                  /\ Owns(j, held, call) /\ SameDues(socks[j], socks'[j])
                  /\ socks'[j].seq = socks[j].seq /\ socks'[j].state = socks[j].state
                  /\ socks'[j].local_port = socks[j].local_port
        PROVE  OwedInv'
    BY <1>1, <1>3, <1>4, OwedQuiet
  <1>5. ASSUME NEW i \in Sockets, Release(i), UNCHANGED peer, call.name # "send",
               call' = NoCall, held' \subseteq held, i \notin held'
        PROVE  OwedInv'
    <2>1. \A j \in Sockets \ {i} : socks'[j] = socks[j]
      BY <1>1, <1>5, ReleaseEffect, ChangeType
    <2>2. \A j \in Sockets : Owns(j, held', call') => j # i /\ Owns(j, held, call)
      BY <1>5 DEF Owns, NoCall
    <2> QED BY <1>4, <1>5, <2>1, <2>2 DEF SameDues, NoCall
  <1>6. ASSUME NEW i \in held
        PROVE  /\ i \in Sockets /\ peer[socks[i].local_port].iss \in Int
               /\ \E c \in Counts, u \in 0 .. MaxSend + 2 :
                     /\ NumbersOK(socks[i], peer[socks[i].local_port], c, u)
                     /\ SizeOK(i, socks[i], c, held, call)
    <2>1. SenderOK(i, socks[i], peer[socks[i].local_port], held, call, out)
      BY <1>1, <1>2 DEF SendersOK, SocketsAreHeld
    <2> QED BY <1>2, <2>1, Constants DEF SenderOK
  <1>7. CASE \E isn \in Isns, irs \in PeerIsns, total \in PeerTotals : Connect(isn, irs, total)
    BY <1>7, OwedConnect
  <1>8. CASE \E i \in Sockets, n \in SendSizes : SendBegin(i, n)
    <2>1. PICK i \in Sockets, n \in SendSizes : SendBegin(i, n)
      BY <1>8
    <2>2. /\ i \in held /\ SendChunk(i, n) /\ n \in Nat /\ SentSoFar(i) + n <= MaxSend
          /\ call = NoCall
      BY <2>1, Constants DEF SendBegin
    <2>3. PICK c \in Counts, u \in 0 .. MaxSend + 2 :
             /\ NumbersOK(socks[i], peer[socks[i].local_port], c, u)
             /\ SizeOK(i, socks[i], c, held, call)
      BY <1>6, <2>2
    <2>4. SentSoFar(i) = c - 1
      BY <1>6, <2>2, <2>3, SentSoFarIs DEF SentSoFar, NumbersOK
    <2>5. c + n <= MaxSend + 1
      BY <2>2, <2>4, Constants DEF Counts
    <2>6. socks[i].state # "SYN_SENT"
      BY <2>2, <2>3 DEF SizeOK
    <2> QED BY <2>2, <2>3, <2>5, <2>6, OwedChunk
  <1>9. CASE SendNext
    <2> DEFINE i == call.sock
    <2>1. call.name = "send" /\ i \in held /\ ~AwaitsAck(socks[i])
      BY <1>1, <1>9 DEF SendNext, TableOK
    <2>2. CASE SendChunk(i, call.n)
      <3>1. PICK c \in Counts, u \in 0 .. MaxSend + 2 :
               /\ NumbersOK(socks[i], peer[socks[i].local_port], c, u)
               /\ SizeOK(i, socks[i], c, held, call)
        BY <1>6, <2>1
      <3>2. c + call.n <= MaxSend + 1 /\ socks[i].state # "SYN_SENT"
        BY <2>1, <3>1 DEF SizeOK
      <3>3. InSend(i, call)
        BY <2>1 DEF InSend
      <3> QED BY <1>2, <2>1, <2>2, <3>1, <3>2, <3>3, OwedChunk
    <2>3. CASE EndsSend(0)
      BY <2>1, <2>3, OwedEnds
    <2> QED BY <1>1, <1>9, <2>2, <2>3, SendEnds
  <1>10. CASE \E i \in Sockets, n \in RecvSizes : RecvBegin(i, n)
    BY <1>4, <1>10 DEF RecvBegin, Owns, SameDues, NoCall
  <1>11. CASE \E i \in Sockets : CloseBegin(i)
    <2>1. PICK i \in Sockets : CloseBegin(i)
      BY <1>11
    <2>2. call = NoCall /\ i \in held /\ held' = held \ {i} /\ UNCHANGED <<next_ephemeral, peer>>
      BY <2>1 DEF CloseBegin
    <2>3. CASE Release(i) /\ call' = call
      BY <1>5, <2>2, <2>3 DEF NoCall
    <2>4. ASSUME NEW s, Change(i, s), call' = [name |-> "close", sock |-> i, n |-> 0, sent |-> 0]
          PROVE  OwedInv'
      <3>1. \A j \in Sockets \ {i} : socks'[j] = socks[j]
        BY <1>1, <2>4, ChangeType
      <3>2. \A j \in Sockets : Owns(j, held', call') => j # i /\ Owns(j, held, call)
        BY <2>2, <2>4 DEF Owns
      <3>3. "send" \notin {call.name, call'.name}
        BY <2>2, <2>4 DEF NoCall
      <3>4. \A j \in Sockets : Owns(j, held', call') =>
               /\ Owns(j, held, call) /\ SameDues(socks[j], socks'[j])
               /\ socks'[j].seq = socks[j].seq /\ socks'[j].state = socks[j].state
               /\ socks'[j].local_port = socks[j].local_port
        BY <3>1, <3>2 DEF SameDues
      <3> QED BY <1>4, <2>2, <3>3, <3>4
    <2> QED BY <1>1, <2>1, <2>3, <2>4, CloseEffect, Zenon
  <1>12. CASE ConnectReturn
    <2> DEFINE i == call.sock
    <2>1. /\ call.name = "connect" /\ call' = NoCall /\ UNCHANGED <<next_ephemeral, out, peer>>
          /\ \/ held' = held \union {i} /\ UNCHANGED socks
             \/ Release(i) /\ UNCHANGED held
      BY <1>12 DEF ConnectReturn
    <2>2. CASE held' = held \union {i} /\ UNCHANGED socks
      BY <1>4, <2>1, <2>2 DEF Owns, SameDues, NoCall
    <2>3. CASE Release(i) /\ UNCHANGED held
      BY <1>1, <1>2, <1>5, <2>1, <2>3 DEF TableOK
    <2> QED BY <2>1, <2>2, <2>3
  <1>13. CASE RecvReturn
    <2> DEFINE i == call.sock  r == socks[i]
    <2>1. PICK n \in Nat : n <= Len(r.rxbuf) /\ Change(i, Reads(r, n))
      BY <1>1, <1>13, ReadEffect
    <2>2. call.name = "recv" /\ call' = NoCall /\ UNCHANGED <<next_ephemeral, held, out, peer>>
      BY <1>1, <1>13, ReadEffect
    <2>3. r \in SocketT
      BY <1>1, <1>2 DEF TypeOK
    <2> DEFINE s == Reads(r, n)
    <2>4. s.seq = r.seq /\ s.local_port = r.local_port /\ s.state = r.state /\ SameDues(r, s)
      BY <2>3 DEF Reads, SocketT, SameDues
    <2> HIDE DEF s
    <2>5. socks'[i] = s /\ \A j \in Sockets \ {i} : socks'[j] = socks[j]
      BY <1>1, <1>2, <2>1, ChangeType DEF s
    <2>6. \A j \in Sockets : Owns(j, held', call') =>
             /\ Owns(j, held, call) /\ SameDues(socks[j], socks'[j])
             /\ socks'[j].seq = socks[j].seq /\ socks'[j].state = socks[j].state
             /\ socks'[j].local_port = socks[j].local_port
      BY <2>2, <2>4, <2>5 DEF Owns, SameDues, NoCall
    <2> QED BY <1>4, <2>2, <2>6 DEF NoCall
  <1>14. CASE CloseReturn
    BY <1>1, <1>2, <1>5, <1>14 DEF CloseReturn, TableOK
  <1>15. CASE Expire
    <2>1. call' = NoCall /\ UNCHANGED <<next_ephemeral, held, out, peer>>
      BY <1>15 DEF Expire
    <2>2. CASE call.name \in {"connect", "close"} /\ Release(call.sock)
      BY <1>1, <1>2, <1>5, <2>1, <2>2 DEF TableOK
    <2>3. CASE call.name = "recv" /\ UNCHANGED socks
      BY <1>4, <2>1, <2>3 DEF Owns, SameDues, NoCall
    <2>4. CASE EndsSend(1)
      BY <2>4, OwedEnds
    <2> QED BY <1>1, <1>15, <2>2, <2>3, <2>4, SendEnds
  <1>16. CASE \E p \in Ports : \E seg \in PeerSegments(p) : tcp_rx(seg)
    BY <1>16, OwedRx
  <1>17. CASE \E seg \in out : PeerReceives(seg)
    <2>1. PICK seg \in out : PeerReceives(seg)
      BY <1>17
    <2>2. /\ peer' = [peer EXCEPT ![seg.port].rcv = @ + seg.len]
          /\ UNCHANGED <<socks, next_ephemeral, call, held, out>>
      BY <2>1 DEF PeerReceives
    <2>3. seg.len \in Nat /\ seg.port \in Ports
      <3>1. seg.len \in Nat /\ seg.port \in 1 .. next_ephemeral - 1
        BY <1>1 DEF TypeOK, SentT, TableOK
      <3>2. next_ephemeral \in 1 .. MaxPorts + 1
        BY <1>1 DEF TypeOK
      <3> QED BY <3>1, <3>2, Constants DEF Ports
    <2> DEFINE p == seg.port  n == seg.len  rcv == peer[p].rcv
    <2>4. /\ peer' \in [Ports -> PeerT] /\ peer'[p].rcv = rcv + n
          /\ \A q \in Ports : peer'[q].iss = peer[q].iss /\ (q # p => peer'[q] = peer[q])
      BY <1>1, <2>2, <2>3, PeerEffect
    <2>5. rcv \in Nat
      BY <1>1, <2>3 DEF PeerT
    <2> HIDE DEF p, n, rcv
    <2>6. rcv + n >= rcv
      BY <2>3, <2>5 DEF n
    <2>7. \A q \in Ports : peer'[q].iss = peer[q].iss /\ peer'[q].rcv >= peer[q].rcv
      BY <1>3, <2>4, <2>6 DEF rcv
    <2> QED BY <2>2, <2>4, <2>7, OwedQuiet DEF SameDues
  <1>18. CASE UNCHANGED vars
    BY <1>4, <1>18 DEF vars, SameDues
  <1> QED BY <1>7, <1>8, <1>9, <1>10, <1>11, <1>12, <1>13, <1>14, <1>15, <1>16, <1>17, <1>18
          DEF Next, Returns

(* tcp_send goes on to the next chunk only when the other end has all that *)
(* was sent before, and no more of what its callers were told is missing   *)
(* than a segment for each call that a deadline ended.  While the own      *)
(* numbers have not wrapped: a program that sends more than 4 GB, or draws *)
(* an initial number near 2^32, is outside.                                *)
THEOREM SendsAwaitTheOther == Spec => []SentIsReceived
  <1>1. TableInv /\ SendersOK /\ OwedInv => SentIsReceived
    <2> SUFFICES ASSUME TableInv, SendersOK, OwedInv, NEW i \in held,
                        socks[i].seq >= peer[socks[i].local_port].iss
                 PROVE  LET s == socks[i]
                            q == peer[s.local_port]
                        IN  /\ s.told - MaxSegment * s.late <= q.rcv - 1
                            /\ call.name = "send" /\ call.sock = i /\ ~AwaitsAck(s)
                                  => q.iss + q.rcv = s.seq
      BY DEF SentIsReceived
    <2> DEFINE s == socks[i]  q == peer[s.local_port]
    <2>1. i \in Sockets /\ s.used /\ s \in SocketT /\ call.sent \in Nat
      BY DEF TableInv, TypeOK, TableOK, SocketsAreHeld
    <2>2. SenderOK(i, s, q, held, call, out) /\ q \in PeerT
      BY <2>1, PortsOfSockets DEF SendersOK, TableInv, TypeOK
    <2>3. PICK c \in Counts, u \in 0 .. MaxSend + 2 :
             NumbersOK(s, q, c, u) /\ SizeOK(i, s, c, held, call)
      BY <2>2 DEF SenderOK
    <2>4. s.state # "SYN_SENT" /\ OwedOK(i, s, q, call) /\ s.seq >= q.iss
      BY <2>1, <2>3 DEF SizeOK, OwedInv, Owns
    <2>5. ~AwaitsAck(s) => q.iss + q.rcv = s.seq
      <3>1. ~AwaitsAck(s) => q.rcv = c /\ s.seq = q.iss + c
        BY <2>2, <2>3, <2>4, AllAcknowledged
      <3> QED BY <3>1
    <2> DEFINE seq == s.seq  iss == q.iss  rcv == q.rcv  told == s.told
               m == MaxSegment * s.late  n == Pending(i, call)
    <2>6. seq \in Int /\ iss \in Int /\ rcv \in Nat /\ told \in Nat /\ m \in Nat /\ n \in Nat
      BY <2>1, <2>2, OwedTypes DEF Pending
    <2>7. told + n = seq - iss - 1 /\ seq - iss - rcv <= m + n
      BY <2>4 DEF OwedOK
    <2> HIDE DEF seq, iss, rcv, told, m, n
    <2>8. told - m <= rcv - 1
      BY <2>6, <2>7
    <2> QED BY <2>5, <2>8 DEF s, q, rcv, told, m
  <1> QED BY <1>1, TableInit, TableStep, SenderInit, SenderStep, OwedInit, OwedStep, PTL DEF Spec
=============================================================================
