-------------------------------- MODULE Tcp ---------------------------------
(***************************************************************************)
(* TCP connections (kernel/tcp.c): the socket table, the handler of        *)
(* arriving segments, and connect, send, recv and close, each of which     *)
(* waits in a loop that polls the network card and calls scheduler().  One *)
(* process makes the calls; segments arrive while it waits in one, or from *)
(* the timer, but never in the middle of a step.                           *)
(*                                                                         *)
(* The other ends are external: correct TCPs behind a network that loses,  *)
(* duplicates and reorders.  What is sent to them stays in `out' and may   *)
(* be received any number of times; what they may have sent by now is      *)
(* PeerSegments, each of which may arrive any number of times.  A segment  *)
(* the kernel drops because the ARP cache misses is one that is lost.      *)
(*                                                                         *)
(* Bytes are their positions in the stream; a connection is known by its   *)
(* local port, which no two have, so that its remote address and port need *)
(* not be compared.                                                        *)
(***************************************************************************)
EXTENDS Integers, Sequences, FiniteSets

CONSTANTS
    MaxSockets,     \* TCP_MAX_SOCKETS
    RxBufSize,      \* TCP_RXBUF_SIZE, and the window that is announced
    MaxSegment,     \* 1460
    SeqWidth,       \* sequence numbers are mod 2^32
    MaxPorts,       \* bound: calls of connect
    Isns, PeerIsns, \* the initial sequence numbers there may be
    PeerTotals,     \* how many bytes the other end may send
    SendSizes, RecvSizes, MaxSend       \* bounds

ASSUME TcpAssumption ==
    /\ {MaxSockets, RxBufSize, MaxSegment, SeqWidth} \subseteq Nat \ {0}
    /\ MaxPorts \in Nat /\ MaxSend \in Nat
    /\ Isns \union PeerIsns \subseteq 0 .. SeqWidth - 1
    /\ PeerTotals \subseteq Nat /\ SendSizes \union RecvSizes \subseteq Nat \ {0}
    /\ \A n \in PeerTotals \union {MaxSend} : n + RxBufSize + 2 < SeqWidth

VARIABLES
    socks, next_ephemeral,
    call,           \* the call the process is in, its socket, argument and result
    held,           \* the sockets the process was given and did not close
    out,            \* the segments sent that take up sequence numbers
    peer            \* per port: our isn, the other's, its bytes, what it has of ours

vars == <<socks, next_ephemeral, call, held, out, peer>>

Sockets == 0 .. MaxSockets - 1
Ports   == 1 .. MaxPorts
Seqs    == 0 .. SeqWidth - 1
States  == {"CLOSED", "SYN_SENT", "ESTABLISHED", "FIN_WAIT1", "FIN_WAIT2",
            "CLOSE_WAIT", "TIME_WAIT"}
NoCall  == [name |-> "none", sock |-> 0, n |-> 0, sent |-> 0]
NoPeer  == [iss |-> 0, irs |-> 0, total |-> 0, rcv |-> 0]

(* A socket, and its histories: got, what tcp_recv has returned; gap,      *)
(* whether bytes were acknowledged and not kept; told, the sum of what     *)
(* tcp_send has returned; late, how many of its calls their deadline       *)
(* ended.  Those of an unused one are not read, and set by tcp_connect.    *)
Unused  == [used |-> FALSE, state |-> "CLOSED", local_port |-> 0, seq |-> 0,
            ack |-> 0, snd_una |-> 0, rxbuf |-> <<>>, rx_closed |-> FALSE,
            got |-> <<>>, gap |-> FALSE, told |-> 0, late |-> 0]
Current(p) == {i \in Sockets : socks[i].used /\ socks[i].local_port = p}

Least(S) == CHOOSE x \in S : \A y \in S : x <= y
Lower(a, b) == IF a < b THEN a ELSE b
Mod(n) == n % SeqWidth

Init ==
    /\ socks = [i \in Sockets |-> Unused]
    /\ next_ephemeral = 1
    /\ call = NoCall /\ held = {} /\ out = {}
    /\ peer = [p \in Ports |-> NoPeer]

(* tcp_send_segment, for segments that take up len sequence numbers.  What *)
(* was sent on connections that are over no longer matters.                *)
Sent(s, kind, len) ==
    out' = {seg \in out : Current(seg.port) # {}}
               \union {[port |-> s.local_port, kind |-> kind, seq |-> s.seq, len |-> len]}

-----------------------------------------------------------------------------
(* The other end of a connection.  rcv counts what it has received of      *)
(* ours in order, the SYN included; 0 is before that.                      *)
Window(p) ==      \* how far the last acknowledgement lets it send
    IF Current(p) = {} THEN peer[p].total
    ELSE Lower(peer[p].total,
               Mod(socks[Least(Current(p))].ack - peer[p].irs - 1) + RxBufSize)

PeerSegments(p) ==
    LET q == peer[p]
        Segment(flags, first, len, ack) ==
            [port |-> p, flags |-> flags, first |-> first, len |-> len,
             seq |-> Mod(q.irs + first), ack |-> Mod(q.iss + ack)]
    IN  IF q.rcv = 0 THEN {}
        ELSE {Segment({"SYN", "ACK"}, 0, 0, 1), Segment({"RST"}, 0, 0, 0)}
          \union {Segment({"ACK"}, x[1], x[2], x[3]) :
                     x \in {y \in (1 .. q.total + 1) \X (0 .. MaxSegment) \X (1 .. q.rcv) :
                               y[1] + y[2] - 1 <= Window(p)}}
          \union {Segment({"ACK", "FIN"}, q.total + 1 - x[1], x[1], x[2]) :
                     x \in {y \in (0 .. Lower(MaxSegment, q.total)) \X (1 .. q.rcv) :
                               q.total <= Window(p)}}

PeerReceives(seg) ==
    LET q == peer[seg.port]
    IN  /\ Current(seg.port) # {}
        /\ IF seg.kind = "SYN" THEN q.rcv = 0
           ELSE q.rcv > 0 /\ seg.seq = Mod(q.iss + q.rcv)
        /\ peer' = [peer EXCEPT ![seg.port].rcv = @ + seg.len]
        /\ UNCHANGED <<socks, next_ephemeral, call, held, out>>

-----------------------------------------------------------------------------
(* tcp_rx: the used socket with the segment's port, and what each state    *)
(* does with the segment.                                                  *)
AnySocket(i, seg) == socks[i].used      \* seeded fault: the port is not compared
Matches(i, seg) == socks[i].used /\ socks[i].local_port = seg.port
IsFor(i, seg) == Matches(i, seg) /\ \A j \in Sockets : Matches(j, seg) => i <= j

RxReset(i, seg) ==
    /\ IsFor(i, seg) /\ "RST" \in seg.flags
    /\ socks' = [socks EXCEPT ![i].state = "CLOSED", ![i].rx_closed = TRUE]
    /\ UNCHANGED <<next_ephemeral, call, held, out, peer>>

RxSynAck(i, seg) ==
    /\ IsFor(i, seg) /\ {"SYN", "ACK"} \subseteq seg.flags
    /\ socks[i].state = "SYN_SENT"
    /\ socks' = [socks EXCEPT ![i].ack = Mod(seg.seq + 1), ![i].seq = seg.ack,
                              ![i].state = "ESTABLISHED"]
    /\ UNCHANGED <<next_ephemeral, call, held, out, peer>>

(* rxbuf_push keeps what there is room for, but all of it is acknowledged. *)
(* A FIN is taken once, at whatever sequence number it comes.              *)
Kept(s, taken) == Lower(taken, RxBufSize - Len(s.rxbuf))

BehindIsNew(s, seg) ==         \* seeded fault: a repeated segment is taken again
    seg.len > 0 /\ Mod(s.ack - seg.seq) <= seg.len
IsNext(s, seg) == seg.len > 0 /\ seg.seq = s.ack

RxEstablished(i, seg) ==
    LET s     == socks[i]
        taken == IF IsNext(s, seg) THEN seg.len ELSE 0
        kept  == Kept(s, taken)
        fin   == "FIN" \in seg.flags /\ s.state = "ESTABLISHED"
        early == fin /\ Mod(s.ack + taken) # Mod(seg.seq + seg.len)
        data  == [k \in 1 .. kept |-> [port |-> seg.port, byte |-> seg.first + k - 1]]
    IN  /\ IsFor(i, seg) /\ "RST" \notin seg.flags
        /\ s.state \in {"ESTABLISHED", "CLOSE_WAIT"}
        /\ socks' = [socks EXCEPT ![i] =
               [s EXCEPT !.rxbuf = @ \o data,
                         !.ack = Mod(@ + taken + (IF fin THEN 1 ELSE 0)),
                         !.snd_una = seg.ack,
                         !.state = IF fin THEN "CLOSE_WAIT" ELSE @,
                         !.rx_closed = @ \/ fin,
                         !.gap = @ \/ kept < taken \/ early]]
        /\ UNCHANGED <<next_ephemeral, call, held, out, peer>>

(* Any ACK is taken for that of our FIN; data is dropped.                  *)
RxFinWait(i, seg) ==
    LET s   == socks[i]
        fin == "FIN" \in seg.flags
    IN  /\ IsFor(i, seg) /\ "RST" \notin seg.flags
        /\ s.state \in {"FIN_WAIT1", "FIN_WAIT2"}
        /\ socks' = [socks EXCEPT ![i] =
               [s EXCEPT !.state = IF fin THEN "TIME_WAIT" ELSE "FIN_WAIT2",
                         !.ack = IF fin THEN Mod(@ + 1) ELSE @,
                         !.rx_closed = @ \/ fin]]
        /\ UNCHANGED <<next_ephemeral, call, held, out, peer>>

tcp_rx(seg) ==
    \E i \in Sockets : RxReset(i, seg) \/ RxSynAck(i, seg) \/ RxEstablished(i, seg)
                          \/ RxFinWait(i, seg)

-----------------------------------------------------------------------------
Release(i) == socks' = [socks EXCEPT ![i] = Unused]

(* tcp_connect.                                                            *)
Connect(isn, irs, total) ==
    LET free == {i \in Sockets : ~socks[i].used}
        i    == Least(free)
        s    == [Unused EXCEPT !.used = TRUE, !.state = "SYN_SENT",
                    !.local_port = next_ephemeral, !.seq = isn, !.snd_una = isn]
    IN  /\ call = NoCall /\ free # {} /\ next_ephemeral <= MaxPorts
        /\ Sent(s, "SYN", 1)
        /\ socks' = [socks EXCEPT ![i] = [s EXCEPT !.seq = Mod(@ + 1)]]
        /\ next_ephemeral' = next_ephemeral + 1
        /\ peer' = [peer EXCEPT ![next_ephemeral] =
               [iss |-> isn, irs |-> irs, total |-> total, rcv |-> 0]]
        /\ call' = [name |-> "connect", sock |-> i, n |-> 0, sent |-> 0]
        /\ UNCHANGED <<held>>

ConnectReturn ==
    LET i == call.sock
    IN  /\ call.name = "connect" /\ socks[i].state # "SYN_SENT"
        /\ IF socks[i].state = "ESTABLISHED"
           THEN held' = held \union {i} /\ UNCHANGED socks
           ELSE Release(i) /\ UNCHANGED held
        /\ call' = NoCall
        /\ UNCHANGED <<next_ephemeral, out, peer>>

(* tcp_send: a chunk at a time, the next one when snd_una has caught up.   *)
(* call.n is what is left, call.sent what it will return.                  *)
SendChunk(i, n) ==
    LET chunk == Lower(n, MaxSegment)
    IN  /\ Sent(socks[i], "DATA", chunk)
        /\ socks' = [socks EXCEPT ![i].seq = Mod(@ + chunk)]
        /\ call' = [name |-> "send", sock |-> i, n |-> n - chunk,
                    sent |-> call.sent + chunk]
        /\ UNCHANGED <<next_ephemeral, held, peer>>

SentSoFar(i) == Mod(socks[i].seq - peer[socks[i].local_port].iss - 1)
SendBegin(i, n) ==
    /\ call = NoCall /\ i \in held /\ socks[i].state = "ESTABLISHED"
    /\ SentSoFar(i) + n <= MaxSend
    /\ SendChunk(i, n)

NeverAwaits(s) == FALSE        \* seeded fault: the chunks are sent in one go
AwaitsAck(s) == s.snd_una < s.seq
SendNext ==
    /\ call.name = "send" /\ ~AwaitsAck(socks[call.sock])
    /\ \/ call.n > 0 /\ SendChunk(call.sock, call.n)
       \/ /\ call.n = 0 /\ call' = NoCall
          /\ socks' = [socks EXCEPT ![call.sock].told = @ + call.sent]
          /\ UNCHANGED <<next_ephemeral, held, out, peer>>

(* tcp_recv.                                                               *)
RecvBegin(i, n) ==
    /\ call = NoCall /\ i \in held
    /\ call' = [name |-> "recv", sock |-> i, n |-> n, sent |-> 0]
    /\ UNCHANGED <<socks, next_ephemeral, held, out, peer>>

RecvReturn ==
    LET s == socks[call.sock]
        n == Lower(Len(s.rxbuf), call.n)
    IN  /\ call.name = "recv" /\ (s.rxbuf # <<>> \/ s.rx_closed)
        /\ socks' = [socks EXCEPT ![call.sock] =
               [s EXCEPT !.rxbuf = SubSeq(@, n + 1, Len(@)),
                         !.got = @ \o SubSeq(s.rxbuf, 1, n)]]
        /\ call' = NoCall
        /\ UNCHANGED <<next_ephemeral, held, out, peer>>

(* tcp_close: only one end of the two orders waits.                        *)
CloseBegin(i) ==
    /\ call = NoCall /\ i \in held
    /\ held' = held \ {i}
    /\ \/ /\ socks[i].state = "ESTABLISHED"
          /\ Sent(socks[i], "FIN", 1)
          /\ socks' = [socks EXCEPT ![i].seq = Mod(@ + 1), ![i].state = "FIN_WAIT1"]
          /\ call' = [name |-> "close", sock |-> i, n |-> 0, sent |-> 0]
       \/ /\ socks[i].state = "CLOSE_WAIT"
          /\ Sent(socks[i], "FIN", 1)
          /\ Release(i) /\ UNCHANGED call
       \/ /\ socks[i].state \notin {"ESTABLISHED", "CLOSE_WAIT"}
          /\ Release(i) /\ UNCHANGED <<out, call>>
    /\ UNCHANGED <<next_ephemeral, peer>>

CloseReturn ==
    /\ call.name = "close" /\ socks[call.sock].state \in {"TIME_WAIT", "CLOSED"}
    /\ Release(call.sock)
    /\ call' = NoCall
    /\ UNCHANGED <<next_ephemeral, held, out, peer>>

(* The deadlines.  Ticks are not counted: a deadline may pass at any time, *)
(* at once when the sum wraps, and never while nobody runs in user mode,   *)
(* since the loops run with interrupts off.  What the last net_poll()      *)
(* before it brought is not looked at any more, and tcp_send returns what  *)
(* it has sent, the chunk that is not acknowledged included.               *)
KeepsSocket ==                 \* seeded fault: a connect that fails keeps its socket
    /\ call.name # "none"
    /\ IF call.name = "close" THEN Release(call.sock) ELSE UNCHANGED socks
    /\ call' = NoCall
    /\ UNCHANGED <<next_ephemeral, held, out, peer>>

SendExpires ==
    socks' = [socks EXCEPT ![call.sock].told = @ + call.sent, ![call.sock].late = @ + 1]

Expire ==
    /\ call.name # "none"
    /\ \/ call.name \in {"connect", "close"} /\ Release(call.sock)
       \/ call.name = "send" /\ SendExpires
       \/ call.name = "recv" /\ UNCHANGED socks
    /\ call' = NoCall
    /\ UNCHANGED <<next_ephemeral, held, out, peer>>

Returns == ConnectReturn \/ SendNext \/ RecvReturn \/ CloseReturn

Next ==
    \/ \E isn \in Isns, irs \in PeerIsns, total \in PeerTotals : Connect(isn, irs, total)
    \/ \E i \in Sockets, n \in SendSizes : SendBegin(i, n)
    \/ \E i \in Sockets, n \in RecvSizes : RecvBegin(i, n)
    \/ \E i \in Sockets : CloseBegin(i)
    \/ Returns \/ Expire
    \/ \E p \in Ports : \E seg \in PeerSegments(p) : tcp_rx(seg)
    \/ \E seg \in out : PeerReceives(seg)

Spec == Init /\ [][Next]_vars

-----------------------------------------------------------------------------
(* What a program reads, with what waits in the ring, is of its own        *)
(* connection, and no byte comes twice or before an earlier one, however   *)
(* segments are repeated and reordered and however often the socket was    *)
(* used before; the ring never holds more than its size.  (The match, the  *)
(* test seq == ack and rxbuf_push of tcp_rx.)                              *)
Stream(i) == socks[i].got \o socks[i].rxbuf
BytesInOrder ==
    \A i \in {j \in Sockets : socks[j].used} :
       /\ Len(socks[i].rxbuf) <= RxBufSize
       /\ \A k \in DOMAIN Stream(i) : Stream(i)[k].port = socks[i].local_port
       /\ \A k, m \in DOMAIN Stream(i) : k < m => Stream(i)[k].byte < Stream(i)[m].byte

(* Bytes are missing only after the ring was too full for a segment or a   *)
(* FIN overtook data: else what was read is a prefix of what was sent, and *)
(* all of it once the other end's FIN has been taken.                      *)
GapsAreKnown ==
    \A i \in {j \in Sockets : socks[j].used /\ ~socks[j].gap} :
       /\ \A k \in DOMAIN Stream(i) : Stream(i)[k].byte = k
       /\ socks[i].state = "CLOSE_WAIT" => Len(Stream(i)) = peer[socks[i].local_port].total

(* "Wait for ACK before sending more": tcp_send goes on to the next chunk  *)
(* only when the other end has all that was sent before, and of what it    *)
(* has told its callers no more is missing than a segment for each of its  *)
(* calls that a deadline ended.  The callers cannot tell these calls from  *)
(* the others.  Once the own numbers have wrapped (seq < iss) `snd_una <   *)
(* seq' means nothing, and the property says nothing.                      *)
SentIsReceived ==
    \A i \in held :
        LET s == socks[i]
            q == peer[s.local_port]
        IN  s.seq >= q.iss =>
              /\ s.told - MaxSegment * s.late <= q.rcv - 1
              /\ call.name = "send" /\ call.sock = i /\ ~AwaitsAck(s)
                    => q.iss + q.rcv = s.seq

(* A socket is in use only while a program has it, or a connect or a close *)
(* is about to give it back: failed connects do not use up the table.      *)
SocketsAreHeld ==
    \A i \in Sockets :
        socks[i].used <=> i \in held \/ (call.name \in {"connect", "close"} /\ call.sock = i)
=============================================================================
