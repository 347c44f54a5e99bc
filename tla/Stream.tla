------------------------------- MODULE Stream -------------------------------
(***************************************************************************)
(* What a pipe promises: a bounded FIFO of bytes that nothing but its own  *)
(* ends changes.  Writers append while a reader is left, readers take from *)
(* the front, each end closes once.                                        *)
(***************************************************************************)
EXTENDS Naturals, Sequences

CONSTANTS Bytes, Capacity

VARIABLES queue, readable, writable

Init == queue = <<>> /\ readable = TRUE /\ writable = TRUE

Put(b) ==
    /\ readable
    /\ Len(queue) < Capacity
    /\ queue' = Append(queue, b)
    /\ UNCHANGED <<readable, writable>>

Take ==
    /\ queue # <<>>
    /\ queue' = Tail(queue)
    /\ UNCHANGED <<readable, writable>>

CloseRead  == readable /\ readable' = FALSE /\ UNCHANGED <<queue, writable>>
CloseWrite == writable /\ writable' = FALSE /\ UNCHANGED <<queue, readable>>

Next == (\E b \in Bytes : Put(b)) \/ Take \/ CloseRead \/ CloseWrite

Spec == Init /\ [][Next]_<<queue, readable, writable>>
=============================================================================
