------------------------------- MODULE MCTcp --------------------------------
EXTENDS Tcp

(* Of a connection that is over, nothing is received any more; what it has *)
(* sent may still arrive, with acknowledgements that no socket looks at.   *)
Over(p) == Current(p) = {}
View == <<socks, next_ephemeral, call, held,
          {seg \in out : ~Over(seg.port)},
          [p \in Ports |-> IF Over(p) THEN [peer[p] EXCEPT !.rcv = Lower(@, 1)]
                           ELSE peer[p]]>>
=============================================================================
