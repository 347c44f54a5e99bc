------------------------------- MODULE MCNvme -------------------------------
(* Commands that the device has taken or never will, and of completions    *)
(* that the driver has taken all but the phase, do not tell states apart.  *)
EXTENDS Nvme

Between(first, past) ==
    {i \in 0 .. Depth - 1 : (i + Depth - first) % Depth < (past + Depth - first) % Depth}
Submission == IF alive
              THEN <<[i \in Between(sq_head, iosq_tail) |-> iosq[i]], iosq_tail, sq_head>>
              ELSE <<>>
Completion == <<[i \in Between(iocq_head, cq_tail) |-> iocq[i]],
                [i \in DOMAIN iocq |-> iocq[i].phase], iocq_head, iocq_phase,
                cq_tail, cq_phase,
                IF alive \/ Completed THEN io_cid ELSE 0>>
View == <<disk, ratio, alive, Submission, Completion, dma_buf, call, reply>>
=============================================================================
