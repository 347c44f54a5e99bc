------------------------------- MODULE MCPipe -------------------------------
(* Pid assignments and the view for checking Pipe.  SlotNumbers is the     *)
(* machine in which no slot has been reused; in OneSlotOn a process died   *)
(* before the others were made.                                            *)
EXTENDS Pipe

SlotNumbers == [s \in Slots |-> s]
OneSlotOn   == [s \in Slots |-> IF s = 0 THEN 0 ELSE s + 1]

(* The fields that will be read, and the bytes that are in the ring: where *)
(* in the ring they lie makes no difference.                               *)
PipeView ==
    <<[s \in Slots |->
         <<state[s], IF state[s] = "WAITING" THEN waiting_for[s] ELSE None,
           IF state[s] = "DEAD" /\ s # current_pid THEN NoCall ELSE call[s]>>],
      current_pid, crashed, page_directory[current_pid], Contents,
      read_open, write_open, readers, writers>>
=============================================================================
