----------------------------- MODULE MCProcess -----------------------------
(***************************************************************************)
(* Model-checking view of Process.  A field of the table that the code     *)
(* will write before it reads it again does not tell two states apart: the *)
(* waiting_for of a process that is not WAITING, the saved frame of the    *)
(* one that is executing, most of what a DEAD slot still holds.            *)
(***************************************************************************)
EXTENDS Process

Present(s) == state[s] # "DEAD" \/ s = current_pid

LiveData ==
    <<[s \in Slots |->
         <<state[s], kernel_stack[s],
           IF Present(s) THEN <<pid[s], page_directory[s]>> ELSE <<>>,
           IF state[s] = "WAITING" THEN waiting_for[s] ELSE None,
           IF state[s] = "SLEEPING" THEN sleep_until[s] ELSE 0,
           IF state[s] # "DEAD" /\ s # current_pid THEN <<call[s], frame[s]>>
                                                   ELSE <<>> >>],
      kstack_used, esp0, current_pid, next_pid, ticks, sigint_target, crashed>>
=============================================================================
