--------------------------- MODULE ProcessProofs ---------------------------
(***************************************************************************)
(* Proofs about the process table for every number of slots, pids and      *)
(* ticks.  The four invariants of SpecAll hold whatever the programs call, *)
(* with exec, Ctrl+C and calls of processes that are already DEAD.         *)
(*                                                                         *)
(* At the end the pipe, for every size of the ring, of the wait queues and *)
(* of the process table: it is a bounded FIFO of bytes whatever the        *)
(* callers do; and where no pid is the number of another process's slot,   *)
(* nobody else's wake-up is lost and nobody else's wait is cut short.      *)
(***************************************************************************)
EXTENDS Pipe, FiniteSetTheorems, SequenceTheorems, TLAPS

-----------------------------------------------------------------------------
(* Facts about the operators the actions are built from.                   *)

(* The remainder of a division is below the divisor.                       *)
LEMMA ModRange ==
    ASSUME NEW a \in Int, NEW m \in Nat \ {0}
    PROVE  a % m \in 0 .. m - 1
  OBVIOUS

(* There is a slot 0, and the timer's counter starts within its width.     *)
LEMMA SlotZero == 0 \in Slots
  BY ProcessAssumption DEF Slots

(* A process scheduler() switches to was READY, RUNNING or a sleeper.      *)
LEMMA NextWasRunnable ==
    ASSUME NEW st \in [Slots -> States], NEW next \in Slots,
           IsNext(st, next), next # current_pid
    PROVE  st[next] \in {"READY", "RUNNING"}
  BY DEF IsNext, Runnable

(* Waking the sleepers and switching keep the states in their range.       *)
LEMMA AwakeType ==
    ASSUME NEW st \in [Slots -> States], NEW until, NEW now
    PROVE  /\ Awake(st, until, now) \in [Slots -> States]
           /\ \A s \in Slots :
                \/ Awake(st, until, now)[s] = st[s]
                \/ st[s] = "SLEEPING" /\ Awake(st, until, now)[s] = "READY"
  BY DEF Awake, States

(* Waking the waiters of p makes some WAITING entries READY, no others.    *)
LEMMA WakeType ==
    ASSUME NEW st \in [Slots -> States], NEW p
    PROVE  /\ Wake(st, p) \in [Slots -> States]
           /\ \A s \in Slots : 
                \/ Wake(st, p)[s] = st[s] /\ ~IsWaiter(st, s, p)
                \/ Wake(st, p)[s] = "READY" /\ IsWaiter(st, s, p)
  BY DEF Wake, IsWaiter, States

(* What a call of scheduler() does to the table it is given: it kills and  *)
(* revives nobody, starts and ends no wait, marks only the slot it goes to *)
(* RUNNING, and takes the stack and the directory of that slot.            *)
Rescheduled(st, dirs) ==
    /\ \A s \in Slots :
         /\ state'[s] = "DEAD" <=> st[s] = "DEAD"
         /\ state'[s] = "WAITING" <=> st[s] = "WAITING"
         /\ state'[s] = "RUNNING" =>
              s = current_pid' \/ (s # current_pid /\ st[s] = "RUNNING")
    /\ \/ UNCHANGED <<frame, esp0, current_pid, crashed>>
       \/ /\ current_pid' # current_pid
          /\ st[current_pid'] # "DEAD"
          /\ frame' = [frame EXCEPT ![current_pid] = esp0]
          /\ esp0' = kernel_stack[current_pid']
          /\ crashed' = (dirs[current_pid'] = "none")

SchedulerTypes ==
    /\ state' \in [Slots -> States]
    /\ call' \in [Slots -> Calls]
    /\ frame' \in [Slots -> Slots \union {None, Boot}]
    /\ esp0' \in Slots \union {None, Boot}
    /\ current_pid' \in Slots
    /\ crashed' \in BOOLEAN

(* AfterScheduler returns a call. *)
LEMMA AfterSchedulerType ==
    ASSUME NEW c \in Calls PROVE AfterScheduler(c) \in Calls
  BY DEF AfterScheduler, NoCall, Calls

LEMMA SchedulerEffect ==
    ASSUME TypeOK, NEW st \in [Slots -> States], NEW until, NEW now, NEW dirs,
           NEW c \in Calls, scheduler(st, until, now, dirs, c)
    PROVE  SchedulerTypes /\ Rescheduled(st, dirs)
  <1> DEFINE woken == Awake(st, until, now)
  <1>1. /\ woken \in [Slots -> States]
        /\ \A s \in Slots :
             \/ woken[s] = st[s]
             \/ st[s] = "SLEEPING" /\ woken[s] = "READY"
    BY AwakeType
  <1>2. current_pid \in Slots
    BY DEF TypeOK
  <1>3. AfterScheduler(c) \in Calls
    BY AfterSchedulerType
  <1>4. PICK next \in Slots :
          /\ IsNext(woken, next)
          /\ \/ /\ next = current_pid
                /\ state' = woken
                /\ call' = [call EXCEPT ![current_pid] = AfterScheduler(c)]
                /\ UNCHANGED <<frame, esp0, current_pid, crashed>>
             \/ /\ next # current_pid
                /\ state' = SwitchTo(woken, next)
                /\ call' = [call EXCEPT ![current_pid] = c,
                                        ![next] = AfterScheduler(@)]
                /\ frame' = [frame EXCEPT ![current_pid] = esp0]
                /\ esp0' = kernel_stack[next]
                /\ current_pid' = next
                /\ crashed' = (dirs[next] = "none")
    BY DEF scheduler
  <1> HIDE DEF woken
  <1>5. CASE next = current_pid
    <2>1. /\ state' = woken
          /\ call' = [call EXCEPT ![current_pid] = AfterScheduler(c)]
          /\ UNCHANGED <<frame, esp0, current_pid, crashed>>
      BY <1>4, <1>5
    <2>2. SchedulerTypes
      BY <2>1, <1>1, <1>3 DEF SchedulerTypes, TypeOK
    <2>3. Rescheduled(st, dirs)
      BY <2>1, <1>1, <1>2 DEF Rescheduled, States
    <2> QED BY <2>2, <2>3
  <1>6. CASE next # current_pid
    <2>1. /\ state' = SwitchTo(woken, next)
          /\ call' = [call EXCEPT ![current_pid] = c, ![next] = AfterScheduler(@)]
          /\ frame' = [frame EXCEPT ![current_pid] = esp0]
          /\ esp0' = kernel_stack[next]
          /\ current_pid' = next
          /\ crashed' = (dirs[next] = "none")
      BY <1>4, <1>6
    <2>2. woken[next] \in {"READY", "RUNNING"}
      BY <1>1, <1>4, <1>6, NextWasRunnable
    <2>3. AfterScheduler(call[next]) \in Calls
      BY AfterSchedulerType DEF TypeOK
    <2>4. call' \in [Slots -> Calls]
      BY <2>1, <2>3, <1>6 DEF TypeOK
    <2>5. state' \in [Slots -> States]
      BY <2>1, <1>1 DEF SwitchTo, States
    <2>6. SchedulerTypes
      BY <2>1, <2>4, <2>5 DEF SchedulerTypes, TypeOK
    <2>7. \A s \in Slots :
            /\ state'[s] = "DEAD" <=> st[s] = "DEAD"
            /\ state'[s] = "WAITING" <=> st[s] = "WAITING"
            /\ state'[s] = "RUNNING" =>
                 s = next \/ (s # current_pid /\ st[s] = "RUNNING")
      BY <2>1, <2>2, <1>1 DEF SwitchTo, States
    <2>8. st[next] # "DEAD"
      BY <2>2, <1>1
    <2> QED BY <2>1, <2>6, <2>7, <2>8, <1>6 DEF Rescheduled
  <1> QED BY <1>5, <1>6

(* The table of process_create_elf, as far as its two outcomes agree.      *)
LEMMA TakenSlot ==
    ASSUME TypeOK, NEW slot \in Slots, TakeSlot(slot)
    PROVE  /\ slot # 0 /\ state[slot] = "DEAD" /\ kernel_stack[slot] # esp0
           /\ pid' = [pid EXCEPT ![slot] = next_pid]
           /\ pid' \in [Slots -> Pids]
           /\ next_pid' = next_pid + 1
           /\ next_pid' \in 1 .. MaxPid + 1
           /\ waiting_for' = [waiting_for EXCEPT ![slot] = None]
           /\ waiting_for' \in [Slots -> Pids \union {None}]
           /\ UNCHANGED <<sleep_until, esp0, current_pid, ticks, sigint_target, crashed>>
  BY ProcessAssumption DEF TakeSlot, FirstDead, NextPid, TypeOK, Pids

-----------------------------------------------------------------------------
(* Type correctness: no call, interrupt or key press takes a field out of  *)
(* its range; in particular every slot number the code stores is one.      *)

LEMMA TypeInit == Init => TypeOK
  <1> SUFFICES ASSUME Init PROVE TypeOK
    OBVIOUS
  <1>1. NoCall \in Calls
    BY DEF NoCall, Calls
  <1>2. /\ 0 \in Pids /\ 1 \in 1 .. MaxPid + 1 /\ 0 \in 0 .. TickMod - 1
    BY ProcessAssumption DEF Pids
  <1> QED
    BY <1>1, <1>2, SlotZero DEF Init, TypeOK, States

(* Setting one entry of the table to a state, and those it wakes.          *)
LEMMA WakeForType ==
    ASSUME TypeOK, NEW st, NEW p
    PROVE  WakeFor(st, p) \in [Slots -> Pids \union {None}]
  BY DEF WakeFor, TypeOK

LEMMA TypeStep == TypeOK /\ [NextAll]_vars => TypeOK'
  <1> SUFFICES ASSUME TypeOK, [NextAll]_vars PROVE TypeOK'
    OBVIOUS
  <1>0. NoCall \in Calls
    BY DEF NoCall, Calls
  <1>1. CASE process_create_elf
    <2>1. PICK slot \in Slots, k \in Slots :
            /\ TakeSlot(slot)
            /\ kstack_used' = kstack_free(slot) \union {k}
            /\ kernel_stack' = [kernel_stack EXCEPT ![slot] = k]
            /\ frame' = [frame EXCEPT ![slot] = k]
            /\ call' = [call EXCEPT ![slot] = NoCall]
            /\ page_directory' = [page_directory EXCEPT ![slot] = "own"]
            /\ state' = [state EXCEPT ![slot] = "READY"]
      BY <1>1 DEF process_create_elf
    <2>2. kstack_used' \in SUBSET Slots
      BY <2>1 DEF TypeOK, kstack_free
    <2> QED BY <2>1, <2>2, <1>0, TakenSlot DEF TypeOK, States
  <1>2. CASE \E dir \in {"none", "own"} : CreateFails(dir)
    <2>1. PICK dir \in {"none", "own"}, slot \in Slots :
            /\ TakeSlot(slot)
            /\ kstack_used' = kstack_free(slot)
            /\ kernel_stack' = [kernel_stack EXCEPT ![slot] = None]
            /\ page_directory' = [page_directory EXCEPT ![slot] = dir]
            /\ UNCHANGED <<state, call, frame>>
      BY <1>2 DEF CreateFails
    <2>2. kstack_used' \in SUBSET Slots
      BY <2>1 DEF TypeOK, kstack_free
    <2> QED BY <2>1, <2>2, TakenSlot DEF TypeOK
  <1>3. CASE FreeOwnStack
    BY <1>3 DEF FreeOwnStack, table, TypeOK
  <1>4. CASE process_exit
    <2> DEFINE dead == [state EXCEPT ![current_pid] = "DEAD"]
               dirs == [page_directory EXCEPT ![current_pid] = "none"]
    <2>1. /\ page_directory' = dirs
          /\ waiting_for' = WakeFor(dead, pid[current_pid])
          /\ scheduler(Wake(dead, pid[current_pid]), sleep_until, ticks, dirs, NoCall)
          /\ UNCHANGED <<pid, sleep_until, kernel_stack, kstack_used, next_pid,
                         ticks, sigint_target>>
      BY <1>4 DEF process_exit
    <2>2. dead \in [Slots -> States] /\ dirs \in [Slots -> {"kernel", "own", "none"}]
      BY DEF TypeOK, States
    <2>3. Wake(dead, pid[current_pid]) \in [Slots -> States]
      BY <2>2, WakeType
    <2>4. SchedulerTypes
      BY <2>1, <2>3, <1>0, SchedulerEffect
    <2>5. waiting_for' \in [Slots -> Pids \union {None}]
      BY <2>1, WakeForType
    <2> HIDE DEF dead, dirs
    <2> QED BY <2>1, <2>2, <2>4, <2>5 DEF SchedulerTypes, TypeOK
  <1>5. ASSUME NEW p \in Pids, sys_kill(p) PROVE TypeOK'
    <2>1. PICK t \in Slots :
            /\ state' = Wake([state EXCEPT ![t] = "DEAD"], p)
            /\ waiting_for' = WakeFor([state EXCEPT ![t] = "DEAD"], p)
      BY <1>5 DEF sys_kill
    <2>2. [state EXCEPT ![t] = "DEAD"] \in [Slots -> States]
      BY DEF TypeOK, States
    <2>3. state' \in [Slots -> States]
      BY <2>1, <2>2, WakeType
    <2>4. waiting_for' \in [Slots -> Pids \union {None}]
      BY <2>1, WakeForType
    <2> QED BY <1>5, <2>3, <2>4 DEF sys_kill, TypeOK
  <1>6. ASSUME NEW p \in Pids, sys_wait(p) PROVE TypeOK'
    <2>1. [state EXCEPT ![current_pid] = "WAITING"] \in [Slots -> States]
      BY DEF TypeOK, States
    <2>2. [kind |-> "wait", arg |-> p] \in Calls
      BY DEF Calls, Pids
    <2>3. SchedulerTypes
      BY <1>6, <2>1, <2>2, SchedulerEffect DEF sys_wait
    <2> QED BY <1>6, <2>3 DEF sys_wait, SchedulerTypes, TypeOK
  <1>7. ASSUME NEW n \in SleepTicks, sys_sleep(n) PROVE TypeOK'
    <2> DEFINE until == (ticks + n) % TickMod
    <2>0. until \in 0 .. TickMod - 1
      <3>1. ticks + n \in Int /\ TickMod \in Nat \ {0}
        BY ProcessAssumption DEF TypeOK
      <3> QED BY <3>1, ModRange
    <2>1. [state EXCEPT ![current_pid] = "SLEEPING"] \in [Slots -> States]
      BY DEF TypeOK, States
    <2>2. [kind |-> "sleep", arg |-> until] \in Calls
      BY <2>0 DEF Calls
    <2>3. /\ sleep_until' = [sleep_until EXCEPT ![current_pid] = until]
          /\ scheduler([state EXCEPT ![current_pid] = "SLEEPING"], sleep_until', ticks,
                       page_directory, [kind |-> "sleep", arg |-> until])
          /\ UNCHANGED <<pid, waiting_for, kernel_stack, page_directory,
                         kstack_used, next_pid, ticks, sigint_target>>
      BY <1>7 DEF sys_sleep
    <2> HIDE DEF until
    <2>4. SchedulerTypes
      BY <2>1, <2>2, <2>3, SchedulerEffect
    <2> QED BY <2>0, <2>3, <2>4 DEF SchedulerTypes, TypeOK
  <1>8. CASE sys_yield
    <2>1. SchedulerTypes
      BY <1>8, <1>0, SchedulerEffect DEF sys_yield, TypeOK
    <2> QED BY <1>8, <2>1 DEF sys_yield, SchedulerTypes, TypeOK
  <1>9. CASE timer_handler
    <2>1. ticks' \in 0 .. TickMod - 1
      <3>1. ticks + 1 \in Int /\ TickMod \in Nat \ {0}
        BY ProcessAssumption DEF TypeOK
      <3>2. ticks' = (ticks + 1) % TickMod
        BY <1>9 DEF timer_handler, TickAfter
      <3> QED BY <3>1, <3>2, ModRange
    <2>2. SchedulerTypes
      <3>1. CASE ticks' % Quantum = 0
        <4>1. scheduler(state, sleep_until, ticks', page_directory, NoCall)
          BY <1>9, <3>1 DEF timer_handler
        <4>2. state \in [Slots -> States]
          BY DEF TypeOK
        <4> QED BY <4>1, <4>2, <1>0, SchedulerEffect
      <3>2. CASE ticks' % Quantum # 0
        BY <1>9, <3>2 DEF timer_handler, SchedulerTypes, TypeOK
      <3> QED BY <3>1, <3>2
    <2> QED BY <1>9, <2>1, <2>2 DEF timer_handler, SchedulerTypes, TypeOK
  <1>10. CASE sys_exec
    BY <1>10 DEF sys_exec, TypeOK
  <1>11. ASSUME NEW p \in Pids \union {None}, keyboard_set_sigint_target(p)
         PROVE  TypeOK'
    BY <1>11 DEF keyboard_set_sigint_target, table, TypeOK
  <1>12. CASE ctrl_c
    <2> DEFINE dead == [state EXCEPT ![sigint_target] = "DEAD"]
    <2>1. dead \in [Slots -> States]
      BY DEF TypeOK, States
    <2>2. /\ \/ state' = Wake(dead, sigint_target)
             \/ UNCHANGED state
          /\ \/ waiting_for' = WakeFor(dead, sigint_target)
             \/ UNCHANGED waiting_for
      BY <1>12 DEF ctrl_c
    <2> HIDE DEF dead
    <2>3. state' \in [Slots -> States]
      BY <2>1, <2>2, WakeType DEF TypeOK
    <2>4. waiting_for' \in [Slots -> Pids \union {None}]
      BY <2>2, WakeForType DEF TypeOK
    <2> QED BY <1>12, <2>3, <2>4 DEF ctrl_c, TypeOK
  <1>13. CASE UNCHANGED vars
    BY <1>13 DEF vars, table, TypeOK
  <1> QED
    BY <1>1, <1>2, <1>3, <1>4, <1>5, <1>6, <1>7, <1>8, <1>9, <1>10, <1>11,
       <1>12, <1>13 DEF NextAll, Next, Syscall

THEOREM TypeCorrect == SpecAll => []TypeOK
  BY TypeInit, TypeStep, PTL DEF SpecAll

-----------------------------------------------------------------------------
(* What a step does to the ownership of pids and kernel stacks.  Unless it *)
(* takes a slot over it moves none, and whoever is alive or executing      *)
(* after it was so before.                                                 *)
Present(s) == state[s] # "DEAD" \/ s = current_pid

Quiet ==
    /\ UNCHANGED <<pid, next_pid, kernel_stack, kstack_used>>
    /\ \A s \in Slots : Present(s)' => Present(s)

LEMMA RescheduledQuiet ==
    ASSUME TypeOK, SchedulerTypes, NEW st, NEW dirs, Rescheduled(st, dirs),
           \A s \in Slots : st[s] # "DEAD" => Present(s),
           UNCHANGED <<pid, next_pid, kernel_stack, kstack_used>>
    PROVE  Quiet
  BY DEF Quiet, Present, Rescheduled, SchedulerTypes

LEMMA KillTypes ==
    ASSUME TypeOK, NEW t, NEW p
    PROVE  /\ [state EXCEPT ![t] = "DEAD"] \in [Slots -> States]
           /\ Wake([state EXCEPT ![t] = "DEAD"], p) \in [Slots -> States]
           /\ \A s \in Slots :
                /\ Wake([state EXCEPT ![t] = "DEAD"], p)[s] = "DEAD"
                     <=> s = t \/ state[s] = "DEAD"
                /\ Wake([state EXCEPT ![t] = "DEAD"], p)[s] = "RUNNING"
                     => state[s] = "RUNNING"
  <1> DEFINE dead == [state EXCEPT ![t] = "DEAD"]
  <1>1. dead \in [Slots -> States]
    BY DEF TypeOK, States
  <1>2. \A s \in Slots : /\ dead[s] = "DEAD" <=> s = t \/ state[s] = "DEAD"
                         /\ dead[s] = "RUNNING" => state[s] = "RUNNING"
    BY DEF TypeOK
  <1> HIDE DEF dead
  <1>3. /\ Wake(dead, p) \in [Slots -> States]
        /\ \A s \in Slots : Wake(dead, p)[s] = dead[s]
                             \/ (dead[s] = "WAITING" /\ Wake(dead, p)[s] = "READY")
    BY <1>1, WakeType DEF IsWaiter
  <1> QED BY <1>1, <1>2, <1>3 DEF dead

(* The steps that call scheduler(), on the table and with the directories  *)
(* they hand to it.                                                        *)
Reschedule(st, dirs) ==
    /\ st \in [Slots -> States]
    /\ \A s \in Slots : st[s] = "RUNNING" => state[s] = "RUNNING"
    /\ \A s \in Slots : st[s] # "DEAD" => Present(s)
    /\ SchedulerTypes
    /\ Rescheduled(st, dirs)

LEMMA ExitReschedules ==
    ASSUME TypeOK, process_exit
    PROVE  Reschedule(Wake([state EXCEPT ![current_pid] = "DEAD"], pid[current_pid]),
                      [page_directory EXCEPT ![current_pid] = "none"])
  <1> DEFINE st == Wake([state EXCEPT ![current_pid] = "DEAD"], pid[current_pid])
             dirs == [page_directory EXCEPT ![current_pid] = "none"]
  <1>1. scheduler(st, sleep_until, ticks, dirs, NoCall)
    BY DEF process_exit
  <1>0. /\ st \in [Slots -> States]
        /\ \A s \in Slots : /\ st[s] = "DEAD" <=> s = current_pid \/ state[s] = "DEAD"
                            /\ st[s] = "RUNNING" => state[s] = "RUNNING"
    BY KillTypes
  <1>2. /\ st \in [Slots -> States]
        /\ \A s \in Slots : st[s] = "RUNNING" => state[s] = "RUNNING"
        /\ \A s \in Slots : st[s] # "DEAD" => Present(s)
    BY <1>0, Zenon DEF Present
  <1>3. NoCall \in Calls
    BY DEF NoCall, Calls
  <1> HIDE DEF st, dirs
  <1>4. SchedulerTypes /\ Rescheduled(st, dirs)
    BY <1>1, <1>2, <1>3, SchedulerEffect
  <1>5. Reschedule(st, dirs)
    BY <1>2, <1>4 DEF Reschedule
  <1> QED BY <1>5 DEF st, dirs

LEMMA WaitReschedules ==
    ASSUME TypeOK, NEW p \in Pids, sys_wait(p)
    PROVE  Reschedule([state EXCEPT ![current_pid] = "WAITING"], page_directory)
  <1> DEFINE st == [state EXCEPT ![current_pid] = "WAITING"]
  <1>1. scheduler(st, sleep_until, ticks, page_directory, [kind |-> "wait", arg |-> p])
    BY DEF sys_wait
  <1>2. /\ st \in [Slots -> States]
        /\ \A s \in Slots : st[s] = "RUNNING" => state[s] = "RUNNING"
        /\ \A s \in Slots : st[s] # "DEAD" => Present(s)
    BY DEF TypeOK, States, Present
  <1>3. [kind |-> "wait", arg |-> p] \in Calls
    BY DEF Calls, Pids
  <1> HIDE DEF st
  <1>4. SchedulerTypes /\ Rescheduled(st, page_directory)
    BY <1>1, <1>2, <1>3, SchedulerEffect
  <1>5. Reschedule(st, page_directory)
    BY <1>2, <1>4 DEF Reschedule
  <1> QED BY <1>5 DEF st

LEMMA SleepReschedules ==
    ASSUME TypeOK, NEW n \in SleepTicks, sys_sleep(n)
    PROVE  Reschedule([state EXCEPT ![current_pid] = "SLEEPING"], page_directory)
  <1> DEFINE st    == [state EXCEPT ![current_pid] = "SLEEPING"]
             until == (ticks + n) % TickMod
  <1>1. scheduler(st, sleep_until', ticks, page_directory,
                  [kind |-> "sleep", arg |-> until])
    BY DEF sys_sleep
  <1>2. /\ st \in [Slots -> States]
        /\ \A s \in Slots : st[s] = "RUNNING" => state[s] = "RUNNING"
        /\ \A s \in Slots : st[s] # "DEAD" => Present(s)
    BY DEF TypeOK, States, Present
  <1>3. until \in Int
    <2>1. ticks + n \in Int /\ TickMod \in Nat \ {0}
      BY ProcessAssumption DEF TypeOK
    <2> QED BY <2>1, ModRange
  <1> HIDE DEF st, until
  <1>4. [kind |-> "sleep", arg |-> until] \in Calls
    BY <1>3 DEF Calls
  <1>5. SchedulerTypes /\ Rescheduled(st, page_directory)
    BY <1>1, <1>2, <1>4, SchedulerEffect
  <1>6. Reschedule(st, page_directory)
    BY <1>2, <1>5 DEF Reschedule
  <1> QED BY <1>6 DEF st

LEMMA YieldReschedules ==
    ASSUME TypeOK, NEW now, scheduler(state, sleep_until, now, page_directory, NoCall)
    PROVE  Reschedule(state, page_directory)
  <1>1. NoCall \in Calls
    BY DEF NoCall, Calls
  <1>2. state \in [Slots -> States]
    BY DEF TypeOK
  <1> QED BY <1>1, <1>2, SchedulerEffect DEF Reschedule, Present

(* Every step either takes a slot over, or is one of four kinds: a call of *)
(* scheduler() on the table as it is, or after one state was set; a kill;  *)
(* a change of the stack the kernel enters on; no change of the table.     *)
LEMMA QuietSteps ==
    ASSUME TypeOK, [NextAll]_vars,
           ~process_create_elf, ~ \E dir \in {"none", "own"} : CreateFails(dir)
    PROVE  Quiet
  <1>1. ASSUME NEW st, NEW dirs, Reschedule(st, dirs),
               UNCHANGED <<pid, next_pid, kernel_stack, kstack_used>>
        PROVE  Quiet
    BY <1>1, RescheduledQuiet DEF Reschedule
  <1>2. CASE FreeOwnStack
    BY <1>2 DEF FreeOwnStack, table, Quiet, Present
  <1>3. CASE process_exit
    BY <1>1, <1>3, ExitReschedules DEF process_exit
  <1>4. ASSUME NEW p \in Pids, sys_kill(p) PROVE Quiet
    <2>1. PICK t \in Slots : state' = Wake([state EXCEPT ![t] = "DEAD"], p)
      BY <1>4 DEF sys_kill
    <2>2. UNCHANGED <<pid, next_pid, kernel_stack, kstack_used, current_pid>>
      BY <1>4 DEF sys_kill
    <2>3. \A s \in Slots : state'[s] # "DEAD" => state[s] # "DEAD"
      BY <2>1, KillTypes
    <2> QED BY <2>2, <2>3 DEF Quiet, Present
  <1>5. ASSUME NEW p \in Pids, sys_wait(p) PROVE Quiet
    BY <1>1, <1>5, WaitReschedules DEF sys_wait
  <1>6. ASSUME NEW n \in SleepTicks, sys_sleep(n) PROVE Quiet
    BY <1>1, <1>6, SleepReschedules DEF sys_sleep
  <1>7. CASE sys_yield
    BY <1>1, <1>7, YieldReschedules DEF sys_yield
  <1>8. CASE timer_handler
    <2>1. CASE ticks' % Quantum = 0
      BY <1>1, <1>8, <2>1, YieldReschedules DEF timer_handler
    <2>2. CASE ticks' % Quantum # 0
      BY <1>8, <2>2 DEF timer_handler, Quiet, Present
    <2> QED BY <2>1, <2>2
  <1>9. CASE sys_exec
    BY <1>9 DEF sys_exec, Quiet, Present
  <1>10. ASSUME NEW p, keyboard_set_sigint_target(p) PROVE Quiet
    BY <1>10 DEF keyboard_set_sigint_target, table, Quiet, Present
  <1>11. CASE ctrl_c
    <2>1. \/ state' = Wake([state EXCEPT ![sigint_target] = "DEAD"], sigint_target)
          \/ UNCHANGED state
      BY <1>11 DEF ctrl_c
    <2>2. \A s \in Slots : state'[s] # "DEAD" => state[s] # "DEAD"
      BY <2>1, KillTypes
    <2> QED BY <1>11, <2>2 DEF ctrl_c, Quiet, Present
  <1>12. CASE UNCHANGED vars
    BY <1>12 DEF vars, table, Quiet, Present
  <1> QED
    BY <1>2, <1>3, <1>4, <1>5, <1>6, <1>7, <1>8, <1>9, <1>10, <1>11, <1>12
       DEF NextAll, Next, Syscall

-----------------------------------------------------------------------------
(* Only the slot the CPU is in is marked RUNNING.                          *)

LEMMA RunningStep ==
    TypeOK /\ RunningIsCurrent /\ [NextAll]_vars => RunningIsCurrent'
  <1> SUFFICES ASSUME TypeOK, RunningIsCurrent, [NextAll]_vars
               PROVE  RunningIsCurrent'
    OBVIOUS
  <1>1. ASSUME NEW st, NEW dirs, Reschedule(st, dirs) PROVE RunningIsCurrent'
    BY <1>1 DEF Reschedule, Rescheduled, SchedulerTypes, RunningIsCurrent
  <1>2. ASSUME UNCHANGED current_pid,
               \A s \in Slots : state'[s] = "RUNNING" => state[s] = "RUNNING"
        PROVE  RunningIsCurrent'
    BY <1>2 DEF RunningIsCurrent
  <1>3. CASE process_create_elf
    BY <1>2, <1>3 DEF process_create_elf, TakeSlot, TypeOK
  <1>4. CASE \E dir \in {"none", "own"} : CreateFails(dir)
    BY <1>2, <1>4 DEF CreateFails, TakeSlot
  <1>5. CASE FreeOwnStack
    BY <1>2, <1>5 DEF FreeOwnStack, table
  <1>6. CASE process_exit
    BY <1>1, <1>6, ExitReschedules
  <1>7. ASSUME NEW p \in Pids, sys_kill(p) PROVE RunningIsCurrent'
    <2>1. PICK t \in Slots : state' = Wake([state EXCEPT ![t] = "DEAD"], p)
      BY <1>7 DEF sys_kill
    <2>2. \A s \in Slots : state'[s] = "RUNNING" => state[s] = "RUNNING"
      BY <2>1, KillTypes
    <2> QED BY <1>2, <1>7, <2>2 DEF sys_kill
  <1>8. ASSUME NEW p \in Pids, sys_wait(p) PROVE RunningIsCurrent'
    BY <1>1, <1>8, WaitReschedules
  <1>9. ASSUME NEW n \in SleepTicks, sys_sleep(n) PROVE RunningIsCurrent'
    BY <1>1, <1>9, SleepReschedules
  <1>10. CASE sys_yield
    BY <1>1, <1>10, YieldReschedules DEF sys_yield
  <1>11. CASE timer_handler
    <2>1. CASE ticks' % Quantum = 0
      BY <1>1, <1>11, <2>1, YieldReschedules DEF timer_handler
    <2>2. CASE ticks' % Quantum # 0
      BY <1>2, <1>11, <2>2 DEF timer_handler
    <2> QED BY <2>1, <2>2
  <1>12. CASE sys_exec
    BY <1>2, <1>12 DEF sys_exec
  <1>13. ASSUME NEW p, keyboard_set_sigint_target(p) PROVE RunningIsCurrent'
    BY <1>2, <1>13 DEF keyboard_set_sigint_target, table
  <1>14. CASE ctrl_c
    <2>1. \/ state' = Wake([state EXCEPT ![sigint_target] = "DEAD"], sigint_target)
          \/ UNCHANGED state
      BY <1>14 DEF ctrl_c
    <2>2. \A s \in Slots : state'[s] = "RUNNING" => state[s] = "RUNNING"
      BY <2>1, KillTypes
    <2> QED BY <1>2, <1>14, <2>2 DEF ctrl_c
  <1>15. CASE UNCHANGED vars
    BY <1>2, <1>15 DEF vars, table
  <1> QED
    BY <1>3, <1>4, <1>5, <1>6, <1>7, <1>8, <1>9, <1>10, <1>11, <1>12, <1>13,
       <1>14, <1>15 DEF NextAll, Next, Syscall

(* scheduler() leaves no second RUNNING entry in the table, whoever calls, *)
(* kills, sleeps or is interrupted in between (process.c:485-491).         *)
THEOREM OneRunning == SpecAll => []RunningIsCurrent
  <1>1. Init => RunningIsCurrent
    BY DEF Init, RunningIsCurrent
  <1> QED
    BY <1>1, TypeCorrect, RunningStep, PTL DEF SpecAll

-----------------------------------------------------------------------------
(* Pids.  A pid is smaller than the next one, and no slot has a pid that   *)
(* another one has, but for the 0 of the slots that were never used.  Init *)
(* has that pid too, so that one must know that only slot 0 lives with it. *)
PidInv ==
    /\ \A s \in Slots : pid[s] < next_pid
    /\ \A s, t \in Slots : s # t /\ pid[s] = pid[t] => pid[s] = 0
    /\ \A s \in Slots \ {0} : Present(s) => pid[s] # 0

LEMMA PidStep == TypeOK /\ PidInv /\ [NextAll]_vars => PidInv'
  <1> SUFFICES ASSUME TypeOK, PidInv, [NextAll]_vars PROVE PidInv'
    OBVIOUS
  <1>1. ASSUME NEW slot \in Slots, TakeSlot(slot),
               \A s \in Slots \ {slot} : state'[s] = state[s]
        PROVE  PidInv'
    <2>1. /\ pid' = [pid EXCEPT ![slot] = next_pid]
          /\ next_pid' = next_pid + 1
          /\ current_pid' = current_pid
      BY <1>1, TakenSlot
    <2>2. \A s \in Slots : pid'[s] < next_pid'
      BY <2>1 DEF TypeOK, PidInv, Pids
    <2>3. \A s, t \in Slots : s # t /\ pid'[s] = pid'[t] => pid'[s] = 0
      BY <2>1 DEF TypeOK, PidInv, Pids
    <2>4. \A s \in Slots \ {0} : Present(s)' => pid'[s] # 0
      BY <1>1, <2>1 DEF TypeOK, PidInv, Present
    <2> QED BY <2>2, <2>3, <2>4 DEF PidInv
  <1>2. CASE process_create_elf
    BY <1>1, <1>2 DEF process_create_elf, TypeOK
  <1>3. CASE \E dir \in {"none", "own"} : CreateFails(dir)
    BY <1>1, <1>3 DEF CreateFails
  <1>4. CASE Quiet
    BY <1>4 DEF Quiet, PidInv
  <1> QED BY <1>2, <1>3, <1>4, QuietSteps

(* Two live processes never have one pid, also when a process that was     *)
(* killed while it executes calls on and is entered in the table again.    *)
THEOREM PidsAreUnique == SpecAll => []UniquePids
  <1>1. Init => PidInv
    BY DEF Init, PidInv, Present
  <1>2. SpecAll => []PidInv
    BY <1>1, TypeCorrect, PidStep, PTL DEF SpecAll
  <1>3. PidInv => UniquePids
    BY DEF PidInv, UniquePids, Present
  <1> QED BY <1>2, <1>3, PTL

-----------------------------------------------------------------------------
(* Kernel stacks.  Slot 0 keeps the boot stack, and the others never have  *)
(* it.                                                                     *)
StackInv ==
    /\ KStackOwnership
    /\ kernel_stack[0] = Boot
    /\ \A s \in Slots \ {0} : kernel_stack[s] # Boot

(* Freeing the stack of a slot leaves the stacks of the others in use.     *)
LEMMA FreeStack ==
    ASSUME TypeOK, StackInv, NEW slot \in Slots \ {0}
    PROVE  kstack_free(slot) = {kernel_stack[s] : s \in Slots \ {0, slot}} \ {None}
  <1>1. \A s \in Slots \ {0, slot} :
          kernel_stack[s] = kernel_stack[slot] => kernel_stack[s] = None
    BY DEF StackInv, KStackOwnership
  <1>2. kstack_used = {kernel_stack[s] : s \in Slots \ {0}} \ {None}
    BY DEF StackInv, KStackOwnership
  <1> QED BY <1>1, <1>2 DEF kstack_free

LEMMA StackStep == TypeOK /\ StackInv /\ [NextAll]_vars => StackInv'
  <1> SUFFICES ASSUME TypeOK, StackInv, [NextAll]_vars PROVE StackInv'
    OBVIOUS
  <1> USE SlotZero
  <1>1. CASE process_create_elf
    <2>1. PICK slot \in Slots, k \in Slots :
            /\ slot # 0
            /\ k \notin kstack_free(slot)
            /\ kstack_used' = kstack_free(slot) \union {k}
            /\ kernel_stack' = [kernel_stack EXCEPT ![slot] = k]
      BY <1>1, TakenSlot DEF process_create_elf, kstack_alloc
    <2>2. kstack_free(slot) = {kernel_stack[s] : s \in Slots \ {0, slot}} \ {None}
      BY <2>1, FreeStack
    <2>3. kernel_stack'[slot] = k /\ k # None /\ k # Boot
      BY <2>1 DEF TypeOK, Slots, None, Boot
    <2>4. \A s \in Slots \ {slot} : kernel_stack'[s] = kernel_stack[s]
      BY <2>1 DEF TypeOK
    <2>5. \A s \in Slots \ {slot} : kernel_stack[s] # k
      <3>1. kernel_stack[0] # k
        BY <2>3 DEF StackInv
      <3>2. \A s \in Slots \ {0, slot} : kernel_stack[s] # k
        BY <2>1, <2>2, <2>3
      <3> QED BY <3>1, <3>2
    <2>6. kstack_used' = {kernel_stack'[s] : s \in Slots \ {0}} \ {None}
      BY <2>1, <2>2, <2>3, <2>4
    <2>7. \A s, t \in Slots : kernel_stack'[s] = kernel_stack'[t] /\ s # t
                              => kernel_stack'[s] = None
      BY <2>3, <2>4, <2>5 DEF StackInv, KStackOwnership
    <2> QED BY <2>1, <2>3, <2>4, <2>6, <2>7 DEF StackInv, KStackOwnership
  <1>2. CASE \E dir \in {"none", "own"} : CreateFails(dir)
    <2>1. PICK slot \in Slots :
            /\ slot # 0
            /\ kstack_used' = kstack_free(slot)
            /\ kernel_stack' = [kernel_stack EXCEPT ![slot] = None]
      BY <1>2, TakenSlot DEF CreateFails
    <2>2. kstack_free(slot) = {kernel_stack[s] : s \in Slots \ {0, slot}} \ {None}
      BY <2>1, FreeStack
    <2>3. /\ kernel_stack'[slot] = None /\ None # Boot
          /\ \A s \in Slots \ {slot} : kernel_stack'[s] = kernel_stack[s]
      BY <2>1 DEF TypeOK, None, Boot
    <2>4. kstack_used' = {kernel_stack'[s] : s \in Slots \ {0}} \ {None}
      BY <2>1, <2>2, <2>3
    <2>5. \A s, t \in Slots : kernel_stack'[s] = kernel_stack'[t] /\ s # t
                              => kernel_stack'[s] = None
      BY <2>3 DEF StackInv, KStackOwnership
    <2> QED BY <2>1, <2>3, <2>4, <2>5 DEF StackInv, KStackOwnership
  <1>3. CASE Quiet
    BY <1>3 DEF Quiet, StackInv, KStackOwnership
  <1> QED BY <1>1, <1>2, <1>3, QuietSteps

(* No kernel stack is shared by two slots or lost by the allocator,        *)
(* although a stack outlives its process and is freed by the next owner of *)
(* the slot, also when process_create_elf fails half-way.                  *)
THEOREM StacksAreOwned == SpecAll => []KStackOwnership
  <1>1. Init => StackInv
    BY SlotZero DEF Init, StackInv, KStackOwnership, Boot, None
  <1>2. SpecAll => []StackInv
    BY <1>1, TypeCorrect, StackStep, PTL DEF SpecAll
  <1> QED BY <1>2, PTL DEF StackInv

-----------------------------------------------------------------------------
(* The process table without exec and without Ctrl+C: nobody waits for a   *)
(* process that is gone.  If in addition a process that is DEAD calls no   *)
(* more, a parent comes back only when its child is dead, and the CPU      *)
(* never runs on a stack that is not its slot's.  (With any one of the     *)
(* three TLC finds a counterexample: see the README.)                      *)
LEMMA NextIsNextAll == [Next]_vars => [NextAll]_vars
  BY DEF NextAll

LEMMA SpecIsSpecAll == Spec => SpecAll
  BY NextIsNextAll, PTL DEF Spec, SpecAll

-----------------------------------------------------------------------------
(* The waiters in a table st whose waiting_for fields are wf: each waits   *)
(* for a process that is alive in st.                                      *)
TargetsAlive(st, wf) ==
    \A s \in Slots : st[s] = "WAITING" =>
        \E u \in Slots : st[u] # "DEAD" /\ pid[u] = wf[s]

(* The loop that wakes the waiters of a dead process misses none.          *)
LEMMA KillLeavesNoWaiter ==
    ASSUME TypeOK, WaitTargetAlive, NEW t \in Slots
    PROVE  LET dead == [state EXCEPT ![t] = "DEAD"]
           IN  TargetsAlive(Wake(dead, pid[t]), WakeFor(dead, pid[t]))
  <1> DEFINE dead == [state EXCEPT ![t] = "DEAD"]
             st   == Wake(dead, pid[t])
             wf   == WakeFor(dead, pid[t])
  <1> SUFFICES ASSUME NEW s \in Slots, st[s] = "WAITING"
               PROVE  \E u \in Slots : st[u] # "DEAD" /\ pid[u] = wf[s]
    BY DEF TargetsAlive
  <1>1. dead[s] = "WAITING" /\ waiting_for[s] # pid[t]
    BY DEF Wake, IsWaiter
  <1>2. s # t /\ state[s] = "WAITING"
    BY <1>1 DEF TypeOK
  <1>3. wf[s] = waiting_for[s]
    BY <1>1 DEF WakeFor, IsWaiter
  <1>4. PICK u \in Slots : state[u] # "DEAD" /\ pid[u] = waiting_for[s]
    BY <1>2 DEF WaitTargetAlive, Alive
  <1>5. u # t
    BY <1>1, <1>4
  <1>6. st[u] # "DEAD"
    <2>1. dead[u] = state[u]
      BY <1>5 DEF TypeOK
    <2>2. st[u] \in {dead[u], "READY"}
      BY DEF Wake
    <2> QED BY <1>4, <2>1, <2>2
  <1> QED BY <1>3, <1>4, <1>6

LEMMA WaitStep == TypeOK /\ WaitTargetAlive /\ [Next]_vars => WaitTargetAlive'
  <1> SUFFICES ASSUME TypeOK, WaitTargetAlive, [Next]_vars PROVE WaitTargetAlive'
    OBVIOUS
  <1>1. ASSUME NEW st, NEW dirs, Reschedule(st, dirs), UNCHANGED pid,
               TargetsAlive(st, waiting_for')
        PROVE  WaitTargetAlive'
    BY <1>1 DEF Reschedule, Rescheduled, TargetsAlive, WaitTargetAlive, Alive
  <1>2. ASSUME NEW slot \in Slots, TakeSlot(slot),
               state' = state \/ state' = [state EXCEPT ![slot] = "READY"]
        PROVE  WaitTargetAlive'
    <2>1. /\ state[slot] = "DEAD"
          /\ pid' = [pid EXCEPT ![slot] = next_pid]
          /\ waiting_for' = [waiting_for EXCEPT ![slot] = None]
      BY <1>2, TakenSlot
    <2>2. \A s \in Slots \ {slot} : /\ state'[s] = state[s]
                                    /\ pid'[s] = pid[s]
                                    /\ waiting_for'[s] = waiting_for[s]
      BY <1>2, <2>1 DEF TypeOK
    <2>3. state'[slot] # "WAITING"
      BY <1>2, <2>1 DEF TypeOK
    <2> QED BY <2>1, <2>2, <2>3 DEF WaitTargetAlive, Alive
  <1>3. CASE process_create_elf
    BY <1>2, <1>3 DEF process_create_elf
  <1>4. CASE \E dir \in {"none", "own"} : CreateFails(dir)
    BY <1>2, <1>4 DEF CreateFails
  <1>5. CASE FreeOwnStack
    BY <1>5 DEF FreeOwnStack, table, WaitTargetAlive, Alive
  <1>6. CASE process_exit
    <2>1. current_pid \in Slots
      BY DEF TypeOK
    <2>2. TargetsAlive(Wake([state EXCEPT ![current_pid] = "DEAD"], pid[current_pid]),
                       waiting_for')
      BY <1>6, <2>1, KillLeavesNoWaiter DEF process_exit
    <2> QED BY <1>1, <1>6, <2>2, ExitReschedules DEF process_exit
  <1>7. ASSUME NEW p \in Pids, sys_kill(p) PROVE WaitTargetAlive'
    <2>1. PICK t \in Slots :
            /\ pid[t] = p
            /\ state' = Wake([state EXCEPT ![t] = "DEAD"], p)
            /\ waiting_for' = WakeFor([state EXCEPT ![t] = "DEAD"], p)
      BY <1>7 DEF sys_kill
    <2>2. TargetsAlive(state', waiting_for')
      BY <2>1, KillLeavesNoWaiter
    <2> QED BY <1>7, <2>2 DEF sys_kill, TargetsAlive, WaitTargetAlive, Alive
  <1>8. ASSUME NEW p \in Pids, sys_wait(p) PROVE WaitTargetAlive'
    <2> DEFINE st == [state EXCEPT ![current_pid] = "WAITING"]
    <2>1. /\ Alive(p) /\ UNCHANGED pid
          /\ waiting_for' = [waiting_for EXCEPT ![current_pid] = p]
      BY <1>8 DEF sys_wait
    <2>2. /\ st[current_pid] = "WAITING"
          /\ \A s \in Slots : state[s] # "DEAD" => st[s] # "DEAD"
          /\ \A s \in Slots \ {current_pid} : /\ st[s] = state[s]
                                              /\ waiting_for'[s] = waiting_for[s]
          /\ waiting_for'[current_pid] = p
      BY <2>1 DEF TypeOK
    <2>3. TargetsAlive(st, waiting_for')
      <3>1. ASSUME NEW s \in Slots, st[s] = "WAITING"
            PROVE  \E u \in Slots : st[u] # "DEAD" /\ pid[u] = waiting_for'[s]
        <4>1. CASE s = current_pid
          BY <2>1, <2>2, <4>1 DEF Alive
        <4>2. CASE s # current_pid
          BY <2>2, <3>1, <4>2 DEF WaitTargetAlive, Alive
        <4> QED BY <4>1, <4>2
      <3> QED BY <3>1 DEF TargetsAlive
    <2> QED BY <1>1, <1>8, <2>1, <2>3, WaitReschedules
  <1>9. ASSUME NEW n \in SleepTicks, sys_sleep(n) PROVE WaitTargetAlive'
    <2>1. TargetsAlive([state EXCEPT ![current_pid] = "SLEEPING"], waiting_for)
      BY DEF TypeOK, TargetsAlive, WaitTargetAlive, Alive
    <2> QED BY <1>1, <1>9, <2>1, SleepReschedules DEF sys_sleep
  <1>10. TargetsAlive(state, waiting_for)
    BY DEF TargetsAlive, WaitTargetAlive, Alive
  <1>11. CASE sys_yield
    BY <1>1, <1>10, <1>11, YieldReschedules DEF sys_yield
  <1>12. CASE timer_handler
    <2>1. CASE ticks' % Quantum = 0
      BY <1>1, <1>10, <1>12, <2>1, YieldReschedules DEF timer_handler
    <2>2. CASE ticks' % Quantum # 0
      BY <1>12, <2>2 DEF timer_handler, WaitTargetAlive, Alive
    <2> QED BY <2>1, <2>2
  <1>13. CASE UNCHANGED vars
    BY <1>13 DEF vars, table, WaitTargetAlive, Alive
  <1> QED
    BY <1>3, <1>4, <1>5, <1>6, <1>7, <1>8, <1>9, <1>11, <1>12, <1>13
       DEF Next, Syscall

(* No lost wake-up: whatever exits, faults, kills, spawns and reuses of    *)
(* slots come in between, a process that is WAITING waits for a live one,  *)
(* so that process_exit or SYS_KILL will still come by and wake it.        *)
THEOREM NobodyWaitsForTheDead == Spec => []WaitTargetAlive
  <1>1. Init => WaitTargetAlive
    BY DEF Init, WaitTargetAlive
  <1>2. Spec => []TypeOK
    BY SpecIsSpecAll, TypeCorrect, PTL
  <1> QED BY <1>1, <1>2, WaitStep, PTL DEF Spec

-----------------------------------------------------------------------------
(* A parent comes back from sys_wait only when its child is dead, on the   *)
(* machine in which a process that is DEAD calls no more.                  *)
Gone(p) == \A t \in Slots : pid[t] = p => state[t] = "DEAD"

(* Whoever is switched out inside sys_wait still waits for the pid it gave *)
(* or has been woken, and then that pid is gone for good: its slot may be  *)
(* taken over, but under another pid.  Pid 0 is init's and never dies.     *)
WaitInv ==
    /\ pid[0] = 0
    /\ \A s \in Slots \ {current_pid} :
         state[s] # "DEAD" /\ call[s].kind = "wait" =>
           /\ call[s].arg < next_pid
           /\ \/ state[s] = "WAITING" /\ waiting_for[s] = call[s].arg
              \/ call[s].arg # 0 /\ Gone(call[s].arg)

(* The step of WaitReturnsAfterDeath.                                      *)
Returns ==
    \A s \in Slots :
        s # current_pid /\ current_pid' = s /\ call[s].kind = "wait"
        => \A t \in Slots : pid'[t] = call[s].arg => state'[t] = "DEAD"

-----------------------------------------------------------------------------
(* Where scheduler() goes, and what it leaves on the stacks of the slots   *)
(* it does not go to.                                                      *)
LEMMA SchedulerCalls ==
    ASSUME TypeOK, NEW st \in [Slots -> States], NEW until, NEW now, NEW dirs,
           NEW c \in Calls, scheduler(st, until, now, dirs, c)
    PROVE  /\ current_pid' # current_pid => st[current_pid'] # "WAITING"
           /\ \A s \in Slots \ {current_pid'} :
                call'[s] = IF s = current_pid THEN c ELSE call[s]
  <1> DEFINE woken == Awake(st, until, now)
  <1>1. /\ woken \in [Slots -> States]
        /\ \A s \in Slots : 
             \/ woken[s] = st[s]
             \/ st[s] = "SLEEPING" /\ woken[s] = "READY"
    BY AwakeType
  <1>2. current_pid \in Slots
    BY DEF TypeOK
  <1>3. PICK next \in Slots :
          /\ IsNext(woken, next)
          /\ \/ /\ next = current_pid
                /\ call' = [call EXCEPT ![current_pid] = AfterScheduler(c)]
                /\ UNCHANGED current_pid
             \/ /\ next # current_pid
                /\ call' = [call EXCEPT ![current_pid] = c,
                                        ![next] = AfterScheduler(@)]
                /\ current_pid' = next
    BY DEF scheduler
  <1> HIDE DEF woken
  <1>4. CASE next = current_pid
    BY <1>2, <1>3, <1>4 DEF TypeOK
  <1>5. CASE next # current_pid
    <2>1. woken[next] \in {"READY", "RUNNING"}
      BY <1>1, <1>3, <1>5, NextWasRunnable
    <2>2. st[next] # "WAITING"
      BY <2>1, <1>1
    <2>3. /\ call' = [call EXCEPT ![current_pid] = c, ![next] = AfterScheduler(@)]
          /\ current_pid' = next
      BY <1>3, <1>5
    <2> QED BY <2>2, <2>3, <1>2 DEF TypeOK
  <1> QED BY <1>4, <1>5

(* A call of scheduler() keeps WaitInv and resumes no waiter too early, if *)
(* its caller left each waiter alone or woke it because its child is gone. *)
LEMMA WaitersKept ==
    ASSUME TypeOK, WaitInv,
           NEW st, NEW until, NEW now, NEW dirs, NEW c \in Calls,
           scheduler(st, until, now, dirs, c), Reschedule(st, dirs),
           UNCHANGED <<pid, next_pid>>,
           \A t \in Slots : st[t] # "DEAD" => state[t] # "DEAD" \/ t = 0,
           \A s \in Slots \ {current_pid} :
             \/ st[s] = "DEAD"
             \/ /\ state[s] # "DEAD"
                /\ \/ st[s] = state[s] /\ waiting_for'[s] = waiting_for[s]
                   \/ /\ state[s] = "WAITING"
                      /\ waiting_for[s] # 0
                      /\ \A t \in Slots : pid[t] = waiting_for[s] => st[t] = "DEAD",
           c.kind = "wait" => /\ st[current_pid] = "WAITING"
                              /\ waiting_for'[current_pid] = c.arg
                              /\ c.arg < next_pid
    PROVE  WaitInv' /\ Returns
  <1>1. /\ st \in [Slots -> States]
        /\ \A s \in Slots : /\ state'[s] = "DEAD" <=> st[s] = "DEAD"
                            /\ state'[s] = "WAITING" <=> st[s] = "WAITING"
        /\ current_pid' # current_pid => st[current_pid'] # "DEAD"
        /\ current_pid \in Slots /\ current_pid' \in Slots
    BY DEF Reschedule, Rescheduled, SchedulerTypes, TypeOK
  <1>2. /\ current_pid' # current_pid => st[current_pid'] # "WAITING"
        /\ \A s \in Slots \ {current_pid'} :
             call'[s] = IF s = current_pid THEN c ELSE call[s]
    BY <1>1, SchedulerCalls
  <1>3. ASSUME NEW p, p # 0, Gone(p) PROVE \A t \in Slots : pid[t] = p => st[t] = "DEAD"
    BY <1>3 DEF Gone, WaitInv
  <1>4. ASSUME NEW s \in Slots \ {current_pid}, st[s] # "DEAD", call[s].kind = "wait"
        PROVE  /\ call[s].arg < next_pid
               /\ \/ /\ st[s] = "WAITING"
                     /\ waiting_for'[s] = call[s].arg
                  \/ /\ call[s].arg # 0
                     /\ \A t \in Slots : pid[t] = call[s].arg => st[t] = "DEAD"
    BY <1>3, <1>4 DEF WaitInv
  <1>5. \A s \in Slots \ {current_pid'} :
          state'[s] # "DEAD" /\ call'[s].kind = "wait" =>
            /\ call'[s].arg < next_pid'
            /\ \/ state'[s] = "WAITING" /\ waiting_for'[s] = call'[s].arg
               \/ call'[s].arg # 0 /\ Gone(call[s].arg)'
    <2> SUFFICES ASSUME NEW s \in Slots \ {current_pid'},
                        state'[s] # "DEAD", call'[s].kind = "wait"
                 PROVE  /\ call'[s].arg < next_pid
                        /\ \/ state'[s] = "WAITING" /\ waiting_for'[s] = call'[s].arg
                           \/ /\ call'[s].arg # 0
                              /\ \A t \in Slots : pid[t] = call'[s].arg
                                                  => state'[t] = "DEAD"
      <3>1. pid' = pid /\ next_pid' = next_pid
        OBVIOUS
      <3>2. \A s \in Slots :
              Gone(call[s].arg)'
              <=> \A t \in Slots : pid'[t] = call'[s].arg => state'[t] = "DEAD"
        BY DEF Gone
      <3> QED BY <3>1, <3>2
    <2>1. CASE s = current_pid
      BY <2>1, <1>1, <1>2
    <2>2. CASE s # current_pid
      BY <2>2, <1>1, <1>2, <1>4
    <2> QED BY <2>1, <2>2
  <1>6. WaitInv'
    <2>1. pid'[0] = 0
      BY DEF WaitInv
    <2> QED BY <1>5, <2>1 DEF WaitInv
  <1>7. Returns
    BY <1>1, <1>2, <1>4 DEF Returns
  <1> QED BY <1>6, <1>7

-----------------------------------------------------------------------------
(* After the kill of the process in slot t, and the loop over its waiters. *)
LEMMA KilledWaiters ==
    ASSUME TypeOK, PidInv, NEW t \in Slots, pid[t] # 0
    PROVE  LET dead == [state EXCEPT ![t] = "DEAD"]
               st   == Wake(dead, pid[t])
               wf   == WakeFor(dead, pid[t])
           IN  \A s \in Slots :
                 \/ st[s] = "DEAD"
                 \/ /\ state[s] # "DEAD"
                    /\ \/ st[s] = state[s] /\ wf[s] = waiting_for[s]
                       \/ /\ state[s] = "WAITING"
                          /\ waiting_for[s] # 0
                          /\ \A u \in Slots : pid[u] = waiting_for[s] => st[u] = "DEAD"
  <1> DEFINE dead == [state EXCEPT ![t] = "DEAD"]
             st   == Wake(dead, pid[t])
             wf   == WakeFor(dead, pid[t])
  <1>1. /\ dead[t] = "DEAD"
        /\ \A s \in Slots \ {t} : dead[s] = state[s]
    BY DEF TypeOK
  <1>2. \A u \in Slots : pid[u] = pid[t] => u = t
    BY DEF PidInv
  <1> HIDE DEF dead
  <1>3. \A s \in Slots : 
          \/ st[s] = dead[s] /\ wf[s] = waiting_for[s]
          \/ dead[s] = "WAITING" /\ waiting_for[s] = pid[t]
    BY DEF Wake, WakeFor, IsWaiter
  <1>4. st[t] = "DEAD"
    BY <1>1 DEF Wake, IsWaiter
  <1> HIDE DEF st, wf
  <1>5. \A s \in Slots :
          \/ st[s] = "DEAD"
          \/ /\ state[s] # "DEAD"
             /\ \/ st[s] = state[s] /\ wf[s] = waiting_for[s]
                \/ /\ state[s] = "WAITING"
                   /\ waiting_for[s] # 0
                   /\ \A u \in Slots : pid[u] = waiting_for[s] => st[u] = "DEAD"
    BY <1>1, <1>2, <1>3, <1>4
  <1> QED BY <1>5 DEF st, wf, dead

(* Steps that leave the CPU, the calls and the pids where they are.        *)
LEMMA StayingWaiters ==
    ASSUME WaitInv, NEW st,
           UNCHANGED <<pid, next_pid, call, current_pid>>, state' = st,
           \A s \in Slots :
             \/ st[s] = "DEAD"
             \/ /\ state[s] # "DEAD"
                /\ \/ st[s] = state[s] /\ waiting_for'[s] = waiting_for[s]
                   \/ /\ state[s] = "WAITING"
                      /\ waiting_for[s] # 0
                      /\ \A t \in Slots : pid[t] = waiting_for[s] => st[t] = "DEAD"
    PROVE  WaitInv' /\ Returns
  <1>1. \A p : Gone(p) => Gone(p)'
    BY DEF Gone
  <1>2. ASSUME NEW s \in Slots \ {current_pid}, state'[s] # "DEAD", call[s].kind = "wait"
        PROVE  /\ call[s].arg < next_pid
               /\ \/ state'[s] = "WAITING" /\ waiting_for'[s] = call[s].arg
                  \/ /\ call[s].arg # 0
                     /\ \A t \in Slots : pid[t] = call[s].arg => state'[t] = "DEAD"
    <2>1. /\ call[s].arg < next_pid
          /\ \/ state[s] = "WAITING" /\ waiting_for[s] = call[s].arg
             \/ call[s].arg # 0 /\ Gone(call[s].arg)
      BY <1>2 DEF WaitInv
    <2> QED BY <1>1, <1>2, <2>1 DEF Gone
  <1>3. /\ pid' = pid /\ next_pid' = next_pid
        /\ call' = call /\ current_pid' = current_pid
    OBVIOUS
  <1>4. \A s \in Slots :
          Gone(call[s].arg)'
          <=> \A t \in Slots : pid[t] = call[s].arg => state'[t] = "DEAD"
    BY <1>3 DEF Gone
  <1>5. pid[0] = 0
    BY DEF WaitInv
  <1>6. WaitInv'
    BY <1>2, <1>3, <1>4, <1>5 DEF WaitInv
  <1>7. Returns
    BY <1>3 DEF Returns
  <1> QED BY <1>6, <1>7

LEMMA WaitInvStep ==
    ASSUME ExitedMayCall = FALSE
    PROVE  TypeOK /\ PidInv /\ WaitInv /\ [Next]_vars => WaitInv' /\ (Returns \/ UNCHANGED vars)
  <1> SUFFICES ASSUME TypeOK, PidInv, WaitInv, [Next]_vars
               PROVE  WaitInv' /\ (Returns \/ UNCHANGED vars)
    OBVIOUS
  <1>0. NoCall \in Calls /\ NoCall.kind # "wait"
    BY DEF NoCall, Calls
  <1>a. CanCall => current_pid = 0 \/ state[current_pid] # "DEAD"
    BY DEF CanCall
  <1>1. ASSUME NEW slot \in Slots, TakeSlot(slot),
               \/ state' = state /\ call' = call
               \/ /\ state' = [state EXCEPT ![slot] = "READY"]
                  /\ call' = [call EXCEPT ![slot] = NoCall]
        PROVE  WaitInv' /\ Returns
    <2>1. /\ slot # 0 /\ state[slot] = "DEAD"
          /\ pid' = [pid EXCEPT ![slot] = next_pid]
          /\ next_pid' = next_pid + 1 /\ next_pid \in Nat
          /\ waiting_for' = [waiting_for EXCEPT ![slot] = None]
          /\ current_pid' = current_pid
      BY <1>1, TakenSlot DEF TypeOK
    <2>2. /\ \A s \in Slots \ {slot} : /\ state'[s] = state[s]
                                       /\ call'[s] = call[s]
                                       /\ pid'[s] = pid[s]
                                       /\ waiting_for'[s] = waiting_for[s]
          /\ pid'[slot] = next_pid
          /\ state'[slot] = "DEAD" \/ call'[slot].kind # "wait"
      BY <1>1, <2>1, <1>0 DEF TypeOK
    <2>3. \A p \in Int : p < next_pid /\ Gone(p) => Gone(p)'
      BY <2>1, <2>2 DEF Gone
    <2>4. \A s \in Slots : call[s].arg \in Int
      BY DEF TypeOK, Calls
    <2>5. pid'[0] = 0
      BY <2>1, <2>2, SlotZero DEF WaitInv
    <2>6. \A s \in Slots \ {current_pid'} :
            state'[s] # "DEAD" /\ call'[s].kind = "wait" =>
              /\ call'[s].arg < next_pid'
              /\ \/ state'[s] = "WAITING" /\ waiting_for'[s] = call'[s].arg
                 \/ call'[s].arg # 0 /\ Gone(call[s].arg)'
      <3> SUFFICES ASSUME NEW s \in Slots \ {current_pid},
                          state'[s] # "DEAD", call'[s].kind = "wait"
                   PROVE  /\ call'[s].arg < next_pid'
                          /\ \/ state'[s] = "WAITING" /\ waiting_for'[s] = call'[s].arg
                             \/ call'[s].arg # 0 /\ Gone(call[s].arg)'
        BY <2>1
      <3>1. s # slot
        BY <2>2
      <3>2. /\ call'[s] = call[s] /\ state'[s] = state[s]
            /\ waiting_for'[s] = waiting_for[s]
        BY <2>2, <3>1
      <3>3. /\ call[s].arg < next_pid
            /\ \/ state[s] = "WAITING" /\ waiting_for[s] = call[s].arg
               \/ call[s].arg # 0 /\ Gone(call[s].arg)
        BY <3>2 DEF WaitInv
      <3>4. Gone(call[s].arg) => Gone(call[s].arg)'
        BY <2>2, <2>3, <2>4, <3>2, <3>3 DEF Gone
      <3>5. call[s].arg < next_pid'
        BY <2>1, <2>4, <3>3
      <3>6. Gone(call[s].arg)' <=> \A t \in Slots : pid'[t] = call[s].arg
                                                     => state'[t] = "DEAD"
        BY <3>2 DEF Gone
      <3> QED BY <3>2, <3>3, <3>4, <3>5
    <2>7. Returns
      BY <2>1 DEF Returns
    <2>8. WaitInv'
      BY <2>5, <2>6 DEF WaitInv
    <2> QED BY <2>7, <2>8
  <1>2. CASE process_create_elf
    BY <1>1, <1>2 DEF process_create_elf
  <1>3. CASE \E dir \in {"none", "own"} : CreateFails(dir)
    BY <1>1, <1>3 DEF CreateFails
  <1>4. CASE FreeOwnStack
    BY <1>4 DEF FreeOwnStack, table, WaitInv, Returns, Gone
  <1>5. CASE process_exit
    <2> DEFINE st   == Wake([state EXCEPT ![current_pid] = "DEAD"], pid[current_pid])
               dirs == [page_directory EXCEPT ![current_pid] = "none"]
    <2>1. /\ current_pid # 0 /\ current_pid \in Slots
          /\ waiting_for' = WakeFor([state EXCEPT ![current_pid] = "DEAD"],
                                    pid[current_pid])
          /\ scheduler(st, sleep_until, ticks, dirs, NoCall)
          /\ UNCHANGED <<pid, next_pid>>
      BY <1>5 DEF process_exit, TypeOK
    <2>2. pid[current_pid] # 0
      BY <2>1 DEF PidInv, Present
    <2>3. Reschedule(st, dirs)
      BY <1>5, ExitReschedules
    <2>4. \A s \in Slots :
            \/ st[s] = "DEAD"
            \/ /\ state[s] # "DEAD"
               /\ \/ st[s] = state[s] /\ waiting_for'[s] = waiting_for[s]
                  \/ /\ state[s] = "WAITING"
                     /\ waiting_for[s] # 0
                     /\ \A u \in Slots : pid[u] = waiting_for[s] => st[u] = "DEAD"
      BY <2>1, <2>2, KilledWaiters
    <2> HIDE DEF st, dirs
    <2> QED BY <2>1, <2>3, <2>4, <1>0, WaitersKept
  <1>6. ASSUME NEW p \in Pids, sys_kill(p) PROVE WaitInv' /\ Returns
    <2>1. PICK t \in Slots :
            /\ pid[t] = p /\ p > 0
            /\ state' = Wake([state EXCEPT ![t] = "DEAD"], p)
            /\ waiting_for' = WakeFor([state EXCEPT ![t] = "DEAD"], p)
            /\ UNCHANGED <<pid, next_pid, call, current_pid>>
      BY <1>6 DEF sys_kill
    <2> DEFINE st == Wake([state EXCEPT ![t] = "DEAD"], p)
    <2>2. pid[t] # 0
      BY <2>1 DEF Pids
    <2>3. \A s \in Slots :
            \/ st[s] = "DEAD"
            \/ /\ state[s] # "DEAD"
               /\ \/ st[s] = state[s] /\ waiting_for'[s] = waiting_for[s]
                  \/ /\ state[s] = "WAITING"
                     /\ waiting_for[s] # 0
                     /\ \A u \in Slots : pid[u] = waiting_for[s] => st[u] = "DEAD"
      BY <2>1, <2>2, KilledWaiters
    <2>4. state' = st /\ UNCHANGED <<pid, next_pid, call, current_pid>>
      BY <2>1
    <2> HIDE DEF st
    <2> QED BY <2>3, <2>4, StayingWaiters
  <1>7. ASSUME NEW p \in Pids, sys_wait(p) PROVE WaitInv' /\ Returns
    <2> DEFINE st == [state EXCEPT ![current_pid] = "WAITING"]
               c  == [kind |-> "wait", arg |-> p]
    <2>1. /\ CanCall /\ Alive(p) /\ current_pid \in Slots
          /\ waiting_for' = [waiting_for EXCEPT ![current_pid] = p]
          /\ scheduler(st, sleep_until, ticks, page_directory, c)
          /\ UNCHANGED <<pid, next_pid>>
      BY <1>7 DEF sys_wait, TypeOK
    <2>2. Reschedule(st, page_directory)
      BY <1>7, WaitReschedules
    <2>3. c \in Calls /\ c.arg = p
      BY DEF Calls, Pids
    <2>4. p < next_pid
      BY <2>1 DEF Alive, PidInv
    <2>5. /\ st[current_pid] = "WAITING" /\ waiting_for'[current_pid] = p
          /\ \A s \in Slots \ {current_pid} : /\ st[s] = state[s]
                                              /\ waiting_for'[s] = waiting_for[s]
      BY <2>1 DEF TypeOK
    <2>6. \A t \in Slots : st[t] # "DEAD" => state[t] # "DEAD" \/ t = 0
      BY <2>1, <2>5, <1>a
    <2> HIDE DEF st, c
    <2> QED BY <2>1, <2>2, <2>3, <2>4, <2>5, <2>6, WaitersKept
  <1>8. ASSUME NEW n \in SleepTicks, sys_sleep(n) PROVE WaitInv' /\ Returns
    <2> DEFINE st == [state EXCEPT ![current_pid] = "SLEEPING"]
               c  == [kind |-> "sleep", arg |-> (ticks + n) % TickMod]
    <2>1. /\ CanCall /\ current_pid \in Slots
          /\ scheduler(st, sleep_until', ticks, page_directory, c)
          /\ UNCHANGED <<pid, next_pid, waiting_for>>
      BY <1>8 DEF sys_sleep, TypeOK
    <2>2. Reschedule(st, page_directory)
      BY <1>8, SleepReschedules
    <2>3. c \in Calls /\ c.kind # "wait"
      <3>1. ticks + n \in Int /\ TickMod \in Nat \ {0}
        BY ProcessAssumption DEF TypeOK
      <3>2. (ticks + n) % TickMod \in Int
        BY <3>1, ModRange
      <3> QED BY <3>2 DEF Calls
    <2>4. \A s \in Slots \ {current_pid} : st[s] = state[s]
      BY <2>1 DEF TypeOK
    <2>5. \A t \in Slots : st[t] # "DEAD" => state[t] # "DEAD" \/ t = 0
      BY <2>1, <2>4, <1>a
    <2> HIDE DEF st, c
    <2> QED BY <2>1, <2>2, <2>3, <2>4, <2>5, WaitersKept
  <1>9. ASSUME NEW now, scheduler(state, sleep_until, now, page_directory, NoCall),
               UNCHANGED <<pid, next_pid, waiting_for>>
        PROVE  WaitInv' /\ Returns
    <2>1. Reschedule(state, page_directory)
      BY <1>9, YieldReschedules
    <2> QED BY <1>9, <1>0, <2>1, WaitersKept
  <1>10. CASE sys_yield
    BY <1>9, <1>10 DEF sys_yield
  <1>11. CASE timer_handler
    <2>1. CASE ticks' % Quantum = 0
      BY <1>9, <1>11, <2>1 DEF timer_handler
    <2>2. CASE ticks' % Quantum # 0
      BY <1>11, <2>2 DEF timer_handler, WaitInv, Returns, Gone
    <2> QED BY <2>1, <2>2
  <1>12. CASE UNCHANGED vars
    BY <1>12 DEF vars, table, WaitInv, Gone
  <1> QED
    BY <1>2, <1>3, <1>4, <1>5, <1>6, <1>7, <1>8, <1>10, <1>11, <1>12
       DEF Next, Syscall

(* Whatever spawns into the slot of the dead child, kills and time slices  *)
(* come in between, sys_wait of a process returns only after that process  *)
(* is dead.                                                                *)
THEOREM WaitIsForTheChild ==
    ASSUME ExitedMayCall = FALSE
    PROVE  Spec => WaitReturnsAfterDeath
  <1>1. Init => PidInv /\ WaitInv
    BY SlotZero DEF Init, PidInv, WaitInv, Present
  <1>2. Spec => []TypeOK
    BY SpecIsSpecAll, TypeCorrect, PTL
  <1>3. TypeOK /\ PidInv /\ [Next]_vars => PidInv'
    BY PidStep, NextIsNextAll
  <1>4. TypeOK /\ PidInv /\ WaitInv /\ [Next]_vars => WaitInv'
    BY WaitInvStep
  <1>5. Spec => [](TypeOK /\ PidInv /\ WaitInv)
    BY <1>1, <1>2, <1>3, <1>4, PTL DEF Spec
  <1>6. TypeOK /\ PidInv /\ WaitInv /\ [Next]_vars => [Returns]_vars
    BY WaitInvStep
  <1>7. Spec => [][Returns]_vars
    BY <1>5, <1>6, PTL DEF Spec
  <1> QED BY <1>7 DEF WaitReturnsAfterDeath, Returns

-----------------------------------------------------------------------------
(* The stack of the next kernel entry is that of the slot the CPU is in;   *)
(* everybody alive has a stack that is mapped and a directory, and if      *)
(* switched out has its registers on that stack.                           *)
CpuInv ==
    /\ esp0 = kernel_stack[current_pid]
    /\ \A s \in Slots \ {0} : Present(s) => kernel_stack[s] \in kstack_used
    /\ \A s \in Slots : state[s] # "DEAD" /\ s # current_pid
                          => frame[s] = kernel_stack[s]
    /\ \A s \in Slots : state[s] # "DEAD" \/ s = 0 => page_directory[s] # "none"
    /\ ~crashed

LEMMA CpuInit == Init => CpuInv
  BY SlotZero DEF Init, CpuInv, Present

(* The slot that process_create_elf takes is not the one the CPU is in.    *)
LEMMA TakesAnother ==
    ASSUME ExitedMayCall = FALSE, TypeOK, NEW slot \in Slots, TakeSlot(slot)
    PROVE  slot # current_pid
  BY TakenSlot DEF TakeSlot, CanCall

LEMMA CpuStep ==
    ASSUME ExitedMayCall = FALSE
    PROVE  TypeOK /\ StackInv /\ CpuInv /\ [Next]_vars => CpuInv'
  <1> SUFFICES ASSUME TypeOK, StackInv, CpuInv, [Next]_vars PROVE CpuInv'
    OBVIOUS
  <1> USE SlotZero
  <1>1. ASSUME NEW st, NEW dirs, Reschedule(st, dirs),
               UNCHANGED <<kernel_stack, kstack_used>>,
               page_directory' = dirs,
               \A s \in Slots : st[s] # "DEAD" \/ s = 0 => dirs[s] # "none"
        PROVE  CpuInv'
    <2>1. /\ \A s \in Slots : state'[s] = "DEAD" <=> st[s] = "DEAD"
          /\ \A s \in Slots : st[s] # "DEAD" => Present(s)
          /\ current_pid \in Slots /\ current_pid' \in Slots
      BY <1>1 DEF Reschedule, Rescheduled, SchedulerTypes, TypeOK
    <2>2. \A s \in Slots \ {0} : Present(s)' => Present(s)
      BY <1>1, <2>1 DEF Reschedule, Rescheduled, Present
    <2>3. \A s \in Slots \ {0} : Present(s)' => kernel_stack'[s] \in kstack_used'
      BY <1>1, <2>2 DEF CpuInv
    <2>4. \A s \in Slots : state'[s] # "DEAD" \/ s = 0 => page_directory'[s] # "none"
      BY <1>1, <2>1
    <2>5. CASE UNCHANGED <<frame, esp0, current_pid, crashed>>
      <3>1. \A s \in Slots : state'[s] # "DEAD" /\ s # current_pid'
                             => frame'[s] = kernel_stack'[s]
        BY <1>1, <2>1, <2>5 DEF CpuInv, Present
      <3> QED BY <1>1, <2>3, <2>4, <2>5, <3>1 DEF CpuInv
    <2>6. CASE /\ current_pid' # current_pid
               /\ st[current_pid'] # "DEAD"
               /\ frame' = [frame EXCEPT ![current_pid] = esp0]
               /\ esp0' = kernel_stack[current_pid']
               /\ crashed' = (dirs[current_pid'] = "none")
      <3>1. \A s \in Slots : state'[s] # "DEAD" /\ s # current_pid'
                             => frame'[s] = kernel_stack'[s]
        <4> SUFFICES ASSUME NEW s \in Slots, state'[s] # "DEAD", s # current_pid'
                     PROVE  frame'[s] = kernel_stack[s]
          BY <1>1
        <4>1. CASE s = current_pid
          BY <2>6, <4>1 DEF CpuInv, TypeOK
        <4>2. CASE s # current_pid
          BY <2>1, <2>6, <4>2 DEF CpuInv, TypeOK, Present
        <4> QED BY <4>1, <4>2
      <3>2. ~crashed'
        BY <1>1, <2>1, <2>6
      <3> QED BY <1>1, <2>3, <2>4, <2>6, <3>1, <3>2 DEF CpuInv
    <2> QED BY <1>1, <2>5, <2>6 DEF Reschedule, Rescheduled
  <1>2. ASSUME UNCHANGED <<kernel_stack, kstack_used, page_directory, frame,
                           esp0, current_pid, crashed>>,
               \A s \in Slots : state'[s] # "DEAD" => state[s] # "DEAD"
        PROVE  CpuInv'
    BY <1>2 DEF CpuInv, Present
  <1>3. CASE process_create_elf
    <2>1. PICK slot \in Slots, k \in Slots :
            /\ TakeSlot(slot)
            /\ kstack_used' = kstack_free(slot) \union {k}
            /\ kernel_stack' = [kernel_stack EXCEPT ![slot] = k]
            /\ frame' = [frame EXCEPT ![slot] = k]
            /\ page_directory' = [page_directory EXCEPT ![slot] = "own"]
            /\ state' = [state EXCEPT ![slot] = "READY"]
      BY <1>3 DEF process_create_elf
    <2>2. /\ slot # 0 /\ slot # current_pid
          /\ UNCHANGED <<esp0, current_pid, crashed>>
      BY <2>1, TakenSlot, TakesAnother
    <2>3. \A s \in Slots \ {0, slot} :
            kernel_stack[s] \in kstack_used => kernel_stack[s] \in kstack_free(slot)
      BY <2>2 DEF kstack_free, StackInv, KStackOwnership
    <2>4. \A s \in Slots \ {slot} : /\ state'[s] = state[s]
                                    /\ frame'[s] = frame[s]
                                    /\ kernel_stack'[s] = kernel_stack[s]
                                    /\ page_directory'[s] = page_directory[s]
      BY <2>1 DEF TypeOK
    <2>5. /\ kernel_stack'[slot] = k /\ frame'[slot] = k
          /\ page_directory'[slot] = "own"
      BY <2>1 DEF TypeOK
    <2>6. esp0' = kernel_stack'[current_pid']
      BY <2>2, <2>4 DEF CpuInv, TypeOK
    <2>7. \A s \in Slots \ {0} : Present(s)' => kernel_stack'[s] \in kstack_used'
      BY <2>1, <2>2, <2>3, <2>4, <2>5 DEF CpuInv, Present
    <2>8. \A s \in Slots : state'[s] # "DEAD" /\ s # current_pid'
                           => frame'[s] = kernel_stack'[s]
      BY <2>2, <2>4, <2>5 DEF CpuInv
    <2>9. \A s \in Slots : state'[s] # "DEAD" \/ s = 0 => page_directory'[s] # "none"
      BY <2>2, <2>4, <2>5 DEF CpuInv
    <2> QED BY <2>2, <2>6, <2>7, <2>8, <2>9 DEF CpuInv
  <1>4. CASE \E dir \in {"none", "own"} : CreateFails(dir)
    <2>1. PICK dir \in {"none", "own"}, slot \in Slots :
            /\ TakeSlot(slot)
            /\ kstack_used' = kstack_free(slot)
            /\ kernel_stack' = [kernel_stack EXCEPT ![slot] = None]
            /\ page_directory' = [page_directory EXCEPT ![slot] = dir]
            /\ UNCHANGED <<state, call, frame>>
      BY <1>4 DEF CreateFails
    <2>2. /\ slot # 0 /\ slot # current_pid /\ state[slot] = "DEAD"
          /\ UNCHANGED <<esp0, current_pid, crashed>>
      BY <2>1, TakenSlot, TakesAnother
    <2>3. \A s \in Slots \ {0, slot} :
            kernel_stack[s] \in kstack_used => kernel_stack[s] \in kstack_free(slot)
      BY <2>2 DEF kstack_free, StackInv, KStackOwnership
    <2>4. \A s \in Slots \ {slot} : /\ kernel_stack'[s] = kernel_stack[s]
                                    /\ page_directory'[s] = page_directory[s]
      BY <2>1 DEF TypeOK
    <2>5. esp0' = kernel_stack'[current_pid']
      BY <2>2, <2>4 DEF CpuInv, TypeOK
    <2>6. \A s \in Slots \ {0} : Present(s)' => kernel_stack'[s] \in kstack_used'
      BY <2>1, <2>2, <2>3, <2>4 DEF CpuInv, Present
    <2>7. \A s \in Slots : state'[s] # "DEAD" /\ s # current_pid'
                           => frame'[s] = kernel_stack'[s]
      BY <2>1, <2>2, <2>4 DEF CpuInv
    <2>8. \A s \in Slots : state'[s] # "DEAD" \/ s = 0 => page_directory'[s] # "none"
      BY <2>1, <2>2, <2>4 DEF CpuInv
    <2> QED BY <2>2, <2>5, <2>6, <2>7, <2>8 DEF CpuInv
  <1>5. ~FreeOwnStack
    <2> SUFFICES ASSUME CanCall, NEW slot \in Slots, FirstDead(slot),
                        kernel_stack[slot] = esp0
                 PROVE  FALSE
      BY DEF FreeOwnStack
    <2>1. slot # 0 /\ slot # current_pid /\ current_pid \in Slots
      BY DEF FirstDead, CanCall, TypeOK
    <2>2. kernel_stack[current_pid] = None
      BY <2>1 DEF CpuInv, StackInv, KStackOwnership
    <2>3. current_pid # 0
      BY <2>2 DEF StackInv, None, Boot
    <2>4. kernel_stack[current_pid] \in kstack_used
      BY <2>1, <2>3 DEF CpuInv, Present
    <2> QED BY <2>2, <2>4 DEF StackInv, KStackOwnership
  <1>6. CASE process_exit
    <2> DEFINE st   == Wake([state EXCEPT ![current_pid] = "DEAD"], pid[current_pid])
               dirs == [page_directory EXCEPT ![current_pid] = "none"]
    <2>1. Reschedule(st, dirs)
      BY <1>6, ExitReschedules
    <2>2. /\ UNCHANGED <<kernel_stack, kstack_used>> /\ page_directory' = dirs
          /\ current_pid # 0
      BY <1>6 DEF process_exit
    <2>3. \A s \in Slots : st[s] = "DEAD" <=> s = current_pid \/ state[s] = "DEAD"
      BY KillTypes
    <2> HIDE DEF st
    <2>4. \A s \in Slots : st[s] # "DEAD" \/ s = 0 => dirs[s] # "none"
      BY <2>2, <2>3 DEF CpuInv, TypeOK
    <2> HIDE DEF dirs
    <2> QED BY <1>1, <2>1, <2>2, <2>4
  <1>7. ASSUME NEW p \in Pids, sys_kill(p) PROVE CpuInv'
    <2>1. PICK t \in Slots : state' = Wake([state EXCEPT ![t] = "DEAD"], p)
      BY <1>7 DEF sys_kill
    <2>2. \A s \in Slots : state'[s] # "DEAD" => state[s] # "DEAD"
      BY <2>1, KillTypes
    <2> QED BY <1>2, <1>7, <2>2 DEF sys_kill
  <1>8. ASSUME CanCall, NEW v
        PROVE  \A s \in Slots : [state EXCEPT ![current_pid] = v][s] # "DEAD" \/ s = 0
                                  => page_directory[s] # "none"
    BY <1>8 DEF CanCall, CpuInv, TypeOK
  <1>9. ASSUME NEW p \in Pids, sys_wait(p) PROVE CpuInv'
    <2>1. /\ CanCall /\ UNCHANGED <<kernel_stack, kstack_used, page_directory>>
      BY <1>9 DEF sys_wait
    <2> QED BY <1>1, <1>8, <1>9, <2>1, WaitReschedules
  <1>10. ASSUME NEW n \in SleepTicks, sys_sleep(n) PROVE CpuInv'
    <2>1. /\ CanCall /\ UNCHANGED <<kernel_stack, kstack_used, page_directory>>
      BY <1>10 DEF sys_sleep
    <2> QED BY <1>1, <1>8, <1>10, <2>1, SleepReschedules
  <1>11. \A s \in Slots : state[s] # "DEAD" \/ s = 0 => page_directory[s] # "none"
    BY DEF CpuInv
  <1>12. CASE sys_yield
    BY <1>1, <1>11, <1>12, YieldReschedules DEF sys_yield
  <1>13. CASE timer_handler
    <2>1. CASE ticks' % Quantum = 0
      BY <1>1, <1>11, <1>13, <2>1, YieldReschedules DEF timer_handler
    <2>2. CASE ticks' % Quantum # 0
      BY <1>2, <1>13, <2>2 DEF timer_handler
    <2> QED BY <2>1, <2>2
  <1>14. CASE UNCHANGED vars
    BY <1>2, <1>14 DEF vars, table
  <1> QED
    BY <1>3, <1>4, <1>5, <1>6, <1>7, <1>9, <1>10, <1>12, <1>13, <1>14
       DEF Next, Syscall

LEMMA CpuInvariant ==
    ASSUME ExitedMayCall = FALSE
    PROVE  Spec => [](TypeOK /\ StackInv /\ CpuInv)
  <1>1. Init => StackInv
    BY SlotZero DEF Init, StackInv, KStackOwnership, Boot, None
  <1>2. Spec => []TypeOK
    BY SpecIsSpecAll, TypeCorrect, PTL
  <1>3. TypeOK /\ StackInv /\ [Next]_vars => StackInv'
    BY StackStep, NextIsNextAll
  <1>4. TypeOK /\ StackInv /\ CpuInv /\ [Next]_vars => CpuInv'
    BY CpuStep
  <1> QED BY <1>1, <1>2, <1>3, <1>4, CpuInit, PTL DEF Spec

(* The registers of the processes that are switched out lie on distinct,   *)
(* mapped stacks, and the next kernel entry overwrites none of them.       *)
THEOREM StacksAreSafe ==
    ASSUME ExitedMayCall = FALSE
    PROVE  Spec => []NoSharedStack
  <1>1. TypeOK /\ StackInv /\ CpuInv => NoSharedStack
    <2> SUFFICES ASSUME TypeOK, StackInv, CpuInv PROVE NoSharedStack
      OBVIOUS
    <2>1. current_pid \in Slots
      BY DEF TypeOK
    <2>2. \A s \in Slots : Present(s) =>
            kernel_stack[s] \in kstack_used \union {Boot}
      BY DEF CpuInv, StackInv
    <2>3. \A s, t \in Slots : Present(s) /\ kernel_stack[s] = kernel_stack[t] => s = t
      <3>1. \A s \in Slots : Present(s) => kernel_stack[s] # None
        BY <2>2 DEF StackInv, KStackOwnership, None, Boot
      <3> QED BY <3>1 DEF StackInv, KStackOwnership
    <2>4. \A s \in Slots \ {current_pid} : state[s] # "DEAD" =>
            Present(s) /\ frame[s] = kernel_stack[s]
      BY DEF CpuInv, Present
    <2>5. Present(current_pid) /\ esp0 = kernel_stack[current_pid]
      BY DEF CpuInv, Present
    <2> QED BY <2>1, <2>2, <2>3, <2>4, <2>5 DEF NoSharedStack
  <1> QED BY <1>1, CpuInvariant, PTL

(* The kernel never unmaps the stack it is running on, and never switches  *)
(* to a process whose page directory process_exit has freed.               *)
THEOREM KernelNeverCrashes ==
    ASSUME ExitedMayCall = FALSE
    PROVE  Spec => []NoCrash
  <1>1. CpuInv => NoCrash
    BY DEF CpuInv, NoCrash
  <1> QED BY <1>1, CpuInvariant, PTL

-----------------------------------------------------------------------------
(* The pipe.                                                               *)

(* Remainders of what can be one turn of the ring too much or too little.  *)
LEMMA OneTurn ==
    ASSUME NEW m \in Nat \ {0}, NEW a \in Int
    PROVE  /\ 0 <= a /\ a < m => a % m = a
           /\ m <= a /\ a < 2 * m => a % m = a - m
           /\ -m <= a /\ a < 0 => a % m = a + m
  <1> DEFINE q == a \div m  r == a % m
  <1>1. q \in Int /\ r \in 0 .. m - 1 /\ a = m * q + r
    OBVIOUS
  <1> HIDE DEF q, r
  <1>2. m * q \in Int
    BY <1>1
  <1>3. q >= 1 => m * q >= m
    BY <1>1
  <1>4. q >= 2 => m * q >= 2 * m
    BY <1>1
  <1>5. q <= -1 => m * q <= -m
    BY <1>1
  <1>6. q <= -2 => m * q <= -(2 * m)
    BY <1>1
  <1>7. /\ q = 0 => m * q = 0
        /\ q = 1 => m * q = m
        /\ q = -1 => m * q = -m
    BY <1>1
  <1>8. CASE 0 <= a /\ a < m
    <2>1. q = 0
      BY <1>1, <1>2, <1>3, <1>5, <1>8
    <2> QED BY <2>1, <1>1, <1>7, <1>8 DEF r
  <1>9. CASE m <= a /\ a < 2 * m
    <2>1. q = 1
      BY <1>1, <1>2, <1>4, <1>5, <1>7, <1>9
    <2> QED BY <2>1, <1>1, <1>7, <1>9 DEF r
  <1>10. CASE -m <= a /\ a < 0
    <2>1. q = -1
      BY <1>1, <1>2, <1>3, <1>6, <1>7, <1>10
    <2> QED BY <2>1, <1>1, <1>7, <1>10 DEF r
  <1> QED BY <1>8, <1>9, <1>10

(* The bytes of the ring when they start at h and end before t, and the    *)
(* places of the ring.                                                     *)
Cells == 0 .. PipeBufSize - 1
HeldIn(h, t) == (t - h) % PipeBufSize

LEMMA HeldIs ==
    ASSUME NEW h \in Cells, NEW t \in Cells
    PROVE  /\ HeldIn(h, t) = IF h <= t THEN t - h ELSE t - h + PipeBufSize
           /\ HeldIn(h, t) \in Cells
           /\ HeldIn(h, t) = 0 <=> h = t
  <1> DEFINE B == PipeBufSize
  <1>1. B \in Nat \ {0} /\ B >= 2 /\ h \in 0 .. B - 1 /\ t \in 0 .. B - 1
    BY PipeAssumption DEF Cells
  <1> HIDE DEF B
  <1> DEFINE a == t - h
  <1>2. a \in Int /\ -B <= a /\ a < B
    BY <1>1
  <1>3. a % B = IF 0 <= a THEN a ELSE a + B
    <2> HIDE DEF a
    <2>1. 0 <= a => a % B = a
      BY <1>1, <1>2, OneTurn
    <2>2. a < 0 => a % B = a + B
      BY <1>1, <1>2, OneTurn
    <2> QED BY <1>2, <2>1, <2>2
  <1> DEFINE r == (t - h) % B
  <1>4. r = IF h <= t THEN t - h ELSE t - h + B
    BY <1>1, <1>3
  <1> HIDE DEF r
  <1>5. r \in 0 .. B - 1 /\ (r = 0 <=> h = t)
    BY <1>1, <1>4
  <1> QED BY <1>4, <1>5 DEF HeldIn, Cells, B, r

LEMMA AfterIsCell ==
    ASSUME NEW i \in Cells
    PROVE  /\ After(i) \in Cells
           /\ After(i) = IF i = PipeBufSize - 1 THEN 0 ELSE i + 1
  <1> DEFINE B == PipeBufSize
  <1>1. B \in Nat \ {0} /\ B >= 2 /\ i \in 0 .. B - 1
    BY PipeAssumption DEF Cells
  <1> HIDE DEF B
  <1> DEFINE a == i + 1
  <1>2. a \in Int /\ 0 <= a /\ a < 2 * B /\ (a < B \/ B <= a)
    BY <1>1
  <1>3. a % B = IF a < B THEN a ELSE a - B
    <2> HIDE DEF a
    <2> QED BY <1>1, <1>2, OneTurn
  <1>4. a % B = IF i = B - 1 THEN 0 ELSE i + 1
    BY <1>1, <1>3
  <1>5. a % B \in 0 .. B - 1
    BY <1>1, <1>4
  <1> QED BY <1>4, <1>5 DEF After, Cells, B

(* Taking the byte at the head leaves one byte less; a byte put at the     *)
(* tail, where the ring is not full, makes one more.                       *)
LEMMA HeldSteps ==
    ASSUME NEW h \in Cells, NEW t \in Cells
    PROVE  /\ h # t => HeldIn(After(h), t) = HeldIn(h, t) - 1
           /\ After(t) # h => HeldIn(h, After(t)) = HeldIn(h, t) + 1
           /\ After(t) = h <=> HeldIn(h, t) = PipeBufSize - 1
  <1>1. /\ PipeBufSize \in Nat /\ PipeBufSize >= 2
        /\ h \in 0 .. PipeBufSize - 1 /\ t \in 0 .. PipeBufSize - 1
    BY PipeAssumption DEF Cells
  <1>2. /\ After(h) \in Cells /\ After(h) = IF h = PipeBufSize - 1 THEN 0 ELSE h + 1
        /\ After(t) \in Cells /\ After(t) = IF t = PipeBufSize - 1 THEN 0 ELSE t + 1
    BY AfterIsCell
  <1>3. /\ HeldIn(h, t) = IF h <= t THEN t - h ELSE t - h + PipeBufSize
        /\ HeldIn(After(h), t) = IF After(h) <= t THEN t - After(h)
                                  ELSE t - After(h) + PipeBufSize
        /\ HeldIn(h, After(t)) = IF h <= After(t) THEN After(t) - h
                                  ELSE After(t) - h + PipeBufSize
    BY <1>2, HeldIs
  <1> QED BY <1>1, <1>2, <1>3

(* The ring that starts at h and ends before t, as a sequence of bytes.    *)
Cell(h, i) == (h + i - 1) % PipeBufSize
ContentsOf(b, h, t) == [i \in 1 .. HeldIn(h, t) |-> b[Cell(h, i)]]

LEMMA CellIs ==
    ASSUME NEW h \in Cells, NEW i \in 1 .. PipeBufSize
    PROVE  /\ Cell(h, i) \in Cells
           /\ Cell(h, i) = IF h + i - 1 < PipeBufSize THEN h + i - 1
                           ELSE h + i - 1 - PipeBufSize
  <1> DEFINE B == PipeBufSize  a == h + i - 1
  <1>1. B \in Nat \ {0} /\ h \in 0 .. B - 1 /\ i \in 1 .. B
    BY PipeAssumption DEF Cells
  <1>2. a \in Int /\ 0 <= a /\ a < 2 * B
    <2> HIDE DEF B
    <2> QED BY <1>1
  <1>3. a % B = IF a < B THEN a ELSE a - B
    <2> HIDE DEF a, B
    <2>1. a < B => a % B = a
      BY <1>1, <1>2, OneTurn
    <2>2. B <= a => a % B = a - B
      BY <1>1, <1>2, OneTurn
    <2> QED BY <1>1, <1>2, <2>1, <2>2
  <1> DEFINE r == a % B
  <1>4. r = IF a < B THEN a ELSE a - B
    BY <1>3
  <1> HIDE DEF r
  <1>5. r \in 0 .. B - 1
    BY <1>1, <1>2, <1>4
  <1>6. Cell(h, i) = r
    BY DEF r, Cell
  <1> QED BY <1>1, <1>2, <1>4, <1>5, <1>6 DEF Cells

LEMMA TakeContents ==
    ASSUME NEW b, NEW h \in Cells, NEW t \in Cells, h # t
    PROVE  /\ ContentsOf(b, h, t) # <<>>
           /\ ContentsOf(b, After(h), t) = Tail(ContentsOf(b, h, t))
  <1> DEFINE n == HeldIn(h, t)  s == ContentsOf(b, h, t)
             u == ContentsOf(b, After(h), t)  S == {b[c] : c \in Cells}
  <1>1. /\ PipeBufSize \in Nat /\ h \in 0 .. PipeBufSize - 1
        /\ n \in 1 .. PipeBufSize - 1
        /\ After(h) \in Cells
        /\ After(h) = IF h = PipeBufSize - 1 THEN 0 ELSE h + 1
        /\ HeldIn(After(h), t) = n - 1
    BY PipeAssumption, HeldIs, HeldSteps, AfterIsCell DEF Cells
  <1> HIDE DEF n
  <1>2. /\ s = [i \in 1 .. n |-> b[Cell(h, i)]]
        /\ u = [i \in 1 .. n - 1 |-> b[Cell(After(h), i)]]
    BY <1>1 DEF ContentsOf, n
  <1>3. ASSUME NEW i \in 1 .. n PROVE Cell(h, i) \in Cells
    BY <1>1, CellIs
  <1>4. ASSUME NEW i \in 1 .. n - 1
        PROVE  Cell(After(h), i) \in Cells /\ Cell(After(h), i) = Cell(h, i + 1)
    <2>1. i \in 1 .. PipeBufSize /\ i + 1 \in 1 .. PipeBufSize
      BY <1>1
    <2>2. /\ Cell(h, i + 1) = IF h + (i + 1) - 1 < PipeBufSize THEN h + (i + 1) - 1
                              ELSE h + (i + 1) - 1 - PipeBufSize
          /\ Cell(After(h), i) \in Cells
          /\ Cell(After(h), i) = IF After(h) + i - 1 < PipeBufSize THEN After(h) + i - 1
                                 ELSE After(h) + i - 1 - PipeBufSize
      BY <1>1, <2>1, CellIs
    <2> QED BY <1>1, <2>1, <2>2
  <1>5. s \in [1 .. n -> S] /\ u \in [1 .. n - 1 -> S]
    BY <1>2, <1>3, <1>4
  <1>6. /\ s \in Seq(S) /\ Len(s) = n
        /\ u \in Seq(S) /\ Len(u) = n - 1
        /\ s # <<>>
    <2> HIDE DEF s, u, S
    <2> QED BY <1>1, <1>5
  <1>7. /\ Tail(s) \in Seq(S) /\ Len(Tail(s)) = n - 1
        /\ \A i \in 1 .. n - 1 : Tail(s)[i] = s[i + 1]
    <2> HIDE DEF s, u, S
    <2> QED BY <1>6, HeadTailProperties
  <1>8. ASSUME NEW i \in 1 .. n - 1 PROVE u[i] = Tail(s)[i]
    <2>1. i + 1 \in 1 .. n
      BY <1>1
    <2>2. u[i] = b[Cell(After(h), i)] /\ s[i + 1] = b[Cell(h, i + 1)]
      BY <1>2, <2>1
    <2> QED BY <2>2, <1>4, <1>7
  <1>9. u = Tail(s)
    <2> HIDE DEF s, u, S
    <2> QED BY <1>6, <1>7, <1>8, SeqEqual
  <1> QED BY <1>6, <1>9

LEMMA PutContents ==
    ASSUME NEW b, NEW x, NEW h \in Cells, NEW t \in Cells, After(t) # h,
           b = [c \in Cells |-> b[c]]
    PROVE  /\ Len(ContentsOf(b, h, t)) < PipeBufSize - 1
           /\ ContentsOf([b EXCEPT ![t] = x], h, After(t)) = Append(ContentsOf(b, h, t), x)
  <1> DEFINE n == HeldIn(h, t)  s == ContentsOf(b, h, t)  bx == [b EXCEPT ![t] = x]
             u == ContentsOf(bx, h, After(t))
             S == {b[c] : c \in Cells} \union {x}
  <1>0. /\ n \in Cells
        /\ n = IF h <= t THEN t - h ELSE t - h + PipeBufSize
        /\ n # PipeBufSize - 1
        /\ HeldIn(h, After(t)) = n + 1
    BY HeldIs, HeldSteps
  <1>1. /\ PipeBufSize \in Nat /\ PipeBufSize >= 2
        /\ h \in 0 .. PipeBufSize - 1 /\ t \in 0 .. PipeBufSize - 1
        /\ n \in 0 .. PipeBufSize - 2
    <2> HIDE DEF n
    <2> QED BY <1>0, PipeAssumption DEF Cells
  <1>2. /\ bx[t] = x
        /\ \A c \in Cells \ {t} : bx[c] = b[c]
    OBVIOUS
  <1> HIDE DEF n, bx
  <1>3. /\ s = [i \in 1 .. n |-> b[Cell(h, i)]]
        /\ u = [i \in 1 .. n + 1 |-> bx[Cell(h, i)]]
    BY <1>0 DEF ContentsOf, n
  <1>4. ASSUME NEW i \in 1 .. n PROVE Cell(h, i) \in Cells \ {t}
    <2>1. i \in 1 .. PipeBufSize
      BY <1>1
    <2>2. /\ Cell(h, i) \in Cells
          /\ Cell(h, i) = IF h + i - 1 < PipeBufSize THEN h + i - 1
                          ELSE h + i - 1 - PipeBufSize
      BY <2>1, CellIs
    <2> QED BY <1>0, <1>1, <2>2
  <1>5. Cell(h, n + 1) = t
    <2>1. n + 1 \in 1 .. PipeBufSize
      BY <1>1
    <2>2. Cell(h, n + 1) = IF h + (n + 1) - 1 < PipeBufSize THEN h + (n + 1) - 1
                            ELSE h + (n + 1) - 1 - PipeBufSize
      BY <2>1, CellIs
    <2> QED BY <1>0, <1>1, <2>2
  <1>6. ASSUME NEW i \in 1 .. n PROVE u[i] = s[i] /\ s[i] \in S
    <2>1. i \in 1 .. n + 1
      BY <1>1
    <2>2. u[i] = bx[Cell(h, i)] /\ s[i] = b[Cell(h, i)]
      BY <1>3, <2>1
    <2> QED BY <2>2, <1>2, <1>4
  <1>7. u[n + 1] = x
    <2>1. n + 1 \in 1 .. n + 1
      BY <1>1
    <2> QED BY <1>2, <1>3, <1>5, <2>1
  <1>8. ASSUME NEW i \in 1 .. n + 1 PROVE u[i] \in S
    <2>1. i \in 1 .. n \/ i = n + 1
      BY <1>1
    <2> QED BY <2>1, <1>6, <1>7
  <1>9. s \in [1 .. n -> S] /\ u \in [1 .. n + 1 -> S]
    BY <1>3, <1>6, <1>8
  <1>10. u = Append(s, x) /\ Len(s) = n
    <2>1. x \in S
      OBVIOUS
    <2> HIDE DEF s, u, S
    <2>2. /\ s \in Seq(S) /\ Len(s) = n /\ u \in Seq(S) /\ Len(u) = n + 1
      <3> DEFINE m == n + 1
      <3>1. m \in Nat /\ n \in Nat
        BY <1>1
      <3>2. u \in [1 .. m -> S]
        BY <1>9
      <3> HIDE DEF m
      <3>3. u \in Seq(S) /\ Len(u) = m
        BY <3>1, <3>2
      <3>4. s \in Seq(S) /\ Len(s) = n
        BY <3>1, <1>9
      <3> QED BY <3>3, <3>4 DEF m
    <2>3. /\ Append(s, x) \in Seq(S) /\ Len(Append(s, x)) = n + 1
          /\ \A i \in 1 .. n : Append(s, x)[i] = s[i]
          /\ Append(s, x)[n + 1] = x
      BY <2>1, <2>2
    <2>4. ASSUME NEW i \in 1 .. n + 1 PROVE u[i] = Append(s, x)[i]
      <3>1. i \in 1 .. n \/ i = n + 1
        BY <1>1
      <3> QED BY <3>1, <2>3, <1>6, <1>7
    <2> QED BY <2>2, <2>3, <2>4, SeqEqual
  <1>11. Len(s) < PipeBufSize - 1
    <2> HIDE DEF s
    <2> QED BY <1>1, <1>10
  <1> QED BY <1>10, <1>11 DEF bx

-----------------------------------------------------------------------------
(* The refinement.  The ring's indices stay in the ring, and each end is   *)
(* open once or closed.                                                    *)
RingOK ==
    /\ buf = [c \in Cells |-> buf[c]]
    /\ head \in Cells
    /\ tail \in Cells
    /\ read_open \in {0, 1}
    /\ write_open \in {0, 1}

LEMMA ContentsIs == Contents = ContentsOf(buf, head, tail)
  BY DEF Contents, ContentsOf, HeldIn, Cell

(* The same one step later. *)
LEMMA NextContentsIs == Contents' = ContentsOf(buf', head', tail')
  BY DEF Contents, ContentsOf, HeldIn, Cell

LEMMA RingInit == PipeInit => RingOK /\ Promise!Init
  <1> SUFFICES ASSUME PipeInit PROVE RingOK /\ Promise!Init
    OBVIOUS
  <1>1. /\ head = 0 /\ tail = 0 /\ read_open = 1 /\ write_open = 1
        /\ buf = [c \in Cells |-> 0]
    BY DEF PipeInit, Cells
  <1>2. 0 \in Cells
    BY PipeAssumption DEF Cells
  <1>3. RingOK
    BY <1>1, <1>2 DEF RingOK
  <1>4. HeldIn(head, tail) = 0
    BY <1>1, <1>2, HeldIs
  <1>5. Contents = <<>>
    BY <1>4, ContentsIs DEF ContentsOf
  <1> QED BY <1>1, <1>3, <1>5 DEF Promise!Init

(* The calls that leave the ring and its ends alone.                       *)
LEMMA RingUntouched ==
    ASSUME RingOK, UNCHANGED <<ring, read_open, write_open>>
    PROVE  /\ RingOK'
           /\ UNCHANGED <<Contents, read_open > 0, write_open > 0>>
  <1>1. UNCHANGED <<buf, head, tail, read_open, write_open>>
    BY DEF ring
  <1>2. RingOK'
    BY <1>1 DEF RingOK
  <1>3. Contents' = Contents
    BY <1>1, ContentsIs, NextContentsIs
  <1> QED BY <1>1, <1>2, <1>3

LEMMA RingStep ==
    ASSUME RingOK, [PipeNext]_allVars
    PROVE  /\ RingOK'
           /\ [Promise!Next]_<<Contents, read_open > 0, write_open > 0>>
  <1> USE DEF RingOK
  <1>1. CASE ReadByte
    <2>1. /\ head # tail /\ head' = After(head)
          /\ UNCHANGED <<buf, tail, read_open, write_open>>
      BY <1>1 DEF ReadByte, Empty
    <2>2. RingOK'
      BY <2>1, AfterIsCell
    <2>3. Contents # <<>> /\ Contents' = Tail(Contents)
      BY <2>1, TakeContents, ContentsIs, NextContentsIs
    <2>4. Promise!Take
      BY <2>1, <2>3 DEF Promise!Take
    <2> QED BY <2>2, <2>4 DEF Promise!Next
  <1>2. CASE WriteByte
    <2>1. PICK b \in Bytes : buf' = [buf EXCEPT ![tail] = b]
      BY <1>2 DEF WriteByte
    <2>2. /\ After(tail) # head /\ tail' = After(tail) /\ read_open > 0
          /\ UNCHANGED <<head, read_open, write_open>>
      BY <1>2 DEF WriteByte, Full
    <2>3. RingOK'
      BY <2>1, <2>2, AfterIsCell
    <2>4. Len(Contents) < PipeBufSize - 1 /\ Contents' = Append(Contents, b)
      BY <2>1, <2>2, PutContents, ContentsIs, NextContentsIs
    <2>5. Promise!Put(b)
      BY <2>2, <2>4 DEF Promise!Put
    <2> QED BY <2>3, <2>5 DEF Promise!Next
  <1>3. CASE pipe_close_read
    <2>1. /\ read_open = 1 /\ read_open' = 0
          /\ UNCHANGED <<buf, head, tail, write_open>>
      BY <1>3 DEF pipe_close_read, ring
    <2>2. Contents' = Contents
      BY <2>1, ContentsIs, NextContentsIs
    <2>3. Promise!CloseRead
      BY <2>1, <2>2 DEF Promise!CloseRead
    <2> QED BY <2>1, <2>3 DEF Promise!Next
  <1>4. CASE pipe_close_write
    <2>1. /\ write_open = 1 /\ write_open' = 0
          /\ UNCHANGED <<buf, head, tail, read_open>>
      BY <1>4 DEF pipe_close_write, ring
    <2>2. Contents' = Contents
      BY <2>1, ContentsIs, NextContentsIs
    <2>3. Promise!CloseWrite
      BY <2>1, <2>2 DEF Promise!CloseWrite
    <2> QED BY <2>1, <2>3 DEF Promise!Next
  <1>5. CASE ReadSleep \/ ReadReturn \/ WriteSleep \/ WriteReturn
    <2>1. UNCHANGED <<ring, read_open, write_open>>
      BY <1>5 DEF ReadSleep, ReadReturn, WriteSleep, WriteReturn, pipeVars
    <2> QED BY <2>1, RingUntouched
  <1>6. CASE \E n \in Sizes : EnterRead(n) \/ EnterWrite(n)
    <2>1. UNCHANGED <<ring, read_open, write_open>>
      BY <1>6 DEF EnterRead, EnterWrite, pipeVars
    <2> QED BY <2>1, RingUntouched
  <1>7. CASE UNCHANGED pipeVars
    <2>1. UNCHANGED <<ring, read_open, write_open>>
      BY <1>7 DEF pipeVars
    <2> QED BY <2>1, RingUntouched
  <1> QED
    BY <1>1, <1>2, <1>3, <1>4, <1>5, <1>6, <1>7 DEF PipeNext, Kernel, allVars

(* The ring, filled and emptied by blocking calls of any number of         *)
(* processes that are preempted, exit and close its ends at any time, is a *)
(* bounded FIFO: no byte is lost, repeated, reordered or invented, nothing *)
(* is written once no reader is left, and a ring of PIPE_BUF_SIZE bytes    *)
(* holds one byte less.                                                    *)
THEOREM PipeIsStream == PipeSpec => IsStream
  <1>1. PipeInit => RingOK /\ Promise!Init
    BY RingInit
  <1>2. RingOK /\ [PipeNext]_allVars
        => RingOK' /\ [Promise!Next]_<<Contents, read_open > 0, write_open > 0>>
    BY RingStep
  <1> QED
    BY <1>1, <1>2, PTL DEF PipeSpec, IsStream, Promise!Spec

-----------------------------------------------------------------------------
(* Types.  The pipe's calls keep the process table in its ranges; what the *)
(* wake functions do to it is to make some WAITING entries READY.          *)
Queue == [Places -> Pids \union {None}]

LEMMA PipeTypeInit == PipeInit => TypeOK /\ readers \in Queue /\ writers \in Queue
  <1> SUFFICES ASSUME PipeInit PROVE TypeOK /\ readers \in Queue /\ writers \in Queue
    OBVIOUS
  <1>1. /\ 0 \in Slots /\ 1 \in Slots /\ PidOf \in [Slots -> Pids] /\ PidOf[1] \in Pids
        /\ Pids \subseteq Int
        /\ \A s \in Slots : s # 0 => s - 1 \in Slots
        /\ MaxPid + 1 \in 1 .. MaxPid + 1
        /\ 0 \in 0 .. TickMod - 1
        /\ 0 .. MaxProcesses - 2 \subseteq Slots
    BY ProcessAssumption, PipeAssumption DEF Slots, Pids
  <1>2. NoCall \in Calls /\ [kind |-> "wait", arg |-> PidOf[1]] \in Calls
    <2>1. PidOf[1] \in Int
      BY <1>1
    <2> QED BY <2>1 DEF NoCall, Calls
  <1>3. call \in [Slots -> Calls]
    BY <1>2 DEF PipeInit
  <1>4. /\ kernel_stack \in [Slots -> Slots \union {None, Boot}]
        /\ frame \in [Slots -> Slots \union {None, Boot}]
        /\ esp0 \in Slots \union {None, Boot}
    BY <1>1 DEF PipeInit
  <1>5. /\ state \in [Slots -> States] /\ pid \in [Slots -> Pids]
        /\ waiting_for \in [Slots -> Pids \union {None}]
        /\ sleep_until \in [Slots -> 0 .. TickMod - 1]
        /\ page_directory \in [Slots -> {"kernel", "own", "none"}]
        /\ kstack_used \in SUBSET Slots
        /\ current_pid \in Slots /\ next_pid \in 1 .. MaxPid + 1
        /\ ticks \in 0 .. TickMod - 1
        /\ sigint_target \in Pids \union {None} /\ crashed \in BOOLEAN
    BY <1>1 DEF PipeInit, States
  <1>6. readers \in Queue /\ writers \in Queue
    BY DEF PipeInit, Queue
  <1> QED BY <1>3, <1>4, <1>5, <1>6 DEF TypeOK

(* The entries of a table, or of a queue, after a wake function.           *)
Distinct(q) == \A i, j \in Places : q[i] = q[j] /\ q[i] \in Slots => i = j

Wakes(q, st, left) ==
    /\ st \in [Slots -> States]
    /\ left \in Queue
    /\ \A s \in Slots : \/ st[s] = state[s]
                        \/ /\ state[s] = "WAITING" /\ st[s] = "READY"
                           /\ \E i \in Places : q[i] = s
    /\ \A i \in Places : \/ left[i] = q[i]
                         \/ left[i] = None /\ q[i] \in Slots /\ st[q[i]] # "WAITING"
    /\ Distinct(q) => \A i \in Places :
         q[i] \in Slots /\ st[q[i]] # state[q[i]] => left[i] = None

LEMMA OneWakes ==
    ASSUME TypeOK, NEW q \in Queue
    PROVE  Wakes(q, WokenOne(q), LeftAfterOne(q))
  <1> DEFINE st == WokenOne(q)  left == LeftAfterOne(q)
  <1>0. \A i \in Places : IsSlot(q[i]) <=> q[i] \in Slots
    BY ProcessAssumption DEF IsSlot, Slots, Pids, None, Queue
  <1>1. \A s \in Slots : \/ st[s] = state[s]
                         \/ /\ state[s] = "WAITING" /\ st[s] = "READY"
                            /\ \E i \in Places : q[i] = s
    BY DEF WokenOne, FirstWakeable, Wakeable
  <1>2. st \in [Slots -> States]
    BY DEF WokenOne, TypeOK, States
  <1>3. left \in Queue
    BY DEF LeftAfterOne, Queue
  <1>4. ASSUME NEW i \in Places, left[i] # q[i]
        PROVE  left[i] = None /\ q[i] \in Slots /\ st[q[i]] # "WAITING"
    <2>1. Visited(q, i) /\ left[i] = None
      BY <1>4 DEF LeftAfterOne
    <2>2. q[i] \in Slots
      BY <2>1, <1>0 DEF Visited
    <2>3. CASE i \in Wakeable(q)
      <3>1. FirstWakeable(q, i)
        BY <2>1, <2>3 DEF Visited, FirstWakeable
      <3> QED BY <2>1, <2>2, <3>1 DEF WokenOne
    <2>4. CASE i \notin Wakeable(q)
      <3>1. state[q[i]] # "WAITING"
        BY <2>1, <2>4 DEF Visited, Wakeable
      <3> QED BY <2>1, <2>2, <3>1 DEF WokenOne
    <2> QED BY <2>3, <2>4
  <1>5. ASSUME Distinct(q), NEW i \in Places, q[i] \in Slots, st[q[i]] # state[q[i]]
        PROVE  left[i] = None
    <2>1. PICK j \in Places : FirstWakeable(q, j) /\ q[j] = q[i]
      BY <1>5 DEF WokenOne
    <2>2. i = j
      BY <1>5, <2>1 DEF Distinct
    <2> QED BY <2>1, <2>2 DEF FirstWakeable, LeftAfterOne, Visited, Wakeable
  <1> QED BY <1>1, <1>2, <1>3, <1>4, <1>5 DEF Wakes

LEMMA AllWake ==
    ASSUME TypeOK, NEW q \in Queue
    PROVE  Wakes(q, WokenAll(q), LeftAfterAll(q))
  <1> DEFINE st == WokenAll(q)  left == LeftAfterAll(q)
  <1>0. \A i \in Places : IsSlot(q[i]) <=> q[i] \in Slots
    BY ProcessAssumption DEF IsSlot, Slots, Pids, None, Queue
  <1>1. \A s \in Slots : \/ st[s] = state[s]
                         \/ /\ state[s] = "WAITING" /\ st[s] = "READY"
                            /\ \E i \in Places : q[i] = s
    BY DEF WokenAll, Wakeable
  <1>2. st \in [Slots -> States]
    BY DEF WokenAll, TypeOK, States
  <1>3. left \in Queue
    BY DEF LeftAfterAll, Queue
  <1>4. ASSUME NEW i \in Places, left[i] # q[i]
        PROVE  left[i] = None /\ q[i] \in Slots /\ st[q[i]] # "WAITING"
    <2>1. IsSlot(q[i]) /\ left[i] = None
      BY <1>4 DEF LeftAfterAll
    <2> QED BY <2>1, <1>0 DEF WokenAll, Wakeable
  <1>5. \A i \in Places : q[i] \in Slots => left[i] = None
    BY <1>0 DEF LeftAfterAll
  <1> QED BY <1>1, <1>2, <1>3, <1>4, <1>5 DEF Wakes

LEMMA EnqueuedType ==
    ASSUME TypeOK, NEW q \in Queue
    PROVE  Enqueued(q) \in Queue
  BY DEF Enqueued, Queue, TypeOK

LEMMA CallTypes ==
    ASSUME TypeOK
    PROVE  /\ current_pid \in Slots /\ Left \in Int
           /\ call[current_pid] \in Calls
           /\ \A kind \in {"read", "write"}, n \in Int : Call(kind, n) \in [Slots -> Calls]
           /\ Return \in [Slots -> Calls]
  <1>1. NoCall \in Calls
    BY DEF NoCall, Calls
  <1>2. \A kind \in {"read", "write"}, n \in Int : [kind |-> kind, arg |-> n] \in Calls
    BY DEF Calls
  <1>3. current_pid \in Slots /\ call \in [Slots -> Calls]
    BY DEF TypeOK
  <1>4. call[current_pid] \in Calls
    BY <1>3
  <1>5. Left \in Int
    BY <1>4 DEF Left, Calls
  <1> QED BY <1>1, <1>2, <1>3, <1>4, <1>5 DEF Call, Return

LEMMA PipeTypeStep ==
    ASSUME TypeOK, readers \in Queue, writers \in Queue, [PipeNext]_allVars
    PROVE  TypeOK' /\ readers' \in Queue /\ writers' \in Queue
  <1>1. ASSUME Untouched, state' \in [Slots -> States], call' \in [Slots -> Calls]
        PROVE  TypeOK'
    BY <1>1 DEF TypeOK, Untouched
  <1>2. ASSUME NEW n \in Sizes, EnterRead(n) \/ EnterWrite(n)
        PROVE  TypeOK' /\ readers' \in Queue /\ writers' \in Queue
    <2>1. n \in Int
      BY PipeAssumption
    <2>2. call' \in [Slots -> Calls]
      BY <1>2, <2>1, CallTypes DEF EnterRead, EnterWrite
    <2>3. state' \in [Slots -> States] /\ Untouched /\ UNCHANGED queues
      BY <1>2 DEF EnterRead, EnterWrite, pipeVars, TypeOK
    <2> QED BY <1>1, <2>2, <2>3 DEF queues
  <1>3. CASE ReadReturn \/ WriteReturn
    <2>1. call' \in [Slots -> Calls]
      BY <1>3, CallTypes DEF ReadReturn, WriteReturn
    <2>2. state' \in [Slots -> States] /\ Untouched /\ UNCHANGED queues
      BY <1>3 DEF ReadReturn, WriteReturn, pipeVars, TypeOK
    <2> QED BY <1>1, <2>1, <2>2 DEF queues
  <1>4. CASE ReadByte
    <2>1. Left - 1 \in Int
      BY CallTypes
    <2>2. call' \in [Slots -> Calls]
      BY <1>4, <2>1, CallTypes DEF ReadByte
    <2>3. state' \in [Slots -> States] /\ writers' \in Queue
      BY <1>4, OneWakes DEF ReadByte, Wakes
    <2> QED BY <1>1, <1>4, <2>2, <2>3 DEF ReadByte
  <1>5. CASE WriteByte
    <2>1. Left - 1 \in Int
      BY CallTypes
    <2>2. call' \in [Slots -> Calls]
      BY <1>5, <2>1, CallTypes DEF WriteByte
    <2>3. state' \in [Slots -> States] /\ readers' \in Queue
      BY <1>5, OneWakes DEF WriteByte, Wakes
    <2> QED BY <1>1, <1>5, <2>2, <2>3 DEF WriteByte
  <1>6. CASE pipe_close_read
    <2>1. state' \in [Slots -> States] /\ writers' \in Queue
      BY <1>6, AllWake DEF pipe_close_read, Wakes
    <2>2. call' \in [Slots -> Calls]
      BY <1>6 DEF pipe_close_read, TypeOK
    <2> QED BY <1>1, <1>6, <2>1, <2>2 DEF pipe_close_read
  <1>7. CASE pipe_close_write
    <2>1. state' \in [Slots -> States] /\ readers' \in Queue
      BY <1>7, AllWake DEF pipe_close_write, Wakes
    <2>2. call' \in [Slots -> Calls]
      BY <1>7 DEF pipe_close_write, TypeOK
    <2> QED BY <1>1, <1>7, <2>1, <2>2 DEF pipe_close_write
  <1>8. ASSUME wq_sleep(call[current_pid]) PROVE TypeOK'
    <2> DEFINE st == [state EXCEPT ![current_pid] = "WAITING"]
    <2>1. st \in [Slots -> States]
      BY DEF TypeOK, States
    <2>2. scheduler(st, sleep_until, ticks, page_directory, call[current_pid])
      BY <1>8 DEF wq_sleep
    <2> HIDE DEF st
    <2>3. SchedulerTypes
      BY <2>1, <2>2, CallTypes, SchedulerEffect
    <2>4. waiting_for' \in [Slots -> Pids \union {None}]
      BY <1>8 DEF wq_sleep, TypeOK
    <2> QED BY <1>8, <2>3, <2>4 DEF wq_sleep, TypeOK, SchedulerTypes
  <1>9. CASE ReadSleep
    BY <1>8, <1>9, EnqueuedType DEF ReadSleep
  <1>10. CASE WriteSleep
    BY <1>8, <1>10, EnqueuedType DEF WriteSleep
  <1>11. CASE \/ (process_exit \/ timer_handler) /\ UNCHANGED pipeVars
              \/ \E p \in Pids : sys_wait(p) /\ UNCHANGED pipeVars
    <2>1. [NextAll]_vars
      BY <1>11 DEF NextAll, Next, Syscall
    <2>2. TypeOK'
      BY <2>1, TypeStep
    <2> QED BY <1>11, <2>2 DEF pipeVars, queues
  <1>12. CASE UNCHANGED allVars
    <2>1. [NextAll]_vars
      BY <1>12 DEF allVars
    <2>2. TypeOK'
      BY <2>1, TypeStep
    <2> QED BY <1>12, <2>2 DEF allVars, pipeVars, queues
  <1> QED
    BY <1>2, <1>3, <1>4, <1>5, <1>6, <1>7, <1>9, <1>10, <1>11, <1>12
       DEF PipeNext, Kernel

-----------------------------------------------------------------------------
(* No two processes have the same pid, and a pid that is a slot number is  *)
(* that of the process in the slot.  So it is until a slot is used twice,  *)
(* and again once the processes made before pids outgrew the table and not *)
(* in their own slots are gone: new pids are beyond it.                    *)
PidsFit ==
    \A s \in Slots : /\ PidOf[s] = s \/ PidOf[s] \notin Slots
                     /\ \A t \in Slots : PidOf[t] = PidOf[s] => t = s

Owner(p) == CHOOSE s \in Slots : PidOf[s] = p

LEMMA OwnerIs ==
    ASSUME PidsFit
    PROVE  /\ \A s \in Slots : Owner(PidOf[s]) = s
           /\ \A p : /\ Owner(p) \in Slots /\ PidOf[Owner(p)] = p /\ p \in Slots
                    => Owner(p) = p
  BY DEF PidsFit, Owner

(* Who is in the wait queues.  In a table st, with the calls cl, while cur *)
(* is executing: the entries of q are the pids of different processes,     *)
(* switched out inside a call of the kind, which wait for no pid.          *)
Rests(s, kind, st, cl, cur, wf) ==
    /\ s \in Slots /\ s # cur
    /\ st[s] = "WAITING" /\ cl[s].kind = kind /\ wf[s] = None

Queued(q, kind, st, cl, cur, wf) ==
    \A i \in Places : q[i] # None =>
        /\ PidOf[Owner(q[i])] = q[i] /\ Rests(Owner(q[i]), kind, st, cl, cur, wf)
        /\ \A j \in Places : q[j] = q[i] => j = i

(* Whoever is switched out in sys_wait waits for the pid it gave.          *)
Waits(st, cl, cur, wf) ==
    \A s \in Slots \ {cur} :
        st[s] = "WAITING" /\ cl[s].kind = "wait" => wf[s] = cl[s].arg

(* Nobody is runnable, and the process that is executing goes round its    *)
(* loop, filling the wait queue with its own pid: scheduler() returns at   *)
(* once, and there is no idle process.                                     *)
Stuck ==
    /\ Runnable(state) = {}
    /\ Left > 0
    /\ \/ call[current_pid].kind = "read" /\ Empty /\ write_open > 0
       \/ call[current_pid].kind = "write" /\ Full /\ read_open > 0

QueueInv ==
    /\ PidsFit /\ pid = PidOf
    /\ \A s \in Slots : state[s] # "SLEEPING"
    /\ \/ Stuck
       \/ /\ Queued(readers, "read", state, call, current_pid, waiting_for)
          /\ Queued(writers, "write", state, call, current_pid, waiting_for)
    /\ Waits(state, call, current_pid, waiting_for)

(* What scheduler() does where nobody sleeps.                              *)
Stays(st, c) ==
    /\ Runnable(st) = {} \/ current_pid \in Runnable(st)
    /\ state' = st
    /\ call' = [call EXCEPT ![current_pid] = AfterScheduler(c)]
    /\ current_pid' = current_pid

Switches(st, c) ==
    /\ current_pid' \in Runnable(st) /\ current_pid' # current_pid
    /\ state' = SwitchTo(st, current_pid')
    /\ call' = [call EXCEPT ![current_pid] = c, ![current_pid'] = AfterScheduler(@)]

LEMMA SchedulerOutcome ==
    ASSUME TypeOK, NEW st \in [Slots -> States], \A s \in Slots : st[s] # "SLEEPING",
           NEW until, NEW now, NEW dirs, NEW c, scheduler(st, until, now, dirs, c)
    PROVE  Stays(st, c) \/ Switches(st, c)
  <1>1. Awake(st, until, now) = st
    BY DEF Awake
  <1>2. PICK next \in Slots :
          /\ IsNext(st, next)
          /\ \/ /\ next = current_pid
                /\ state' = st
                /\ call' = [call EXCEPT ![current_pid] = AfterScheduler(c)]
                /\ UNCHANGED current_pid
             \/ /\ next # current_pid
                /\ state' = SwitchTo(st, next)
                /\ call' = [call EXCEPT ![current_pid] = c,
                                        ![next] = AfterScheduler(@)]
                /\ current_pid' = next
    BY <1>1 DEF scheduler
  <1>3. next \in Runnable(st) \/ (Runnable(st) = {} /\ next = current_pid)
    BY <1>2 DEF IsNext
  <1> QED BY <1>2, <1>3 DEF Stays, Switches

(* A switch leaves the waiting processes in their calls, and in the queues. *)
LEMMA SwitchKeepsCalls ==
    ASSUME TypeOK, NEW st \in [Slots -> States], NEW c, Switches(st, c),
           \A s \in Slots : st[s] # "SLEEPING"
    PROVE  /\ current_pid' \in Slots /\ st[current_pid'] \in {"READY", "RUNNING"}
           /\ \A s \in Slots : /\ state'[s] # "SLEEPING"
                               /\ state'[s] = "WAITING" <=> st[s] = "WAITING"
                               /\ st[s] = "READY" /\ s # current_pid' => state'[s] = "READY"
           /\ \A s \in Slots \ {current_pid'} :
                call'[s] = [call EXCEPT ![current_pid] = c][s]
           /\ LET cl == [call EXCEPT ![current_pid] = c]
              IN  cl[current_pid'].kind \in {"read", "write"} =>
                    call'[current_pid'] = cl[current_pid']
  BY DEF Switches, Runnable, SwitchTo, TypeOK, AfterScheduler

LEMMA SwitchKeepsQueue ==
    ASSUME TypeOK, NEW st \in [Slots -> States], NEW c, Switches(st, c),
           \A s \in Slots : st[s] # "SLEEPING",
           NEW q, NEW kind, NEW wf,
           Queued(q, kind, st, [call EXCEPT ![current_pid] = c], None, wf)
    PROVE  Queued(q, kind, state', call', current_pid', wf)
  <1> DEFINE cl == [call EXCEPT ![current_pid] = c]
  <1> SUFFICES ASSUME NEW i \in Places, q[i] # None
               PROVE  /\ PidOf[Owner(q[i])] = q[i]
                      /\ Rests(Owner(q[i]), kind, state', call', current_pid', wf)
                      /\ \A j \in Places : q[j] = q[i] => j = i
    BY DEF Queued
  <1>1. /\ PidOf[Owner(q[i])] = q[i]
        /\ Rests(Owner(q[i]), kind, st, cl, None, wf)
        /\ \A j \in Places : q[j] = q[i] => j = i
    BY DEF Queued
  <1> HIDE DEF cl
  <1>2. /\ st[current_pid'] \in {"READY", "RUNNING"}
        /\ \A s \in Slots : state'[s] = "WAITING" <=> st[s] = "WAITING"
        /\ \A s \in Slots \ {current_pid'} : call'[s] = cl[s]
    BY SwitchKeepsCalls DEF cl
  <1> QED BY <1>1, <1>2 DEF Rests

LEMMA SwitchKeepsWaits ==
    ASSUME TypeOK, NEW st \in [Slots -> States], NEW c, Switches(st, c),
           \A s \in Slots : st[s] # "SLEEPING",
           NEW wf, Waits(st, [call EXCEPT ![current_pid] = c], None, wf)
    PROVE  Waits(state', call', current_pid', wf)
  <1> DEFINE cl == [call EXCEPT ![current_pid] = c]
  <1>1. /\ \A s \in Slots : state'[s] = "WAITING" <=> st[s] = "WAITING"
        /\ \A s \in Slots \ {current_pid'} : call'[s] = cl[s]
    BY SwitchKeepsCalls
  <1>2. \A s \in Slots : s # None
    BY DEF Slots, None
  <1> QED BY <1>1, <1>2 DEF Waits

(* A process that is in user mode is not stuck in the pipe.                *)
LEMMA UserIsFree == UserMode => ~Stuck /\ call[current_pid].kind = "none"
  BY DEF UserMode, Stuck, NoCall

(* The steps of the process table, handing st to scheduler() from the call *)
(* c: each other process is left alone or woken from its wait for a pid.   *)
OthersLeft(st) ==
    \A s \in Slots \ {current_pid} :
        \/ st[s] = state[s] /\ waiting_for'[s] = waiting_for[s]
        \/ state[s] = "WAITING" /\ waiting_for[s] # None /\ st[s] = "READY"

LEMMA OthersStayQueued ==
    ASSUME NEW q, NEW kind, NEW st, OthersLeft(st), NEW cl,
           \A s \in Slots \ {current_pid} : cl[s] = call[s],
           Queued(q, kind, state, call, current_pid, waiting_for), NEW cur,
           cur \in {None, current_pid}
    PROVE  Queued(q, kind, st, cl, cur, waiting_for')
  <1> SUFFICES ASSUME NEW i \in Places, q[i] # None
               PROVE  /\ PidOf[Owner(q[i])] = q[i]
                      /\ Rests(Owner(q[i]), kind, st, cl, cur, waiting_for')
                      /\ \A j \in Places : q[j] = q[i] => j = i
    BY DEF Queued
  <1> DEFINE s == Owner(q[i])
  <1>1. /\ PidOf[s] = q[i]
        /\ Rests(s, kind, state, call, current_pid, waiting_for)
        /\ \A j \in Places : q[j] = q[i] => j = i
    BY DEF Queued
  <1> HIDE DEF s
  <1>2. st[s] = state[s] /\ waiting_for'[s] = None /\ s # None
    BY <1>1 DEF OthersLeft, Rests, Slots, None
  <1>3. Rests(s, kind, st, cl, cur, waiting_for')
    BY <1>1, <1>2 DEF Rests
  <1> QED BY <1>1, <1>3 DEF s

(* The three steps of the process table that Pipe takes over have this     *)
(* form: ExitIsStep, WaitIsStep and TimerIsStep.                           *)
ProcessStep(st, c) ==
    /\ UserMode
    /\ UNCHANGED <<pid, ring, read_open, write_open, readers, writers>>
    /\ st \in [Slots -> States]
    /\ \A s \in Slots : st[s] # "SLEEPING"
    /\ OthersLeft(st)
    /\ c.kind \notin {"read", "write"}
    /\ c.kind = "wait" => waiting_for'[current_pid] = c.arg
    /\ Stays(st, c) \/ Switches(st, c)

LEMMA ProcessKeepsQueues ==
    ASSUME TypeOK, QueueInv, NEW st, NEW c, ProcessStep(st, c)
    PROVE  QueueInv'
  <1> USE DEF QueueInv, ProcessStep
  <1>0. current_pid \in Slots /\ None \notin Slots
    BY DEF TypeOK, Slots, None
  <1>1. /\ Queued(readers, "read", state, call, current_pid, waiting_for)
        /\ Queued(writers, "write", state, call, current_pid, waiting_for)
    BY UserIsFree
  <1>2. PidsFit /\ pid' = PidOf
    OBVIOUS
  <1>3. CASE Stays(st, c)
    <2>1. /\ current_pid' = current_pid /\ state' = st
          /\ \A s \in Slots \ {current_pid} : call'[s] = call[s]
      BY <1>3 DEF Stays, TypeOK
    <2>2. /\ Queued(readers, "read", state', call', current_pid', waiting_for')
          /\ Queued(writers, "write", state', call', current_pid', waiting_for')
      BY <2>1, <1>1, OthersStayQueued
    <2>3. Waits(state', call', current_pid', waiting_for')
      BY <2>1 DEF Waits, OthersLeft
    <2> QED BY <1>2, <2>1, <2>2, <2>3
  <1>4. CASE Switches(st, c)
    <2> DEFINE cl == [call EXCEPT ![current_pid] = c]
    <2>1. \A s \in Slots \ {current_pid} : cl[s] = call[s]
      BY DEF TypeOK
    <2>2. /\ Queued(readers, "read", st, cl, None, waiting_for')
          /\ Queued(writers, "write", st, cl, None, waiting_for')
      BY <2>1, <1>1, OthersStayQueued
    <2>3. Waits(st, cl, None, waiting_for')
      <3>1. cl[current_pid] = c
        BY <1>0 DEF TypeOK
      <3> HIDE DEF cl
      <3> QED BY <2>1, <3>1 DEF Waits, OthersLeft
    <2> HIDE DEF cl
    <2>4. /\ Queued(readers, "read", state', call', current_pid', waiting_for')
          /\ Queued(writers, "write", state', call', current_pid', waiting_for')
      BY <2>2, <1>4, SwitchKeepsQueue DEF cl
    <2>5. Waits(state', call', current_pid', waiting_for')
      BY <2>3, <1>4, SwitchKeepsWaits DEF cl
    <2>6. \A s \in Slots : state'[s] # "SLEEPING"
      BY <1>4, SwitchKeepsCalls
    <2> QED BY <1>2, <2>4, <2>5, <2>6
  <1> QED BY <1>3, <1>4

LEMMA ExitIsStep ==
    ASSUME TypeOK, QueueInv, process_exit, UNCHANGED pipeVars
    PROVE  ProcessStep(Wake([state EXCEPT ![current_pid] = "DEAD"], pid[current_pid]), NoCall)
  <1> DEFINE dead == [state EXCEPT ![current_pid] = "DEAD"]
             st   == Wake(dead, pid[current_pid])
             dirs == [page_directory EXCEPT ![current_pid] = "none"]
  <1>1. current_pid \in Slots /\ pid[current_pid] \in Pids /\ pid[current_pid] # None
    BY DEF TypeOK, Pids, None
  <1>2. /\ UserMode /\ waiting_for' = WakeFor(dead, pid[current_pid])
        /\ UNCHANGED <<pid, ring, read_open, write_open, readers, writers>>
        /\ scheduler(st, sleep_until, ticks, dirs, NoCall)
    BY <1>1 DEF process_exit, pipeVars, queues
  <1>3. st \in [Slots -> States]
    BY KillTypes
  <1>4. \A s \in Slots : st[s] # "SLEEPING"
    BY DEF Wake, TypeOK, QueueInv
  <1>5. OthersLeft(st)
    BY <1>1, <1>2 DEF OthersLeft, Wake, WakeFor, IsWaiter, TypeOK
  <1> HIDE DEF st
  <1>6. Stays(st, NoCall) \/ Switches(st, NoCall)
    BY <1>2, <1>3, <1>4, SchedulerOutcome
  <1>7. ProcessStep(st, NoCall)
    BY <1>2, <1>3, <1>4, <1>5, <1>6 DEF ProcessStep, NoCall
  <1> QED BY <1>7 DEF st

LEMMA WaitIsStep ==
    ASSUME TypeOK, QueueInv, UNCHANGED pipeVars, NEW p \in Pids, sys_wait(p)
    PROVE  ProcessStep([state EXCEPT ![current_pid] = "WAITING"], [kind |-> "wait", arg |-> p])
  <1> DEFINE st == [state EXCEPT ![current_pid] = "WAITING"]
             c  == [kind |-> "wait", arg |-> p]
  <1>1. /\ UserMode /\ waiting_for' = [waiting_for EXCEPT ![current_pid] = p]
        /\ UNCHANGED <<pid, ring, read_open, write_open, readers, writers>>
        /\ scheduler(st, sleep_until, ticks, page_directory, c)
    BY DEF sys_wait, CanCall, pipeVars, queues
  <1>2. /\ st \in [Slots -> States]
        /\ \A s \in Slots : st[s] # "SLEEPING"
        /\ OthersLeft(st)
        /\ waiting_for'[current_pid] = p
    BY <1>1 DEF TypeOK, States, QueueInv, OthersLeft
  <1> HIDE DEF st
  <1>3. Stays(st, c) \/ Switches(st, c)
    BY <1>1, <1>2, SchedulerOutcome
  <1>4. ProcessStep(st, c)
    BY <1>1, <1>2, <1>3 DEF ProcessStep
  <1> QED BY <1>4 DEF st

LEMMA TimerIsStep ==
    ASSUME TypeOK, QueueInv, timer_handler, UNCHANGED pipeVars
    PROVE  \/ ProcessStep(state, NoCall)
           \/ UNCHANGED <<pid, state, call, current_pid, waiting_for, pipeVars>>
  <1>1. CASE ticks' % Quantum = 0
    <2>1. /\ UserMode /\ UNCHANGED <<pid, waiting_for>>
          /\ UNCHANGED <<ring, read_open, write_open, readers, writers>>
          /\ scheduler(state, sleep_until, ticks', page_directory, NoCall)
      BY <1>1 DEF timer_handler, pipeVars, queues
    <2>2. /\ state \in [Slots -> States]
          /\ \A s \in Slots : state[s] # "SLEEPING"
          /\ OthersLeft(state)
      BY <2>1 DEF TypeOK, QueueInv, OthersLeft
    <2>3. Stays(state, NoCall) \/ Switches(state, NoCall)
      BY <2>1, <2>2, SchedulerOutcome
    <2> QED BY <2>1, <2>2, <2>3 DEF ProcessStep, NoCall
  <1>2. CASE ticks' % Quantum # 0
    BY <1>2 DEF timer_handler
  <1> QED BY <1>1, <1>2

(* Waking some of the queue q leaves both queues in order.                 *)
LEMMA WakeKeepsQueue ==
    ASSUME PidsFit, NEW q, NEW kind, NEW r, NEW other, kind # other, NEW st, NEW left,
           Queued(q, kind, state, call, current_pid, waiting_for),
           Queued(r, other, state, call, current_pid, waiting_for),
           Wakes(q, st, left), NEW cl,
           \A s \in Slots \ {current_pid} : cl[s] = call[s]
    PROVE  /\ Queued(left, kind, st, cl, current_pid, waiting_for)
           /\ Queued(r, other, st, cl, current_pid, waiting_for)
           /\ \A s \in Slots : st[s] # state[s] =>
                /\ state[s] = "WAITING" /\ st[s] = "READY"
                /\ s # current_pid /\ call[s].kind = kind
  <1>0. None \notin Slots
    BY DEF Slots, None
  <1>1. \A i \in Places : q[i] # None =>
          /\ PidOf[Owner(q[i])] = q[i]
          /\ Rests(Owner(q[i]), kind, state, call, current_pid, waiting_for)
          /\ \A j \in Places : q[j] = q[i] => j = i
    BY DEF Queued
  <1>2. \A i \in Places : r[i] # None =>
          /\ PidOf[Owner(r[i])] = r[i]
          /\ Rests(Owner(r[i]), other, state, call, current_pid, waiting_for)
          /\ \A j \in Places : r[j] = r[i] => j = i
    BY DEF Queued
  <1>3. Distinct(q)
    BY <1>0, <1>1 DEF Distinct
  <1>4. /\ \A s \in Slots : st[s] # state[s] =>
             state[s] = "WAITING" /\ st[s] = "READY" /\ \E i \in Places : q[i] = s
        /\ \A i \in Places : left[i] = q[i] \/ left[i] = None
        /\ \A i \in Places : q[i] \in Slots /\ st[q[i]] # state[q[i]] => left[i] = None
    BY <1>3 DEF Wakes
  <1>5. \A s \in Slots : st[s] # state[s] =>
          /\ state[s] = "WAITING" /\ st[s] = "READY"
          /\ s # current_pid /\ call[s].kind = kind
    <2> SUFFICES ASSUME NEW s \in Slots, st[s] # state[s]
                 PROVE  s # current_pid /\ call[s].kind = kind
      BY <1>4
    <2>1. PICK i \in Places : q[i] = s
      BY <1>4
    <2>2. Owner(s) = s
      BY <1>0, <1>1, <2>1, OwnerIs DEF Rests
    <2> QED BY <1>0, <1>1, <2>1, <2>2 DEF Rests
  <1>6. ASSUME NEW i \in Places, left[i] # None
        PROVE  /\ PidOf[Owner(left[i])] = left[i]
               /\ Rests(Owner(left[i]), kind, st, cl, current_pid, waiting_for)
               /\ \A j \in Places : left[j] = left[i] => j = i
    <2> DEFINE s == Owner(q[i])
    <2>1. /\ left[i] = q[i] /\ q[i] # None /\ PidOf[s] = q[i]
          /\ Rests(s, kind, state, call, current_pid, waiting_for)
          /\ \A j \in Places : q[j] = q[i] => j = i
      BY <1>1, <1>4, <1>6
    <2> HIDE DEF s
    <2>2. st[s] = state[s]
      <3> SUFFICES ASSUME st[s] # state[s] PROVE FALSE
        OBVIOUS
      <3>1. PICK k \in Places : q[k] = s
        BY <1>4, <2>1 DEF Rests
      <3>2. s \in Slots /\ PidOf[s] \in Slots
        <4>1. Owner(s) = s
          BY <1>0, <1>1, <2>1, <3>1, OwnerIs DEF Rests
        <4> QED BY <1>0, <1>1, <2>1, <3>1, <4>1 DEF Rests
      <3>3. q[i] = s
        BY <2>1, <3>2 DEF PidsFit
      <3> QED BY <1>4, <1>6, <2>1, <3>2, <3>3
    <2>3. Rests(s, kind, st, cl, current_pid, waiting_for)
      BY <2>1, <2>2 DEF Rests
    <2>4. \A j \in Places : left[j] = left[i] => j = i
      BY <1>4, <1>6, <2>1
    <2> QED BY <2>1, <2>3, <2>4 DEF s
  <1>7. ASSUME NEW i \in Places, r[i] # None
        PROVE  /\ PidOf[Owner(r[i])] = r[i]
               /\ Rests(Owner(r[i]), other, st, cl, current_pid, waiting_for)
               /\ \A j \in Places : r[j] = r[i] => j = i
    BY <1>2, <1>5, <1>7 DEF Rests
  <1>8. Queued(left, kind, st, cl, current_pid, waiting_for)
    BY <1>6 DEF Queued
  <1>9. Queued(r, other, st, cl, current_pid, waiting_for)
    BY <1>7 DEF Queued
  <1> QED BY <1>5, <1>8, <1>9

(* The steps that wake a queue, or none: the executing process's own call  *)
(* may change, the calls of the others do not.                             *)
WakeStep ==
    /\ ~Stuck
    /\ UNCHANGED <<pid, waiting_for, current_pid>>
    /\ \A s \in Slots \ {current_pid} : call'[s] = call[s]
    /\ \/ UNCHANGED <<state, readers, writers>>
       \/ Wakes(readers, state', readers') /\ writers' = writers
       \/ Wakes(writers, state', writers') /\ readers' = readers

LEMMA WakeKeepsQueues ==
    ASSUME TypeOK, QueueInv, WakeStep
    PROVE  /\ QueueInv'
           /\ \A s \in Slots : state'[s] # state[s] => call[s].kind \in {"read", "write"}
  <1> USE DEF QueueInv, WakeStep
  <1>1. /\ Queued(readers, "read", state, call, current_pid, waiting_for)
        /\ Queued(writers, "write", state, call, current_pid, waiting_for)
    OBVIOUS
  <1>2. /\ Queued(readers', "read", state', call', current_pid, waiting_for)
        /\ Queued(writers', "write", state', call', current_pid, waiting_for)
        /\ \A s \in Slots : state'[s] # state[s] =>
             /\ state[s] = "WAITING" /\ state'[s] = "READY"
             /\ s # current_pid /\ call[s].kind \in {"read", "write"}
    <2>1. CASE UNCHANGED <<state, readers, writers>>
      BY <2>1, <1>1 DEF Queued, Rests
    <2>2. CASE Wakes(readers, state', readers') /\ writers' = writers
      BY <2>2, <1>1, WakeKeepsQueue
    <2>3. CASE Wakes(writers, state', writers') /\ readers' = readers
      BY <2>3, <1>1, WakeKeepsQueue
    <2> QED BY <2>1, <2>2, <2>3
  <1>3. Waits(state', call', current_pid', waiting_for')
    BY <1>2 DEF Waits
  <1>4. \A s \in Slots : state'[s] # "SLEEPING"
    BY <1>2
  <1> QED BY <1>2, <1>3, <1>4

LEMMA ByteStepsWake ==
    ASSUME TypeOK, RingOK, readers \in Queue, writers \in Queue,
           \/ ReadByte \/ WriteByte \/ ReadReturn \/ WriteReturn
           \/ pipe_close_read \/ pipe_close_write
           \/ \E n \in Sizes : EnterRead(n) \/ EnterWrite(n)
    PROVE  WakeStep
  <1>1. UNCHANGED <<pid, waiting_for, current_pid>>
    BY DEF ReadByte, WriteByte, ReadReturn, WriteReturn, EnterRead, EnterWrite,
           pipe_close_read, pipe_close_write, Untouched
  <1>2. \A s \in Slots \ {current_pid} : call'[s] = call[s]
    BY DEF ReadByte, WriteByte, ReadReturn, WriteReturn, EnterRead, EnterWrite,
           pipe_close_read, pipe_close_write, Call, Return, TypeOK
  <1>3. ~Stuck
    <2>1. CASE ReadByte \/ WriteByte
      BY <2>1 DEF ReadByte, WriteByte, Inside, Stuck
    <2>2. CASE ReadReturn \/ WriteReturn
      <3>1. Left = 0 => ~(Left > 0)
        OBVIOUS
      <3>2. /\ write_open <= 0 => ~(write_open > 0)
            /\ read_open <= 0 => ~(read_open > 0)
        BY DEF RingOK
      <3> QED BY <2>2, <3>1, <3>2 DEF ReadReturn, WriteReturn, Inside, Stuck
    <2>3. CASE \/ pipe_close_read \/ pipe_close_write
               \/ \E n \in Sizes : EnterRead(n) \/ EnterWrite(n)
      <3>1. UserMode
        BY <2>3 DEF EnterRead, EnterWrite, pipe_close_read, pipe_close_write, CanCall
      <3> QED BY <3>1, UserIsFree
    <2> QED BY <2>1, <2>2, <2>3
  <1>4. \/ UNCHANGED <<state, readers, writers>>
        \/ Wakes(readers, state', readers') /\ writers' = writers
        \/ Wakes(writers, state', writers') /\ readers' = readers
    <2>1. CASE ReadByte
      BY <2>1, OneWakes DEF ReadByte
    <2>2. CASE WriteByte
      BY <2>2, OneWakes DEF WriteByte
    <2>3. CASE pipe_close_read
      BY <2>3, AllWake DEF pipe_close_read
    <2>4. CASE pipe_close_write
      BY <2>4, AllWake DEF pipe_close_write
    <2>5. CASE ReadReturn \/ WriteReturn \/ \E n \in Sizes : EnterRead(n) \/ EnterWrite(n)
      BY <2>5 DEF ReadReturn, WriteReturn, EnterRead, EnterWrite, pipeVars, queues
    <2> QED BY <2>1, <2>2, <2>3, <2>4, <2>5
  <1> QED BY <1>1, <1>2, <1>3, <1>4 DEF WakeStep

(* Going to sleep in a read or a write.                                    *)
Resting == [state EXCEPT ![current_pid] = "WAITING"]

SleepStep(q, left, kind) ==
    /\ call[current_pid].kind = kind
    /\ Left > 0
    /\ waiting_for' = [waiting_for EXCEPT ![current_pid] = None]
    /\ UNCHANGED <<pid, ring, read_open, write_open>>
    /\ left = Enqueued(q)
    /\ Stays(Resting, call[current_pid]) \/ Switches(Resting, call[current_pid])

LEMMA RestingIs ==
    ASSUME TypeOK, QueueInv
    PROVE  /\ Resting \in [Slots -> States]
           /\ \A s \in Slots : Resting[s] # "SLEEPING"
           /\ Resting[current_pid] = "WAITING"
           /\ \A s \in Slots \ {current_pid} : Resting[s] = state[s]
  BY DEF Resting, TypeOK, States, QueueInv

LEMMA WqSleepIs ==
    ASSUME TypeOK, QueueInv, wq_sleep(call[current_pid])
    PROVE  Stays(Resting, call[current_pid]) \/ Switches(Resting, call[current_pid])
  <1>1. scheduler(Resting, sleep_until, ticks, page_directory, call[current_pid])
    BY DEF wq_sleep, Resting
  <1> QED BY <1>1, RestingIs, SchedulerOutcome

LEMMA SleepIsStep ==
    ASSUME TypeOK, QueueInv
    PROVE  /\ ReadSleep => /\ SleepStep(readers, readers', "read")
                           /\ Empty /\ write_open > 0 /\ writers' = writers
           /\ WriteSleep => /\ SleepStep(writers, writers', "write")
                            /\ Full /\ read_open > 0 /\ readers' = readers
  BY WqSleepIs DEF ReadSleep, WriteSleep, SleepStep, Inside, wq_sleep

(* A loner goes round its loop; the others leave the CPU to somebody.      *)
LEMMA StaysIsStuck ==
    ASSUME TypeOK, QueueInv, NEW c, c = call[current_pid],
           c.kind \in {"read", "write"}, Stays(Resting, c)
    PROVE  /\ Runnable(state') = {} /\ state' = Resting
           /\ UNCHANGED <<current_pid, call>>
  <1>1. AfterScheduler(c) = c
    BY DEF AfterScheduler
  <1>2. current_pid \notin Runnable(Resting)
    BY RestingIs DEF Runnable
  <1> QED BY <1>1, <1>2 DEF Stays, TypeOK

LEMMA SwitchIsFree ==
    ASSUME TypeOK, QueueInv, NEW c, Switches(Resting, c)
    PROVE  ~Stuck /\ current_pid' \in Slots /\ Runnable(Resting) # {}
  BY RestingIs DEF Switches, Runnable, Stuck

LEMMA EnqueuedIs ==
    ASSUME TypeOK, QueueInv, NEW q \in Queue, NEW kind,
           Queued(q, kind, state, call, current_pid, waiting_for),
           call[current_pid].kind = kind, NEW wf,
           wf = [waiting_for EXCEPT ![current_pid] = None]
    PROVE  Queued(Enqueued(q), kind, Resting, call, None, wf)
  <1> DEFINE left == Enqueued(q)
             new  == PidOf[current_pid]
  <1>1. /\ current_pid \in Slots /\ pid[current_pid] = new /\ Owner(new) = current_pid
        /\ \A i \in Places : i \in Nat
    BY OwnerIs DEF TypeOK, QueueInv, Places
  <1> HIDE DEF new
  <1>2. \A i \in Places : q[i] # None =>
          /\ PidOf[Owner(q[i])] = q[i]
          /\ Rests(Owner(q[i]), kind, state, call, current_pid, waiting_for)
          /\ \A j \in Places : q[j] = q[i] => j = i
    BY DEF Queued
  <1>3. /\ \A i \in Places : q[i] # None => left[i] = q[i]
        /\ \A i \in Places : left[i] # q[i] => left[i] = new
        /\ \A i, j \in Places : left[i] # q[i] /\ left[j] # q[j] => i = j
    BY <1>1 DEF Enqueued
  <1> HIDE DEF left
  <1>4. /\ \A s \in Slots \ {current_pid} : wf[s] = waiting_for[s]
        /\ wf[current_pid] = None
    BY <1>1 DEF TypeOK
  <1>5. ASSUME NEW i \in Places, left[i] # None
        PROVE  /\ PidOf[Owner(left[i])] = left[i]
               /\ Rests(Owner(left[i]), kind, Resting, call, None, wf)
               /\ \A j \in Places : left[j] = left[i] => j = i
    <2>0. \A j \in Places : q[j] # None => q[j] # new
      BY <1>1, <1>2 DEF Rests
    <2>1. CASE left[i] = q[i]
      <3>1. Rests(Owner(q[i]), kind, Resting, call, None, wf)
        BY <2>1, <1>2, <1>4, <1>5, RestingIs DEF Rests, Slots, None
      <3>2. \A j \in Places : left[j] = q[i] => left[j] = q[j]
        BY <2>0, <2>1, <1>3, <1>5
      <3> QED BY <2>1, <3>1, <3>2, <1>2, <1>5
    <2>2. CASE left[i] # q[i]
      <3>1. left[i] = new
        BY <2>2, <1>3
      <3>2. \A j \in Places : left[j] = new => left[j] # q[j]
        BY <2>0, <3>1, <1>5
      <3>3. Rests(current_pid, kind, Resting, call, None, wf)
        BY <1>1, <1>4, RestingIs DEF Rests, Slots, None
      <3>4. PidOf[current_pid] = new
        BY DEF new
      <3> QED BY <2>2, <3>1, <3>2, <3>3, <3>4, <1>1, <1>3
    <2> QED BY <2>1, <2>2
  <1> QED BY <1>5 DEF Queued, left

LEMMA SleepKeepsQueues ==
    ASSUME TypeOK, QueueInv, readers \in Queue, writers \in Queue, ReadSleep \/ WriteSleep
    PROVE  /\ QueueInv'
           /\ \A s \in Slots : state[s] = "WAITING" => state'[s] = "WAITING"
  <1> DEFINE c == call[current_pid]
  <1>0. /\ [call EXCEPT ![current_pid] = c] = call
        /\ current_pid \in Slots /\ None \notin Slots
        /\ waiting_for' = [waiting_for EXCEPT ![current_pid] = None]
        /\ Stays(Resting, c) \/ Switches(Resting, c)
        /\ c.kind \in {"read", "write"} /\ Left > 0
        /\ UNCHANGED <<pid, ring, read_open, write_open>>
    BY SleepIsStep DEF SleepStep, TypeOK, Slots, None
  <1>1. /\ \A s \in Slots \ {current_pid} : waiting_for'[s] = waiting_for[s]
        /\ waiting_for'[current_pid] = None
    BY <1>0 DEF TypeOK
  <1> HIDE DEF c
  <1>2. Waits(Resting, call, None, waiting_for')
    BY <1>0, <1>1, RestingIs DEF Waits, QueueInv, c
  <1>3. CASE Stays(Resting, c)
    <2>1. Runnable(state') = {} /\ state' = Resting /\ UNCHANGED <<current_pid, call>>
      BY <1>0, <1>3, StaysIsStuck DEF c
    <2>2. Stuck'
      BY <2>1, <1>0, SleepIsStep DEF Stuck, SleepStep, Left, Empty, Full, ring, Runnable, After
    <2>3. Waits(state', call', current_pid', waiting_for')
      BY <2>1, <1>0, <1>2 DEF Waits
    <2>4. QueueInv'
      BY <2>1, <2>2, <2>3, <1>0, RestingIs DEF QueueInv
    <2> QED BY <2>1, <2>4, RestingIs, <1>0
  <1>4. CASE Switches(Resting, c)
    <2>1. ~Stuck
      BY <1>4, SwitchIsFree
    <2>2. /\ Queued(readers, "read", state, call, current_pid, waiting_for)
          /\ Queued(writers, "write", state, call, current_pid, waiting_for)
      BY <2>1 DEF QueueInv
    <2>3. ASSUME NEW q, NEW kind, Queued(q, kind, state, call, current_pid, waiting_for)
          PROVE  Queued(q, kind, Resting, call, None, waiting_for')
      BY <2>3, <1>0, <1>1, RestingIs DEF Queued, Rests
    <2>4. /\ Queued(readers', "read", Resting, call, None, waiting_for')
          /\ Queued(writers', "write", Resting, call, None, waiting_for')
      <3>1. CASE ReadSleep
        <4>1. /\ call[current_pid].kind = "read" /\ readers' = Enqueued(readers)
              /\ writers' = writers
          BY <3>1, SleepIsStep DEF SleepStep
        <4> QED BY <4>1, <2>2, <2>3, <1>0, EnqueuedIs
      <3>2. CASE WriteSleep
        <4>1. /\ call[current_pid].kind = "write" /\ writers' = Enqueued(writers)
              /\ readers' = readers
          BY <3>2, SleepIsStep DEF SleepStep
        <4> QED BY <4>1, <2>2, <2>3, <1>0, EnqueuedIs
      <3> QED BY <3>1, <3>2
    <2>5. /\ Queued(readers', "read", state', call', current_pid', waiting_for')
          /\ Queued(writers', "write", state', call', current_pid', waiting_for')
      BY <2>4, <1>0, <1>4, RestingIs, SwitchKeepsQueue
    <2>6. Waits(state', call', current_pid', waiting_for')
      BY <1>2, <1>0, <1>4, RestingIs, SwitchKeepsWaits
    <2>7. \A s \in Slots : /\ state'[s] # "SLEEPING"
                           /\ state'[s] = "WAITING" <=> Resting[s] = "WAITING"
      BY <1>4, RestingIs, SwitchKeepsCalls
    <2>8. PidsFit /\ pid' = PidOf /\ \A s \in Slots : state'[s] # "SLEEPING"
      BY <1>0, <2>7 DEF QueueInv
    <2>9. QueueInv'
      BY <2>5, <2>6, <2>8 DEF QueueInv
    <2>10. \A s \in Slots : state[s] = "WAITING" => state'[s] = "WAITING"
      BY <2>7, RestingIs
    <2> QED BY <2>9, <2>10
  <1> QED BY <1>0, <1>3, <1>4

LEMMA QueueInit ==
    ASSUME PidsFit, PipeInit
    PROVE  QueueInv
  <1>1. pid = PidOf /\ \A s \in Slots : state[s] # "SLEEPING"
    BY DEF PipeInit
  <1>2. /\ Queued(readers, "read", state, call, current_pid, waiting_for)
        /\ Queued(writers, "write", state, call, current_pid, waiting_for)
    BY DEF PipeInit, Queued
  <1>3. ASSUME NEW s \in Slots, state[s] = "WAITING"
        PROVE  waiting_for[s] = call[s].arg
    <2>1. s = 0
      BY <1>3 DEF PipeInit
    <2>2. /\ call = [t \in Slots |-> IF t = 0 THEN [kind |-> "wait", arg |-> PidOf[1]] ELSE NoCall]
          /\ waiting_for = [t \in Slots |-> IF t = 0 THEN PidOf[1] ELSE None]
      BY DEF PipeInit
    <2>3. call[s] = [kind |-> "wait", arg |-> PidOf[1]] /\ waiting_for[s] = PidOf[1]
      BY <2>1, <2>2
    <2> QED BY <2>3
  <1>4. Waits(state, call, current_pid, waiting_for)
    BY <1>3 DEF Waits
  <1> QED BY <1>1, <1>2, <1>4 DEF QueueInv

(* What a step does to a process that waits for a pid. *)
Undisturbed ==
    \A s \in Slots :
        state[s] = "WAITING" /\ state'[s] = "READY" /\ call[s].kind = "wait"
        => \A t \in Slots : pid[t] = call[s].arg => state'[t] = "DEAD"

LEMMA SchedulerLeavesWaiting ==
    ASSUME TypeOK, QueueInv, NEW st, NEW c, ProcessStep(st, c)
    PROVE  \A s \in Slots : /\ st[s] = "WAITING" => state'[s] = "WAITING"
                            /\ st[s] = "DEAD" => state'[s] = "DEAD"
                            /\ state'[s] = "READY" => st[s] \in {"READY", "RUNNING"}
  <1>1. CASE Stays(st, c)
    BY <1>1 DEF Stays, ProcessStep
  <1>2. CASE Switches(st, c)
    <2>1. st[current_pid'] \in {"READY", "RUNNING"}
      BY <1>2 DEF Switches, Runnable
    <2> QED BY <1>2, <2>1 DEF Switches, SwitchTo
  <1> QED BY <1>1, <1>2 DEF ProcessStep

LEMMA ExitLeavesWaiters ==
    ASSUME TypeOK, QueueInv, process_exit, UNCHANGED pipeVars
    PROVE  Undisturbed
  <1> DEFINE dead == [state EXCEPT ![current_pid] = "DEAD"]
             st   == Wake(dead, pid[current_pid])
  <1>1. ProcessStep(st, NoCall)
    BY ExitIsStep
  <1>2. /\ current_pid \in Slots /\ dead[current_pid] = "DEAD"
        /\ \A s \in Slots \ {current_pid} : dead[s] = state[s]
        /\ \A s \in Slots : pid[s] = pid[current_pid] => s = current_pid
    BY DEF TypeOK, QueueInv, PidsFit
  <1>3. SUFFICES ASSUME NEW s \in Slots, state[s] = "WAITING", state'[s] = "READY",
                        call[s].kind = "wait"
                 PROVE  call[s].arg = pid[current_pid] /\ state'[current_pid] = "DEAD"
    BY <1>2 DEF Undisturbed
  <1>4. st[current_pid] = "DEAD"
    BY <1>2 DEF Wake, IsWaiter
  <1>5. state'[current_pid] = "DEAD" /\ st[s] # "WAITING"
    BY <1>1, <1>2, <1>3, <1>4, SchedulerLeavesWaiting
  <1>6. s # current_pid
    BY <1>3, <1>5
  <1>7. waiting_for[s] = pid[current_pid]
    BY <1>2, <1>3, <1>5, <1>6 DEF Wake, IsWaiter
  <1>8. waiting_for[s] = call[s].arg
    BY <1>3, <1>6 DEF QueueInv, Waits
  <1> QED BY <1>5, <1>7, <1>8

LEMMA QueueStep ==
    ASSUME TypeOK, RingOK, readers \in Queue, writers \in Queue, QueueInv,
           [PipeNext]_allVars
    PROVE  QueueInv' /\ Undisturbed
  <1>1. CASE \/ ReadByte \/ WriteByte \/ ReadReturn \/ WriteReturn
             \/ pipe_close_read \/ pipe_close_write
             \/ \E n \in Sizes : EnterRead(n) \/ EnterWrite(n)
    <2>1. WakeStep
      BY <1>1, ByteStepsWake
    <2>2. QueueInv' /\ \A s \in Slots : state'[s] # state[s] => call[s].kind \in {"read", "write"}
      BY <2>1, WakeKeepsQueues
    <2> QED BY <2>2 DEF Undisturbed
  <1>2. CASE ReadSleep \/ WriteSleep
    BY <1>2, SleepKeepsQueues DEF Undisturbed
  <1>3. CASE process_exit /\ UNCHANGED pipeVars
    BY <1>3, ExitIsStep, ExitLeavesWaiters, ProcessKeepsQueues
  <1>4. ASSUME NEW p \in Pids, sys_wait(p), UNCHANGED pipeVars
        PROVE  QueueInv' /\ Undisturbed
    <2>1. ProcessStep([state EXCEPT ![current_pid] = "WAITING"], [kind |-> "wait", arg |-> p])
      BY <1>4, WaitIsStep
    <2>2. \A s \in Slots : state[s] = "WAITING"
            => [state EXCEPT ![current_pid] = "WAITING"][s] = "WAITING"
      BY DEF TypeOK
    <2>3. \A s \in Slots : state[s] = "WAITING" => state'[s] = "WAITING"
      BY <2>1, <2>2, SchedulerLeavesWaiting
    <2> QED BY <2>1, <2>3, ProcessKeepsQueues DEF Undisturbed
  <1>5. ASSUME UNCHANGED <<pid, state, call, current_pid, waiting_for, pipeVars>>
        PROVE  QueueInv' /\ Undisturbed
    <2>1. UNCHANGED <<pid, state, call, current_pid, waiting_for, head, tail,
                      read_open, write_open, readers, writers>>
      BY <1>5 DEF pipeVars, ring, queues
    <2>2. Stuck' = Stuck
      BY <2>1 DEF Stuck, Runnable, Left, Empty, Full, After
    <2>3. QueueInv'
      BY <2>1, <2>2 DEF QueueInv, Queued, Waits
    <2> QED BY <2>1, <2>3 DEF Undisturbed
  <1>6. CASE timer_handler /\ UNCHANGED pipeVars
    <2>1. CASE ProcessStep(state, NoCall)
      BY <2>1, ProcessKeepsQueues, SchedulerLeavesWaiting DEF Undisturbed
    <2>2. CASE UNCHANGED <<pid, state, call, current_pid, waiting_for, pipeVars>>
      BY <2>2, <1>5
    <2> QED BY <1>6, <2>1, <2>2, TimerIsStep
  <1>7. CASE UNCHANGED allVars
    BY <1>5, <1>7 DEF allVars, vars, table
  <1> QED
    BY <1>1, <1>2, <1>3, <1>4, <1>6, <1>7 DEF PipeNext, Kernel

LEMMA PipeTyped ==
    PipeSpec => [](TypeOK /\ RingOK /\ readers \in Queue /\ writers \in Queue)
  <1>1. PipeInit => TypeOK /\ RingOK /\ readers \in Queue /\ writers \in Queue
    BY PipeTypeInit, RingInit
  <1>2. /\ TypeOK /\ RingOK /\ readers \in Queue /\ writers \in Queue
        /\ [PipeNext]_allVars
        => (TypeOK /\ RingOK /\ readers \in Queue /\ writers \in Queue)'
    BY PipeTypeStep, RingStep
  <1> QED BY <1>1, <1>2, PTL DEF PipeSpec

(* Where no process has the number of another one's slot as its pid, the   *)
(* pipe's wake-ups hit nobody else: a process in sys_wait is made READY    *)
(* only by the death of the process it waits for, whatever goes on in the  *)
(* pipe.  Pids beyond the table, which every process gets in the end, are  *)
(* covered: their owners are never woken, but neither is anybody else.     *)
THEOREM PipesLeaveWaiters ==
    ASSUME PidsFit
    PROVE  PipeSpec => WaitersUndisturbed
  <1>1. PipeInit => QueueInv
    BY QueueInit
  <1>2. /\ TypeOK /\ RingOK /\ readers \in Queue /\ writers \in Queue
        /\ QueueInv /\ [PipeNext]_allVars
        => QueueInv' /\ [Undisturbed]_allVars
    BY QueueStep
  <1>3. WaitersUndisturbed <=> [][Undisturbed]_allVars
    BY PTL DEF WaitersUndisturbed, Undisturbed
  <1> QED BY <1>1, <1>2, <1>3, PipeTyped, PTL DEF PipeSpec

-----------------------------------------------------------------------------
(* No wake-up is lost.  Who is blocked in a call of the kind and is found  *)
(* by its pid, and who will look at the ring again with bytes still to     *)
(* transfer.                                                               *)
Asleep(kind, st, cl, cur) ==
    {s \in Slots \ {cur} : PidOf[s] = s /\ st[s] = "WAITING" /\ cl[s].kind = kind}

Needing(kind, st, cl, cur) ==
    {s \in Slots : /\ cl[s].kind = kind /\ cl[s].arg > 0
                   /\ s = cur \/ st[s] = "READY"}

(* The wake functions find each of them, and each wants something.         *)
Findable(q, kind, st, cl, cur) ==
    \A s \in Asleep(kind, st, cl, cur) :
        cl[s].arg > 0 /\ \E i \in Places : q[i] = s

(* While somebody is blocked, the other end is open and there are at least *)
(* as many on their way to the ring as there are bytes, or free places, in *)
(* it: each of these was announced by a wake-up of its own.                *)
Fed(kind, amount, open, st, cl, cur) ==
    Asleep(kind, st, cl, cur) # {} =>
        open > 0 /\ amount <= Cardinality(Needing(kind, st, cl, cur))

InRing == HeldIn(head, tail)
Room   == PipeBufSize - 1 - HeldIn(head, tail)

WakeInv ==
    /\ Findable(readers, "read", state, call, current_pid)
    /\ Findable(writers, "write", state, call, current_pid)
    /\ Fed("read", InRing, write_open, state, call, current_pid)
    /\ Fed("write", Room, read_open, state, call, current_pid)

LEMMA SlotsFinite ==
    /\ IsFiniteSet(Slots) /\ Cardinality(Slots) = MaxProcesses
    /\ \A S \in SUBSET Slots : IsFiniteSet(S) /\ Cardinality(S) \in Nat
  <1>1. 0 \in Int /\ MaxProcesses - 1 \in Int /\ MaxProcesses - 1 >= 0
    BY ProcessAssumption
  <1>2. IsFiniteSet(Slots) /\ Cardinality(Slots) = MaxProcesses
    <2>1. /\ IsFiniteSet(0 .. MaxProcesses - 1)
          /\ Cardinality(0 .. MaxProcesses - 1) =
               IF 0 > MaxProcesses - 1 THEN 0 ELSE MaxProcesses - 1 - 0 + 1
      BY <1>1, FS_Interval
    <2>2. Cardinality(0 .. MaxProcesses - 1) = MaxProcesses
      BY <1>1, <2>1, ProcessAssumption
    <2> QED BY <2>1, <2>2 DEF Slots
  <1>3. ASSUME NEW S \in SUBSET Slots PROVE IsFiniteSet(S) /\ Cardinality(S) \in Nat
    <2>1. IsFiniteSet(S)
      BY <1>2, FS_Subset
    <2> QED BY <2>1, FS_CardinalityType
  <1> QED BY <1>2, <1>3

(* With one more on its way for each byte that comes, and at most one less *)
(* for each that goes, there are always enough.                            *)
LEMMA EnoughOnTheirWay ==
    ASSUME NEW N \in SUBSET Slots, NEW M \in SUBSET Slots, NEW a \in Int, NEW b \in Int,
           a <= Cardinality(N),
           \/ b <= a /\ N \subseteq M
           \/ b = a + 1 /\ \E w \in M \ N : N \subseteq M
           \/ b = a - 1 /\ \E w \in N : N \ {w} \subseteq M
    PROVE  b <= Cardinality(M)
  <1>1. /\ IsFiniteSet(N) /\ Cardinality(N) \in Nat
        /\ IsFiniteSet(M) /\ Cardinality(M) \in Nat
    BY SlotsFinite
  <1>2. CASE b <= a /\ N \subseteq M
    <2>1. Cardinality(N) <= Cardinality(M)
      BY <1>1, <1>2, FS_Subset
    <2> QED BY <2>1, <1>1, <1>2
  <1>3. CASE b = a + 1 /\ \E w \in M \ N : N \subseteq M
    <2>1. PICK w \in M \ N : N \subseteq M
      BY <1>3
    <2>2. N \union {w} \in SUBSET M
      BY <2>1
    <2>3. Cardinality(N \union {w}) = Cardinality(N) + 1
      BY <1>1, <2>1, FS_AddElement
    <2>4. Cardinality(N \union {w}) <= Cardinality(M)
      BY <1>1, <2>2, FS_Subset
    <2> QED BY <2>3, <2>4, <1>1, <1>3
  <1>4. CASE b = a - 1 /\ \E w \in N : N \ {w} \subseteq M
    <2>1. PICK w \in N : N \ {w} \subseteq M
      BY <1>4
    <2>2. Cardinality(N \ {w}) = Cardinality(N) - 1
      BY <1>1, <2>1, FS_RemoveElement
    <2>3. Cardinality(N \ {w}) <= Cardinality(M)
      BY <1>1, <2>1, FS_Subset
    <2> QED BY <2>2, <2>3, <1>1, <1>4
  <1> QED BY <1>2, <1>3, <1>4

(* The least of some places, and a free place for the process that is      *)
(* about to sleep while another one is runnable.                           *)
LEMMA LeastPlace ==
    ASSUME NEW S \in SUBSET Places, S # {}
    PROVE  \E x \in S : \A y \in S : x <= y
  <1> DEFINE R == OpToRel(<, Nat)
  <1>1. IsWellFoundedOn(R, Nat)
    BY NatLessThanWellFounded, Zenon
  <1>2. \A y, z \in Nat : y < z => <<y, z>> \in R
    BY Zenon DEF OpToRel
  <1>3. S \subseteq Nat
    BY DEF Places
  <1> HIDE DEF R
  <1>4. PICK x \in S : \A y \in S : ~ (<<y, x>> \in R)
    BY <1>1, <1>3, WFMin, Zenon
  <1>5. \A y \in S : ~(y < x)
    BY <1>2, <1>3, <1>4, Zenon
  <1> QED BY <1>3, <1>4, <1>5

LEMMA RoomInQueue ==
    ASSUME TypeOK, QueueInv, NEW q \in Queue, NEW kind, WaitQueueMax >= MaxProcesses - 1,
           Queued(q, kind, state, call, current_pid, waiting_for),
           Runnable(Resting) # {}
    PROVE  \E i \in Places : q[i] = None
  <1> SUFFICES ASSUME \A i \in Places : q[i] # None PROVE FALSE
    OBVIOUS
  <1> DEFINE T == Slots \ {current_pid}
  <1> DEFINE f == [i \in Places |-> Owner(q[i])]
  <1>1. \A i \in Places : /\ f[i] \in T /\ state[f[i]] = "WAITING"
                          /\ PidOf[f[i]] = q[i]
    BY DEF Queued, Rests
  <1>2. \A i, j \in Places : f[i] = f[j] => i = j
    BY <1>1 DEF Queued
  <1>3. f \in [Places -> T]
    BY <1>1
  <1> HIDE DEF f
  <1>4. f \in Injection(Places, T)
    BY <1>2, <1>3 DEF Injection, IsInjective
  <1>5. IsFiniteSet(T) /\ Cardinality(T) = MaxProcesses - 1
    BY SlotsFinite, FS_RemoveElement DEF TypeOK
  <1>6. Cardinality(Places) = WaitQueueMax
    <2>1. WaitQueueMax \in Nat \ {0}
      BY PipeAssumption
    <2>2. Cardinality(1 .. WaitQueueMax) = IF 1 > WaitQueueMax THEN 0 ELSE WaitQueueMax - 1 + 1
      BY <2>1, FS_Interval
    <2> QED BY <2>1, <2>2 DEF Places
  <1>7. /\ Cardinality(Places) <= Cardinality(T)
        /\ Cardinality(Places) = Cardinality(T) <=> f \in Surjection(Places, T)
    BY <1>4, <1>5, FS_Injection
  <1>8. f \in Surjection(Places, T)
    BY <1>5, <1>6, <1>7, ProcessAssumption, PipeAssumption
  <1>9. PICK s \in Slots : Resting[s] \in {"READY", "RUNNING"}
    BY DEF Runnable
  <1>10. s \in T /\ state[s] # "WAITING"
    BY <1>9, RestingIs
  <1>11. PICK i \in Places : f[i] = s
    BY <1>8, <1>10 DEF Surjection
  <1> QED BY <1>1, <1>10, <1>11

LEMMA AmountsAreIntegers == RingOK => /\ InRing \in Int /\ Room \in Int
                                      /\ Empty <=> InRing = 0
                                      /\ Full <=> Room = 0
  <1> SUFFICES ASSUME RingOK PROVE /\ InRing \in Int /\ Room \in Int
                                   /\ Empty <=> InRing = 0
                                   /\ Full <=> Room = 0
    OBVIOUS
  <1>1. /\ InRing \in Cells
        /\ InRing = 0 <=> head = tail
        /\ After(tail) = head <=> InRing = PipeBufSize - 1
    BY HeldIs, HeldSteps DEF RingOK, InRing
  <1>2. Room = PipeBufSize - 1 - InRing
    BY DEF Room, InRing
  <1>3. PipeBufSize \in Nat /\ InRing \in Int
    BY <1>1, PipeAssumption DEF Cells
  <1> HIDE DEF InRing, Room
  <1> QED BY <1>1, <1>2, <1>3 DEF Empty, Full

(* Fed is kept when fewer are blocked and the others keep up.              *)
LEMMA StillFed ==
    ASSUME NEW kind, NEW a \in Int, NEW b \in Int, NEW open, NEW st, NEW cl, NEW cur,
           NEW st2, NEW cl2, NEW cur2,
           Fed(kind, a, open, st, cl, cur),
           Asleep(kind, st2, cl2, cur2) \subseteq Asleep(kind, st, cl, cur),
           LET N == Needing(kind, st, cl, cur)
               M == Needing(kind, st2, cl2, cur2)
           IN  Asleep(kind, st2, cl2, cur2) # {} =>
                 \/ b <= a /\ N \subseteq M
                 \/ b = a + 1 /\ \E w \in M \ N : N \subseteq M
                 \/ b = a - 1 /\ \E w \in N : N \ {w} \subseteq M
    PROVE  Fed(kind, b, open, st2, cl2, cur2)
  <1> DEFINE N == Needing(kind, st, cl, cur)
             M == Needing(kind, st2, cl2, cur2)
  <1> SUFFICES ASSUME Asleep(kind, st2, cl2, cur2) # {}
               PROVE  open > 0 /\ b <= Cardinality(M)
    BY DEF Fed
  <1>1. open > 0 /\ a <= Cardinality(N)
    BY DEF Fed
  <1>2. N \in SUBSET Slots /\ M \in SUBSET Slots
    BY DEF Needing
  <1>3. \/ b <= a /\ N \subseteq M
        \/ b = a + 1 /\ \E w \in M \ N : N \subseteq M
        \/ b = a - 1 /\ \E w \in N : N \ {w} \subseteq M
    OBVIOUS
  <1> HIDE DEF N, M
  <1>4. b <= Cardinality(M)
    BY <1>1, <1>2, <1>3, EnoughOnTheirWay
  <1> QED BY <1>1, <1>4

(* The steps of the process table.                                         *)
LEMMA ProcessKeepsWake ==
    ASSUME TypeOK, RingOK, WakeInv, NEW st, NEW c, ProcessStep(st, c)
    PROVE  WakeInv'
  <1>0. /\ call[current_pid].kind = "none" /\ current_pid \in Slots
        /\ UNCHANGED <<head, tail, read_open, write_open, readers, writers>>
        /\ InRing \in Int /\ Room \in Int
    BY UserIsFree, AmountsAreIntegers DEF ProcessStep, TypeOK, ring
  <1>1. ASSUME NEW kind \in {"read", "write"}
        PROVE  /\ Asleep(kind, state', call', current_pid')
                    \subseteq Asleep(kind, state, call, current_pid)
               /\ Needing(kind, state, call, current_pid)
                    \subseteq Needing(kind, state', call', current_pid')
               /\ \A s \in Asleep(kind, state', call', current_pid') : call'[s] = call[s]
    <2>1. CASE Stays(st, c)
      <3>1. /\ current_pid' = current_pid /\ state' = st
            /\ \A s \in Slots \ {current_pid} : call'[s] = call[s]
        BY <2>1 DEF Stays, TypeOK
      <3> QED BY <1>0, <3>1 DEF Asleep, Needing, ProcessStep, OthersLeft
    <2>2. CASE Switches(st, c)
      <3> DEFINE cl == [call EXCEPT ![current_pid] = c]
      <3>1. /\ cl[current_pid] = c
            /\ \A s \in Slots \ {current_pid} : cl[s] = call[s]
        BY <1>0 DEF TypeOK
      <3>2. st \in [Slots -> States] /\ \A s \in Slots : st[s] # "SLEEPING"
        BY DEF ProcessStep
      <3>3. /\ \A s \in Slots :
                 /\ state'[s] = "WAITING" <=> st[s] = "WAITING"
                 /\ st[s] = "READY" /\ s # current_pid' => state'[s] = "READY"
            /\ \A s \in Slots \ {current_pid'} : call'[s] = cl[s]
            /\ cl[current_pid'].kind \in {"read", "write"} => call'[current_pid'] = cl[current_pid']
        BY <2>2, <3>2, SwitchKeepsCalls
      <3> HIDE DEF cl
      <3>4. ASSUME NEW s \in Slots \ {current_pid'}, state'[s] = "WAITING", call'[s].kind = kind
            PROVE  s # current_pid /\ state[s] = "WAITING" /\ call'[s] = call[s]
        BY <3>1, <3>3, <3>4 DEF ProcessStep, OthersLeft
      <3>5. ASSUME NEW s \in Slots, call[s].kind = kind, state[s] = "READY", s # current_pid
            PROVE  call'[s] = call[s] /\ (s = current_pid' \/ state'[s] = "READY")
        BY <3>1, <3>3, <3>5 DEF ProcessStep, OthersLeft
      <3>6. /\ Asleep(kind, state', call', current_pid')
                 \subseteq Asleep(kind, state, call, current_pid)
            /\ \A s \in Asleep(kind, state', call', current_pid') : call'[s] = call[s]
        BY <3>4 DEF Asleep
      <3>7. Needing(kind, state, call, current_pid)
              \subseteq Needing(kind, state', call', current_pid')
        BY <3>5, <1>0 DEF Needing
      <3> QED BY <3>6, <3>7
    <2> QED BY <2>1, <2>2 DEF ProcessStep
  <1>2. /\ Findable(readers, "read", state', call', current_pid')
        /\ Findable(writers, "write", state', call', current_pid')
    BY <1>1 DEF WakeInv, Findable
  <1>3. InRing <= InRing /\ Room <= Room
    BY <1>0
  <1>4. /\ Fed("read", InRing, write_open, state', call', current_pid')
        /\ Fed("write", Room, read_open, state', call', current_pid')
    BY <1>0, <1>1, <1>3, StillFed DEF WakeInv
  <1>5. InRing' = InRing /\ Room' = Room
    BY <1>0 DEF InRing, Room, HeldIn
  <1> QED BY <1>0, <1>2, <1>4, <1>5 DEF WakeInv

(* The steps that wake a queue.                                            *)
LEMMA WakeKeepsFindable ==
    ASSUME PidsFit, TypeOK, NEW q, NEW kind, NEW r, NEW other, kind # other, NEW st, NEW left,
           Queued(q, kind, state, call, current_pid, waiting_for),
           Queued(r, other, state, call, current_pid, waiting_for),
           Findable(q, kind, state, call, current_pid),
           Findable(r, other, state, call, current_pid),
           Wakes(q, st, left), NEW cl,
           \A s \in Slots \ {current_pid} : cl[s] = call[s]
    PROVE  /\ Findable(left, kind, st, cl, current_pid)
           /\ Findable(r, other, st, cl, current_pid)
           /\ Asleep(kind, st, cl, current_pid) \subseteq Asleep(kind, state, call, current_pid)
           /\ Asleep(other, st, cl, current_pid) = Asleep(other, state, call, current_pid)
           /\ \A s \in Slots \ {current_pid} : state[s] = "READY" => st[s] = "READY"
  <1>1. /\ \A s \in Slots : st[s] = state[s] \/ (state[s] = "WAITING" /\ st[s] = "READY")
        /\ \A i \in Places : left[i] = q[i] \/ (q[i] \in Slots /\ st[q[i]] # "WAITING")
    BY DEF Wakes
  <1>2. \A s \in Slots : st[s] # state[s] => call[s].kind = kind
    BY WakeKeepsQueue
  <1>3. Asleep(kind, st, cl, current_pid) \subseteq Asleep(kind, state, call, current_pid)
    BY <1>1 DEF Asleep
  <1>4. Asleep(other, st, cl, current_pid) = Asleep(other, state, call, current_pid)
    BY <1>1, <1>2 DEF Asleep
  <1>5. ASSUME NEW s \in Asleep(kind, st, cl, current_pid)
        PROVE  cl[s].arg > 0 /\ \E i \in Places : left[i] = s
    <2>1. /\ s \in Slots \ {current_pid} /\ st[s] = "WAITING"
          /\ s \in Asleep(kind, state, call, current_pid)
      BY <1>3, <1>5 DEF Asleep
    <2>2. PICK i \in Places : q[i] = s
      BY <2>1 DEF Findable
    <2>3. left[i] = s
      BY <1>1, <2>1, <2>2
    <2>4. call[s].arg > 0
      BY <2>1 DEF Findable
    <2> QED BY <2>1, <2>3, <2>4
  <1>6. Findable(left, kind, st, cl, current_pid)
    BY <1>5 DEF Findable
  <1>7. Findable(r, other, st, cl, current_pid)
    BY <1>4 DEF Findable, Asleep
  <1> QED BY <1>1, <1>3, <1>4, <1>6, <1>7

LEMMA SomeoneIsWoken ==
    ASSUME PidsFit, TypeOK, NEW q \in Queue, NEW kind,
           Queued(q, kind, state, call, current_pid, waiting_for),
           Findable(q, kind, state, call, current_pid),
           Asleep(kind, state, call, current_pid) # {}
    PROVE  \E w \in Asleep(kind, state, call, current_pid) : WokenOne(q)[w] = "READY"
  <1>0. \A i \in Places : IsSlot(q[i]) <=> q[i] \in Slots
    BY ProcessAssumption DEF IsSlot, Slots, Pids, None, Queue
  <1>1. PICK s \in Asleep(kind, state, call, current_pid), i \in Places : q[i] = s
    BY DEF Findable
  <1>2. i \in Wakeable(q)
    BY <1>0, <1>1 DEF Asleep, Wakeable
  <1>3. PICK x \in Wakeable(q) : \A y \in Wakeable(q) : x <= y
    <2>1. Wakeable(q) \in SUBSET Places
      BY DEF Wakeable
    <2> QED BY <1>2, <2>1, LeastPlace
  <1>4. x \in Places /\ FirstWakeable(q, x) /\ q[x] \in Slots
    BY <1>0, <1>3 DEF FirstWakeable, Wakeable
  <1>5. q[x] \in Asleep(kind, state, call, current_pid)
    <2>1. /\ PidOf[Owner(q[x])] = q[x]
          /\ Rests(Owner(q[x]), kind, state, call, current_pid, waiting_for)
      BY <1>4 DEF Queued, Slots, None
    <2>2. Owner(q[x]) = q[x]
      BY <1>4, <2>1, OwnerIs DEF Rests
    <2> QED BY <2>1, <2>2 DEF Rests, Asleep
  <1>6. WokenOne(q)[q[x]] = "READY"
    BY <1>4 DEF WokenOne
  <1> QED BY <1>5, <1>6

LEMMA AllAreWoken ==
    ASSUME TypeOK, NEW q \in Queue, NEW kind,
           Findable(q, kind, state, call, current_pid)
    PROVE  Asleep(kind, WokenAll(q), call, current_pid) = {}
  <1>0. \A i \in Places : IsSlot(q[i]) <=> q[i] \in Slots
    BY ProcessAssumption DEF IsSlot, Slots, Pids, None, Queue
  <1>1. SUFFICES ASSUME NEW s \in Asleep(kind, WokenAll(q), call, current_pid) PROVE FALSE
    OBVIOUS
  <1>2. /\ s \in Slots /\ WokenAll(q)[s] = "WAITING" /\ s # current_pid
        /\ PidOf[s] = s /\ call[s].kind = kind
    BY <1>1 DEF Asleep
  <1>3. state[s] = "WAITING"
    BY <1>2 DEF WokenAll
  <1>4. s \in Asleep(kind, state, call, current_pid)
    BY <1>2, <1>3 DEF Asleep
  <1>5. PICK i \in Places : q[i] = s
    BY <1>4 DEF Findable
  <1>6. i \in Wakeable(q)
    BY <1>0, <1>2, <1>3, <1>5 DEF Wakeable
  <1> QED BY <1>2, <1>5, <1>6 DEF WokenAll

(* A byte read or written: the caller of the one kind wants one byte less, *)
(* and one process of the other kind is woken if any is blocked.           *)
LEMMA ByteKeepsFed ==
    ASSUME PidsFit, TypeOK, NEW mine \in {"read", "write"}, NEW other \in {"read", "write"}, mine # other,
           NEW q \in Queue, NEW r \in Queue,
           Queued(q, other, state, call, current_pid, waiting_for),
           Queued(r, mine, state, call, current_pid, waiting_for),
           Findable(q, other, state, call, current_pid),
           Findable(r, mine, state, call, current_pid),
           NEW a \in Int, NEW b \in Int, NEW near, NEW far,
           Fed(mine, a, near, state, call, current_pid),
           Fed(other, b, far, state, call, current_pid),
           call[current_pid].kind = mine, Left > 0,
           NEW st, st = WokenOne(q), NEW left, left = LeftAfterOne(q),
           NEW cl, cl = Call(mine, Left - 1)
    PROVE  /\ Findable(left, other, st, cl, current_pid)
           /\ Findable(r, mine, st, cl, current_pid)
           /\ Fed(mine, a - 1, near, st, cl, current_pid)
           /\ Fed(other, b + 1, far, st, cl, current_pid)
  <1>1. Wakes(q, st, left)
    BY OneWakes
  <1>2. /\ current_pid \in Slots /\ cl[current_pid] = [kind |-> mine, arg |-> Left - 1]
        /\ \A s \in Slots \ {current_pid} : cl[s] = call[s]
    BY DEF Call, TypeOK
  <1>3. /\ Findable(left, other, st, cl, current_pid)
        /\ Findable(r, mine, st, cl, current_pid)
        /\ Asleep(other, st, cl, current_pid) \subseteq Asleep(other, state, call, current_pid)
        /\ Asleep(mine, st, cl, current_pid) = Asleep(mine, state, call, current_pid)
        /\ \A s \in Slots \ {current_pid} : state[s] = "READY" => st[s] = "READY"
    BY <1>1, <1>2, WakeKeepsFindable
  <1>4. Fed(mine, a - 1, near, st, cl, current_pid)
    <2>1. current_pid \in Needing(mine, state, call, current_pid)
      BY <1>2 DEF Needing, Left
    <2>2. Needing(mine, state, call, current_pid) \ {current_pid}
            \subseteq Needing(mine, st, cl, current_pid)
      BY <1>2, <1>3 DEF Needing
    <2>3. a - 1 \in Int
      OBVIOUS
    <2> QED BY <1>3, <2>1, <2>2, <2>3, StillFed
  <1>5. Fed(other, b + 1, far, st, cl, current_pid)
    <2>1. Needing(other, state, call, current_pid) \subseteq Needing(other, st, cl, current_pid)
      BY <1>2, <1>3 DEF Needing
    <2>2. ASSUME Asleep(other, st, cl, current_pid) # {}
          PROVE  \E w \in Needing(other, st, cl, current_pid)
                          \ Needing(other, state, call, current_pid) : TRUE
      <3>1. PICK w \in Asleep(other, state, call, current_pid) : st[w] = "READY"
        BY <1>3, <2>2, SomeoneIsWoken
      <3>2. call[w].arg > 0
        BY <3>1 DEF Findable
      <3> QED BY <1>2, <3>1, <3>2 DEF Needing, Asleep
    <2>3. b + 1 \in Int
      OBVIOUS
    <2> QED BY <1>3, <2>1, <2>2, <2>3, StillFed
  <1> QED BY <1>3, <1>4, <1>5

LEMMA BytesKeepWake ==
    ASSUME TypeOK, RingOK, readers \in Queue, writers \in Queue, QueueInv, WakeInv,
           ReadByte \/ WriteByte
    PROVE  WakeInv'
  <1>1. WakeStep
    BY ByteStepsWake
  <1>2. /\ PidsFit
        /\ Queued(readers, "read", state, call, current_pid, waiting_for)
        /\ Queued(writers, "write", state, call, current_pid, waiting_for)
    BY <1>1 DEF WakeStep, QueueInv
  <1>3. InRing \in Int /\ Room \in Int /\ current_pid' = current_pid
    BY <1>1, AmountsAreIntegers DEF WakeStep
  <1>4. CASE ReadByte
    <2>1. /\ call[current_pid].kind = "read" /\ Left > 0
          /\ call' = Call("read", Left - 1)
          /\ state' = WokenOne(writers) /\ writers' = LeftAfterOne(writers)
          /\ UNCHANGED <<readers, read_open, write_open>>
          /\ head # tail /\ head' = After(head) /\ tail' = tail
      BY <1>4 DEF ReadByte, Inside, Empty
    <2>2. /\ Findable(writers', "write", state', call', current_pid)
          /\ Findable(readers, "read", state', call', current_pid)
          /\ Fed("read", InRing - 1, write_open, state', call', current_pid)
          /\ Fed("write", Room + 1, read_open, state', call', current_pid)
      BY <1>2, <1>3, <2>1, ByteKeepsFed DEF WakeInv
    <2>3. InRing' = InRing - 1
      BY <2>1, HeldSteps DEF RingOK, InRing, HeldIn
    <2>4. Room' = PipeBufSize - 1 - InRing' /\ Room = PipeBufSize - 1 - InRing
      BY DEF Room, InRing, HeldIn
    <2>5. Room' = Room + 1
      BY <2>3, <2>4, <1>3, PipeAssumption
    <2> QED BY <1>3, <2>1, <2>2, <2>3, <2>5 DEF WakeInv
  <1>5. CASE WriteByte
    <2>1. /\ call[current_pid].kind = "write" /\ Left > 0
          /\ call' = Call("write", Left - 1)
          /\ state' = WokenOne(readers) /\ readers' = LeftAfterOne(readers)
          /\ UNCHANGED <<writers, read_open, write_open>>
          /\ After(tail) # head /\ head' = head /\ tail' = After(tail)
      BY <1>5 DEF WriteByte, Inside, Full
    <2>2. /\ Findable(readers', "read", state', call', current_pid)
          /\ Findable(writers, "write", state', call', current_pid)
          /\ Fed("write", Room - 1, read_open, state', call', current_pid)
          /\ Fed("read", InRing + 1, write_open, state', call', current_pid)
      BY <1>2, <1>3, <2>1, ByteKeepsFed DEF WakeInv
    <2>3. InRing' = InRing + 1
      BY <2>1, HeldSteps DEF RingOK, InRing, HeldIn
    <2>4. Room' = PipeBufSize - 1 - InRing' /\ Room = PipeBufSize - 1 - InRing
      BY DEF Room, InRing, HeldIn
    <2>5. Room' = Room - 1
      BY <2>3, <2>4, <1>3, PipeAssumption
    <2> QED BY <1>3, <2>1, <2>2, <2>3, <2>5 DEF WakeInv
  <1> QED BY <1>4, <1>5

(* Entering and leaving a call: who leaves with bytes still to transfer    *)
(* leaves an end behind that nobody is blocked at.                         *)
LEMMA OwnCallKeepsWake ==
    ASSUME TypeOK, RingOK, WakeInv,
           UNCHANGED <<state, current_pid, head, tail, read_open, write_open,
                       readers, writers>>,
           \A s \in Slots \ {current_pid} : call'[s] = call[s],
           \A kind \in {"read", "write"} :
             \/ Asleep(kind, state, call, current_pid) = {}
             \/ current_pid \notin Needing(kind, state, call, current_pid)
    PROVE  WakeInv'
  <1>1. ASSUME NEW kind \in {"read", "write"}, NEW q, NEW a \in Int, NEW open,
               Findable(q, kind, state, call, current_pid),
               Fed(kind, a, open, state, call, current_pid)
        PROVE  /\ Findable(q, kind, state, call', current_pid)
               /\ Fed(kind, a, open, state, call', current_pid)
    <2>1. Asleep(kind, state, call', current_pid) = Asleep(kind, state, call, current_pid)
      BY DEF Asleep
    <2>2. Findable(q, kind, state, call', current_pid)
      BY <1>1, <2>1 DEF Findable, Asleep
    <2>3. CASE Asleep(kind, state, call, current_pid) = {}
      BY <2>1, <2>2, <2>3 DEF Fed
    <2>4. CASE Asleep(kind, state, call, current_pid) # {}
      <3>1. current_pid \notin Needing(kind, state, call, current_pid)
        BY <2>4
      <3>2. Needing(kind, state, call, current_pid)
              \subseteq Needing(kind, state, call', current_pid)
        BY <3>1 DEF Needing
      <3>3. a <= a
        OBVIOUS
      <3>4. Fed(kind, a, open, state, call', current_pid)
        BY <1>1, <2>1, <3>2, <3>3, StillFed
      <3> QED BY <2>2, <3>4
    <2> QED BY <2>3, <2>4
  <1>2. InRing \in Int /\ Room \in Int /\ InRing' = InRing /\ Room' = Room
    BY AmountsAreIntegers DEF InRing, Room, HeldIn
  <1>3. /\ Findable(readers, "read", state, call', current_pid)
        /\ Fed("read", InRing, write_open, state, call', current_pid)
        /\ Findable(writers, "write", state, call', current_pid)
        /\ Fed("write", Room, read_open, state, call', current_pid)
    BY <1>1, <1>2 DEF WakeInv
  <1> QED BY <1>2, <1>3 DEF WakeInv

LEMMA CallsKeepWake ==
    ASSUME TypeOK, RingOK, readers \in Queue, writers \in Queue, WakeInv,
           \/ ReadReturn \/ WriteReturn
           \/ \E n \in Sizes : EnterRead(n) \/ EnterWrite(n)
    PROVE  WakeInv'
  <1>1. WakeStep
    BY ByteStepsWake
  <1>2. UNCHANGED <<state, current_pid, head, tail, read_open, write_open, readers, writers>>
    BY <1>1 DEF WakeStep, ReadReturn, WriteReturn, EnterRead, EnterWrite, pipeVars,
                ring, queues
  <1>3. ASSUME NEW kind \in {"read", "write"},
               current_pid \in Needing(kind, state, call, current_pid)
        PROVE  Asleep(kind, state, call, current_pid) = {}
    <2>1. call[current_pid].kind = kind /\ Left > 0
      BY <1>3 DEF Needing, Left
    <2>2. ~(Left = 0)
      BY <2>1
    <2>3. ~UserMode
      BY <2>1, UserIsFree
    <2>4. CASE ReadReturn
      <3>1. kind = "read" /\ write_open <= 0
        BY <2>1, <2>2, <2>4 DEF ReadReturn, Inside
      <3>2. ~(write_open > 0)
        BY <3>1 DEF RingOK
      <3> QED BY <3>1, <3>2 DEF WakeInv, Fed
    <2>5. CASE WriteReturn
      <3>1. kind = "write" /\ read_open <= 0
        BY <2>1, <2>2, <2>5 DEF WriteReturn, Inside
      <3>2. ~(read_open > 0)
        BY <3>1 DEF RingOK
      <3> QED BY <3>1, <3>2 DEF WakeInv, Fed
    <2> QED BY <2>3, <2>4, <2>5 DEF EnterRead, EnterWrite, CanCall
  <1> QED BY <1>1, <1>2, <1>3, OwnCallKeepsWake DEF WakeStep

(* Closing an end: everybody blocked at the other is woken.                *)
LEMMA CloseKeepsFed ==
    ASSUME PidsFit, TypeOK, NEW q \in Queue, NEW kind, NEW r, NEW other, kind # other,
           Queued(q, kind, state, call, current_pid, waiting_for),
           Queued(r, other, state, call, current_pid, waiting_for),
           Findable(q, kind, state, call, current_pid),
           Findable(r, other, state, call, current_pid),
           NEW a, NEW b \in Int, NEW far, NEW near,
           Fed(other, b, far, state, call, current_pid),
           NEW st, st = WokenAll(q), NEW left
    PROVE  /\ Findable(left, kind, st, call, current_pid)
           /\ Findable(r, other, st, call, current_pid)
           /\ Fed(kind, a, near, st, call, current_pid)
           /\ Fed(other, b, far, st, call, current_pid)
  <1>1. Wakes(q, st, LeftAfterAll(q))
    BY AllWake
  <1>2. /\ Findable(r, other, st, call, current_pid)
        /\ Asleep(other, st, call, current_pid) = Asleep(other, state, call, current_pid)
        /\ \A s \in Slots \ {current_pid} : state[s] = "READY" => st[s] = "READY"
    BY <1>1, WakeKeepsFindable
  <1>3. Needing(other, state, call, current_pid) \subseteq Needing(other, st, call, current_pid)
    BY <1>2 DEF Needing
  <1>4. b <= b
    OBVIOUS
  <1>5. Fed(other, b, far, st, call, current_pid)
    BY <1>2, <1>3, <1>4, StillFed
  <1>6. Asleep(kind, st, call, current_pid) = {}
    BY AllAreWoken
  <1> QED BY <1>2, <1>5, <1>6 DEF Fed, Findable

LEMMA ClosesKeepWake ==
    ASSUME TypeOK, RingOK, readers \in Queue, writers \in Queue, QueueInv, WakeInv,
           pipe_close_read \/ pipe_close_write
    PROVE  WakeInv'
  <1>1. WakeStep
    BY ByteStepsWake
  <1>2. /\ PidsFit
        /\ Queued(readers, "read", state, call, current_pid, waiting_for)
        /\ Queued(writers, "write", state, call, current_pid, waiting_for)
    BY <1>1 DEF WakeStep, QueueInv
  <1>3. /\ InRing \in Int /\ Room \in Int
        /\ UNCHANGED <<current_pid, call, head, tail>>
    BY <1>1, AmountsAreIntegers DEF WakeStep, pipe_close_read, pipe_close_write, ring
  <1>4. InRing' = InRing /\ Room' = Room
    BY <1>3 DEF InRing, Room, HeldIn
  <1>5. CASE pipe_close_read
    <2>1. state' = WokenAll(writers) /\ UNCHANGED <<write_open, readers>>
      BY <1>5 DEF pipe_close_read
    <2>2. /\ Findable(writers', "write", state', call, current_pid)
          /\ Findable(readers, "read", state', call, current_pid)
          /\ Fed("write", Room, read_open', state', call, current_pid)
          /\ Fed("read", InRing, write_open, state', call, current_pid)
      BY <1>2, <1>3, <2>1, CloseKeepsFed DEF WakeInv
    <2> QED BY <1>3, <1>4, <2>1, <2>2 DEF WakeInv
  <1>6. CASE pipe_close_write
    <2>1. state' = WokenAll(readers) /\ UNCHANGED <<read_open, writers>>
      BY <1>6 DEF pipe_close_write
    <2>2. /\ Findable(readers', "read", state', call, current_pid)
          /\ Findable(writers, "write", state', call, current_pid)
          /\ Fed("read", InRing, write_open', state', call, current_pid)
          /\ Fed("write", Room, read_open, state', call, current_pid)
      BY <1>2, <1>3, <2>1, CloseKeepsFed DEF WakeInv
    <2> QED BY <1>3, <1>4, <2>1, <2>2 DEF WakeInv
  <1> QED BY <1>5, <1>6

(* Going to sleep.  The sleeper is in its queue before it leaves the CPU,  *)
(* and then the ring holds nothing for it.                                 *)
LEMMA EnqueuedKeeps ==
    ASSUME TypeOK, QueueInv, NEW q \in Queue, NEW kind,
           WaitQueueMax >= MaxProcesses - 1, Runnable(Resting) # {},
           Queued(q, kind, state, call, current_pid, waiting_for)
    PROVE  /\ \E i \in Places : Enqueued(q)[i] = PidOf[current_pid]
           /\ \A i \in Places : q[i] # None => Enqueued(q)[i] = q[i]
  <1> DEFINE free == {i \in Places : q[i] = None}
  <1>1. pid[current_pid] = PidOf[current_pid]
    BY DEF QueueInv
  <1>2. free # {}
    BY RoomInQueue
  <1>3. PICK x \in free : \A y \in free : x <= y
    BY <1>2, LeastPlace
  <1>4. Enqueued(q)[x] = PidOf[current_pid]
    BY <1>1, <1>3 DEF Enqueued
  <1> QED BY <1>3, <1>4 DEF Enqueued

LEMMA SwitchKeepsWake ==
    ASSUME TypeOK, QueueInv, WaitQueueMax >= MaxProcesses - 1,
           NEW mine \in {"read", "write"}, NEW other \in {"read", "write"}, mine # other,
           NEW q \in Queue, NEW r,
           Queued(q, mine, state, call, current_pid, waiting_for),
           Findable(q, mine, state, call, current_pid),
           Findable(r, other, state, call, current_pid),
           NEW b \in Int, NEW near, NEW far,
           Fed(other, b, far, state, call, current_pid), near > 0,
           call[current_pid].kind = mine, Left > 0,
           NEW left, left = Enqueued(q),
           Switches(Resting, call[current_pid])
    PROVE  /\ Findable(left, mine, state', call', current_pid')
           /\ Findable(r, other, state', call', current_pid')
           /\ Fed(mine, 0, near, state', call', current_pid')
           /\ Fed(other, b, far, state', call', current_pid')
  <1> DEFINE c == call[current_pid]
  <1>0. [call EXCEPT ![current_pid] = c] = call /\ current_pid \in Slots
    BY DEF TypeOK
  <1> HIDE DEF c
  <1>1. /\ current_pid' \in Slots /\ Resting[current_pid'] \in {"READY", "RUNNING"}
        /\ \A s \in Slots :
             /\ state'[s] = "WAITING" <=> Resting[s] = "WAITING"
             /\ Resting[s] = "READY" /\ s # current_pid' => state'[s] = "READY"
        /\ \A s \in Slots \ {current_pid'} : call'[s] = call[s]
        /\ call[current_pid'].kind \in {"read", "write"} => call'[current_pid'] = call[current_pid']
    BY <1>0, RestingIs, SwitchKeepsCalls DEF c
  <1>2. /\ \E i \in Places : left[i] = PidOf[current_pid]
        /\ \A i \in Places : q[i] # None => left[i] = q[i]
    BY SwitchIsFree, EnqueuedKeeps
  <1>3. /\ Resting[current_pid] = "WAITING"
        /\ \A s \in Slots \ {current_pid} : Resting[s] = state[s]
    BY RestingIs
  <1>4. \A kind \in {"read", "write"} :
          /\ Asleep(kind, state', call', current_pid')
               \subseteq Asleep(kind, state, call, current_pid) \union {current_pid}
          /\ \A s \in Asleep(kind, state', call', current_pid') : call'[s] = call[s]
    BY <1>1, <1>3 DEF Asleep
  <1>5. current_pid \notin Asleep(other, state', call', current_pid')
    BY <1>0, <1>1 DEF Asleep
  <1>6. ASSUME NEW s \in Asleep(mine, state', call', current_pid')
        PROVE  call'[s].arg > 0 /\ \E i \in Places : left[i] = s
    <2>1. CASE s = current_pid
      BY <2>1, <1>2, <1>4, <1>6 DEF Left, Asleep
    <2>2. CASE s # current_pid
      <3>1. s \in Asleep(mine, state, call, current_pid) /\ call'[s] = call[s] /\ s # None
        BY <2>2, <1>4, <1>6 DEF Asleep, Slots, None
      <3>2. call[s].arg > 0 /\ \E i \in Places : q[i] = s
        BY <3>1 DEF Findable
      <3> QED BY <3>1, <3>2, <1>2
    <2> QED BY <2>1, <2>2
  <1>7. Findable(left, mine, state', call', current_pid')
    BY <1>6 DEF Findable
  <1>8. Asleep(other, state', call', current_pid') \subseteq Asleep(other, state, call, current_pid)
    BY <1>4, <1>5
  <1>9. Findable(r, other, state', call', current_pid')
    BY <1>4, <1>8 DEF Findable
  <1>10. Fed(mine, 0, near, state', call', current_pid')
    <2>1. Needing(mine, state', call', current_pid') \in SUBSET Slots
      BY DEF Needing
    <2>2. Cardinality(Needing(mine, state', call', current_pid')) \in Nat
      BY <2>1, SlotsFinite
    <2> QED BY <2>2 DEF Fed
  <1>11. Needing(other, state, call, current_pid) \subseteq Needing(other, state', call', current_pid')
    BY <1>1, <1>3 DEF Needing
  <1>12. b <= b
    OBVIOUS
  <1>13. Fed(other, b, far, state', call', current_pid')
    BY <1>8, <1>11, <1>12, StillFed
  <1> QED BY <1>7, <1>9, <1>10, <1>13

LEMMA SleepKeepsWake ==
    ASSUME TypeOK, RingOK, readers \in Queue, writers \in Queue, QueueInv, WakeInv,
           WaitQueueMax >= MaxProcesses - 1, ReadSleep \/ WriteSleep
    PROVE  WakeInv'
  <1> DEFINE c == call[current_pid]
  <1>0. /\ Stays(Resting, c) \/ Switches(Resting, c)
        /\ c.kind \in {"read", "write"} /\ Left > 0
        /\ UNCHANGED <<head, tail, read_open, write_open>>
    BY SleepIsStep DEF SleepStep, ring
  <1>1. /\ InRing \in Int /\ Room \in Int /\ InRing' = InRing /\ Room' = Room
        /\ Empty => InRing = 0
        /\ Full => Room = 0
    BY <1>0, AmountsAreIntegers DEF InRing, Room, HeldIn
  <1>2. CASE Stays(Resting, c)
    <2>1. state' = Resting /\ UNCHANGED <<current_pid, call>>
      BY <1>0, <1>2, StaysIsStuck
    <2>2. /\ \A i \in Places : readers[i] # None => readers'[i] = readers[i]
          /\ \A i \in Places : writers[i] # None => writers'[i] = writers[i]
      BY SleepIsStep DEF SleepStep, Enqueued
    <2>3. \A kind \in {"read", "write"} :
            /\ Asleep(kind, state', call', current_pid') = Asleep(kind, state, call, current_pid)
            /\ Needing(kind, state', call', current_pid') = Needing(kind, state, call, current_pid)
      BY <2>1, RestingIs DEF Asleep, Needing
    <2>4. \A kind \in {"read", "write"} : \A s \in Asleep(kind, state, call, current_pid) : s # None
      BY DEF Asleep, Slots, None
    <2>5. /\ Findable(readers', "read", state', call', current_pid')
          /\ Findable(writers', "write", state', call', current_pid')
      BY <2>1, <2>2, <2>3, <2>4 DEF WakeInv, Findable
    <2>6. /\ Fed("read", InRing, write_open, state', call', current_pid')
          /\ Fed("write", Room, read_open, state', call', current_pid')
      BY <2>3 DEF WakeInv, Fed
    <2> QED BY <2>5, <2>6, <1>0, <1>1 DEF WakeInv
  <1>3. CASE Switches(Resting, c)
    <2>1. /\ Queued(readers, "read", state, call, current_pid, waiting_for)
          /\ Queued(writers, "write", state, call, current_pid, waiting_for)
      BY <1>3, SwitchIsFree DEF QueueInv
    <2>2. CASE ReadSleep
      <3>1. /\ call[current_pid].kind = "read" /\ readers' = Enqueued(readers)
            /\ writers' = writers /\ write_open > 0 /\ InRing = 0
        BY <2>2, <1>1, SleepIsStep DEF SleepStep
      <3>2. /\ Findable(readers', "read", state', call', current_pid')
            /\ Findable(writers, "write", state', call', current_pid')
            /\ Fed("read", 0, write_open, state', call', current_pid')
            /\ Fed("write", Room, read_open, state', call', current_pid')
        BY <1>0, <1>1, <1>3, <2>1, <3>1, SwitchKeepsWake DEF WakeInv
      <3> QED BY <3>1, <3>2, <1>0, <1>1 DEF WakeInv
    <2>3. CASE WriteSleep
      <3>1. /\ call[current_pid].kind = "write" /\ writers' = Enqueued(writers)
            /\ readers' = readers /\ read_open > 0 /\ Room = 0
        BY <2>3, <1>1, SleepIsStep DEF SleepStep
      <3>2. /\ Findable(writers', "write", state', call', current_pid')
            /\ Findable(readers, "read", state', call', current_pid')
            /\ Fed("write", 0, read_open, state', call', current_pid')
            /\ Fed("read", InRing, write_open, state', call', current_pid')
        BY <1>0, <1>1, <1>3, <2>1, <3>1, SwitchKeepsWake DEF WakeInv
      <3> QED BY <3>1, <3>2, <1>0, <1>1 DEF WakeInv
    <2> QED BY <2>2, <2>3
  <1> QED BY <1>0, <1>2, <1>3

LEMMA WakeInit ==
    ASSUME PipeInit
    PROVE  WakeInv
  <1>1. \A s \in Slots : state[s] = "WAITING" => call[s].kind = "wait"
    BY DEF PipeInit, NoCall
  <1>2. /\ Asleep("read", state, call, current_pid) = {}
        /\ Asleep("write", state, call, current_pid) = {}
    BY <1>1 DEF Asleep
  <1> QED BY <1>2 DEF WakeInv, Findable, Fed

LEMMA WakeInvStep ==
    ASSUME TypeOK, RingOK, readers \in Queue, writers \in Queue, QueueInv, WakeInv,
           WaitQueueMax >= MaxProcesses - 1, [PipeNext]_allVars
    PROVE  WakeInv'
  <1>1. CASE ReadByte \/ WriteByte
    BY <1>1, BytesKeepWake
  <1>2. CASE ReadReturn \/ WriteReturn \/ \E n \in Sizes : EnterRead(n) \/ EnterWrite(n)
    BY <1>2, CallsKeepWake
  <1>3. CASE pipe_close_read \/ pipe_close_write
    BY <1>3, ClosesKeepWake
  <1>4. CASE ReadSleep \/ WriteSleep
    BY <1>4, SleepKeepsWake
  <1>5. CASE process_exit /\ UNCHANGED pipeVars
    BY <1>5, ExitIsStep, ProcessKeepsWake
  <1>6. ASSUME NEW p \in Pids, sys_wait(p), UNCHANGED pipeVars PROVE WakeInv'
    BY <1>6, WaitIsStep, ProcessKeepsWake
  <1>7. ASSUME UNCHANGED <<pid, state, call, current_pid, waiting_for, pipeVars>>
        PROVE  WakeInv'
    <2>1. UNCHANGED <<state, call, current_pid, head, tail, read_open, write_open,
                      readers, writers>>
      BY <1>7 DEF pipeVars, ring, queues
    <2> QED BY <2>1 DEF WakeInv, InRing, Room, HeldIn
  <1>8. CASE timer_handler /\ UNCHANGED pipeVars
    BY <1>7, <1>8, TimerIsStep, ProcessKeepsWake
  <1>9. CASE UNCHANGED allVars
    BY <1>7, <1>9 DEF allVars, vars, table
  <1> QED
    BY <1>1, <1>2, <1>3, <1>4, <1>5, <1>6, <1>8, <1>9 DEF PipeNext, Kernel

LEMMA BlockedAreFed ==
    ASSUME RingOK, QueueInv, WakeInv
    PROVE  NoLostWakeup
  <1>1. /\ InRing \in Int /\ Room \in Int
        /\ Empty <=> InRing = 0
        /\ Full <=> Room = 0
        /\ InRing >= 0 /\ Room >= 0
    <2>1. InRing \in Cells
      BY HeldIs DEF RingOK, InRing
    <2>2. InRing >= 0 /\ PipeBufSize - 1 - InRing >= 0
      BY <2>1, PipeAssumption DEF Cells
    <2> QED BY <2>2, AmountsAreIntegers DEF Room, InRing
  <1>0. \A s \in {t \in Slots : pid[t] = t} : s \in Slots /\ PidOf[s] = s
    BY DEF QueueInv
  <1>2. ASSUME NEW s \in Slots, PidOf[s] = s, NEW kind, NEW a \in Int, a >= 0, a # 0, NEW open,
               Blocked(s, kind), Fed(kind, a, open, state, call, current_pid)
        PROVE  Active(kind)
    <2>1. s \in Asleep(kind, state, call, current_pid)
      BY <1>2 DEF Blocked, Asleep
    <2>2. a <= Cardinality(Needing(kind, state, call, current_pid))
      BY <1>2, <2>1 DEF Fed
    <2>3. Needing(kind, state, call, current_pid) # {}
      BY <1>2, <2>2, FS_EmptySet
    <2> QED BY <2>3 DEF Needing, Active
  <1>3. ASSUME NEW s \in Slots, PidOf[s] = s, Blocked(s, "read")
        PROVE  (Empty /\ write_open > 0) \/ Active("read")
    <2>1. write_open > 0
      BY <1>3 DEF WakeInv, Fed, Blocked, Asleep
    <2>2. InRing # 0 => Active("read")
      BY <1>1, <1>2, <1>3 DEF WakeInv
    <2> QED BY <1>1, <2>1, <2>2
  <1>4. ASSUME NEW s \in Slots, PidOf[s] = s, Blocked(s, "write")
        PROVE  (Full /\ read_open > 0) \/ Active("write")
    <2>1. read_open > 0
      BY <1>4 DEF WakeInv, Fed, Blocked, Asleep
    <2>2. Room # 0 => Active("write")
      BY <1>1, <1>2, <1>4 DEF WakeInv
    <2> QED BY <1>1, <2>1, <2>2
  <1> QED BY <1>0, <1>3, <1>4 DEF NoLostWakeup

(* No wake-up is lost in a pipe whose wait queues have a place for every   *)
(* other process (WAIT_QUEUE_MAX and MAX_PROCESSES are both 16), for those *)
(* whose pid is their slot number: whatever the order of reads, writes,    *)
(* closes, exits and timer interrupts, none of them stays blocked in a     *)
(* read while the ring holds bytes and no reader is coming for them, nor   *)
(* in a write while there is room, nor behind a closed end.  The others    *)
(* may have pids beyond the table: nobody wakes them, and their entries    *)
(* stay in the wait queues, but they cost no one else a wake-up.           *)
THEOREM NoWakeupIsLost ==
    ASSUME PidsFit, WaitQueueMax >= MaxProcesses - 1
    PROVE  PipeSpec => []NoLostWakeup
  <1>1. PipeInit => QueueInv /\ WakeInv
    BY QueueInit, WakeInit
  <1>2. /\ TypeOK /\ RingOK /\ readers \in Queue /\ writers \in Queue
        /\ QueueInv /\ WakeInv /\ [PipeNext]_allVars
        => QueueInv' /\ WakeInv'
    BY QueueStep, WakeInvStep
  <1>3. RingOK /\ QueueInv /\ WakeInv => NoLostWakeup
    BY BlockedAreFed
  <1> QED BY <1>1, <1>2, <1>3, PipeTyped, PTL DEF PipeSpec
=============================================================================
