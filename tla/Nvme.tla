-------------------------------- MODULE Nvme --------------------------------
(***************************************************************************)
(* The NVMe driver (kernel/nvme.c) after nvme_init: its I/O queue pair, the *)
(* one buffer for transfers, and the device, which is external.  A call    *)
(* spins with interrupts off, so that only the device moves meanwhile.     *)
(***************************************************************************)
EXTENDS Naturals, Sequences

CONSTANTS
    Sectors,        \* of 512 bytes, on the drive
    Contents,       \* what a sector may hold
    None,
    Depth,          \* NVME_IOQ_DEPTH
    MaxChunk,       \* sectors that fit dma_buf, 128
    Page,           \* sectors in the page that prp1 points to, 8
    CidWidth,       \* command identifiers count modulo this, 65536
    Ratios,         \* nvme_lba_size / 512
    MaxSectors,     \* of one request; SYS_DISK_READ and _WRITE allow 128
    AnyAlignment,   \* requests need not be whole blocks of the drive
    LateAnswers     \* the device may answer after the driver has given up

ASSUME NvmeAssumption ==
    /\ Sectors \in Nat \ {0} /\ MaxSectors \in 1 .. Sectors
    /\ Depth \in Nat \ {0, 1} /\ MaxChunk \in Nat \ {0} /\ CidWidth \in Nat \ {0, 1}
    /\ Ratios \subseteq Nat \ {0} /\ \A r \in Ratios : MaxChunk % r = 0 /\ Sectors % r = 0
    /\ MaxSectors <= MaxChunk /\ Page \in Nat \ {0}
    /\ AnyAlignment \in BOOLEAN /\ LateAnswers \in BOOLEAN

ASSUME NoRequest ==
    None \notin [write : BOOLEAN, lba : Nat, data : Seq(Contents \union {None})]

VARIABLES
    disk, ratio,                            \* the drive
    iosq, iosq_tail, iocq, iocq_head, iocq_phase, io_cid,
    dma_buf,
    sq_head, cq_tail, cq_phase, alive,      \* the device's side
    call, reply                             \* the call, and what the last one gave

driverVars == <<iosq, iosq_tail, iocq_head, iocq_phase, io_cid, dma_buf>>
deviceVars == <<sq_head, cq_tail, cq_phase, alive>>
vars == <<disk, ratio, driverVars, iocq, deviceVars, call, reply>>

NoCall == [pc |-> "idle", asked |-> None]

After(i) == (i + 1) % Depth
Flipped(phase, i) == IF i = 0 THEN 1 - phase ELSE phase

Init ==
    /\ disk \in [0 .. Sectors - 1 -> Contents]
    /\ ratio \in Ratios
    /\ iosq = [i \in 0 .. Depth - 1 |-> None]
    /\ iocq = [i \in 0 .. Depth - 1 |-> [cid |-> 0, phase |-> 0, ok |-> TRUE]]
    /\ iosq_tail = 0 /\ iocq_head = 0 /\ iocq_phase = 1 /\ io_cid = 0
    /\ sq_head = 0 /\ cq_tail = 0 /\ cq_phase = 1 /\ alive = TRUE
    /\ dma_buf = [i \in 0 .. MaxChunk - 1 |-> None]
    /\ call = NoCall /\ reply = None

-----------------------------------------------------------------------------
(* nvme_read_drive and nvme_write_drive.  The file systems and the system  *)
(* calls ask for sectors of 512 bytes; TXFS only for whole blocks of 4096, *)
(* on a boundary of 4096.  Nobody asks for more than 128, so that the loop *)
(* of nvme_io over chunks runs once.                                       *)
Ask(write, lba, data) ==
    LET n == Len(data)
    IN  /\ call.pc = "idle"
        /\ lba + n <= Sectors
        /\ AnyAlignment \/ (lba % ratio = 0 /\ n % ratio = 0)
        /\ call' = [pc |-> "submit", asked |-> [write |-> write, lba |-> lba, data |-> data]]
        /\ reply' = None
        /\ UNCHANGED <<disk, ratio, driverVars, iocq, deviceVars>>

BlocksOf(n) == n \div ratio + (IF n % ratio = 0 THEN 0 ELSE 1)

(* nvme_io up to the doorbell: the data of a write goes into the transfer  *)
(* buffer, the command into the next entry of the submission queue.        *)
Submit ==
    LET r == call.asked
    IN  /\ call.pc = "submit"
        /\ dma_buf' = [i \in DOMAIN dma_buf |->
               IF r.write /\ i < Len(r.data) THEN r.data[i + 1] ELSE dma_buf[i]]
        /\ io_cid' = (io_cid + 1) % CidWidth
        /\ iosq' = [iosq EXCEPT ![iosq_tail] =
               [cid |-> io_cid', write |-> r.write,
                lba |-> r.lba \div ratio, n |-> BlocksOf(Len(r.data))]]
        /\ iosq_tail' = After(iosq_tail)
        /\ call' = [call EXCEPT !.pc = "poll"]
        /\ UNCHANGED <<disk, ratio, iocq, iocq_head, iocq_phase, deviceVars, reply>>

Completed == iocq[iocq_head].phase = iocq_phase

PhaseStays ==                  \* seeded fault: iocq_phase is not flipped at the wrap
    /\ iocq_head' = After(iocq_head)
    /\ UNCHANGED iocq_phase

HeadMoves ==
    /\ iocq_head' = After(iocq_head)
    /\ iocq_phase' = Flipped(iocq_phase, iocq_head')

(* What a command that was done leaves in the caller's buffer.             *)
Received ==
    [i \in DOMAIN call.asked.data |->
        IF call.asked.write THEN call.asked.data[i] ELSE dma_buf[i - 1]]

(* The poll finds an entry of its phase; it does not look at the cid.      *)
Poll ==
    /\ call.pc = "poll" /\ Completed
    /\ HeadMoves
    /\ reply' = IF iocq[iocq_head].ok THEN Received ELSE <<>>
    /\ call' = NoCall
    /\ UNCHANGED <<disk, ratio, iosq, iosq_tail, io_cid, dma_buf, iocq, deviceVars>>

(* After two million looks the call gives up.  The command stays in the    *)
(* queue, and nothing is reset.                                            *)
TimeOut ==
    /\ call.pc = "poll" /\ ~Completed
    /\ ~alive \/ LateAnswers
    /\ call' = NoCall /\ reply' = <<>>
    /\ UNCHANGED <<disk, ratio, driverVars, iocq, deviceVars>>

-----------------------------------------------------------------------------
(* The device: takes the commands in order, transfers, and posts the       *)
(* completion if the queue has room.  One that fails may be done or not,   *)
(* and so may the last one before the device stops answering.  It knows    *)
(* where the first page of the buffer is; prp2 is 0, so that what is       *)
(* behind goes to and comes from some other memory.                        *)
First(cmd) == cmd.lba * ratio
Blocks(cmd) == First(cmd) .. First(cmd) + cmd.n * ratio - 1

Transfer(cmd) ==
    /\ \E other \in Contents :
          disk' = [s \in DOMAIN disk |->
              IF cmd.write /\ s \in Blocks(cmd)
              THEN IF s - First(cmd) < Page THEN dma_buf[s - First(cmd)] ELSE other
              ELSE disk[s]]
    /\ dma_buf' = [i \in DOMAIN dma_buf |->
           IF ~cmd.write /\ i < Page /\ First(cmd) + i \in Blocks(cmd)
           THEN disk[First(cmd) + i] ELSE dma_buf[i]]

Post(cmd, ok) ==
    /\ After(cq_tail) # iocq_head
    /\ iocq' = [iocq EXCEPT ![cq_tail] = [cid |-> cmd.cid, phase |-> cq_phase, ok |-> ok]]
    /\ cq_tail' = After(cq_tail)
    /\ cq_phase' = Flipped(cq_phase, cq_tail')

Serve(done, ok) ==
    /\ alive /\ sq_head # iosq_tail
    /\ ok => done
    /\ IF done THEN Transfer(iosq[sq_head]) ELSE UNCHANGED <<disk, dma_buf>>
    /\ Post(iosq[sq_head], ok)
    /\ sq_head' = After(sq_head)
    /\ UNCHANGED <<ratio, iosq, iosq_tail, iocq_head, iocq_phase, io_cid, alive, call, reply>>

Die ==
    /\ alive /\ alive' = FALSE
    /\ \/ UNCHANGED <<disk, dma_buf>>
       \/ sq_head # iosq_tail /\ Transfer(iosq[sq_head])
    /\ UNCHANGED <<ratio, iosq, iosq_tail, iocq_head, iocq_phase, io_cid, iocq,
                   sq_head, cq_tail, cq_phase, call, reply>>

-----------------------------------------------------------------------------
Requests == UNION {[1 .. n -> Contents] : n \in 1 .. MaxSectors}
NoData == {[i \in 1 .. n |-> None] : n \in 1 .. MaxSectors}

Next ==
    \/ \E lba \in 0 .. Sectors - 1 :
          \/ \E data \in Requests : Ask(TRUE, lba, data)
          \/ \E data \in NoData : Ask(FALSE, lba, data)
    \/ Submit \/ Poll \/ TimeOut
    \/ \E done, ok \in BOOLEAN : Serve(done, ok)
    \/ Die

Spec == Init /\ [][Next]_vars

-----------------------------------------------------------------------------
(* Reads give what is on the disk, writes that succeed are on it, and      *)
(* nothing else is overwritten, also by calls that fail, at every wrap of  *)
(* the queues: an entry that the poll takes is the answer to the command   *)
(* just submitted, never one that was answered a lap ago.  (nvme_io.)      *)
D == INSTANCE Disk WITH sectors <- disk, asked <- call.asked
IsDisk == D!Spec
=============================================================================
