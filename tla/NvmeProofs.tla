----------------------------- MODULE NvmeProofs -----------------------------
(***************************************************************************)
(* The NVMe driver implements Disk, for every drive, every depth of the    *)
(* queues and any contents, as long as requests are whole blocks of the    *)
(* drive, fit a page, and the device does not answer what was given up.    *)
(***************************************************************************)
EXTENDS Nvme, Integers, TLAPS

Places == 0 .. Depth - 1

(* The queues: an entry of iocq has the device's phase if it was posted in *)
(* this lap, the other one if in the lap before.                           *)
PhasesOK ==
    /\ iosq_tail \in Places /\ sq_head \in Places
    /\ iocq_head \in Places /\ cq_tail \in Places
    /\ iocq_phase \in {0, 1} /\ cq_phase \in {0, 1}
    /\ DOMAIN iosq = Places /\ iosq = [i \in Places |-> iosq[i]]
    /\ DOMAIN iocq = Places /\ iocq = [i \in Places |-> iocq[i]]
    /\ \A i \in Places :
          iocq[i].phase = IF i < cq_tail THEN cq_phase ELSE 1 - cq_phase

RequestsOfBlocks ==
    {r \in [write : BOOLEAN, lba : Nat, data : Seq(Contents \union {None})] :
        /\ r.lba + Len(r.data) <= Sectors
        /\ Len(r.data) \in 1 .. MaxSectors
        /\ r.lba % ratio = 0 /\ Len(r.data) % ratio = 0}

CallOK ==
    \/ call = NoCall
    \/ /\ call = [pc |-> call.pc, asked |-> call.asked]
       /\ call.pc \in {"submit", "poll"} /\ call.asked \in RequestsOfBlocks

Waits == call.pc = "poll"

(* What the driver submitted and the device has not taken.                 *)
Outstanding ==
    /\ Waits /\ iosq_tail = After(sq_head)
    /\ iosq[sq_head].write = call.asked.write
    /\ First(iosq[sq_head]) = call.asked.lba
    /\ iosq[sq_head].n * ratio = Len(call.asked.data)
    /\ call.asked.write =>
          \A i \in DOMAIN call.asked.data : dma_buf[i - 1] = call.asked.data[i]

(* What the device has answered and the driver has not taken.              *)
Done ==
    \A i \in DOMAIN call.asked.data :
        disk[call.asked.lba + i - 1] = Received[i]
Answered ==
    /\ Waits /\ cq_tail = After(iocq_head)
    /\ cq_phase = Flipped(iocq_phase, cq_tail)
    /\ iocq[iocq_head].ok => Done
NothingToTake == cq_tail = iocq_head /\ cq_phase = iocq_phase

(* One command at a time: a device that lives has taken all that was       *)
(* submitted, or has still to take the command the driver waits for.       *)
DriverInv ==
    /\ PhasesOK /\ CallOK
    /\ ratio \in Nat \ {0}
    /\ disk = [s \in 0 .. Sectors - 1 |-> disk[s]]
    /\ dma_buf = [i \in 0 .. MaxChunk - 1 |-> dma_buf[i]]
    /\ NothingToTake \/ Answered
    /\ alive => \/ sq_head = iosq_tail /\ (Waits => Answered)
                \/ Outstanding /\ NothingToTake

-----------------------------------------------------------------------------
(* Places in a queue.                                                      *)
LEMMA AfterIs ==
    ASSUME NEW i \in Places
    PROVE  After(i) \in Places /\ After(i) # i
           /\ After(i) = IF i = Depth - 1 THEN 0 ELSE i + 1
  BY NvmeAssumption DEF After, Places

(* The poll finds an entry of its phase just when there is an answer.      *)
LEMMA CompletedIs ==
    ASSUME PhasesOK, NothingToTake \/ Answered
    PROVE  Completed <=> Answered
  <1>1. iocq_head \in Places /\ cq_tail \in Places /\ iocq_phase \in {0, 1}
    BY DEF PhasesOK
  <1>2. iocq[iocq_head].phase = IF iocq_head < cq_tail THEN cq_phase ELSE 1 - cq_phase
    BY <1>1 DEF PhasesOK
  <1>3. iocq_head \in Int /\ cq_tail \in Int /\ Depth \in Int
    BY <1>1, NvmeAssumption DEF Places
  <1>4. /\ After(iocq_head) # iocq_head
        /\ After(iocq_head) = IF iocq_head = Depth - 1 THEN 0 ELSE iocq_head + 1
    BY <1>1, AfterIs
  <1>5. CASE NothingToTake
    BY <1>1, <1>2, <1>3, <1>4, <1>5 DEF NothingToTake, Completed, Answered
  <1>6. CASE Answered
    <2>1. iocq[iocq_head].phase = iocq_phase
      BY <1>1, <1>2, <1>3, <1>4, <1>6, NvmeAssumption DEF Answered, Flipped, Places
    <2> QED BY <1>6, <2>1 DEF Completed
  <1> QED BY <1>5, <1>6

(* Requests of whole blocks: the command covers what was asked.            *)
LEMMA WholeBlocks ==
    ASSUME NEW n \in Nat, NEW d \in Nat \ {0}, n % d = 0
    PROVE  n \div d \in Nat /\ (n \div d) * d = n
  <1> DEFINE q == n \div d
  <1>1. q \in Nat /\ n = d * q
    OBVIOUS
  <1> HIDE DEF q
  <1>2. q * d = d * q
    BY <1>1
  <1> QED BY <1>1, <1>2 DEF q

(* The command in the queue is the request.                                *)
LEMMA SubmittedIs ==
    ASSUME DriverInv, call.pc = "submit"
    PROVE  /\ (call.asked.lba \div ratio) * ratio = call.asked.lba
           /\ BlocksOf(Len(call.asked.data)) * ratio = Len(call.asked.data)
  <1>1. call.asked \in RequestsOfBlocks /\ ratio \in Nat \ {0}
    BY DEF DriverInv, CallOK, NoCall
  <1> DEFINE lba == call.asked.lba  n == Len(call.asked.data)
  <1>2. call.asked.data \in Seq(Contents \union {None}) /\ lba \in Nat
    BY <1>1 DEF RequestsOfBlocks
  <1>3. n \in Nat
    BY <1>2
  <1>4. lba % ratio = 0 /\ n % ratio = 0
    BY <1>1 DEF RequestsOfBlocks
  <1> HIDE DEF lba, n
  <1>5. (lba \div ratio) * ratio = lba
    BY <1>1, <1>2, <1>4, WholeBlocks
  <1>6. BlocksOf(n) * ratio = n
    <2>1. BlocksOf(n) = n \div ratio
      BY <1>1, <1>3, <1>4, WholeBlocks DEF BlocksOf
    <2> QED BY <1>1, <1>3, <1>4, <2>1, WholeBlocks
  <1> QED BY <1>5, <1>6 DEF lba, n

(* What a transfer does to the drive and to the buffer.                    *)
LEMMA TransferIs ==
    ASSUME DriverInv, Outstanding, MaxSectors <= Page, Transfer(iosq[sq_head])
    PROVE  LET r == call.asked  last == r.lba + Len(r.data) - 1
           IN  /\ r.write =>
                     /\ disk' = [s \in DOMAIN disk |->
                           IF s \in r.lba .. last THEN r.data[s - r.lba + 1] ELSE disk[s]]
                     /\ dma_buf' = dma_buf
               /\ ~r.write =>
                     /\ disk' = disk
                     /\ \A i \in DOMAIN r.data : dma_buf'[i - 1] = disk[r.lba + i - 1]
               /\ dma_buf' = [i \in 0 .. MaxChunk - 1 |-> dma_buf'[i]]
               /\ disk' = [s \in 0 .. Sectors - 1 |-> disk'[s]]
  <1> DEFINE r == call.asked  last == r.lba + Len(r.data) - 1  cmd == iosq[sq_head]
  <1>1. r \in RequestsOfBlocks
    BY DEF DriverInv, CallOK, NoCall, Outstanding, Waits
  <1>2. /\ r.lba \in Nat /\ r.data \in Seq(Contents \union {None})
        /\ Len(r.data) \in 1 .. MaxSectors /\ r.lba + Len(r.data) <= Sectors
        /\ r.write \in BOOLEAN
    BY <1>1 DEF RequestsOfBlocks
  <1>3. DOMAIN r.data = 1 .. Len(r.data) /\ Len(r.data) \in Nat
    BY <1>2
  <1>4. cmd.write = r.write /\ First(cmd) = r.lba /\ Blocks(cmd) = r.lba .. last
    BY DEF Outstanding, Blocks
  <1>5. /\ Page \in Nat /\ MaxSectors \in Nat /\ MaxSectors <= MaxChunk
        /\ Sectors \in Nat /\ MaxChunk \in Nat
    BY NvmeAssumption
  <1>6. PICK other \in Contents :
          disk' = [s \in DOMAIN disk |->
              IF r.write /\ s \in r.lba .. last
              THEN IF s - r.lba < Page THEN dma_buf[s - r.lba] ELSE other
              ELSE disk[s]]
    BY <1>4 DEF Transfer
  <1>7. dma_buf' = [i \in DOMAIN dma_buf |->
           IF ~r.write /\ i < Page /\ r.lba + i \in r.lba .. last
           THEN disk[r.lba + i] ELSE dma_buf[i]]
    BY <1>4 DEF Transfer
  <1>8. DOMAIN disk = 0 .. Sectors - 1 /\ DOMAIN dma_buf = 0 .. MaxChunk - 1
    BY DEF DriverInv
  <1>9. /\ dma_buf' = [i \in 0 .. MaxChunk - 1 |-> dma_buf'[i]]
        /\ disk' = [s \in 0 .. Sectors - 1 |-> disk'[s]]
    BY <1>6, <1>7, <1>8
  <1>10. ASSUME r.write
         PROVE  /\ disk' = [s \in DOMAIN disk |->
                     IF s \in r.lba .. last THEN r.data[s - r.lba + 1] ELSE disk[s]]
                /\ dma_buf' = dma_buf
    <2>1. ASSUME NEW s \in r.lba .. last
          PROVE  s - r.lba < Page /\ dma_buf[s - r.lba] = r.data[s - r.lba + 1]
      <3> DEFINE k == s - r.lba + 1
      <3>1. k \in 1 .. Len(r.data) /\ k - 1 = s - r.lba
        BY <1>2, <2>1, SMTT(30)
      <3>2. dma_buf[k - 1] = r.data[k]
        <4>1. \A i \in DOMAIN r.data : dma_buf[i - 1] = r.data[i]
          BY <1>10, Zenon DEF Outstanding
        <4> HIDE DEF k
        <4> QED BY <1>3, <3>1, <4>1, Zenon
      <3>3. s - r.lba < Page
        BY <1>2, <1>5, <2>1
      <3> QED BY <3>1, <3>2, <3>3
    <2>2. disk' = [s \in DOMAIN disk |->
                     IF s \in r.lba .. last THEN r.data[s - r.lba + 1] ELSE disk[s]]
      BY <1>6, <1>10, <2>1, Zenon
    <2>3. dma_buf' = dma_buf
      BY <1>7, <1>10 DEF DriverInv
    <2> QED BY <2>2, <2>3
  <1>11. ASSUME ~r.write
         PROVE  /\ disk' = disk
                /\ \A i \in DOMAIN r.data : dma_buf'[i - 1] = disk[r.lba + i - 1]
    <2>1. disk' = disk
      BY <1>6, <1>11 DEF DriverInv
    <2>2. ASSUME NEW i \in DOMAIN r.data PROVE dma_buf'[i - 1] = disk[r.lba + i - 1]
      <3>1. /\ i - 1 \in 0 .. MaxChunk - 1 /\ i - 1 < Page
            /\ r.lba + (i - 1) \in r.lba .. last /\ r.lba + (i - 1) = r.lba + i - 1
        BY <1>2, <1>3, <1>5, <2>2, SMTT(30)
      <3> QED BY <1>7, <1>8, <1>11, <3>1
    <2> QED BY <2>1, <2>2
  <1> QED BY <1>9, <1>10, <1>11

-----------------------------------------------------------------------------
(* The invariant, action by action.                                        *)
LEMMA DriverInit == Init => DriverInv
  BY NvmeAssumption
  DEF Init, DriverInv, PhasesOK, CallOK, NothingToTake, Waits, Places, NoCall

LEMMA DriverAsk ==
    ASSUME DriverInv, ~AnyAlignment, NEW write \in BOOLEAN, NEW lba \in 0 .. Sectors - 1,
           NEW data \in Seq(Contents \union {None}), Len(data) \in 1 .. MaxSectors,
           Ask(write, lba, data)
    PROVE  DriverInv' /\ D!Next
  <1> DEFINE r == [write |-> write, lba |-> lba, data |-> data]
  <1>1. /\ call.pc = "idle" /\ lba + Len(data) <= Sectors
        /\ lba % ratio = 0 /\ Len(data) % ratio = 0
        /\ call' = [pc |-> "submit", asked |-> r]
        /\ reply' = None
        /\ UNCHANGED <<disk, ratio, driverVars, iocq, deviceVars>>
    BY DEF Ask
  <1>2. call = NoCall
    BY <1>1 DEF DriverInv, CallOK
  <1>3. r \in [write : BOOLEAN, lba : Nat, data : Seq(Contents \union {None})]
    OBVIOUS
  <1>4. r \in RequestsOfBlocks'
    BY <1>1, <1>3 DEF RequestsOfBlocks
  <1>5. CallOK'
    BY <1>1, <1>4 DEF CallOK
  <1>6. PhasesOK' /\ NothingToTake' /\ ~Waits'
    BY <1>1, <1>2 DEF DriverInv, PhasesOK, NothingToTake, Answered, Waits, NoCall,
       driverVars, deviceVars
  <1>7. alive' => sq_head' = iosq_tail'
    BY <1>1, <1>2 DEF DriverInv, Outstanding, Waits, NoCall, driverVars, deviceVars
  <1>8. DriverInv'
    BY <1>1, <1>5, <1>6, <1>7 DEF DriverInv, driverVars, deviceVars
  <1>9. D!Ask
    BY <1>1, <1>2, <1>3, NoRequest DEF D!Ask, NoCall
  <1> QED BY <1>8, <1>9 DEF D!Next

LEMMA DriverSubmit ==
    ASSUME DriverInv, Submit
    PROVE  DriverInv' /\ UNCHANGED D!vars
  <1> DEFINE r == call.asked
             cmd == [cid |-> io_cid', write |-> r.write,
                     lba |-> r.lba \div ratio, n |-> BlocksOf(Len(r.data))]
  <1>1. /\ call.pc = "submit"
        /\ dma_buf' = [i \in DOMAIN dma_buf |->
               IF r.write /\ i < Len(r.data) THEN r.data[i + 1] ELSE dma_buf[i]]
        /\ iosq' = [iosq EXCEPT ![iosq_tail] = cmd]
        /\ iosq_tail' = After(iosq_tail)
        /\ call' = [call EXCEPT !.pc = "poll"]
        /\ UNCHANGED <<disk, ratio, iocq, iocq_head, iocq_phase, deviceVars, reply>>
    BY DEF Submit
  <1>2. r \in RequestsOfBlocks /\ call = [pc |-> call.pc, asked |-> r]
    BY <1>1 DEF DriverInv, CallOK, NoCall
  <1>3. call' = [pc |-> "poll", asked |-> r]
    BY <1>1, <1>2
  <1>4. iosq_tail \in Places /\ iosq_tail' \in Places
    BY <1>1, AfterIs DEF DriverInv, PhasesOK
  <1>5. DOMAIN iosq' = Places /\ iosq' = [i \in Places |-> iosq'[i]]
        /\ iosq'[iosq_tail] = cmd
    BY <1>1, <1>4 DEF DriverInv, PhasesOK
  <1>6. PhasesOK'
    BY <1>1, <1>4, <1>5 DEF DriverInv, PhasesOK, deviceVars
  <1>7. CallOK'
    BY <1>1, <1>2, <1>3 DEF CallOK, RequestsOfBlocks
  <1>8. NothingToTake'
    BY <1>1 DEF DriverInv, NothingToTake, Answered, Waits, deviceVars
  <1>9. /\ dma_buf' = [i \in 0 .. MaxChunk - 1 |-> dma_buf'[i]]
        /\ disk' = [s \in 0 .. Sectors - 1 |-> disk'[s]]
        /\ ratio' \in Nat \ {0}
    BY <1>1 DEF DriverInv
  <1>10. ASSUME alive' PROVE Outstanding'
    <2>1. sq_head = iosq_tail /\ sq_head' = sq_head
      BY <1>1, <1>10 DEF DriverInv, Outstanding, Waits, deviceVars
    <2>2. iosq'[sq_head'] = cmd /\ iosq_tail' = After(sq_head')
      BY <1>1, <1>5, <2>1
    <2>3. cmd.lba * ratio = r.lba /\ cmd.n * ratio = Len(r.data)
      BY <1>1, SubmittedIs
    <2>4. ASSUME r.write, NEW i \in DOMAIN r.data PROVE dma_buf'[i - 1] = r.data[i]
      <3>1. r.data \in Seq(Contents \union {None}) /\ Len(r.data) \in 1 .. MaxSectors
        BY <1>2 DEF RequestsOfBlocks
      <3>2. i \in 1 .. Len(r.data) /\ Len(r.data) <= MaxChunk
        BY <2>4, <3>1, NvmeAssumption
      <3>3. i - 1 \in 0 .. MaxChunk - 1 /\ i - 1 < Len(r.data) /\ (i - 1) + 1 = i
        BY <3>1, <3>2, NvmeAssumption
      <3>4. DOMAIN dma_buf = 0 .. MaxChunk - 1
        BY DEF DriverInv
      <3> QED BY <1>1, <2>4, <3>3, <3>4
    <2> QED BY <1>1, <1>3, <2>2, <2>3, <2>4 DEF Outstanding, Waits, First
  <1>11. DriverInv'
    BY <1>6, <1>7, <1>8, <1>9, <1>10 DEF DriverInv
  <1> QED BY <1>1, <1>3, <1>11 DEF D!vars

LEMMA DriverPoll ==
    ASSUME DriverInv, Poll
    PROVE  DriverInv' /\ D!Next
  <1> DEFINE r == call.asked
  <1>1. /\ Waits /\ Completed
        /\ iocq_head' = After(iocq_head)
        /\ iocq_phase' = Flipped(iocq_phase, iocq_head')
        /\ reply' = IF iocq[iocq_head].ok THEN Received ELSE <<>>
        /\ call' = NoCall
        /\ UNCHANGED <<disk, ratio, iosq, iosq_tail, dma_buf, iocq, deviceVars>>
    BY DEF Poll, HeadMoves, Waits
  <1>2. Answered
    BY <1>1, CompletedIs DEF DriverInv
  <1>3. r \in RequestsOfBlocks
    BY <1>1 DEF DriverInv, CallOK, NoCall, Waits
  <1>4. iocq_head' \in Places /\ iocq_phase' \in {0, 1}
    BY <1>1, AfterIs DEF DriverInv, PhasesOK, Flipped
  <1>5. NothingToTake'
    BY <1>1, <1>2 DEF NothingToTake, Answered, deviceVars
  <1>6. PhasesOK'
    BY <1>1, <1>4 DEF DriverInv, PhasesOK, deviceVars
  <1>7. alive' => sq_head' = iosq_tail'
    BY <1>1, <1>2, AfterIs DEF DriverInv, NothingToTake, Answered, PhasesOK, deviceVars
  <1>8. DriverInv'
    BY <1>1, <1>5, <1>6, <1>7 DEF DriverInv, CallOK, Waits, NoCall
  <1>9. D!Answer
    <2>1. r # None
      BY <1>3, NoRequest DEF RequestsOfBlocks
    <2>2. call'.asked = None
      BY <1>1 DEF NoCall
    <2>3. CASE ~iocq[iocq_head].ok
      BY <1>1, <2>1, <2>2, <2>3 DEF D!Answer
    <2>4. CASE iocq[iocq_head].ok
      <3>1. reply' = Received /\ \A i \in DOMAIN r.data : disk[r.lba + i - 1] = Received[i]
        BY <1>1, <1>2, <2>4 DEF Answered, Done
      <3>2. D!OnDisk(r) = Received
        BY <3>1 DEF D!OnDisk, Received
      <3>3. r.write => Received = r.data
        BY <1>3 DEF Received, RequestsOfBlocks
      <3> QED BY <1>1, <2>1, <2>2, <3>1, <3>2, <3>3 DEF D!Answer
    <2> QED BY <2>3, <2>4
  <1> QED BY <1>8, <1>9 DEF D!Next

LEMMA DriverTimeOut ==
    ASSUME DriverInv, ~LateAnswers, TimeOut
    PROVE  DriverInv' /\ D!Next
  <1> DEFINE r == call.asked
  <1>1. /\ Waits /\ ~Completed /\ ~alive
        /\ call' = NoCall /\ reply' = <<>>
        /\ UNCHANGED <<disk, ratio, driverVars, iocq, deviceVars>>
    BY DEF TimeOut, Waits
  <1>2. NothingToTake
    BY <1>1, CompletedIs DEF DriverInv
  <1>3. r \in RequestsOfBlocks
    BY <1>1 DEF DriverInv, CallOK, NoCall, Waits
  <1>4. PhasesOK' /\ NothingToTake'
    BY <1>1, <1>2 DEF DriverInv, PhasesOK, NothingToTake, driverVars, deviceVars
  <1>5. DriverInv'
    BY <1>1, <1>4 DEF DriverInv, CallOK, driverVars, deviceVars
  <1>6. D!Answer
    <2>1. r # None
      BY <1>3, NoRequest DEF RequestsOfBlocks
    <2> QED BY <1>1, <2>1 DEF D!Answer, NoCall
  <1> QED BY <1>5, <1>6 DEF D!Next

(* A command the device carries out is a Disk write, or changes nothing    *)
(* but the buffer; either way it is then done.                             *)
LEMMA TransferImplements ==
    ASSUME DriverInv, Outstanding, MaxSectors <= Page, Transfer(iosq[sq_head]),
           UNCHANGED <<ratio, call, reply>>
    PROVE  /\ D!Next \/ UNCHANGED D!vars
           /\ \A i \in DOMAIN call.asked.data :
                 disk'[call.asked.lba + i - 1] =
                     IF call.asked.write THEN call.asked.data[i] ELSE dma_buf'[i - 1]
  <1> DEFINE r == call.asked  last == r.lba + Len(r.data) - 1
  <1>1. r \in RequestsOfBlocks
    BY DEF DriverInv, CallOK, NoCall, Outstanding, Waits
  <1>2. /\ r.lba \in Nat /\ r.data \in Seq(Contents \union {None})
        /\ r.lba + Len(r.data) <= Sectors /\ r.write \in BOOLEAN /\ r # None
    BY <1>1, NoRequest DEF RequestsOfBlocks
  <1>3. DOMAIN r.data = 1 .. Len(r.data) /\ Len(r.data) \in Nat /\ Sectors \in Nat
    BY <1>2, NvmeAssumption
  <1>4. DOMAIN disk = 0 .. Sectors - 1
    BY DEF DriverInv
  <1>5. CASE r.write
    <2>1. disk' = [s \in DOMAIN disk |->
                     IF s \in r.lba .. last THEN r.data[s - r.lba + 1] ELSE disk[s]]
      BY <1>5, TransferIs
    <2>2. D!Write
      <3>1. disk' = [s \in DOMAIN disk |->
                       IF s \in D!SectorsOf(r) THEN D!DataAt(r, s) ELSE disk[s]]
        BY <2>1 DEF D!SectorsOf, D!DataAt
      <3> QED BY <1>2, <1>5, <3>1 DEF D!Write
    <2>3. ASSUME NEW i \in DOMAIN r.data PROVE disk'[r.lba + i - 1] = r.data[i]
      <3>1. /\ r.lba + i - 1 \in r.lba .. last /\ r.lba + i - 1 \in 0 .. Sectors - 1
            /\ (r.lba + i - 1) - r.lba + 1 = i
        BY <1>2, <1>3, <2>3
      <3> QED BY <1>4, <2>1, <3>1
    <2> QED BY <1>5, <2>2, <2>3 DEF D!Next
  <1>6. CASE ~r.write
    <2>1. disk' = disk
          /\ \A i \in DOMAIN r.data : dma_buf'[i - 1] = disk[r.lba + i - 1]
      BY <1>6, TransferIs
    <2> QED BY <1>6, <2>1 DEF D!vars
  <1> QED BY <1>2, <1>5, <1>6

LEMMA DriverServe ==
    ASSUME DriverInv, MaxSectors <= Page, NEW done \in BOOLEAN, NEW ok \in BOOLEAN,
           Serve(done, ok)
    PROVE  DriverInv' /\ (D!Next \/ UNCHANGED D!vars)
  <1> DEFINE r == call.asked
             entry == [cid |-> iosq[sq_head].cid, phase |-> cq_phase, ok |-> ok]
  <1>1. /\ alive /\ sq_head # iosq_tail /\ (ok => done)
        /\ done => Transfer(iosq[sq_head])
        /\ ~done => UNCHANGED <<disk, dma_buf>>
        /\ iocq' = [iocq EXCEPT ![cq_tail] = entry]
        /\ cq_tail' = After(cq_tail) /\ cq_phase' = Flipped(cq_phase, cq_tail')
        /\ sq_head' = After(sq_head)
        /\ UNCHANGED <<ratio, iosq, iosq_tail, iocq_head, iocq_phase, io_cid, alive, call, reply>>
    BY DEF Serve, Post
  <1>2. Outstanding /\ NothingToTake
    BY <1>1 DEF DriverInv
  <1>3. sq_head' = iosq_tail /\ Waits'
    BY <1>1, <1>2 DEF Outstanding, Waits
  <1>4. /\ cq_tail \in Places /\ cq_phase \in {0, 1}
        /\ cq_tail' = IF cq_tail = Depth - 1 THEN 0 ELSE cq_tail + 1
        /\ cq_tail' \in Places
    BY <1>1, AfterIs DEF DriverInv, PhasesOK
  <1>5. /\ DOMAIN iocq' = Places /\ iocq' = [i \in Places |-> iocq'[i]]
        /\ iocq'[cq_tail] = entry
        /\ \A i \in Places \ {cq_tail} : iocq'[i] = iocq[i]
    BY <1>1, <1>4 DEF DriverInv, PhasesOK
  <1>6. cq_phase' = (IF cq_tail' = 0 THEN 1 - cq_phase ELSE cq_phase) /\ cq_phase' \in {0, 1}
    BY <1>1, <1>4 DEF Flipped
  <1>7. ASSUME NEW i \in Places
        PROVE  iocq'[i].phase = IF i < cq_tail' THEN cq_phase' ELSE 1 - cq_phase'
    <2>1. iocq[i].phase = IF i < cq_tail THEN cq_phase ELSE 1 - cq_phase
      BY DEF DriverInv, PhasesOK
    <2>2. iocq'[i].phase = IF i <= cq_tail THEN cq_phase ELSE 1 - cq_phase
      <3>1. CASE i = cq_tail
        BY <1>4, <1>5, <3>1 DEF Places
      <3>2. CASE i # cq_tail
        BY <1>4, <1>5, <2>1, <3>2 DEF Places
      <3> QED BY <3>1, <3>2
    <2>3. i \in 0 .. Depth - 1 /\ cq_tail \in 0 .. Depth - 1 /\ Depth \in Nat
      BY <1>4, NvmeAssumption DEF Places
    <2> QED BY <1>4, <1>6, <2>2, <2>3
  <1>8. PhasesOK'
    BY <1>1, <1>3, <1>4, <1>5, <1>6, <1>7 DEF DriverInv, PhasesOK
  <1>9. /\ D!Next \/ UNCHANGED D!vars
        /\ dma_buf' = [i \in 0 .. MaxChunk - 1 |-> dma_buf'[i]]
        /\ disk' = [s \in 0 .. Sectors - 1 |-> disk'[s]]
    <2>1. CASE done
      BY <1>1, <1>2, <2>1, TransferIs, TransferImplements
    <2>2. CASE ~done
      BY <1>1, <2>2 DEF D!vars, DriverInv
    <2> QED BY <2>1, <2>2
  <1>10. Answered'
    <2>1. cq_tail' = After(iocq_head') /\ cq_phase' = Flipped(iocq_phase', cq_tail')
      BY <1>1, <1>2 DEF NothingToTake
    <2>2. iocq'[iocq_head'].ok = ok
      BY <1>1, <1>2, <1>5 DEF NothingToTake
    <2>3. ASSUME ok PROVE Done'
      <3>1. \A i \in DOMAIN r.data :
               disk'[r.lba + i - 1] = IF r.write THEN r.data[i] ELSE dma_buf'[i - 1]
        BY <1>1, <1>2, <2>3, TransferImplements
      <3> QED BY <1>1, <3>1 DEF Done, Received
    <2> QED BY <1>3, <2>1, <2>2, <2>3 DEF Answered
  <1>11. CallOK' /\ ratio' \in Nat \ {0}
    BY <1>1 DEF DriverInv, CallOK, RequestsOfBlocks
  <1>12. DriverInv'
    BY <1>1, <1>3, <1>8, <1>9, <1>10, <1>11 DEF DriverInv
  <1> QED BY <1>9, <1>12

LEMMA DriverDie ==
    ASSUME DriverInv, MaxSectors <= Page, Die
    PROVE  DriverInv' /\ (D!Next \/ UNCHANGED D!vars)
  <1>1. /\ alive /\ ~alive'
        /\ \/ UNCHANGED <<disk, dma_buf>>
           \/ sq_head # iosq_tail /\ Transfer(iosq[sq_head])
        /\ UNCHANGED <<ratio, iosq, iosq_tail, iocq_head, iocq_phase, io_cid, iocq,
                       sq_head, cq_tail, cq_phase, call, reply>>
    BY DEF Die
  <1>2. PhasesOK' /\ CallOK' /\ ratio' \in Nat \ {0}
    BY <1>1 DEF DriverInv, PhasesOK, CallOK, RequestsOfBlocks
  <1>3. CASE UNCHANGED <<disk, dma_buf>>
    <2>1. (NothingToTake \/ Answered)'
      BY <1>1, <1>3 DEF DriverInv, NothingToTake, Answered, Waits, Done, Received
    <2> QED BY <1>1, <1>2, <1>3, <2>1 DEF DriverInv, D!vars
  <1>4. CASE sq_head # iosq_tail /\ Transfer(iosq[sq_head])
    <2>1. Outstanding /\ NothingToTake
      BY <1>1, <1>4 DEF DriverInv
    <2>2. NothingToTake'
      BY <1>1, <2>1 DEF NothingToTake
    <2>3. /\ dma_buf' = [i \in 0 .. MaxChunk - 1 |-> dma_buf'[i]]
          /\ disk' = [s \in 0 .. Sectors - 1 |-> disk'[s]]
      BY <1>4, <2>1, TransferIs
    <2>4. D!Next \/ UNCHANGED D!vars
      BY <1>1, <1>4, <2>1, TransferImplements
    <2> QED BY <1>1, <1>2, <2>2, <2>3, <2>4 DEF DriverInv
  <1> QED BY <1>1, <1>3, <1>4

LEMMA DriverStep ==
    ASSUME DriverInv, ~AnyAlignment, ~LateAnswers, MaxSectors <= Page, [Next]_vars
    PROVE  DriverInv' /\ (D!Next \/ UNCHANGED D!vars)
  <1>1. ASSUME NEW lba \in 0 .. Sectors - 1, NEW data \in Requests, Ask(TRUE, lba, data)
        PROVE  DriverInv' /\ D!Next
    <2>1. data \in Seq(Contents \union {None}) /\ Len(data) \in 1 .. MaxSectors
      BY NvmeAssumption DEF Requests
    <2> QED BY <1>1, <2>1, DriverAsk
  <1>2. ASSUME NEW lba \in 0 .. Sectors - 1, NEW data \in NoData, Ask(FALSE, lba, data)
        PROVE  DriverInv' /\ D!Next
    <2>1. data \in Seq(Contents \union {None}) /\ Len(data) \in 1 .. MaxSectors
      BY NvmeAssumption DEF NoData
    <2> QED BY <1>2, <2>1, DriverAsk
  <1>3. ASSUME NEW done \in BOOLEAN, NEW ok \in BOOLEAN, Serve(done, ok)
        PROVE  DriverInv' /\ (D!Next \/ UNCHANGED D!vars)
    BY <1>3, DriverServe
  <1>4. CASE UNCHANGED vars
    BY <1>4 DEF vars, driverVars, deviceVars, DriverInv, PhasesOK, CallOK, RequestsOfBlocks,
       NothingToTake, Answered, Outstanding, Waits, Done, Received, First, D!vars
  <1> QED BY <1>1, <1>2, <1>3, <1>4, DriverSubmit, DriverPoll, DriverTimeOut, DriverDie
          DEF Next

(* Reads give what is on the disk, writes that succeed are on it, and no   *)
(* other sector changes, over all wraps of queues and phases, failed       *)
(* commands and a device that stops answering.  The hypotheses are what    *)
(* the file systems keep to on drives with sectors of 512 bytes, and that  *)
(* no answer comes after the driver has given up (nvme_io).                *)
THEOREM DriverIsDisk ==
    ASSUME ~AnyAlignment, ~LateAnswers, MaxSectors <= Page
    PROVE  Spec => IsDisk
  <1>1. Init => D!Init
    BY DEF Init, NoCall, D!Init
  <1>2. DriverInv /\ [Next]_vars => DriverInv' /\ [D!Next]_(D!vars)
    BY DriverStep
  <1> QED BY <1>1, <1>2, DriverInit, PTL DEF Spec, IsDisk, D!Spec
=============================================================================
