-------------------------------- MODULE Disk --------------------------------
(***************************************************************************)
(* What a disk driver promises to the file systems: one request at a time, *)
(* that answers with what is on the disk, or says that it failed.  Sectors *)
(* that nobody asked to be written never change, and a write that failed   *)
(* may have been done in part.                                             *)
(***************************************************************************)
EXTENDS Naturals, Sequences

CONSTANTS Sectors, Contents, None

VARIABLES sectors, asked, reply

vars == <<sectors, asked, reply>>

SectorsOf(r) == r.lba .. r.lba + Len(r.data) - 1
DataAt(r, s) == r.data[s - r.lba + 1]
OnDisk(r) == [i \in DOMAIN r.data |-> sectors[r.lba + i - 1]]

Init ==
    /\ sectors \in [0 .. Sectors - 1 -> Contents]
    /\ asked = None /\ reply = None

(* A read says with its data how much it asks for.                         *)
Ask ==
    /\ asked = None /\ asked' # None
    /\ reply' = None
    /\ UNCHANGED sectors

Write ==
    /\ asked # None /\ asked.write
    /\ \E part \in SUBSET SectorsOf(asked) :
          sectors' = [s \in DOMAIN sectors |->
                         IF s \in part THEN DataAt(asked, s) ELSE sectors[s]]
    /\ UNCHANGED <<asked, reply>>

Answer ==
    /\ asked # None /\ asked' = None
    /\ \/ reply' = <<>>
       \/ reply' = OnDisk(asked) /\ (asked.write => OnDisk(asked) = asked.data)
    /\ UNCHANGED sectors

Next == Ask \/ Write \/ Answer

Spec == Init /\ [][Next]_vars
=============================================================================
