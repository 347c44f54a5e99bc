--------------------------- MODULE PipelineProofs ---------------------------
(***************************************************************************)
(* Command lines at work, proved for all command lines, all sizes of the   *)
(* tables of descriptors, pipes and files, any number of programs.         *)
(***************************************************************************)
EXTENDS Pipeline, FiniteSetTheorems, WellFoundedInduction, TLAPS

(* The states of the tables, the shell and the programs.                   *)
PipeTypes == {"pipe_r", "pipe_w"}
Meanings ==
    {FreeFd} \union [type : PipeTypes, index : Pipes] \union [type : {"file"}, index : Handles]
MaybeFd == Fds \union {Nothing}
PipeStates == [used : BOOLEAN, read_open : Int, write_open : Int, level : 0 .. PipeRoom]
TableStates ==
    [fds : [Fds -> Meanings], pipes : [Pipes -> PipeStates], handles : SUBSET Handles]
ShellStates ==
    [pc : {"prompt", "pipes", "stage", "open_out", "spawn", "close", "wait"},
     line : [stages : Seq(Commands), bg : BOOLEAN], s : Nat,
     pipe_r : Seq(MaybeFd), pipe_w : Seq(MaybeFd),
     redir_in : MaybeFd, redir_out : MaybeFd, redirs : Seq(MaybeFd),
     pids : Seq(Kids \union {Nothing}), todo : Seq(MaybeFd),
     next : {"prompt", "stage_done", "cleanup"}]
KidStates ==
    [live : BOOLEAN, in : MaybeFd, out : MaybeFd, given : Meanings \X Meanings,
     inside : Pipes \union {Nothing}, does : {"none", "read", "write"}, left : BOOLEAN]
TypeOK ==
    /\ tables \in TableStates
    /\ shell \in ShellStates
    /\ kids \in [Kids -> KidStates]

(* What the counters of the tables t say of its descriptors.               *)
Points(fds, m) == {f \in Fds : fds[f] = m}
Means(type, i) == [type |-> type, index |-> i]
Counted(t) ==
    /\ \A p \in Pipes :
          /\ t.pipes[p].read_open = Cardinality(Points(t.fds, Means("pipe_r", p)))
          /\ t.pipes[p].write_open = Cardinality(Points(t.fds, Means("pipe_w", p)))
          /\ t.pipes[p].used <=> t.pipes[p].read_open + t.pipes[p].write_open > 0
    /\ \A h \in Handles :
          Cardinality(Points(t.fds, Means("file", h))) = IF h \in t.handles THEN 1 ELSE 0

(* The descriptors that the shell's variables still are to close: the pipe *)
(* ends and redirections that it will look at again, those that it is      *)
(* about to close, the redirections of the stage it is at.                 *)
Among(fds) == {fds[i] : i \in DOMAIN fds} \ {Nothing}
OnceEach(fds) == \A i, j \in DOMAIN fds : fds[i] = fds[j] /\ fds[i] # Nothing => i = j

HoldsEnds(sh) ==
    \/ sh.pc \in {"pipes", "stage", "open_out", "spawn", "wait"}
    \/ sh.pc = "close" /\ sh.next # "prompt"
HoldsRedirs(sh) ==
    \/ sh.pc \in {"stage", "open_out", "spawn", "wait"}
    \/ sh.pc = "close" /\ sh.next = "stage_done"
ReadEnds(sh)  == IF HoldsEnds(sh) THEN Among(sh.pipe_r) ELSE {}
WriteEnds(sh) == IF HoldsEnds(sh) THEN Among(sh.pipe_w) ELSE {}
Redirs(sh)    == IF HoldsRedirs(sh) THEN Among(sh.redirs) ELSE {}
Todo(sh)      == IF sh.pc = "close" THEN Among(sh.todo) ELSE {}
InHand(sh) ==
    ((IF sh.pc \in {"open_out", "spawn"} THEN {sh.redir_in} ELSE {})
       \union (IF sh.pc = "spawn" THEN {sh.redir_out} ELSE {})) \ {Nothing}

(* No descriptor is in two of these places, or twice in one, and each      *)
(* still means what it was made for.                                       *)
Once(sh) ==
    /\ HoldsEnds(sh) => OnceEach(sh.pipe_r) /\ OnceEach(sh.pipe_w)
    /\ HoldsRedirs(sh) => OnceEach(sh.redirs)
    /\ sh.pc = "close" => OnceEach(sh.todo)
    /\ sh.pc = "spawn" => sh.redir_in # sh.redir_out \/ sh.redir_in = Nothing
Apart(fds, R, W, D, T, H) ==
    /\ R \union W \union D \union T \union H \subseteq Fds
    /\ \A f \in R : fds[f].type = "pipe_r"
    /\ \A f \in W : fds[f].type = "pipe_w"
    /\ \A f \in D \union H : fds[f].type = "file"
    /\ \A f \in T : fds[f].type # "free"
    /\ T \intersect (R \union W \union D \union H) = {}
    /\ D \intersect H = {}

(* A descriptor of a pipe is one that the shell still closes, unless the   *)
(* pipe is one that it dropped; those stay as they are.                    *)
Accounted(fds, ends, lost) ==
    /\ \A f \in Fds : fds[f].type \in PipeTypes => f \in ends \/ fds[f].index \in lost
    /\ \A f \in ends : fds[f].type \in PipeTypes => fds[f].index \notin lost
    /\ \A p \in lost : \E f \in Fds : fds[f] = Means("pipe_r", p)

(* A file that a program was given is not about to be closed; if the shell *)
(* closes it later, then after waiting for the program.  A program whose   *)
(* wait came back early does not count.                                    *)
Gave(kid, f, m) ==
    /\ kid.live /\ ~kid.left /\ m.type = "file"
    /\ \/ kid.in = f /\ kid.given[1] = m
       \/ kid.out = f /\ kid.given[2] = m
Awaited(sh, k) ==
    \E i \in DOMAIN sh.pids : sh.pids[i] = k /\ (sh.pc = "wait" => i >= sh.s)
Kept(fds, sh, H, ks) ==
    \A k \in Kids : \A f \in MaybeFd : \A m \in Meanings : Gave(ks[k], f, m) =>
        /\ f \in Fds /\ fds[f] = m
        /\ f \notin Todo(sh) \union H
        /\ f \in Redirs(sh) => Awaited(sh, k)

(* How far the shell has come.                                             *)
StagesOf(sh) == Len(sh.line.stages)
Progress(sh) ==
    /\ sh.pc # "prompt" => sh.s \in 1 .. StagesOf(sh)
    /\ sh.pc = "pipes" => /\ Len(sh.pipe_r) = Len(sh.pipe_w)
                          /\ Len(sh.pipe_r) + 1 < StagesOf(sh)
                          /\ sh.s = 1 /\ sh.pids = <<>> /\ sh.redirs = <<>>
    /\ sh.pc \in {"stage", "open_out", "spawn", "close", "wait"} =>
          Len(sh.pipe_r) + 1 = StagesOf(sh) /\ Len(sh.pipe_w) + 1 = StagesOf(sh)
    /\ sh.pc \in {"stage", "open_out", "spawn"} => Len(sh.pids) + 1 = sh.s
    /\ sh.pc = "close" /\ sh.next = "stage_done" => Len(sh.pids) = sh.s
    /\ sh.pc = "wait" => Len(sh.pids) = StagesOf(sh)

(* While the pipes are made each has both its ends.                        *)
Paired(fds, sh) ==
    sh.pc = "pipes" => \A i \in DOMAIN sh.pipe_r :
        /\ sh.pipe_r[i] # Nothing /\ sh.pipe_w[i] # Nothing
        /\ fds[sh.pipe_r[i]].index = fds[sh.pipe_w[i]].index

Ends(sh) == ReadEnds(sh) \union WriteEnds(sh) \union Todo(sh)
Safe(fds, sh, H, ks, lost) ==
    /\ Apart(fds, ReadEnds(sh), WriteEnds(sh), Redirs(sh), Todo(sh), H)
    /\ Accounted(fds, Ends(sh), lost)
    /\ Paired(fds, sh)
    /\ Kept(fds, sh, H, ks)
ShellInv == Once(shell) /\ Safe(tables.fds, shell, InHand(shell), kids, dropped)

-----------------------------------------------------------------------------
(* The tables.                                                             *)

LEMMA Numbers ==
    /\ Fds \subseteq Nat /\ Pipes \subseteq Nat /\ Handles \subseteq Nat
    /\ Nothing \notin Nat /\ Nothing = -1
    /\ IsFiniteSet(Fds)
  <1>1. IsFiniteSet(Fds)
    BY FS_Interval, VfsAssumption DEF Fds
  <1> QED BY <1>1, VfsAssumption DEF Fds, Pipes, Handles, Nothing

(* A set of numbers has a least one, and Least finds it.                   *)
LEMMA LeastExists ==
    ASSUME NEW S \in SUBSET Nat, S # {}
    PROVE  Least(S) \in S /\ \A y \in S : Least(S) <= y
  <1> DEFINE R == OpToRel(<, Nat)
  <1>1. IsWellFoundedOn(R, Nat)
    BY NatLessThanWellFounded, Zenon
  <1>2. \A y, z \in Nat : y < z => <<y, z>> \in R
    BY Zenon DEF OpToRel
  <1> HIDE DEF R
  <1>3. PICK x \in S : \A y \in S : ~ (<<y, x>> \in R)
    BY <1>1, WFMin, Zenon
  <1>4. ASSUME NEW y \in S PROVE x <= y
    <2>1. ~(y < x)
      BY <1>2, <1>3, Zenon
    <2> QED BY <2>1
  <1>5. \E z \in S : \A y \in S : z <= y
    BY <1>4
  <1> QED BY <1>5 DEF Least

(* What becomes of the number of descriptors that mean m when one of them  *)
(* is given another meaning.                                               *)
Hit(x, m) == IF x = m THEN 1 ELSE 0
Given(fds, f, m) == [fds EXCEPT ![f] = m]
LEMMA Recounts ==
    ASSUME NEW fds \in [Fds -> Meanings], NEW f \in Fds, NEW e \in Meanings, NEW m
    PROVE  /\ Given(fds, f, e) \in [Fds -> Meanings]
           /\ Cardinality(Points(Given(fds, f, e), m))
                = Cardinality(Points(fds, m)) - Hit(fds[f], m) + Hit(e, m)
  <1> DEFINE new == Given(fds, f, e)
             A == Points(fds, m)  B == Points(new, m)
  <1>1. IsFiniteSet(A) /\ IsFiniteSet(B)
    <2>1. A \in SUBSET Fds /\ B \in SUBSET Fds
      BY DEF Points
    <2> QED BY <2>1, Numbers, FS_Subset
  <1>2. Cardinality(A) \in Nat /\ Cardinality(B) \in Nat
    BY <1>1, FS_CardinalityType
  <1>3. A \ {f} = B \ {f} /\ (f \in A <=> fds[f] = m) /\ (f \in B <=> e = m)
    BY DEF Points, Given
  <1>4. new \in [Fds -> Meanings]
    BY DEF Given
  <1> HIDE DEF A, B, new
  <1>5. /\ Cardinality(A \ {f}) = Cardinality(A) - Hit(fds[f], m)
        /\ Cardinality(B \ {f}) = Cardinality(B) - Hit(e, m)
    <2>1. /\ Cardinality(A \ {f}) = IF f \in A THEN Cardinality(A) - 1 ELSE Cardinality(A)
          /\ Cardinality(B \ {f}) = IF f \in B THEN Cardinality(B) - 1 ELSE Cardinality(B)
      BY <1>1, FS_RemoveElement
    <2>2. \A a \in Nat : a = a - 0
      OBVIOUS
    <2>3. /\ Hit(fds[f], m) = IF f \in A THEN 1 ELSE 0
          /\ Hit(e, m) = IF f \in B THEN 1 ELSE 0
      BY <1>3, Zenon DEF Hit
    <2> QED BY <1>2, <2>1, <2>2, <2>3, Zenon
  <1>6. Cardinality(B) = Cardinality(A) - Hit(fds[f], m) + Hit(e, m)
    <2>1. Cardinality(A) - Hit(fds[f], m) = Cardinality(B) - Hit(e, m)
      BY <1>3, <1>5, Zenon
    <2>2. Hit(fds[f], m) \in Int /\ Hit(e, m) \in Int
      BY DEF Hit
    <2>3. \A a, b \in Nat : \A x, y \in Int : a - x = b - y => b = a - x + y
      OBVIOUS
    <2> QED BY <1>2, <2>1, <2>2, <2>3
  <1> QED BY <1>2, <1>4, <1>6 DEF A, B, new

LEMMA SomePoint ==
    ASSUME NEW fds, NEW m
    PROVE  /\ Cardinality(Points(fds, m)) \in Nat
           /\ Cardinality(Points(fds, m)) > 0 <=> \E f \in Fds : fds[f] = m
  <1>1. IsFiniteSet(Points(fds, m))
    <2>1. Points(fds, m) \in SUBSET Fds
      BY DEF Points
    <2> QED BY <2>1, Numbers, FS_Subset
  <1>2. Cardinality(Points(fds, m)) \in Nat
    BY <1>1, FS_CardinalityType
  <1>3. Cardinality(Points(fds, m)) = 0 <=> Points(fds, m) = {}
    BY <1>1, FS_EmptySet
  <1> QED BY <1>2, <1>3 DEF Points

LEMMA MeaningFacts ==
    /\ \A p \in Pipes : Means("pipe_r", p) \in Meanings /\ Means("pipe_w", p) \in Meanings
    /\ \A h \in Handles : Means("file", h) \in Meanings
    /\ FreeFd \in Meanings
    /\ \A m \in Meanings :
          /\ m.type \in {"free", "file", "pipe_r", "pipe_w"}
          /\ m = FreeFd <=> m.type = "free"
          /\ m.type = "file" => m.index \in Handles /\ m = Means("file", m.index)
          /\ m.type = "pipe_r" => m.index \in Pipes /\ m = Means("pipe_r", m.index)
          /\ m.type = "pipe_w" => m.index \in Pipes /\ m = Means("pipe_w", m.index)
    /\ \A x, y, a, b : Means(x, a) = Means(y, b) <=> x = y /\ a = b
    /\ \A x, a : Means(x, a).type = x /\ Means(x, a).index = a
  BY DEF Meanings, Means, FreeFd, PipeTypes
(* The three system calls that change the tables: what they change of the  *)
(* descriptors, and that they count right.                                 *)
Opens(t, r) ==
    \/ r.fd = Nothing /\ r.t = t
    \/ /\ r.fd \in Fds /\ t.fds[r.fd] = FreeFd
       /\ \E h \in Handles : r.t.fds = [t.fds EXCEPT ![r.fd] = Means("file", h)]
LEMMA OpenCounts ==
    ASSUME NEW t \in TableStates, Counted(t)
    PROVE  LET r == vfs_open(t)
           IN  r.t \in TableStates /\ Counted(r.t) /\ Opens(t, r)
  <1> DEFINE r == vfs_open(t)
             free == Handles \ t.handles  f == Least(FreeFds(t))  h == Least(free)
             t2 == [t EXCEPT !.fds[f] = [type |-> "file", index |-> h],
                             !.handles = @ \union {h}]
  <1>1. CASE FreeFds(t) = {} \/ free = {}
    <2>1. r = [t |-> t, fd |-> Nothing]
      BY <1>1 DEF vfs_open
    <2> QED BY <2>1 DEF Opens
  <1>2. CASE ~(FreeFds(t) = {} \/ free = {})
    <2>1. r = [t |-> t2, fd |-> f]
      BY <1>2 DEF vfs_open
    <2>2. f \in Fds /\ t.fds[f].type = "free"
      <3>1. FreeFds(t) \in SUBSET Nat
        BY Numbers DEF FreeFds
      <3>2. f \in FreeFds(t)
        BY <1>2, <3>1, LeastExists
      <3> QED BY <3>2 DEF FreeFds
    <2>3. h \in Handles /\ h \notin t.handles
      <3>1. free \in SUBSET Nat
        BY Numbers
      <3>2. h \in free
        BY <1>2, <3>1, LeastExists
      <3> QED BY <3>2
    <2> HIDE DEF f, h
    <2> DEFINE m == Means("file", h)
    <2>4. t.fds[f] = FreeFd /\ t.fds \in [Fds -> Meanings] /\ m \in Meanings /\ m # FreeFd
      <3>1. t.fds[f] \in Meanings /\ t.fds \in [Fds -> Meanings]
        BY <2>2 DEF TableStates
      <3> QED BY <2>2, <2>3, <3>1, MeaningFacts
    <2>5. /\ t2.fds = [t.fds EXCEPT ![f] = m] /\ t2.pipes = t.pipes
          /\ t2.handles = t.handles \union {h}
      BY DEF TableStates, Means
    <2>6. t2 \in TableStates
      BY <2>2, <2>3, <2>4 DEF TableStates, Means
    <2>7. \A x : Cardinality(Points(t2.fds, x))
                   = Cardinality(Points(t.fds, x)) - Hit(FreeFd, x) + Hit(m, x)
      <3>1. t2.fds = Given(t.fds, f, m)
        BY <2>5 DEF Given
      <3> HIDE DEF t2, m
      <3> QED BY <2>2, <2>4, <3>1, Recounts
    <2>8. /\ \A p \in Pipes : \A type \in PipeTypes :
                Cardinality(Points(t2.fds, Means(type, p)))
                  = Cardinality(Points(t.fds, Means(type, p)))
          /\ \A g \in Handles \ {h} :
                Cardinality(Points(t2.fds, Means("file", g)))
                  = Cardinality(Points(t.fds, Means("file", g)))
          /\ Cardinality(Points(t2.fds, m)) = Cardinality(Points(t.fds, m)) + 1
      <3>1. \A x : Cardinality(Points(t.fds, x)) \in Nat
        BY SomePoint
      <3>2. \A x : x # FreeFd => Hit(FreeFd, x) = 0
        BY DEF Hit
      <3>3. \A x : Hit(m, x) = IF m = x THEN 1 ELSE 0
        BY DEF Hit
      <3>4. /\ \A p \in Pipes : \A type \in PipeTypes :
                  Means(type, p) # FreeFd /\ Means(type, p) # m
            /\ \A g \in Handles : Means("file", g) # FreeFd /\ (Means("file", g) = m <=> g = h)
        BY MeaningFacts DEF Means, FreeFd, PipeTypes
      <3> HIDE DEF m, t2
      <3> QED BY <2>3, <2>7, <3>1, <3>2, <3>3, <3>4
    <2>9. Counted(t2)
      <3> HIDE DEF t2
      <3> QED BY <2>3, <2>5, <2>8 DEF Counted, PipeTypes
    <2>10. Opens(t, r)
      <3>1. r.t = t2 /\ r.fd = f
        BY <2>1
      <3> HIDE DEF r, t2
      <3> QED BY <2>2, <2>3, <2>4, <2>5, <3>1 DEF Opens
    <2> QED BY <2>1, <2>6, <2>9, <2>10
  <1> QED BY <1>1, <1>2
LEMMA ReadEndCloses ==
    ASSUME NEW q \in PipeStates
    PROVE  /\ pipe_close_read(q) \in PipeStates
           /\ pipe_close_read(q).read_open = q.read_open - 1
           /\ pipe_close_read(q).write_open = q.write_open
           /\ pipe_close_read(q).used <=> q.read_open > 1 \/ q.write_open > 0
  <1>1. ASSUME NEW u \in BOOLEAN, NEW n \in Int
        PROVE  LET r == [q EXCEPT !.read_open = n, !.used = u]
               IN  r \in PipeStates /\ r.used = u /\ r.read_open = n /\ r.write_open = q.write_open
    BY DEF PipeStates
  <1>2. PICK u \in BOOLEAN : u = (q.read_open > 1 \/ q.write_open > 0)
    OBVIOUS
  <1>3. PICK n \in Int : n = q.read_open - 1
    BY DEF PipeStates
  <1>4. pipe_close_read(q) = [q EXCEPT !.read_open = n, !.used = u]
    BY <1>2, <1>3, Zenon DEF pipe_close_read
  <1>5. LET r == [q EXCEPT !.read_open = n, !.used = u]
        IN  r \in PipeStates /\ r.used = u /\ r.read_open = n /\ r.write_open = q.write_open
    BY <1>1, Zenon
  <1>6. /\ pipe_close_read(q) \in PipeStates
        /\ pipe_close_read(q).used = u
        /\ pipe_close_read(q).read_open = n
        /\ pipe_close_read(q).write_open = q.write_open
    BY <1>4, <1>5, Zenon
  <1> QED BY <1>2, <1>3, <1>6

LEMMA WriteEndCloses ==
    ASSUME NEW q \in PipeStates
    PROVE  /\ pipe_close_write(q) \in PipeStates
           /\ pipe_close_write(q).write_open = q.write_open - 1
           /\ pipe_close_write(q).read_open = q.read_open
           /\ pipe_close_write(q).used <=> q.write_open > 1 \/ q.read_open > 0
  <1>1. ASSUME NEW u \in BOOLEAN, NEW n \in Int
        PROVE  LET r == [q EXCEPT !.write_open = n, !.used = u]
               IN  r \in PipeStates /\ r.used = u /\ r.write_open = n /\ r.read_open = q.read_open
    BY DEF PipeStates
  <1>2. PICK u \in BOOLEAN : u = (q.write_open > 1 \/ q.read_open > 0)
    OBVIOUS
  <1>3. PICK n \in Int : n = q.write_open - 1
    BY DEF PipeStates
  <1>4. pipe_close_write(q) = [q EXCEPT !.write_open = n, !.used = u]
    BY <1>2, <1>3, Zenon DEF pipe_close_write
  <1>5. LET r == [q EXCEPT !.write_open = n, !.used = u]
        IN  r \in PipeStates /\ r.used = u /\ r.write_open = n /\ r.read_open = q.read_open
    BY <1>1, Zenon
  <1>6. /\ pipe_close_write(q) \in PipeStates
        /\ pipe_close_write(q).used = u
        /\ pipe_close_write(q).write_open = n
        /\ pipe_close_write(q).read_open = q.read_open
    BY <1>4, <1>5, Zenon
  <1> QED BY <1>2, <1>3, <1>6

LEMMA CloseCounts ==
    ASSUME NEW t \in TableStates, Counted(t), NEW f \in Fds
    PROVE  /\ vfs_close(t, f) \in TableStates
           /\ Counted(vfs_close(t, f))
           /\ vfs_close(t, f).fds = [t.fds EXCEPT ![f] = FreeFd]
  <1> DEFINE t2 == vfs_close(t, f)  e == t.fds[f]
             fds2 == [t.fds EXCEPT ![f] = FreeFd]
  <1>1. t.fds \in [Fds -> Meanings] /\ e \in Meanings /\ t.pipes \in [Pipes -> PipeStates]
    BY DEF TableStates
  <1>2. /\ fds2 \in [Fds -> Meanings]
        /\ \A x : Cardinality(Points(fds2, x))
                    = Cardinality(Points(t.fds, x)) - Hit(e, x) + Hit(FreeFd, x)
    <2>1. FreeFd \in Meanings
      BY MeaningFacts
    <2>2. fds2 = Given(t.fds, f, FreeFd)
      BY DEF Given
    <2> HIDE DEF fds2
    <2> QED BY <1>1, <2>1, <2>2, Recounts
  <1>3. /\ \A x : Cardinality(Points(t.fds, x)) \in Nat
        /\ \A x : Hit(e, x) = IF e = x THEN 1 ELSE 0
        /\ \A x : x # FreeFd => Hit(FreeFd, x) = 0
    BY SomePoint DEF Hit
  <1>4. \A type, i : type # "free" => Means(type, i) # FreeFd
    BY DEF Means, FreeFd
  <1>5. \A type, i : type # "free" =>
           Cardinality(Points(fds2, Means(type, i)))
             = Cardinality(Points(t.fds, Means(type, i))) - (IF e = Means(type, i) THEN 1 ELSE 0)
    <2> HIDE DEF e, fds2
    <2> QED BY <1>2, <1>3, <1>4
  <1> HIDE DEF fds2, e
  <1>6. CASE e.type = "free"
    <2>1. t2 = t /\ fds2 = t.fds
      BY <1>1, <1>6, MeaningFacts DEF vfs_close, e, fds2
    <2> QED BY <2>1 DEF fds2
  <1>7. CASE e.type = "file"
    <2> DEFINE h == e.index
    <2>1. h \in Handles /\ e = Means("file", h)
      BY <1>1, <1>7, MeaningFacts
    <2>2. t2 = [[t EXCEPT !.fds[f] = FreeFd] EXCEPT !.handles = @ \ {h}]
      BY <1>7 DEF vfs_close, e
    <2>3. t2.fds = fds2 /\ t2.pipes = t.pipes /\ t2.handles = t.handles \ {h}
      BY <2>2 DEF TableStates, fds2
    <2>4. t2 \in TableStates
      BY <1>2, <2>2 DEF TableStates, fds2
    <2>5. Counted(t2)
      <3>1. \A type, i : e = Means(type, i) <=> type = "file" /\ i = h
        BY <2>1, MeaningFacts
      <3> HIDE DEF t2, h
      <3>2. \A p \in Pipes : \A type \in PipeTypes :
                Cardinality(Points(fds2, Means(type, p)))
                  = Cardinality(Points(t.fds, Means(type, p)))
        BY <1>3, <1>5, <3>1 DEF PipeTypes
      <3>3. \A g \in Handles : Cardinality(Points(fds2, Means("file", g)))
                = Cardinality(Points(t.fds, Means("file", g))) - (IF g = h THEN 1 ELSE 0)
        BY <1>3, <1>5, <3>1
      <3>4. /\ Cardinality(Points(fds2, Means("file", h))) \in Nat
            /\ Cardinality(Points(fds2, Means("file", h)))
                 = Cardinality(Points(t.fds, Means("file", h))) - 1
        BY <2>1, <3>3, SomePoint
      <3> QED BY <1>3, <2>1, <2>3, <3>2, <3>3, <3>4 DEF Counted, PipeTypes
    <2> QED BY <2>3, <2>4, <2>5 DEF fds2
  <1>8. ASSUME e.type \in PipeTypes
        PROVE  t2 \in TableStates /\ Counted(t2) /\ t2.fds = fds2
    <2> DEFINE p == e.index
    <2>1. p \in Pipes /\ e = Means(e.type, p)
      BY <1>1, <1>8, MeaningFacts DEF PipeTypes
    <2> DEFINE q == t.pipes[p]
               q2 == IF e.type = "pipe_r" THEN pipe_close_read(q) ELSE pipe_close_write(q)
    <2>2. t2 = [[t EXCEPT !.fds[f] = FreeFd] EXCEPT !.pipes[p] = q2]
      BY <1>8 DEF vfs_close, e, PipeTypes
    <2>3. /\ q2 \in PipeStates
          /\ q2.read_open = q.read_open - (IF e.type = "pipe_r" THEN 1 ELSE 0)
          /\ q2.write_open = q.write_open - (IF e.type = "pipe_w" THEN 1 ELSE 0)
          /\ q2.used <=> \/ q2.read_open > 0 /\ e.type = "pipe_r"
                         \/ q2.write_open > 0 /\ e.type = "pipe_w"
                         \/ q.read_open > 0 /\ e.type = "pipe_w"
                         \/ q.write_open > 0 /\ e.type = "pipe_r"
      <3>1. q \in PipeStates
        BY <1>1, <2>1
      <3> HIDE DEF q
      <3>2. CASE e.type = "pipe_r"
        <4>1. /\ q2 \in PipeStates /\ q2.read_open = q.read_open - 1
              /\ q2.write_open = q.write_open
              /\ q2.used <=> q.read_open > 1 \/ q.write_open > 0
          BY <3>1, <3>2, ReadEndCloses
        <4>2. q.read_open \in Int /\ q.write_open \in Int
          BY <3>1 DEF PipeStates
        <4> HIDE DEF q2
        <4> QED BY <3>2, <4>1, <4>2
      <3>3. CASE e.type = "pipe_w"
        <4>1. /\ q2 \in PipeStates /\ q2.write_open = q.write_open - 1
              /\ q2.read_open = q.read_open
              /\ q2.used <=> q.write_open > 1 \/ q.read_open > 0
          BY <3>1, <3>3, WriteEndCloses
        <4>2. q.read_open \in Int /\ q.write_open \in Int
          BY <3>1 DEF PipeStates
        <4> HIDE DEF q2
        <4> QED BY <3>3, <4>1, <4>2
      <3> QED BY <1>8, <3>2, <3>3 DEF PipeTypes
    <2> HIDE DEF p, q2
    <2>4. t2.fds = fds2 /\ t2.pipes = [t.pipes EXCEPT ![p] = q2] /\ t2.handles = t.handles
      BY <2>2 DEF TableStates, fds2
    <2>5. t2 \in TableStates
      <3>1. [t.pipes EXCEPT ![p] = q2] \in [Pipes -> PipeStates]
        BY <1>1, <2>1, <2>3
      <3> QED BY <1>2, <2>2, <3>1 DEF TableStates, fds2
    <2>6. Counted(t2)
      <3> HIDE DEF t2
      <3>1. \A type, i : e = Means(type, i) <=> type = e.type /\ i = p
        BY <2>1, MeaningFacts
      <3>2. /\ \A x \in Pipes : \A type \in PipeTypes :
                  Cardinality(Points(fds2, Means(type, x)))
                    = Cardinality(Points(t.fds, Means(type, x)))
                        - (IF type = e.type /\ x = p THEN 1 ELSE 0)
            /\ \A h \in Handles : Cardinality(Points(fds2, Means("file", h)))
                    = Cardinality(Points(t.fds, Means("file", h)))
            /\ \A x : Cardinality(Points(fds2, x)) \in Nat
        BY <1>3, <1>5, <1>8, <3>1, SomePoint DEF PipeTypes
      <3>3. /\ q2.read_open = Cardinality(Points(fds2, Means("pipe_r", p)))
            /\ q2.write_open = Cardinality(Points(fds2, Means("pipe_w", p)))
            /\ q2.used <=> q2.read_open + q2.write_open > 0
        <4>1. /\ q.read_open = Cardinality(Points(t.fds, Means("pipe_r", p)))
              /\ q.write_open = Cardinality(Points(t.fds, Means("pipe_w", p)))
          BY <2>1 DEF Counted
        <4>2. /\ q2.read_open = Cardinality(Points(fds2, Means("pipe_r", p)))
              /\ q2.write_open = Cardinality(Points(fds2, Means("pipe_w", p)))
          BY <1>3, <1>8, <2>1, <2>3, <3>2, <4>1 DEF PipeTypes
        <4>3. /\ q2.read_open \in Nat /\ q2.write_open \in Nat
              /\ e.type = "pipe_w" => q2.read_open = q.read_open
              /\ e.type = "pipe_r" => q2.write_open = q.write_open
          <5>1. q.read_open \in Int /\ q.write_open \in Int
            BY <1>1, <2>1 DEF PipeStates
          <5> HIDE DEF q
          <5> QED BY <2>3, <3>2, <4>2, <5>1
        <4>4. q2.used <=> q2.read_open > 0 \/ q2.write_open > 0
          BY <1>8, <2>3, <4>3 DEF PipeTypes
        <4>5. \A m, n \in Nat : m > 0 \/ n > 0 <=> m + n > 0
          OBVIOUS
        <4> QED BY <4>2, <4>3, <4>4, <4>5
      <3>4. \A x \in Pipes : t2.pipes[x] = IF x = p THEN q2 ELSE t.pipes[x]
        BY <1>1, <2>1, <2>4
      <3>5. \A x \in Pipes \ {p} :
               /\ t2.pipes[x].read_open = Cardinality(Points(fds2, Means("pipe_r", x)))
               /\ t2.pipes[x].write_open = Cardinality(Points(fds2, Means("pipe_w", x)))
               /\ t2.pipes[x].used <=> t2.pipes[x].read_open + t2.pipes[x].write_open > 0
        BY <1>3, <3>2, <3>4 DEF Counted, PipeTypes
      <3> QED BY <2>4, <3>2, <3>3, <3>4, <3>5 DEF Counted
    <2> QED BY <2>4, <2>5, <2>6
  <1>9. e.type \in {"free", "file"} \union PipeTypes
    BY <1>1, MeaningFacts DEF PipeTypes
  <1> QED BY <1>6, <1>7, <1>8, <1>9 DEF fds2
MakesPipe(t, r) ==
    \/ r.r = Nothing /\ r.t = t
    \/ /\ r.r \in Fds /\ r.w \in Fds /\ r.r # r.w
       /\ t.fds[r.r] = FreeFd /\ t.fds[r.w] = FreeFd
       /\ \E p \in Pipes :
             /\ ~t.pipes[p].used
             /\ r.t.fds = [[t.fds EXCEPT ![r.r] = Means("pipe_r", p)]
                              EXCEPT ![r.w] = Means("pipe_w", p)]
LEMMA PipeCounts ==
    ASSUME NEW t \in TableStates, Counted(t)
    PROVE  LET r == vfs_pipe(t)
           IN  r.t \in TableStates /\ Counted(r.t) /\ MakesPipe(t, r)
  <1> DEFINE made == vfs_pipe(t)
             free == {p \in Pipes : ~t.pipes[p].used}
             p == Least(free)  r == Least(FreeFds(t))  w == Least(FreeFds(t) \ {r})
             new == [used |-> TRUE, read_open |-> 1, write_open |-> 1, level |-> 0]
             t2 == [t EXCEPT !.pipes[p] = new,
                             !.fds[r] = [type |-> "pipe_r", index |-> p],
                             !.fds[w] = [type |-> "pipe_w", index |-> p]]
  <1>1. CASE free = {} \/ Cardinality(FreeFds(t)) < 2
    <2>1. made = [t |-> t, r |-> Nothing, w |-> Nothing]
      BY <1>1 DEF vfs_pipe
    <2> QED BY <2>1 DEF MakesPipe
  <1>2. CASE ~(free = {} \/ Cardinality(FreeFds(t)) < 2)
    <2>1. made = [t |-> t2, r |-> r, w |-> w]
      BY <1>2 DEF vfs_pipe
    <2>2. p \in Pipes /\ ~t.pipes[p].used
      <3>1. free \in SUBSET Nat
        BY Numbers
      <3>2. p \in free
        BY <1>2, <3>1, LeastExists
      <3> QED BY <3>2
    <2>3. /\ r \in Fds /\ t.fds[r].type = "free"
          /\ w \in Fds /\ t.fds[w].type = "free" /\ w # r
      <3>1. FreeFds(t) \in SUBSET Fds /\ IsFiniteSet(FreeFds(t))
        <4>1. FreeFds(t) \in SUBSET Fds
          BY DEF FreeFds
        <4> QED BY <4>1, Numbers, FS_Subset
      <3>2. Cardinality(FreeFds(t)) \in Nat /\ ~(Cardinality(FreeFds(t)) < 2)
        BY <1>2, <3>1, FS_CardinalityType
      <3>3. FreeFds(t) # {}
        BY <3>2, FS_EmptySet
      <3>4. r \in FreeFds(t)
        BY <3>1, <3>3, Numbers, LeastExists
      <3> HIDE DEF r
      <3>5. FreeFds(t) # {r}
        <4>1. Cardinality({r}) = 1
          BY FS_Singleton
        <4> QED BY <3>2, <4>1
      <3>6. FreeFds(t) \ {r} # {} /\ FreeFds(t) \ {r} \in SUBSET Nat
        BY <3>1, <3>4, <3>5, Numbers
      <3>7. w \in FreeFds(t) \ {r}
        BY <3>6, LeastExists
      <3> QED BY <3>4, <3>7 DEF FreeFds
    <2> HIDE DEF p, r, w
    <2> DEFINE a == Means("pipe_r", p)  b == Means("pipe_w", p)
               fds1 == [t.fds EXCEPT ![r] = a]
               fds2 == [fds1 EXCEPT ![w] = b]
    <2>4. /\ t.fds \in [Fds -> Meanings] /\ t.fds[r] = FreeFd /\ t.fds[w] = FreeFd
          /\ a \in Meanings /\ b \in Meanings
          /\ t.pipes \in [Pipes -> PipeStates]
      <3>1. /\ t.fds \in [Fds -> Meanings] /\ t.pipes \in [Pipes -> PipeStates]
            /\ t.fds[r] \in Meanings /\ t.fds[w] \in Meanings
        BY <2>3 DEF TableStates
      <3> QED BY <2>2, <2>3, <3>1, MeaningFacts
    <2>5. /\ fds1 \in [Fds -> Meanings] /\ fds1[w] = FreeFd
          /\ \A x : Cardinality(Points(fds1, x))
                      = Cardinality(Points(t.fds, x)) - Hit(FreeFd, x) + Hit(a, x)
      <3>1. fds1 \in [Fds -> Meanings] /\ fds1[w] = FreeFd
        BY <2>3, <2>4
      <3>2. fds1 = Given(t.fds, r, a)
        BY DEF Given
      <3>3. r \in Fds /\ t.fds \in [Fds -> Meanings] /\ t.fds[r] = FreeFd /\ a \in Meanings
        BY <2>3, <2>4
      <3> HIDE DEF a, b, fds1, fds2
      <3>4. \A x : Cardinality(Points(fds1, x))
                    = Cardinality(Points(t.fds, x)) - Hit(t.fds[r], x) + Hit(a, x)
        BY <3>2, <3>3, Recounts
      <3> QED BY <3>1, <3>3, <3>4
    <2>6. /\ fds2 \in [Fds -> Meanings]
          /\ \A x : Cardinality(Points(fds2, x))
                      = Cardinality(Points(fds1, x)) - Hit(FreeFd, x) + Hit(b, x)
      <3>1. fds1 \in [Fds -> Meanings] /\ fds1[w] = FreeFd /\ w \in Fds /\ b \in Meanings
        BY <2>3, <2>4, <2>5
      <3>2. fds2 = Given(fds1, w, b)
        BY DEF Given
      <3> HIDE DEF fds1, fds2, b
      <3> QED BY <3>1, <3>2, Recounts
    <2>7. t2.fds = fds2 /\ t2.pipes = [t.pipes EXCEPT ![p] = new] /\ t2.handles = t.handles
      BY DEF TableStates, Means
    <2>8. t2 \in TableStates
      <3>1. new \in PipeStates
        BY PipelineAssumption DEF PipeStates
      <3>2. [t.pipes EXCEPT ![p] = new] \in [Pipes -> PipeStates]
        BY <2>2, <2>4, <3>1
      <3>3. t2 = [t EXCEPT !.pipes = [t.pipes EXCEPT ![p] = new], !.fds = fds2]
        BY <2>3 DEF TableStates, Means
      <3> HIDE DEF t2, fds2, new
      <3> QED BY <2>6, <3>2, <3>3 DEF TableStates
    <2>9. /\ \A x : x # FreeFd /\ x # a /\ x # b =>
                Cardinality(Points(fds2, x)) = Cardinality(Points(t.fds, x))
          /\ Cardinality(Points(fds2, a)) = Cardinality(Points(t.fds, a)) + 1
          /\ Cardinality(Points(fds2, b)) = Cardinality(Points(t.fds, b)) + 1
      <3>1. /\ \A x : Cardinality(Points(t.fds, x)) \in Nat
            /\ \A x : x # FreeFd => Hit(FreeFd, x) = 0
            /\ \A x : Hit(a, x) = IF a = x THEN 1 ELSE 0
            /\ \A x : Hit(b, x) = IF b = x THEN 1 ELSE 0
        BY SomePoint DEF Hit
      <3>2. a # b /\ a # FreeFd /\ b # FreeFd
        BY MeaningFacts DEF Means, FreeFd
      <3> HIDE DEF a, b, fds1, fds2
      <3> QED BY <2>5, <2>6, <3>1, <3>2
    <2>10. Counted(t2)
      <3>1. \A x \in Pipes : t2.pipes[x] = IF x = p THEN new ELSE t.pipes[x]
        BY <2>2, <2>4, <2>7
      <3>2. /\ Means("pipe_r", p) = a /\ Means("pipe_w", p) = b
            /\ \A x \in Pipes \ {p} : \A type \in PipeTypes :
                  Means(type, x) # FreeFd /\ Means(type, x) # a /\ Means(type, x) # b
            /\ \A h \in Handles :
                  /\ Means("file", h) # FreeFd
                  /\ Means("file", h) # a /\ Means("file", h) # b
        BY MeaningFacts DEF PipeTypes, FreeFd, Means
      <3>3. Cardinality(Points(t.fds, a)) = 0 /\ Cardinality(Points(t.fds, b)) = 0
        <4>1. /\ t.pipes[p].read_open = Cardinality(Points(t.fds, a))
              /\ t.pipes[p].write_open = Cardinality(Points(t.fds, b))
              /\ ~(t.pipes[p].read_open + t.pipes[p].write_open > 0)
          BY <2>2 DEF Counted
        <4>2. \A m, n \in Nat : ~(m + n > 0) => m = 0 /\ n = 0
          OBVIOUS
        <4>3. Cardinality(Points(t.fds, a)) \in Nat /\ Cardinality(Points(t.fds, b)) \in Nat
          BY SomePoint
        <4> QED BY <4>1, <4>2, <4>3
      <3>4. Cardinality(Points(fds2, a)) = 1 /\ Cardinality(Points(fds2, b)) = 1
        BY <2>9, <3>3
      <3>5. new.read_open = 1 /\ new.write_open = 1 /\ new.used
        OBVIOUS
      <3>6. /\ t2.pipes[p].read_open = Cardinality(Points(t2.fds, Means("pipe_r", p)))
            /\ t2.pipes[p].write_open = Cardinality(Points(t2.fds, Means("pipe_w", p)))
            /\ t2.pipes[p].used <=> t2.pipes[p].read_open + t2.pipes[p].write_open > 0
        <4> HIDE DEF t2, a, b, fds2, new
        <4> QED BY <2>2, <2>7, <3>1, <3>2, <3>4, <3>5
      <3>7. \A x \in Pipes \ {p} :
               /\ t2.pipes[x].read_open = Cardinality(Points(t2.fds, Means("pipe_r", x)))
               /\ t2.pipes[x].write_open = Cardinality(Points(t2.fds, Means("pipe_w", x)))
               /\ t2.pipes[x].used <=> t2.pipes[x].read_open + t2.pipes[x].write_open > 0
        <4> HIDE DEF t2, a, b, fds2, new
        <4> QED BY <2>7, <2>9, <3>1, <3>2 DEF Counted, PipeTypes
      <3>8. \A h \in Handles :
               Cardinality(Points(t2.fds, Means("file", h))) = IF h \in t2.handles THEN 1 ELSE 0
        <4> HIDE DEF t2, a, b, fds2, new
        <4> QED BY <2>7, <2>9, <3>2 DEF Counted
      <3> HIDE DEF t2
      <3> QED BY <3>6, <3>7, <3>8 DEF Counted
    <2>11. MakesPipe(t, made)
      <3>1. made.t = t2 /\ made.r = r /\ made.w = w
        BY <2>1
      <3> HIDE DEF made, t2
      <3> QED BY <2>2, <2>3, <2>4, <2>7, <3>1 DEF MakesPipe
    <2> QED BY <2>1, <2>8, <2>10, <2>11
  <1> QED BY <1>1, <1>2
-----------------------------------------------------------------------------
(* What the shell does with its variables.                                 *)

LEMMA Halves ==
    \A n \in Nat : \A i \in 1 .. 2 * n :
        \/ /\ i % 2 = 1 /\ (i + 1) \div 2 \in 1 .. n /\ i = 2 * ((i + 1) \div 2) - 1
        \/ /\ i % 2 # 1 /\ i \div 2 \in 1 .. n /\ i = 2 * (i \div 2)
  OBVIOUS

LEMMA OddAndEven ==
    \A n \in Nat : \A j \in 1 .. n :
        /\ 2 * j - 1 \in 1 .. 2 * n /\ (2 * j - 1) % 2 = 1 /\ ((2 * j - 1) + 1) \div 2 = j
        /\ 2 * j \in 1 .. 2 * n /\ (2 * j) % 2 # 1 /\ (2 * j) \div 2 = j
  OBVIOUS

LEMMA EndsTogether ==
    ASSUME NEW sh \in ShellStates, Len(sh.pipe_r) = Len(sh.pipe_w)
    PROVE  /\ BothEnds(sh) \in Seq(MaybeFd)
           /\ Among(BothEnds(sh)) = Among(sh.pipe_r) \union Among(sh.pipe_w)
           /\ OnceEach(sh.pipe_r) /\ OnceEach(sh.pipe_w)
                /\ Among(sh.pipe_r) \intersect Among(sh.pipe_w) = {} => OnceEach(BothEnds(sh))
  <1> DEFINE r == sh.pipe_r  w == sh.pipe_w  n == Len(sh.pipe_r)  b == BothEnds(sh)
  <1>1. /\ r \in Seq(MaybeFd) /\ w \in Seq(MaybeFd) /\ n \in Nat
        /\ DOMAIN r = 1 .. n /\ DOMAIN w = 1 .. n
        /\ \A j \in 1 .. n : r[j] \in MaybeFd /\ w[j] \in MaybeFd
    BY DEF ShellStates
  <1>2. b = [i \in 1 .. 2 * n |-> IF i % 2 = 1 THEN r[(i + 1) \div 2] ELSE w[i \div 2]]
    BY DEF BothEnds
  <1> HIDE DEF r, w, n, b
  <1>3. DOMAIN b = 1 .. 2 * n
    BY <1>2
  <1>4. \A j \in 1 .. n : b[2 * j - 1] = r[j] /\ b[2 * j] = w[j]
    BY <1>1, <1>2, OddAndEven
  <1>5. \A i \in 1 .. 2 * n : \E j \in 1 .. n :
            \/ i = 2 * j - 1 /\ b[i] = r[j]
            \/ i = 2 * j /\ b[i] = w[j]
    BY <1>1, <1>4, Halves
  <1>6. b \in Seq(MaybeFd)
    <2>1. \A i \in 1 .. 2 * n : b[i] \in MaybeFd
      BY <1>1, <1>5
    <2>2. b = [i \in 1 .. 2 * n |-> b[i]] /\ 2 * n \in Nat
      BY <1>1, <1>2
    <2> QED BY <2>1, <2>2
  <1>7. Among(b) = Among(r) \union Among(w)
    <2>1. \A j \in 1 .. n : 2 * j - 1 \in 1 .. 2 * n /\ 2 * j \in 1 .. 2 * n
      BY <1>1
    <2>2. ASSUME NEW f \in Among(b) PROVE f \in Among(r) \union Among(w)
      <3>1. PICK i \in 1 .. 2 * n : b[i] = f /\ f # Nothing
        BY <1>3, <2>2 DEF Among
      <3>2. PICK j \in 1 .. n : b[i] = r[j] \/ b[i] = w[j]
        BY <1>5
      <3> QED BY <1>1, <3>1, <3>2 DEF Among
    <2>3. ASSUME NEW f \in Among(r) \union Among(w) PROVE f \in Among(b)
      <3>1. PICK j \in 1 .. n : f # Nothing /\ (r[j] = f \/ w[j] = f)
        BY <1>1, <2>3 DEF Among
      <3>2. \E i \in 1 .. 2 * n : b[i] = f
        BY <1>4, <2>1, <3>1
      <3> QED BY <1>3, <3>1, <3>2 DEF Among
    <2> QED BY <2>2, <2>3
  <1>8. ASSUME OnceEach(r), OnceEach(w), Among(r) \intersect Among(w) = {}
        PROVE  OnceEach(b)
    <2> SUFFICES ASSUME NEW i \in 1 .. 2 * n, NEW j \in 1 .. 2 * n,
                        b[i] = b[j], b[i] # Nothing
                 PROVE  i = j
      BY <1>3 DEF OnceEach
    <2>1. PICK x \in 1 .. n : \/ i = 2 * x - 1 /\ b[i] = r[x]
                              \/ i = 2 * x /\ b[i] = w[x]
      BY <1>5
    <2>2. PICK y \in 1 .. n : \/ j = 2 * y - 1 /\ b[j] = r[y]
                              \/ j = 2 * y /\ b[j] = w[y]
      BY <1>5
    <2>3. b[i] = r[x] => b[i] \in Among(r)
      BY <1>1 DEF Among
    <2>4. b[i] = w[x] => b[i] \in Among(w)
      BY <1>1 DEF Among
    <2>5. b[j] = r[y] => b[j] \in Among(r)
      BY <1>1 DEF Among
    <2>6. b[j] = w[y] => b[j] \in Among(w)
      BY <1>1 DEF Among
    <2>7. r[x] = r[y] /\ r[x] # Nothing => x = y
      BY <1>1, <1>8 DEF OnceEach
    <2>8. w[x] = w[y] /\ w[x] # Nothing => x = y
      BY <1>1, <1>8 DEF OnceEach
    <2>9. ~(b[i] \in Among(r) /\ b[i] \in Among(w))
      BY <1>8
    <2> QED BY <2>1, <2>2, <2>3, <2>4, <2>5, <2>6, <2>7, <2>8, <2>9
  <1> QED BY <1>6, <1>7, <1>8 DEF b, r, w
LEMMA ClosingIs ==
    ASSUME NEW sh \in ShellStates, NEW fds \in Seq(MaybeFd),
           NEW next \in {"prompt", "stage_done", "cleanup"}
    PROVE  LET c == Closing(sh, fds, next)
           IN  /\ c \in ShellStates
               /\ c.pc = "close" /\ c.todo = fds /\ c.next = next
               /\ c.line = sh.line /\ c.s = sh.s /\ c.pipe_r = sh.pipe_r
               /\ c.pipe_w = sh.pipe_w /\ c.redirs = sh.redirs /\ c.pids = sh.pids
  BY DEF Closing, ShellStates

LEMMA CleanupIs ==
    ASSUME NEW sh \in ShellStates, Len(sh.pipe_r) = Len(sh.pipe_w)
    PROVE  LET c == Cleanup(sh)
           IN  /\ c \in ShellStates
               /\ c.pc = "close" /\ c.next = "prompt" /\ c.line = sh.line /\ c.s = sh.s
               /\ c.pipe_r = sh.pipe_r /\ c.pipe_w = sh.pipe_w
               /\ c.todo \in Seq(MaybeFd)
               /\ Among(c.todo) = Among(sh.pipe_r) \union Among(sh.pipe_w)
               /\ OnceEach(sh.pipe_r) /\ OnceEach(sh.pipe_w)
                    /\ Among(sh.pipe_r) \intersect Among(sh.pipe_w) = {} => OnceEach(c.todo)
  <1>1. BothEnds(sh) \in Seq(MaybeFd)
    BY EndsTogether
  <1>2. /\ Cleanup(sh) \in ShellStates
        /\ Cleanup(sh).pc = "close" /\ Cleanup(sh).next = "prompt"
        /\ Cleanup(sh).todo = BothEnds(sh)
        /\ Cleanup(sh).line = sh.line /\ Cleanup(sh).s = sh.s
        /\ Cleanup(sh).pipe_r = sh.pipe_r /\ Cleanup(sh).pipe_w = sh.pipe_w
    BY <1>1, ClosingIs DEF Cleanup
  <1> QED BY <1>1, <1>2, EndsTogether

LEMMA CleanupProgress ==
    ASSUME NEW sh \in ShellStates, sh.s \in 1 .. StagesOf(sh),
           Len(sh.pipe_r) + 1 = StagesOf(sh), Len(sh.pipe_w) + 1 = StagesOf(sh)
    PROVE  Cleanup(sh) \in ShellStates /\ Progress(Cleanup(sh))
  <1>1. Len(sh.pipe_r) = Len(sh.pipe_w)
    <2>1. Len(sh.pipe_r) \in Nat /\ Len(sh.pipe_w) \in Nat
      BY DEF ShellStates
    <2> QED BY <2>1
  <1> QED BY <1>1, CleanupIs DEF Progress, StagesOf

(* The beginning of a stage, its end, and the end of the line.             *)
LEMMA StageDoneIs ==
    ASSUME NEW sh \in ShellStates, sh.line = shell.line, sh.s \in 1 .. StagesOf(sh),
           Len(sh.pipe_r) + 1 = StagesOf(sh), Len(sh.pipe_w) + 1 = StagesOf(sh),
           Len(sh.pids) = sh.s
    PROVE  LET d == StageDone(sh)
           IN  /\ d \in ShellStates /\ Progress(d)
               /\ \/ d = Cleanup(sh)
                  \/ /\ d.pc \in {"stage", "wait"}
                     /\ d.pipe_r = sh.pipe_r /\ d.pipe_w = sh.pipe_w
                     /\ d.redirs = sh.redirs /\ d.pids = sh.pids
                     /\ d.pc = "wait" => d.s = 1
  <1>1. Stages = StagesOf(sh) /\ sh.s \in Nat /\ Stages \in Nat
    BY DEF Stages, StagesOf, ShellStates
  <1>2. CASE sh.s < Stages
    <2> DEFINE d == [sh EXCEPT !.pc = "stage", !.s = sh.s + 1]
    <2>1. StageDone(sh) = d
      BY <1>2 DEF StageDone
    <2>2. /\ d \in ShellStates /\ d.pc = "stage" /\ d.s = sh.s + 1
          /\ d.pipe_r = sh.pipe_r /\ d.pipe_w = sh.pipe_w /\ d.line = sh.line
          /\ d.redirs = sh.redirs /\ d.pids = sh.pids
      <3>1. PICK n \in Nat : n = sh.s + 1
        BY <1>1
      <3>2. d = [sh EXCEPT !.pc = "stage", !.s = n]
        BY <3>1
      <3> HIDE DEF d
      <3> QED BY <3>1, <3>2 DEF ShellStates
    <2> HIDE DEF d
    <2>3. Progress(d)
      BY <1>1, <1>2, <2>2 DEF Progress, StagesOf
    <2> QED BY <2>1, <2>2, <2>3
  <1>3. CASE ~(sh.s < Stages) /\ sh.line.bg
    <2>1. StageDone(sh) = Cleanup(sh)
      BY <1>3 DEF StageDone
    <2> QED BY <2>1, CleanupProgress
  <1>4. CASE ~(sh.s < Stages) /\ ~sh.line.bg
    <2> DEFINE d == [sh EXCEPT !.pc = "wait", !.s = 1]
    <2>1. StageDone(sh) = d
      BY <1>4 DEF StageDone
    <2>2. /\ d \in ShellStates /\ d.pc = "wait" /\ d.s = 1
          /\ d.pipe_r = sh.pipe_r /\ d.pipe_w = sh.pipe_w /\ d.line = sh.line
          /\ d.redirs = sh.redirs /\ d.pids = sh.pids
      BY DEF ShellStates
    <2> HIDE DEF d
    <2>3. Progress(d)
      BY <1>1, <1>4, <2>2 DEF Progress, StagesOf
    <2> QED BY <2>1, <2>2, <2>3
  <1> QED BY <1>2, <1>3, <1>4

(* What remains to be closed after the first of it is closed.              *)
LEMMA RestIs ==
    ASSUME NEW fds \in Seq(MaybeFd), NEW i \in DOMAIN fds, fds[i] # Nothing,
           \A j \in DOMAIN fds : fds[j] # Nothing => i <= j
    PROVE  LET rest == SubSeq(fds, i + 1, Len(fds))
           IN  /\ rest \in Seq(MaybeFd)
               /\ fds[i] \in Fds
               /\ OnceEach(fds) => /\ OnceEach(rest)
                                   /\ Among(rest) = Among(fds) \ {fds[i]}
  <1> DEFINE n == Len(fds)  rest == SubSeq(fds, i + 1, n)
  <1>1. n \in Nat /\ DOMAIN fds = 1 .. n /\ i \in 1 .. n
    OBVIOUS
  <1>2. rest \in Seq(MaybeFd) /\ DOMAIN rest = 1 .. n - i
        /\ \A j \in 1 .. n - i : rest[j] = fds[i + j]
    BY <1>1
  <1>3. fds[i] \in Fds
    BY DEF MaybeFd
  <1> HIDE DEF rest, n
  <1>4. ASSUME OnceEach(fds) PROVE OnceEach(rest)
    <2> SUFFICES ASSUME NEW j \in 1 .. n - i, NEW k \in 1 .. n - i,
                        rest[j] = rest[k], rest[k] # Nothing
                 PROVE  j = k
      BY <1>2 DEF OnceEach
    <2>1. i + j \in 1 .. n /\ i + k \in 1 .. n
      BY <1>1
    <2>2. i + j = i + k
      BY <1>1, <1>2, <1>4, <2>1 DEF OnceEach
    <2> QED BY <1>1, <2>2
  <1>5. ASSUME OnceEach(fds) PROVE Among(rest) = Among(fds) \ {fds[i]}
    <2>1. ASSUME NEW f \in Among(rest) PROVE f \in Among(fds) \ {fds[i]}
      <3>1. PICK j \in 1 .. n - i : rest[j] = f /\ f # Nothing
        BY <1>2, <2>1 DEF Among
      <3>2. i + j \in 1 .. n /\ fds[i + j] = f /\ i + j # i
        BY <1>1, <1>2, <3>1
      <3> QED BY <1>1, <1>5, <3>1, <3>2 DEF Among, OnceEach
    <2>2. ASSUME NEW f \in Among(fds) \ {fds[i]} PROVE f \in Among(rest)
      <3>1. PICK j \in 1 .. n : fds[j] = f /\ f # Nothing
        BY <1>1, <2>2 DEF Among
      <3>2. j # i /\ i <= j
        BY <1>1, <2>2, <3>1
      <3>3. j - i \in 1 .. n - i /\ i + (j - i) = j
        BY <1>1, <3>2
      <3>4. rest[j - i] = f
        BY <1>2, <3>1, <3>3
      <3> QED BY <1>2, <3>1, <3>3, <3>4 DEF Among
    <2> QED BY <2>1, <2>2
  <1> QED BY <1>2, <1>3, <1>4, <1>5 DEF rest, n
LEMMA RedirectIs ==
    ASSUME TypeOK, Counted(tables), NEW how
    PROVE  LET r == Redirect(how)
           IN  /\ r.t \in TableStates /\ Counted(r.t) /\ Opens(tables, r) /\ r.fd \in MaybeFd
               /\ Refused(how, r.fd) => r.t = tables /\ r.fd = Nothing
  <1>1. tables \in TableStates
    BY DEF TypeOK
  <1>2. CASE how = "opens"
    <2>1. Redirect(how) = vfs_open(tables)
      BY <1>2 DEF Redirect
    <2>2. Opens(tables, vfs_open(tables))
      BY <1>1, OpenCounts
    <2>3. /\ vfs_open(tables).fd \in MaybeFd
          /\ vfs_open(tables).fd = Nothing => vfs_open(tables).t = tables
      BY <2>2, Numbers DEF Opens, MaybeFd
    <2> QED BY <1>1, <2>1, <2>2, <2>3, OpenCounts DEF Refused
  <1>3. CASE how # "opens"
    <2>1. Redirect(how) = [t |-> tables, fd |-> Nothing]
      BY <1>3 DEF Redirect
    <2> QED BY <1>1, <2>1 DEF Opens, MaybeFd, Refused
  <1> QED BY <1>2, <1>3

LEMMA SequenceIs ==
    ASSUME NEW S, NEW n \in Nat, NEW g, g = [i \in 1 .. n |-> g[i]],
           \A i \in 1 .. n : g[i] \in S
    PROVE  g \in Seq(S) /\ Len(g) = n
  OBVIOUS

(* What is at place x of q is taken out of it.                             *)
Without(q, x) == [i \in DOMAIN q |-> IF i = x THEN Nothing ELSE q[i]]
LEMMA WithoutIs ==
    ASSUME NEW q \in Seq(MaybeFd), NEW x
    PROVE  Without(q, x) \in Seq(MaybeFd) /\ Len(Without(q, x)) = Len(q)
  <1> DEFINE g == Without(q, x)
  <1>1. Len(q) \in Nat /\ DOMAIN q = 1 .. Len(q)
    OBVIOUS
  <1>2. \A i \in 1 .. Len(q) : g[i] \in MaybeFd
    BY <1>1 DEF Without, MaybeFd
  <1>3. g = [i \in 1 .. Len(q) |-> g[i]]
    BY <1>1 DEF Without
  <1> HIDE DEF g
  <1>4. g \in Seq(MaybeFd) /\ Len(g) = Len(q)
    BY <1>1, <1>2, <1>3, SequenceIs
  <1> QED BY <1>4 DEF g

(* The shell when it has spawned, or failed to spawn, the stage's command. *)
LEMMA SpawnedIs ==
    ASSUME TypeOK, Progress(shell), At("spawn"),
           NEW works \in BOOLEAN, NEW kid \in Kids \union {Nothing}
    PROVE  LET c == Spawned(shell, works, kid)
           IN  /\ c \in ShellStates /\ Progress(c)
               /\ c.pc = "close" /\ c.todo = EndsGiven
               /\ c.next = IF works THEN "stage_done" ELSE "cleanup"
               /\ c.pipe_r = [i \in DOMAIN shell.pipe_r |->
                                 IF i = shell.s - 1 THEN Nothing ELSE shell.pipe_r[i]]
               /\ c.pipe_w = [i \in DOMAIN shell.pipe_w |->
                                 IF i = shell.s THEN Nothing ELSE shell.pipe_w[i]]
               /\ c.redirs = shell.redirs \o <<shell.redir_in, shell.redir_out>>
               /\ c.pids = Append(shell.pids, kid)
               /\ c.redirs \in Seq(MaybeFd)
  <1> DEFINE r == [i \in DOMAIN shell.pipe_r |->
                      IF i = shell.s - 1 THEN Nothing ELSE shell.pipe_r[i]]
             w == [i \in DOMAIN shell.pipe_w |->
                      IF i = shell.s THEN Nothing ELSE shell.pipe_w[i]]
             d == shell.redirs \o <<shell.redir_in, shell.redir_out>>
             p == Append(shell.pids, kid)
             next == IF works THEN "stage_done" ELSE "cleanup"
             f == Forgotten(shell)
             sh == [f EXCEPT !.pids = Append(@, kid),
                             !.redirs = @ \o <<shell.redir_in, shell.redir_out>>]
  <1>1. /\ shell \in ShellStates /\ shell.s \in Nat
        /\ shell.pipe_r \in Seq(MaybeFd) /\ shell.pipe_w \in Seq(MaybeFd)
        /\ shell.redirs \in Seq(MaybeFd) /\ shell.pids \in Seq(Kids \union {Nothing})
        /\ shell.redir_in \in MaybeFd /\ shell.redir_out \in MaybeFd
    BY DEF TypeOK, ShellStates
  <1>2. /\ shell.s \in 1 .. Stages /\ Len(shell.pipe_r) + 1 = Stages
        /\ Len(shell.pipe_w) + 1 = Stages /\ Len(shell.pids) + 1 = shell.s /\ Stages \in Nat
    BY <1>1 DEF Progress, At, StagesOf, Stages, ShellStates
  <1>3. /\ r \in Seq(MaybeFd) /\ Len(r) = Len(shell.pipe_r)
        /\ w \in Seq(MaybeFd) /\ Len(w) = Len(shell.pipe_w)
    <2> DEFINE x == shell.s - 1  y == shell.s
    <2>1. r = Without(shell.pipe_r, x) /\ w = Without(shell.pipe_w, y)
      BY Zenon DEF Without
    <2> HIDE DEF x, y, r, w
    <2> QED BY <1>1, <2>1, WithoutIs
  <1>4. d \in Seq(MaybeFd) /\ p \in Seq(Kids \union {Nothing}) /\ Len(p) = shell.s
    BY <1>1, <1>2
  <1>5. EndsGiven \in Seq(MaybeFd)
    <2>1. shell.s > 1 => shell.s - 1 \in DOMAIN shell.pipe_r
      BY <1>1, <1>2
    <2>2. shell.s < Stages => shell.s \in DOMAIN shell.pipe_w
      BY <1>1, <1>2
    <2> QED BY <1>1, <2>1, <2>2 DEF EndsGiven, MaybeFd
  <1> HIDE DEF r, w, d, p
  <1>6. f = [shell EXCEPT !.pipe_r = r, !.pipe_w = w]
    BY <1>1 DEF Forgotten, r, w
  <1>7. sh = [shell EXCEPT !.pipe_r = r, !.pipe_w = w, !.pids = p, !.redirs = d]
    BY <1>1, <1>6 DEF p, d, ShellStates
  <1> HIDE DEF sh, f
  <1>8. /\ sh \in ShellStates /\ sh.pipe_r = r /\ sh.pipe_w = w /\ sh.pids = p
        /\ sh.redirs = d /\ sh.s = shell.s /\ sh.line = shell.line
    BY <1>1, <1>3, <1>4, <1>7 DEF ShellStates
  <1>9. Spawned(shell, works, kid) = Closing(sh, EndsGiven, next)
    BY DEF Spawned, sh, f
  <1>10. next \in {"prompt", "stage_done", "cleanup"}
    OBVIOUS
  <1> HIDE DEF next
  <1> DEFINE c == Closing(sh, EndsGiven, next)
  <1>11. /\ c \in ShellStates
         /\ c.pc = "close" /\ c.todo = EndsGiven /\ c.next = next
         /\ c.line = shell.line /\ c.s = shell.s /\ c.pipe_r = r
         /\ c.pipe_w = w /\ c.redirs = d /\ c.pids = p
    BY <1>5, <1>8, <1>10, ClosingIs, SMTT(30)
  <1> HIDE DEF c
  <1>12. Progress(c)
    BY <1>2, <1>3, <1>4, <1>11 DEF Progress, StagesOf, Stages
  <1> QED BY <1>4, <1>9, <1>11, <1>12 DEF c, r, w, d, p, next
-----------------------------------------------------------------------------
(* The tables count right, and every variable is what it should be.        *)

TableInv == TypeOK /\ Progress(shell) /\ Counted(tables)

LEMMA PromptIs == AtPrompt \in ShellStates /\ Progress(AtPrompt)
  <1>1. /\ <<>> \in Seq(MaybeFd) /\ <<>> \in Seq(Commands)
        /\ <<>> \in Seq(Kids \union {Nothing}) /\ Nothing \in MaybeFd
    BY DEF MaybeFd
  <1> QED BY <1>1 DEF AtPrompt, ShellStates, Progress

LEMMA TableInit == Init => TableInv
  <1> SUFFICES ASSUME Init PROVE TableInv
    OBVIOUS
  <1>1. tables \in TableStates
    <2>1. FreePipe \in PipeStates
      BY PipelineAssumption DEF FreePipe, PipeStates
    <2>2. FreeFd \in Meanings
      BY MeaningFacts
    <2> QED BY <2>1, <2>2 DEF Init, EmptyTables, TableStates
  <1>2. kids \in [Kids -> KidStates]
    <2>1. FreeFd \in Meanings
      BY MeaningFacts
    <2>2. NoKid \in KidStates
      BY <2>1 DEF NoKid, KidStates, MaybeFd
    <2> QED BY <2>2 DEF Init
  <1>3. Counted(tables)
    <2>1. /\ \A p \in Pipes : tables.pipes[p] = FreePipe
          /\ tables.handles = {}
          /\ \A f \in Fds : tables.fds[f] = FreeFd
      BY DEF Init, EmptyTables
    <2>2. \A type, i : type # "free" =>
             Cardinality(Points(tables.fds, Means(type, i))) = 0
      <3>1. ASSUME NEW type, NEW i, type # "free"
            PROVE  Points(tables.fds, Means(type, i)) = {}
        BY <2>1, <3>1 DEF Points, Means, FreeFd
      <3> QED BY <3>1, FS_EmptySet
    <2> QED BY <2>1, <2>2 DEF Counted, FreePipe
  <1> QED BY <1>1, <1>2, <1>3, PromptIs DEF Init, TableInv, TypeOK

(* A step of a program changes no descriptor and no counter, and no more   *)
(* of the tables than the level of a pipe.                                 *)
LevelOf(t, t2) ==
    \/ t2 = t
    \/ \E p \in Pipes : \E l \in 0 .. PipeRoom : t2 = [t EXCEPT !.pipes[p].level = l]
LEMMA LevelKeeps ==
    ASSUME NEW t \in TableStates, NEW t2, LevelOf(t, t2)
    PROVE  /\ t2 \in TableStates /\ t2.fds = t.fds
           /\ Counted(t) => Counted(t2)
  <1>1. CASE t2 = t
    BY <1>1
  <1>2. ASSUME NEW p \in Pipes, NEW l \in 0 .. PipeRoom, t2 = [t EXCEPT !.pipes[p].level = l]
        PROVE  /\ t2 \in TableStates /\ t2.fds = t.fds
               /\ Counted(t) => Counted(t2)
    <2> DEFINE q == [t.pipes[p] EXCEPT !.level = l]  pipes == [t.pipes EXCEPT ![p] = q]
    <2>1. t.pipes \in [Pipes -> PipeStates] /\ t.pipes[p] \in PipeStates
      BY DEF TableStates
    <2>2. /\ q \in PipeStates /\ q.read_open = t.pipes[p].read_open
          /\ q.write_open = t.pipes[p].write_open /\ q.used = t.pipes[p].used
      BY <2>1 DEF PipeStates
    <2>3. t2 = [t EXCEPT !.pipes = pipes]
      BY <1>2, <2>1 DEF TableStates
    <2> HIDE DEF q
    <2>4. pipes \in [Pipes -> PipeStates]
      BY <2>1, <2>2
    <2>5. \A x \in Pipes : /\ pipes[x].read_open = t.pipes[x].read_open
                           /\ pipes[x].write_open = t.pipes[x].write_open
                           /\ pipes[x].used = t.pipes[x].used
      BY <2>1, <2>2
    <2> HIDE DEF pipes
    <2>6. t2 \in TableStates /\ t2.fds = t.fds /\ t2.pipes = pipes /\ t2.handles = t.handles
      BY <2>3, <2>4 DEF TableStates
    <2> QED BY <2>5, <2>6 DEF Counted
  <1> QED BY <1>1, <1>2 DEF LevelOf

KidSteps(k) == WriteBegin(k) \/ WriteGoesOn(k) \/ ReadBegin(k) \/ ReadGoesOn(k) \/ Exit(k)
LEMMA KidStep ==
    ASSUME TypeOK, NEW k \in Kids, KidSteps(k)
    PROVE  /\ LevelOf(tables, tables') /\ kids' \in [Kids -> KidStates]
           /\ UNCHANGED <<shell, dropped>>
           /\ \A j \in Kids : \/ ~kids'[j].live
                              \/ /\ kids[j].live
                                 /\ kids'[j].in = kids[j].in /\ kids'[j].out = kids[j].out
                                 /\ kids'[j].given = kids[j].given
                                 /\ kids'[j].left = kids[j].left
  <1> DEFINE kid == kids[k]
  <1>1. /\ kids \in [Kids -> KidStates] /\ tables \in TableStates /\ kid \in KidStates
    BY DEF TypeOK
  <1>2. \A p \in Pipes : tables.pipes[p] \in PipeStates
    BY <1>1 DEF TableStates
  <1>3. ASSUME NEW x \in Pipes \union {Nothing}, NEW y \in {"none", "read", "write"},
               kids' = [kids EXCEPT ![k].inside = x, ![k].does = y]
        PROVE  /\ kids' \in [Kids -> KidStates]
               /\ \A j \in Kids : /\ kids'[j].live = kids[j].live
                                  /\ kids'[j].in = kids[j].in /\ kids'[j].out = kids[j].out
                                  /\ kids'[j].given = kids[j].given
                                  /\ kids'[j].left = kids[j].left
    <2> DEFINE kid2 == [kid EXCEPT !.inside = x, !.does = y]
    <2>1. /\ kid2 \in KidStates /\ kid2.live = kid.live /\ kid2.in = kid.in
          /\ kid2.out = kid.out /\ kid2.given = kid.given /\ kid2.left = kid.left
      BY <1>1 DEF KidStates
    <2>2. kids' = [kids EXCEPT ![k] = kid2]
      BY <1>1, <1>3 DEF KidStates
    <2> HIDE DEF kid2
    <2>3. \A j \in Kids : kids'[j] = IF j = k THEN kid2 ELSE kids[j]
      BY <1>1, <2>2
    <2>4. kids' \in [Kids -> KidStates]
      BY <1>1, <2>1, <2>2
    <2> QED BY <2>1, <2>3, <2>4
  <1>4. ASSUME NEW f \in MaybeFd, Fd(f).type \in PipeTypes
        PROVE  Fd(f).index \in Pipes
    <2>1. f # Nothing
      BY <1>4 DEF Fd, FreeFd, PipeTypes
    <2>2. Fd(f) \in Meanings
      BY <1>1, <2>1 DEF Fd, MaybeFd, TableStates
    <2> QED BY <1>4, <2>2, MeaningFacts DEF PipeTypes
  <1>5. kid.in \in MaybeFd /\ kid.out \in MaybeFd /\ kid.inside \in Pipes \union {Nothing}
    BY <1>1 DEF KidStates
  <1>6. CASE WriteBegin(k)
    <2>1. Fd(kid.out).index \in Pipes
      BY <1>4, <1>5, <1>6 DEF WriteBegin, PipeTypes
    <2> QED BY <1>3, <1>6, <2>1 DEF WriteBegin, LevelOf
  <1>7. CASE ReadBegin(k)
    <2>1. Fd(kid.in).index \in Pipes
      BY <1>4, <1>5, <1>7 DEF ReadBegin, PipeTypes
    <2> QED BY <1>3, <1>7, <2>1 DEF ReadBegin, LevelOf
  <1>8. CASE WriteGoesOn(k)
    <2> DEFINE p == kid.inside  l == tables.pipes[p].level
    <2>1. p \in Pipes
      BY <1>5, <1>8 DEF WriteGoesOn
    <2>2. l \in 0 .. PipeRoom /\ PipeRoom \in Nat
      BY <1>2, <2>1, PipelineAssumption DEF PipeStates
    <2>3. \/ l < PipeRoom /\ tables' = [tables EXCEPT !.pipes[p].level = l + 1]
          \/ UNCHANGED tables
      BY <1>8 DEF WriteGoesOn
    <2>4. LevelOf(tables, tables')
      <3>1. l < PipeRoom => l + 1 \in 0 .. PipeRoom
        BY <2>2
      <3> HIDE DEF l
      <3> QED BY <2>1, <2>3, <3>1 DEF LevelOf
    <2> QED BY <1>3, <1>8, <2>4 DEF WriteGoesOn
  <1>9. CASE ReadGoesOn(k)
    <2> DEFINE p == kid.inside  l == tables.pipes[p].level
    <2>1. p \in Pipes
      BY <1>5, <1>9 DEF ReadGoesOn
    <2>2. l \in 0 .. PipeRoom /\ PipeRoom \in Nat
      BY <1>2, <2>1, PipelineAssumption DEF PipeStates
    <2>3. \/ l > 0 /\ tables' = [tables EXCEPT !.pipes[p].level = l - 1]
          \/ UNCHANGED tables
      BY <1>9 DEF ReadGoesOn
    <2>4. LevelOf(tables, tables')
      <3>1. l > 0 => l - 1 \in 0 .. PipeRoom
        BY <2>2
      <3> HIDE DEF l
      <3> QED BY <2>1, <2>3, <3>1 DEF LevelOf
    <2> QED BY <1>3, <1>9, <2>4 DEF ReadGoesOn
  <1>10. CASE Exit(k)
    <2>1. NoKid \in KidStates /\ ~NoKid.live
      BY MeaningFacts DEF NoKid, KidStates, MaybeFd
    <2>2. kids' = [kids EXCEPT ![k] = NoKid]
      BY <1>10 DEF Exit
    <2>3. \A j \in Kids : kids'[j] = IF j = k THEN NoKid ELSE kids[j]
      BY <1>1, <2>2
    <2> QED BY <1>1, <1>10, <2>1, <2>2, <2>3 DEF Exit, LevelOf
  <1> QED BY <1>6, <1>7, <1>8, <1>9, <1>10 DEF KidSteps
(* What a wait that is cut short does to the programs.                     *)
LEMMA WaitLeaves ==
    ASSUME TableInv, WaitCutShort
    PROVE  /\ Child \in Kids /\ kids' \in [Kids -> KidStates]
           /\ \A k \in Kids : /\ k # Child => kids'[k] = kids[k]
                             /\ k = Child => kids'[k].left
  <1> DEFINE pid == Child  kid2 == [kids[pid] EXCEPT !.left = TRUE]
  <1>1. /\ kids \in [Kids -> KidStates] /\ shell \in ShellStates
        /\ pid # Nothing /\ shell.pc = "wait" /\ Progress(shell)
    BY DEF TableInv, TypeOK, WaitCutShort, Running, At
  <1>2. pid \in Kids
    <2>1. shell.s \in 1 .. Len(shell.pids)
      BY <1>1 DEF Progress
    <2>2. shell.pids \in Seq(Kids \union {Nothing})
      BY <1>1 DEF ShellStates
    <2>3. shell.pids[shell.s] \in Kids \union {Nothing}
      BY <2>1, <2>2
    <2> QED BY <1>1, <2>3 DEF Child
  <1>3. kids' = [kids EXCEPT ![pid] = kid2]
    BY <1>1 DEF WaitCutShort
  <1> HIDE DEF pid
  <1>4. kid2 \in KidStates /\ kid2.left
    BY <1>1, <1>2 DEF KidStates
  <1> HIDE DEF kid2
  <1>5. kids' \in [Kids -> KidStates] /\ \A k \in Kids : kids'[k] = IF k = pid THEN kid2 ELSE kids[k]
    BY <1>1, <1>2, <1>3, <1>4
  <1>6. /\ pid \in Kids /\ kids' \in [Kids -> KidStates]
        /\ \A k \in Kids : /\ k # pid => kids'[k] = kids[k]
                          /\ k = pid => kids'[k].left
    BY <1>2, <1>4, <1>5
  <1> QED BY <1>6 DEF pid

LEMMA TableStep == TableInv /\ [Next]_vars => TableInv'
  <1> SUFFICES ASSUME TableInv, [Next]_vars PROVE TableInv'
    OBVIOUS
  <1>1. /\ tables \in TableStates /\ shell \in ShellStates /\ kids \in [Kids -> KidStates]
        /\ TypeOK /\ Progress(shell) /\ Counted(tables)
    BY DEF TableInv, TypeOK
  <1>2. /\ shell.pipe_r \in Seq(MaybeFd) /\ shell.pipe_w \in Seq(MaybeFd)
        /\ shell.redirs \in Seq(MaybeFd) /\ shell.todo \in Seq(MaybeFd)
        /\ shell.pids \in Seq(Kids \union {Nothing}) /\ shell.s \in Nat
        /\ shell.redir_in \in MaybeFd /\ shell.redir_out \in MaybeFd
    BY <1>1 DEF ShellStates
  <1>3. Stages \in Nat /\ Stages = StagesOf(shell)
    BY <1>1 DEF Stages, StagesOf, ShellStates
  <1>4. SUFFICES /\ tables' \in TableStates /\ Counted(tables')
                 /\ shell' \in ShellStates /\ Progress(shell')
                 /\ kids' \in [Kids -> KidStates]
    BY DEF TableInv, TypeOK, Counted
  <1>5. ASSUME NEW line \in Lines, ReadLine(line)
        PROVE  shell' \in ShellStates /\ Progress(shell')
    <2> DEFINE pc == IF Len(line.stages) > 1 THEN "pipes" ELSE "stage"
    <2>1. shell' = [AtPrompt EXCEPT !.line = line, !.s = 1, !.pc = pc]
      BY <1>5 DEF ReadLine
    <2>2. line \in [stages : Seq(Commands), bg : BOOLEAN] /\ line.stages # <<>>
      BY PipelineAssumption
    <2>3. Len(line.stages) \in Nat /\ Len(line.stages) > 0
      BY <2>2
    <2>4. /\ shell' \in ShellStates /\ shell'.pc = pc /\ shell'.s = 1 /\ shell'.line = line
          /\ shell'.pipe_r = <<>> /\ shell'.pipe_w = <<>> /\ shell'.pids = <<>>
          /\ shell'.redirs = <<>>
      <3>1. AtPrompt \in ShellStates /\ AtPrompt.pipe_r = <<>> /\ AtPrompt.pipe_w = <<>>
            /\ AtPrompt.pids = <<>> /\ AtPrompt.redirs = <<>>
        BY PromptIs DEF AtPrompt
      <3> QED BY <2>1, <2>2, <3>1 DEF ShellStates
    <2>5. StagesOf(shell') = Len(line.stages)
      BY <2>4 DEF StagesOf
    <2>6. Len(<<>>) = 0
      OBVIOUS
    <2>7. CASE Len(line.stages) > 1
      BY <2>3, <2>4, <2>5, <2>6, <2>7 DEF Progress
    <2>8. CASE ~(Len(line.stages) > 1)
      <3>1. StagesOf(shell') = 1 /\ 1 \in 1 .. 1 /\ shell'.pc = "stage"
        <4>1. Len(line.stages) = 1
          <5>1. \A n \in Nat : n > 0 /\ ~(n > 1) => n = 1
            OBVIOUS
          <5> QED BY <2>3, <2>8, <5>1
        <4> QED BY <2>4, <2>5, <2>8, <4>1
      <3> HIDE DEF pc
      <3> QED BY <2>4, <2>6, <3>1 DEF Progress
    <2> QED BY <2>7, <2>8
  <1>6. CASE sys_pipe
    <2> DEFINE made == vfs_pipe(tables)
               sh == [shell EXCEPT !.pipe_r = Append(@, made.r), !.pipe_w = Append(@, made.w)]
    <2>1. made.t \in TableStates /\ Counted(made.t) /\ MakesPipe(tables, made)
      BY <1>1, PipeCounts
    <2>2. tables' = made.t /\ UNCHANGED kids /\ shell.pc = "pipes"
      BY <1>6 DEF sys_pipe, At
    <2>3. shell' \in ShellStates /\ Progress(shell')
      <3>1. CASE made.r = Nothing
        BY <1>6, <3>1, PromptIs DEF sys_pipe
      <3>2. CASE made.r # Nothing
        <4>1. made.r \in MaybeFd /\ made.w \in MaybeFd
          BY <2>1, <3>2 DEF MakesPipe, MaybeFd
        <4> DEFINE r == Append(shell.pipe_r, made.r)  w == Append(shell.pipe_w, made.w)
        <4>2. /\ r \in Seq(MaybeFd) /\ Len(r) = Len(shell.pipe_r) + 1
              /\ w \in Seq(MaybeFd) /\ Len(w) = Len(shell.pipe_w) + 1
          <5> HIDE DEF made
          <5> QED BY <1>2, <4>1
        <4>3. sh = [shell EXCEPT !.pipe_r = r, !.pipe_w = w]
          OBVIOUS
        <4> HIDE DEF r, w, sh
        <4>4. /\ sh \in ShellStates /\ sh.pipe_r = r /\ sh.pipe_w = w /\ sh.pc = "pipes"
              /\ sh.s = shell.s /\ sh.line = shell.line /\ sh.pids = shell.pids
              /\ sh.redirs = shell.redirs
          BY <1>1, <2>2, <4>2, <4>3 DEF ShellStates
        <4> DEFINE sh2 == [sh EXCEPT !.pc = "stage"]
        <4>5. /\ sh2 \in ShellStates /\ sh2.pipe_r = r /\ sh2.pipe_w = w /\ sh2.pc = "stage"
              /\ sh2.s = shell.s /\ sh2.line = shell.line /\ sh2.pids = shell.pids
          BY <4>4 DEF ShellStates
        <4> HIDE DEF sh2
        <4>6. shell' = IF Len(r) + 1 < Stages THEN sh ELSE sh2
          BY <1>6, <3>2, <4>4 DEF sys_pipe, sh2, sh
        <4>7. /\ Len(shell.pipe_r) = Len(shell.pipe_w) /\ Len(shell.pipe_r) + 1 < Stages
              /\ shell.s = 1 /\ shell.pids = <<>> /\ shell.redirs = <<>>
              /\ Len(shell.pipe_r) \in Nat
          BY <1>1, <1>2, <1>3, <2>2 DEF Progress
        <4>8. CASE Len(r) + 1 < Stages
          BY <1>3, <4>2, <4>4, <4>6, <4>7, <4>8 DEF Progress, StagesOf
        <4>9. CASE ~(Len(r) + 1 < Stages)
          <5>1. /\ Len(r) + 1 = Stages /\ Len(w) + 1 = Stages
                /\ Len(sh2.pids) = 0 /\ sh2.s = 1 /\ 1 \in 1 .. Stages
                /\ StagesOf(sh2) = Stages
            BY <1>3, <4>2, <4>5, <4>7, <4>9 DEF StagesOf
          <5> QED BY <4>5, <4>6, <4>9, <5>1 DEF Progress
        <4> QED BY <4>8, <4>9
      <3> QED BY <3>1, <3>2
    <2> QED BY <1>1, <2>1, <2>2, <2>3
  <1>7. CASE EmptyStage
    <2> DEFINE pids == Append(shell.pids, Nothing)
               sh == [shell EXCEPT !.pids = pids]
    <2>1. shell' = StageDone(sh) /\ shell.pc = "stage" /\ UNCHANGED <<tables, kids, dropped>>
      BY <1>7 DEF EmptyStage, At
    <2>2. pids \in Seq(Kids \union {Nothing}) /\ Len(pids) = Len(shell.pids) + 1
      BY <1>2
    <2> HIDE DEF pids
    <2>3. /\ sh \in ShellStates /\ sh.line = shell.line /\ sh.s = shell.s /\ sh.pids = pids
          /\ sh.pipe_r = shell.pipe_r /\ sh.pipe_w = shell.pipe_w
      BY <1>1, <2>2 DEF ShellStates
    <2> HIDE DEF sh
    <2>4. /\ sh.s \in 1 .. StagesOf(sh) /\ Len(sh.pids) = sh.s
          /\ Len(sh.pipe_r) + 1 = StagesOf(sh) /\ Len(sh.pipe_w) + 1 = StagesOf(sh)
      BY <1>1, <2>1, <2>2, <2>3 DEF Progress, StagesOf
    <2> QED BY <1>1, <2>1, <2>3, <2>4, StageDoneIs
  <1>8. shell.pc \in {"stage", "open_out", "spawn", "close", "wait"} =>
           /\ shell.s \in 1 .. StagesOf(shell)
           /\ Len(shell.pipe_r) + 1 = StagesOf(shell) /\ Len(shell.pipe_w) + 1 = StagesOf(shell)
           /\ Cleanup(shell) \in ShellStates /\ Progress(Cleanup(shell))
    <2> SUFFICES ASSUME shell.pc \in {"stage", "open_out", "spawn", "close", "wait"}
                 PROVE  /\ shell.s \in 1 .. StagesOf(shell)
                        /\ Len(shell.pipe_r) + 1 = StagesOf(shell)
                        /\ Len(shell.pipe_w) + 1 = StagesOf(shell)
                        /\ Cleanup(shell) \in ShellStates /\ Progress(Cleanup(shell))
      OBVIOUS
    <2>1. /\ shell.s \in 1 .. StagesOf(shell)
          /\ Len(shell.pipe_r) + 1 = StagesOf(shell)
          /\ Len(shell.pipe_w) + 1 = StagesOf(shell)
      BY <1>1 DEF Progress
    <2> QED BY <1>1, <2>1, CleanupProgress
  <1>9. CASE OpenInput
    <2> DEFINE r == Redirect(Stage.in)  sh == [shell EXCEPT !.pc = "open_out", !.redir_in = r.fd]
    <2>1. r.t \in TableStates /\ Counted(r.t) /\ r.fd \in MaybeFd
      BY <1>1, RedirectIs
    <2>2. /\ tables' = r.t /\ shell.pc = "stage" /\ UNCHANGED kids
          /\ shell' = Cleanup(shell) \/ shell' = sh
      BY <1>9 DEF OpenInput, At
    <2> HIDE DEF r
    <2>3. sh \in ShellStates /\ Progress(sh)
      <3>1. /\ sh \in ShellStates /\ sh.pc = "open_out" /\ sh.s = shell.s /\ sh.line = shell.line
            /\ sh.pipe_r = shell.pipe_r /\ sh.pipe_w = shell.pipe_w /\ sh.pids = shell.pids
        BY <1>1, <2>1 DEF ShellStates
      <3> HIDE DEF sh
      <3> QED BY <1>1, <2>2, <3>1 DEF Progress, StagesOf
    <2> HIDE DEF sh
    <2> QED BY <1>1, <1>8, <2>1, <2>2, <2>3
  <1>10. CASE OpenOutput
    <2> DEFINE r == Redirect(Stage.out)  sh == [shell EXCEPT !.pc = "spawn", !.redir_out = r.fd]
               t2 == vfs_close(tables, shell.redir_in)
    <2>1. r.t \in TableStates /\ Counted(r.t) /\ r.fd \in MaybeFd
      BY <1>1, RedirectIs
    <2>2. /\ shell.pc = "open_out" /\ UNCHANGED kids
          /\ tables' = r.t \/ (shell.redir_in # Nothing /\ tables' = t2)
          /\ shell' = Cleanup(shell) \/ shell' = sh
      BY <1>10 DEF OpenOutput, At
    <2>3. shell.redir_in # Nothing => t2 \in TableStates /\ Counted(t2)
      BY <1>1, <1>2, CloseCounts DEF MaybeFd
    <2> HIDE DEF r, t2
    <2>4. sh \in ShellStates /\ Progress(sh)
      <3>1. /\ sh \in ShellStates /\ sh.pc = "spawn" /\ sh.s = shell.s /\ sh.line = shell.line
            /\ sh.pipe_r = shell.pipe_r /\ sh.pipe_w = shell.pipe_w /\ sh.pids = shell.pids
        BY <1>1, <2>1 DEF ShellStates
      <3> HIDE DEF sh
      <3> QED BY <1>1, <2>2, <3>1 DEF Progress, StagesOf
    <2> HIDE DEF sh
    <2> QED BY <1>1, <1>8, <2>1, <2>2, <2>3, <2>4
  <1>11. CASE Spawn
    <2> DEFINE free == {k \in Kids : ~kids[k].live}
               works == Stage.cmd = "spawns" /\ free # {}
               kid == IF works THEN Least(free) ELSE Nothing
               new == [NoKid EXCEPT !.live = TRUE, !.in = StdIn, !.out = StdOut,
                                    !.given = <<Fd(StdIn), Fd(StdOut)>>]
    <2>1. /\ shell.pc = "spawn" /\ UNCHANGED <<tables, dropped>>
          /\ kids' = (IF ~works THEN kids ELSE [kids EXCEPT ![kid] = new])
          /\ shell' = Spawned(shell, works, kid)
      BY <1>11 DEF Spawn, At
    <2>2. kid \in Kids \union {Nothing} /\ (works => kid \in Kids)
      <3>1. CASE works
        <4>1. free \in SUBSET Nat /\ free # {}
          BY <3>1, PipelineAssumption
        <4>2. Least(free) \in free
          BY <4>1, LeastExists
        <4> QED BY <3>1, <4>2
      <3>2. CASE ~works
        BY <3>2
      <3> QED BY <3>1, <3>2
    <2>3. works \in BOOLEAN
      OBVIOUS
    <2>4. new \in KidStates
      <3>1. StdIn \in MaybeFd /\ StdOut \in MaybeFd
        <4>1. shell.s > 1 => shell.s - 1 \in DOMAIN shell.pipe_r
          BY <1>2, <1>8, <2>1
        <4>2. shell.s < Stages => shell.s \in DOMAIN shell.pipe_w
          BY <1>2, <1>3, <1>8, <2>1
        <4>3. shell.s > 1 => shell.pipe_r[shell.s - 1] \in MaybeFd
          BY <1>2, <4>1
        <4>4. shell.s < Stages => shell.pipe_w[shell.s] \in MaybeFd
          BY <1>2, <4>2
        <4>5. Nothing \in MaybeFd
          BY DEF MaybeFd
        <4> QED BY <1>2, <4>3, <4>4, <4>5 DEF StdIn, StdOut
      <3>2. \A f \in MaybeFd : Fd(f) \in Meanings
        BY <1>1, MeaningFacts DEF Fd, MaybeFd, TableStates
      <3>3. <<Fd(StdIn), Fd(StdOut)>> \in Meanings \X Meanings
        BY <3>1, <3>2
      <3>4. NoKid \in KidStates
        BY MeaningFacts DEF NoKid, KidStates, MaybeFd
      <3> QED BY <3>1, <3>3, <3>4 DEF KidStates
    <2> HIDE DEF new, works, kid
    <2>5. kids' \in [Kids -> KidStates]
      BY <1>1, <2>1, <2>2, <2>4
    <2>6. shell' \in ShellStates /\ Progress(shell')
      BY <1>1, <2>1, <2>2, <2>3, SpawnedIs DEF At, works
    <2> QED BY <1>1, <2>1, <2>5, <2>6
  <1>12. CASE CloseNext
    <2> DEFINE i == Least(Ahead)  rest == SubSeq(shell.todo, i + 1, Len(shell.todo))
               t2 == vfs_close(tables, shell.todo[i])
    <2>1. /\ shell.pc = "close" /\ Ahead # {} /\ UNCHANGED <<kids, dropped>>
          /\ tables' = t2 /\ shell' = [shell EXCEPT !.todo = rest]
      BY <1>12 DEF CloseNext, At
    <2>2. i \in Ahead /\ \A j \in Ahead : i <= j
      <3>1. Ahead \in SUBSET Nat
        BY <1>2 DEF Ahead
      <3> QED BY <2>1, <3>1, LeastExists
    <2> HIDE DEF i
    <2>3. rest \in Seq(MaybeFd) /\ shell.todo[i] \in Fds
      BY <1>2, <2>2, RestIs DEF Ahead
    <2>4. t2 \in TableStates /\ Counted(t2)
      BY <1>1, <2>3, CloseCounts
    <2> HIDE DEF rest, t2
    <2>5. /\ shell' \in ShellStates /\ shell'.pc = "close" /\ shell'.s = shell.s
          /\ shell'.line = shell.line /\ shell'.next = shell.next /\ shell'.pids = shell.pids
          /\ shell'.pipe_r = shell.pipe_r /\ shell'.pipe_w = shell.pipe_w
      BY <1>1, <2>1, <2>3 DEF ShellStates
    <2>6. Progress(shell')
      BY <1>1, <2>1, <2>5 DEF Progress, StagesOf
    <2> QED BY <1>1, <2>1, <2>4, <2>5, <2>6
  <1>13. CASE ClosingDone
    <2> DEFINE sh == [shell EXCEPT !.todo = <<>>]
    <2>1. shell.pc = "close" /\ UNCHANGED <<tables, kids, dropped>> /\ shell' = GoesOn(sh)
      BY <1>13 DEF ClosingDone, At
    <2>2. /\ sh \in ShellStates /\ sh.pc = "close" /\ sh.line = shell.line /\ sh.s = shell.s
          /\ sh.pids = shell.pids /\ sh.pipe_r = shell.pipe_r /\ sh.pipe_w = shell.pipe_w
          /\ sh.next = shell.next
      <3>1. <<>> \in Seq(MaybeFd)
        OBVIOUS
      <3> QED BY <1>1, <2>1, <3>1 DEF ShellStates
    <2> HIDE DEF sh
    <2>3. /\ sh.s \in 1 .. StagesOf(sh) /\ (sh.next = "stage_done" => Len(sh.pids) = sh.s)
          /\ Len(sh.pipe_r) + 1 = StagesOf(sh) /\ Len(sh.pipe_w) + 1 = StagesOf(sh)
      BY <1>1, <2>1, <2>2 DEF Progress, StagesOf
    <2>4. CASE sh.next = "stage_done"
      <3>1. shell' = StageDone(sh)
        BY <2>1, <2>4 DEF GoesOn
      <3> QED BY <1>1, <2>1, <2>2, <2>3, <2>4, <3>1, StageDoneIs
    <2>5. CASE sh.next = "cleanup"
      <3>1. shell' = Cleanup(sh)
        BY <2>1, <2>5 DEF GoesOn
      <3> QED BY <1>1, <2>1, <2>2, <2>3, <2>5, <3>1, CleanupProgress
    <2>6. CASE sh.next = "prompt"
      <3>1. shell' = AtPrompt
        BY <2>1, <2>6 DEF GoesOn
      <3> QED BY <1>1, <2>1, <3>1, PromptIs
    <2> QED BY <2>2, <2>4, <2>5, <2>6 DEF ShellStates
  <1>14. CASE WaitFor \/ WaitCutShort
    <2>1. /\ shell.pc = "wait" /\ UNCHANGED <<tables, dropped>> /\ shell' = AfterWait
          /\ kids' \in [Kids -> KidStates]
      <3>1. CASE WaitFor
        BY <1>1, <3>1 DEF WaitFor, At
      <3>2. CASE WaitCutShort
        BY <1>1, <3>2, WaitLeaves DEF WaitCutShort, At, TypeOK
      <3> QED BY <1>14, <3>1, <3>2
    <2>2. CASE shell.s < Stages
      <3>1. PICK n \in Nat : n = shell.s + 1
        BY <1>2
      <3>2. shell' = [shell EXCEPT !.s = n]
        BY <2>1, <2>2, <3>1 DEF AfterWait
      <3>3. /\ shell' \in ShellStates /\ shell'.pc = "wait" /\ shell'.line = shell.line
            /\ shell'.s = n /\ shell'.pids = shell.pids
            /\ shell'.pipe_r = shell.pipe_r /\ shell'.pipe_w = shell.pipe_w
        BY <1>1, <2>1, <3>2 DEF ShellStates
      <3>4. Progress(shell')
        BY <1>1, <1>2, <1>3, <2>1, <2>2, <3>1, <3>3 DEF Progress, StagesOf
      <3> QED BY <1>1, <2>1, <3>3, <3>4
    <2>3. CASE ~(shell.s < Stages)
      <3>1. shell' = Closing(shell, shell.redirs, "cleanup")
        BY <2>1, <2>3 DEF AfterWait
      <3>2. /\ shell' \in ShellStates /\ shell'.pc = "close" /\ shell'.next = "cleanup"
            /\ shell'.line = shell.line /\ shell'.s = shell.s
            /\ shell'.pipe_r = shell.pipe_r /\ shell'.pipe_w = shell.pipe_w
        <4>1. PICK next \in {"prompt", "stage_done", "cleanup"} : next = "cleanup"
          OBVIOUS
        <4> QED BY <1>1, <1>2, <3>1, <4>1, ClosingIs
      <3>3. Progress(shell')
        BY <1>1, <2>1, <3>2 DEF Progress, StagesOf
      <3> QED BY <1>1, <2>1, <3>2, <3>3
    <2> QED BY <2>2, <2>3
  <1>15. ASSUME NEW k \in Kids, KidSteps(k) PROVE TableInv'
    <2>1. tables' \in TableStates /\ Counted(tables')
      BY <1>1, <1>15, KidStep, LevelKeeps
    <2>2. kids' \in [Kids -> KidStates] /\ UNCHANGED shell
      BY <1>1, <1>15, KidStep
    <2> QED BY <1>1, <2>1, <2>2 DEF TableInv, TypeOK, Counted
  <1>16. CASE UNCHANGED vars
    BY <1>1, <1>16 DEF vars
  <1>17. ASSUME NEW line \in Lines, ReadLine(line)
         PROVE  UNCHANGED <<tables, kids, dropped>>
    BY <1>17 DEF ReadLine
  <1>18. CASE \E line \in Lines : ReadLine(line)
    BY <1>1, <1>5, <1>17, <1>18
  <1> QED BY <1>6, <1>7, <1>9, <1>10, <1>11, <1>12, <1>13, <1>14, <1>15, <1>16, <1>18
          DEF Next, KidSteps, TableInv, TypeOK

(* Every variable of the tables, the shell and the programs stays what it  *)
(* should be: in particular no pipe is given more than PipeRoom bytes and  *)
(* the shell never closes what is no descriptor.                           *)
THEOREM TypesAreKept == Spec => []TypeOK
  <1>1. TableInv => TypeOK
    BY DEF TableInv
  <1> QED BY <1>1, TableInit, TableStep, PTL DEF Spec

(* Whatever fails half-way, the counters of each pipe are the numbers of   *)
(* descriptors of its ends, and a file's handle is open as long as the one *)
(* descriptor that has it.                                                 *)
THEOREM CountersAreExact == Spec => []DescriptorsCounted
  <1>1. TableInv => DescriptorsCounted
    <2> SUFFICES ASSUME TableInv PROVE DescriptorsCounted
      OBVIOUS
    <2>1. Counted(tables) /\ tables \in TableStates
      BY DEF TableInv, TypeOK
    <2>2. \A type, i : Pointing(type, i) = Points(tables.fds, Means(type, i))
      BY DEF Pointing, Points, Means
    <2>3. \A p \in Pipes : tables.pipes[p].level \in 0 .. PipeRoom
      BY <2>1 DEF TableStates, PipeStates
    <2> QED BY <2>1, <2>2, <2>3 DEF Counted, DescriptorsCounted
  <1> QED BY <1>1, TableInit, TableStep, PTL DEF Spec
-----------------------------------------------------------------------------
(* The shell closes what it opened, and nothing else.                      *)

(* What becomes of Safe when one descriptor is closed or opened, or when   *)
(* the shell goes on without touching the tables.                          *)
LEMMA ClosesHand ==
    ASSUME NEW fds \in [Fds -> Meanings], NEW sh, NEW H, NEW ks, NEW lost,
           Safe(fds, sh, H, ks, lost), sh.pc # "pipes", NEW f \in H \intersect Fds
    PROVE  Safe([fds EXCEPT ![f] = FreeFd], sh, H \ {f}, ks, lost)
  <1> DEFINE new == [fds EXCEPT ![f] = FreeFd]
             R == ReadEnds(sh)  W == WriteEnds(sh)  D == Redirs(sh)  T == Todo(sh)
             E == Ends(sh)
  <1>1. /\ Apart(fds, R, W, D, T, H) /\ Accounted(fds, E, lost) /\ Kept(fds, sh, H, ks)
        /\ E = R \union W \union T
    BY DEF Safe, Ends
  <1>2. fds[f].type = "file" /\ f \notin D \union E /\ E \subseteq Fds
    BY <1>1 DEF Apart
  <1>3. new[f] = FreeFd /\ FreeFd.type = "free" /\ \A g \in Fds \ {f} : new[g] = fds[g]
    BY DEF FreeFd
  <1> HIDE DEF new, R, W, D, T, E
  <1>4. Apart(new, R, W, D, T, H \ {f})
    BY <1>1, <1>2, <1>3 DEF Apart
  <1>5. Accounted(new, E, lost)
    <2>1. \A p \in lost : \E g \in Fds : new[g] = Means("pipe_r", p)
      <3> SUFFICES ASSUME NEW p \in lost PROVE \E g \in Fds : new[g] = Means("pipe_r", p)
        OBVIOUS
      <3>1. PICK g \in Fds : fds[g] = Means("pipe_r", p)
        BY <1>1 DEF Accounted
      <3>2. g # f
        BY <1>2, <3>1, MeaningFacts
      <3> QED BY <1>3, <3>1, <3>2
    <2> QED BY <1>1, <1>2, <1>3, <2>1 DEF Accounted, PipeTypes
  <1>6. Kept(new, sh, H \ {f}, ks)
    BY <1>1, <1>3 DEF Kept
  <1> QED BY <1>4, <1>5, <1>6 DEF Safe, Paired, new, R, W, D, T, E

LEMMA OpensHand ==
    ASSUME NEW fds \in [Fds -> Meanings], NEW sh, NEW H, NEW ks, NEW lost,
           Safe(fds, sh, H, ks, lost), sh.pc # "pipes",
           NEW f \in Fds, fds[f] = FreeFd, NEW h \in Handles
    PROVE  Safe([fds EXCEPT ![f] = Means("file", h)], sh, H \union {f}, ks, lost)
  <1> DEFINE new == [fds EXCEPT ![f] = Means("file", h)]
             R == ReadEnds(sh)  W == WriteEnds(sh)  D == Redirs(sh)  T == Todo(sh)
             E == Ends(sh)
  <1>1. /\ Apart(fds, R, W, D, T, H) /\ Accounted(fds, E, lost) /\ Kept(fds, sh, H, ks)
        /\ E = R \union W \union T
    BY DEF Safe, Ends
  <1>2. fds[f].type = "free" /\ f \notin D \union E \union H /\ E \subseteq Fds
    BY <1>1 DEF Apart, FreeFd
  <1>3. /\ new[f].type = "file" /\ \A g \in Fds \ {f} : new[g] = fds[g]
    BY MeaningFacts
  <1> HIDE DEF new, R, W, D, T, E
  <1>4. Apart(new, R, W, D, T, H \union {f})
    BY <1>1, <1>2, <1>3 DEF Apart
  <1>5. Accounted(new, E, lost)
    <2>1. \A p \in lost : \E g \in Fds : new[g] = Means("pipe_r", p)
      <3> SUFFICES ASSUME NEW p \in lost PROVE \E g \in Fds : new[g] = Means("pipe_r", p)
        OBVIOUS
      <3>1. PICK g \in Fds : fds[g] = Means("pipe_r", p)
        BY <1>1 DEF Accounted
      <3>2. g # f
        BY <1>2, <3>1, MeaningFacts
      <3> QED BY <1>3, <3>1, <3>2
    <2> QED BY <1>1, <1>2, <1>3, <2>1 DEF Accounted, PipeTypes
  <1>6. Kept(new, sh, H \union {f}, ks)
    <2> SUFFICES ASSUME NEW k \in Kids, NEW g \in MaybeFd, NEW m \in Meanings,
                        Gave(ks[k], g, m)
                 PROVE  /\ g \in Fds /\ new[g] = m
                        /\ g \notin Todo(sh) \union (H \union {f})
                        /\ g \in Redirs(sh) => Awaited(sh, k)
      BY DEF Kept
    <2>1. /\ g \in Fds /\ fds[g] = m /\ g \notin Todo(sh) \union H
          /\ g \in Redirs(sh) => Awaited(sh, k)
      BY <1>1 DEF Kept
    <2>2. g # f
      BY <1>2, <2>1 DEF Gave
    <2> QED BY <1>3, <2>1, <2>2
  <1> QED BY <1>4, <1>5, <1>6 DEF Safe, Paired, new, R, W, D, T, E

(* The shell goes on, the tables are as they were: it has the same         *)
(* descriptors to close and waits for no fewer live programs.              *)
LEMMA GoesOnSafe ==
    ASSUME NEW fds, NEW sh, NEW sh2, NEW H, NEW H2, NEW ks, NEW lost,
           Safe(fds, sh, H, ks, lost), Paired(fds, sh2),
           ReadEnds(sh2) = ReadEnds(sh), WriteEnds(sh2) = WriteEnds(sh),
           Redirs(sh2) = Redirs(sh), Todo(sh2) = Todo(sh), H2 \subseteq H,
           \A k \in Kids : ks[k].live /\ ~ks[k].left /\ Awaited(sh, k) => Awaited(sh2, k)
    PROVE  Safe(fds, sh2, H2, ks, lost)
  <1>1. Ends(sh2) = Ends(sh)
    BY DEF Ends
  <1>2. Kept(fds, sh2, H2, ks)
    BY DEF Safe, Kept, Gave
  <1>3. Apart(fds, ReadEnds(sh), WriteEnds(sh), Redirs(sh), Todo(sh), H2)
    BY DEF Safe, Apart
  <1> QED BY <1>1, <1>2, <1>3 DEF Safe

(* At the cleanup the ends that the shell has are what is to be closed.    *)
LEMMA CleanupSafe ==
    ASSUME NEW fds, NEW sh \in ShellStates, NEW H, NEW ks, NEW lost,
           Safe(fds, sh, H, ks, lost), Once(sh), HoldsEnds(sh), Todo(sh) = {},
           Len(sh.pipe_r) = Len(sh.pipe_w)
    PROVE  Safe(fds, Cleanup(sh), {}, ks, lost) /\ Once(Cleanup(sh))
  <1> DEFINE c == Cleanup(sh)
             R == ReadEnds(sh)  W == WriteEnds(sh)  D == Redirs(sh)
  <1>1. c.pc = "close" /\ c.next = "prompt" /\ Among(c.todo) = R \union W
    BY CleanupIs DEF ReadEnds, WriteEnds
  <1>2. Apart(fds, R, W, D, {}, H) /\ Accounted(fds, R \union W, lost) /\ Kept(fds, sh, H, ks)
    BY DEF Safe, Ends
  <1>3. OnceEach(sh.pipe_r) /\ OnceEach(sh.pipe_w) /\ R \intersect W = {}
    <2>1. R \intersect W = {}
      BY <1>2 DEF Apart
    <2> QED BY <2>1 DEF Once
  <1>4. OnceEach(c.todo)
    BY <1>3, CleanupIs DEF ReadEnds, WriteEnds
  <1> HIDE DEF c
  <1>5. ReadEnds(c) = {} /\ WriteEnds(c) = {} /\ Redirs(c) = {} /\ Todo(c) = R \union W
    BY <1>1 DEF ReadEnds, WriteEnds, Redirs, Todo, HoldsEnds, HoldsRedirs
  <1>6. Once(c)
    BY <1>1, <1>4 DEF Once, HoldsEnds, HoldsRedirs
  <1>7. Ends(c) = R \union W
    BY <1>5 DEF Ends
  <1> HIDE DEF R, W, D
  <1>8. Apart(fds, {}, {}, {}, R \union W, {})
    BY <1>2 DEF Apart
  <1>9. Kept(fds, c, {}, ks)
    <2> SUFFICES ASSUME NEW k \in Kids, NEW g \in MaybeFd, NEW m \in Meanings,
                        Gave(ks[k], g, m)
                 PROVE  g \in Fds /\ fds[g] = m /\ g \notin R \union W
      BY <1>5 DEF Kept
    <2>1. g \in Fds /\ fds[g] = m /\ fds[g].type = "file"
      BY <1>2 DEF Kept, Gave
    <2> QED BY <1>2, <2>1 DEF Apart
  <1>10. Paired(fds, c)
    BY <1>1 DEF Paired
  <1> QED BY <1>2, <1>5, <1>6, <1>7, <1>8, <1>9, <1>10 DEF Safe, c
LEMMA ClosesNext ==
    ASSUME NEW fds \in [Fds -> Meanings], NEW sh, NEW sh2, NEW H, NEW ks, NEW lost,
           Safe(fds, sh, H, ks, lost), sh2.pc # "pipes",
           NEW f \in Todo(sh), Todo(sh2) = Todo(sh) \ {f},
           ReadEnds(sh2) = ReadEnds(sh), WriteEnds(sh2) = WriteEnds(sh),
           Redirs(sh2) = Redirs(sh), \A k \in Kids : Awaited(sh, k) => Awaited(sh2, k)
    PROVE  Safe([fds EXCEPT ![f] = FreeFd], sh2, H, ks, lost)
  <1> DEFINE new == [fds EXCEPT ![f] = FreeFd]
             R == ReadEnds(sh)  W == WriteEnds(sh)  D == Redirs(sh)  T == Todo(sh)
  <1>1. /\ Apart(fds, R, W, D, T, H) /\ Accounted(fds, R \union W \union T, lost)
        /\ Kept(fds, sh, H, ks)
    BY DEF Safe, Ends
  <1>2. f \in Fds /\ f \notin R \union W \union D \union H
    BY <1>1 DEF Apart
  <1>3. new[f] = FreeFd /\ FreeFd.type = "free" /\ \A g \in Fds \ {f} : new[g] = fds[g]
    BY <1>2 DEF FreeFd
  <1>4. Ends(sh2) = R \union W \union (T \ {f})
    BY DEF Ends
  <1> HIDE DEF new, R, W, D
  <1>5. Apart(new, R, W, D, T \ {f}, H)
    BY <1>1, <1>2, <1>3 DEF Apart
  <1>6. Accounted(new, R \union W \union (T \ {f}), lost)
    <2>1. \A p \in lost : \E g \in Fds : new[g] = Means("pipe_r", p)
      <3> SUFFICES ASSUME NEW p \in lost PROVE \E g \in Fds : new[g] = Means("pipe_r", p)
        OBVIOUS
      <3>1. PICK g \in Fds : fds[g] = Means("pipe_r", p)
        BY <1>1 DEF Accounted
      <3>2. g # f
        <4>1. fds[g].type \in PipeTypes /\ fds[g].index = p
          BY <3>1, MeaningFacts DEF PipeTypes
        <4> QED BY <1>1, <4>1 DEF Accounted
      <3> QED BY <1>3, <3>1, <3>2
    <2> QED BY <1>1, <1>2, <1>3, <2>1 DEF Accounted, PipeTypes, Apart
  <1>7. Kept(new, sh2, H, ks)
    <2> SUFFICES ASSUME NEW k \in Kids, NEW g \in MaybeFd, NEW m \in Meanings,
                        Gave(ks[k], g, m)
                 PROVE  /\ g \in Fds /\ new[g] = m /\ g \notin T \union H
                        /\ g \in D => Awaited(sh2, k)
      BY DEF Kept, D
    <2>1. /\ g \in Fds /\ fds[g] = m /\ g \notin T \union H
          /\ g \in D => Awaited(sh, k)
      BY <1>1 DEF Kept, D
    <2> QED BY <1>3, <2>1
  <1> QED BY <1>4, <1>5, <1>6, <1>7 DEF Safe, Paired, new, R, W, D

(* A new pipe: both its ends are held.                                     *)
LEMMA PipeSafe ==
    ASSUME NEW fds \in [Fds -> Meanings], NEW sh, NEW sh2, NEW ks, NEW lost,
           Safe(fds, sh, {}, ks, lost),
           NEW r \in Fds, NEW w \in Fds, r # w, fds[r] = FreeFd, fds[w] = FreeFd,
           NEW p \in Pipes, p \notin lost, NEW new,
           new = [[fds EXCEPT ![r] = Means("pipe_r", p)] EXCEPT ![w] = Means("pipe_w", p)],
           ReadEnds(sh2) = ReadEnds(sh) \union {r}, WriteEnds(sh2) = WriteEnds(sh) \union {w},
           Redirs(sh2) = {}, Todo(sh) = {}, Todo(sh2) = {}, Paired(new, sh2)
    PROVE  Safe(new, sh2, {}, ks, lost)
  <1> DEFINE R == ReadEnds(sh)  W == WriteEnds(sh)
  <1>1. /\ Apart(fds, R, W, Redirs(sh), {}, {}) /\ Accounted(fds, R \union W, lost)
        /\ Kept(fds, sh, {}, ks)
    BY DEF Safe, Ends
  <1>2. /\ fds[r].type = "free" /\ fds[w].type = "free"
        /\ r \notin R \union W /\ w \notin R \union W
    BY <1>1 DEF Apart, FreeFd
  <1>3. /\ new[r] = Means("pipe_r", p) /\ new[w] = Means("pipe_w", p)
        /\ \A g \in Fds \ {r, w} : new[g] = fds[g]
    OBVIOUS
  <1>4. /\ new[r].type = "pipe_r" /\ new[r].index = p
        /\ new[w].type = "pipe_w" /\ new[w].index = p
    BY <1>3, MeaningFacts
  <1>5. Ends(sh2) = (R \union {r}) \union (W \union {w})
    BY DEF Ends
  <1> HIDE DEF R, W
  <1>6. Apart(new, R \union {r}, W \union {w}, {}, {}, {})
    BY <1>1, <1>2, <1>3, <1>4 DEF Apart
  <1>7. Accounted(new, (R \union {r}) \union (W \union {w}), lost)
    <2>1. \A x \in lost : \E g \in Fds : new[g] = Means("pipe_r", x)
      <3> SUFFICES ASSUME NEW x \in lost PROVE \E g \in Fds : new[g] = Means("pipe_r", x)
        OBVIOUS
      <3>1. PICK g \in Fds : fds[g] = Means("pipe_r", x)
        BY <1>1 DEF Accounted
      <3>2. g # r /\ g # w
        BY <1>2, <3>1, MeaningFacts
      <3> QED BY <1>3, <3>1, <3>2
    <2>2. R \union W \subseteq Fds
      BY <1>1 DEF Apart
    <2> QED BY <1>1, <1>2, <1>3, <1>4, <2>1, <2>2 DEF Accounted
  <1>8. Kept(new, sh2, {}, ks)
    <2> SUFFICES ASSUME NEW k \in Kids, NEW g \in MaybeFd, NEW m \in Meanings,
                        Gave(ks[k], g, m)
                 PROVE  g \in Fds /\ new[g] = m
      BY DEF Kept
    <2>1. g \in Fds /\ fds[g] = m /\ m.type = "file"
      BY <1>1 DEF Kept, Gave
    <2>2. g # r /\ g # w
      BY <1>2, <2>1
    <2> QED BY <1>3, <2>1, <2>2
  <1> QED BY <1>5, <1>6, <1>7, <1>8 DEF Safe, R, W

LEMMA AppendedEnds ==
    ASSUME NEW q \in Seq(MaybeFd), NEW f \in Fds
    PROVE  /\ Among(Append(q, f)) = Among(q) \union {f}
           /\ OnceEach(q) /\ f \notin Among(q) => OnceEach(Append(q, f))
  <1> DEFINE n == Len(q)  q2 == Append(q, f)
  <1>1. /\ n \in Nat /\ DOMAIN q = 1 .. n /\ DOMAIN q2 = 1 .. n + 1
        /\ q2[n + 1] = f /\ \A i \in 1 .. n : q2[i] = q[i]
    OBVIOUS
  <1>2. f # Nothing
    BY Numbers
  <1> HIDE DEF q2, n
  <1>3. 1 .. n + 1 = (1 .. n) \union {n + 1} /\ n + 1 \notin 1 .. n
    BY <1>1
  <1>4. Among(q2) = Among(q) \union {f}
    BY <1>1, <1>2, <1>3 DEF Among
  <1>5. ASSUME OnceEach(q), f \notin Among(q) PROVE OnceEach(q2)
    BY <1>1, <1>2, <1>3, <1>5 DEF Among, OnceEach
  <1> QED BY <1>4, <1>5 DEF q2
(* The stage's ends are taken out of the shell's lists and closed; its     *)
(* redirections are added to those to be closed after the wait, or given   *)
(* up.                                                                     *)
LEMMA ForgottenEnd ==
    ASSUME NEW q \in Seq(MaybeFd), OnceEach(q), NEW x,
           NEW a, a = IF x \in DOMAIN q THEN q[x] ELSE Nothing
    PROVE  OnceEach(Without(q, x)) /\ Among(Without(q, x)) = Among(q) \ {a}
  <1> DEFINE q2 == Without(q, x)
  <1>1. DOMAIN q2 = DOMAIN q /\ \A i \in DOMAIN q : q2[i] = IF i = x THEN Nothing ELSE q[i]
    BY DEF Without
  <1> HIDE DEF q2
  <1>2. OnceEach(q2)
    BY <1>1 DEF OnceEach
  <1>3. ASSUME NEW f \in Among(q2) PROVE f \in Among(q) \ {a}
    <2>1. PICK i \in DOMAIN q : q2[i] = f /\ f # Nothing
      BY <1>1, <1>3 DEF Among
    <2>2. i # x /\ q[i] = f
      BY <1>1, <2>1
    <2>3. f # a
      BY <2>1, <2>2 DEF OnceEach
    <2> QED BY <2>1, <2>2, <2>3 DEF Among
  <1>4. ASSUME NEW f \in Among(q) \ {a} PROVE f \in Among(q2)
    <2>1. PICK i \in DOMAIN q : q[i] = f /\ f # Nothing
      BY <1>4 DEF Among
    <2>2. i # x
      BY <1>4, <2>1
    <2>3. q2[i] = f
      BY <1>1, <2>1, <2>2
    <2> QED BY <1>1, <2>1, <2>3 DEF Among
  <1> QED BY <1>2, <1>3, <1>4 DEF q2

LEMMA PairAmong ==
    ASSUME NEW a \in MaybeFd, NEW b \in MaybeFd, a # b \/ a = Nothing
    PROVE  Among(<<a, b>>) = {a, b} \ {Nothing} /\ OnceEach(<<a, b>>)
  <1>1. DOMAIN <<a, b>> = {1, 2} /\ <<a, b>>[1] = a /\ <<a, b>>[2] = b
    OBVIOUS
  <1> DEFINE q == <<a, b>>
  <1>2. DOMAIN q = {1, 2} /\ q[1] = a /\ q[2] = b
    BY <1>1
  <1> HIDE DEF q
  <1>3. Among(q) = {a, b} \ {Nothing}
    BY <1>2 DEF Among
  <1>4. OnceEach(q)
    BY <1>2 DEF OnceEach
  <1> QED BY <1>3, <1>4 DEF q

WithPair(q, a, b) == q \o <<a, b>>
LEMMA AppendedPair ==
    ASSUME NEW q \in Seq(MaybeFd), NEW a \in MaybeFd, NEW b \in MaybeFd
    PROVE  /\ Among(WithPair(q, a, b)) = Among(q) \union ({a, b} \ {Nothing})
           /\ OnceEach(q) /\ a \notin Among(q) /\ b \notin Among(q) /\ (a # b \/ a = Nothing)
                => OnceEach(WithPair(q, a, b))
  <1> DEFINE n == Len(q)  q2 == WithPair(q, a, b)
  <1>1. /\ n \in Nat /\ DOMAIN q = 1 .. n /\ DOMAIN q2 = 1 .. n + 2
        /\ q2[n + 1] = a /\ q2[n + 2] = b /\ \A i \in 1 .. n : q2[i] = q[i]
    BY DEF WithPair
  <1> HIDE DEF n, q2
  <1>2. /\ 1 .. n + 2 = (1 .. n) \union {n + 1, n + 2}
        /\ n + 1 \notin 1 .. n /\ n + 2 \notin 1 .. n /\ n + 1 # n + 2
    BY <1>1
  <1>3. Among(q2) = Among(q) \union ({a, b} \ {Nothing})
    <2>1. ASSUME NEW f \in Among(q2) PROVE f \in Among(q) \union ({a, b} \ {Nothing})
      <3>1. PICK i \in 1 .. n + 2 : q2[i] = f /\ f # Nothing
        BY <1>1, <2>1 DEF Among
      <3> QED BY <1>1, <1>2, <3>1 DEF Among
    <2>2. ASSUME NEW f \in Among(q) PROVE f \in Among(q2)
      <3>1. PICK i \in 1 .. n : q[i] = f /\ f # Nothing
        BY <1>1, <2>2 DEF Among
      <3> QED BY <1>1, <1>2, <3>1 DEF Among
    <2>3. ASSUME NEW f \in {a, b} \ {Nothing} PROVE f \in Among(q2)
      <3>1. \E i \in {n + 1, n + 2} : q2[i] = f
        BY <1>1, <2>3
      <3> QED BY <1>1, <1>2, <2>3, <3>1 DEF Among
    <2> QED BY <2>1, <2>2, <2>3
  <1>4. ASSUME OnceEach(q), a \notin Among(q), b \notin Among(q), a # b \/ a = Nothing
        PROVE  OnceEach(q2)
    <2>1. \A i \in 1 .. n : q[i] # Nothing => q[i] # a /\ q[i] # b
      BY <1>1, <1>4 DEF Among
    <2>2. \A i, j \in 1 .. n : q2[i] = q2[j] /\ q2[i] # Nothing => i = j
      BY <1>1, <1>4 DEF OnceEach
    <2>3. \A i \in 1 .. n : q2[i] # Nothing => q2[i] # q2[n + 1] /\ q2[i] # q2[n + 2]
      BY <1>1, <2>1
    <2>4. q2[n + 1] # q2[n + 2] \/ q2[n + 1] = Nothing
      BY <1>1, <1>4
    <2> QED BY <1>1, <1>2, <2>2, <2>3, <2>4 DEF OnceEach
  <1> QED BY <1>3, <1>4 DEF q2

LEMMA SpawnSafe ==
    ASSUME NEW fds \in [Fds -> Meanings], NEW sh, NEW sh2, NEW H, NEW ks, NEW lost,
           Safe(fds, sh, H, ks, lost), Todo(sh) = {}, sh2.pc # "pipes",
           NEW a, NEW b, a \in ReadEnds(sh) \/ a = Nothing, b \in WriteEnds(sh) \/ b = Nothing,
           ReadEnds(sh2) = ReadEnds(sh) \ {a}, WriteEnds(sh2) = WriteEnds(sh) \ {b},
           Todo(sh2) = {a, b} \ {Nothing},
           Redirs(sh2) \subseteq Redirs(sh) \union H, \A k \in Kids : Awaited(sh, k) => Awaited(sh2, k)
    PROVE  Safe(fds, sh2, {}, ks, lost)
  <1> DEFINE R == ReadEnds(sh)  W == WriteEnds(sh)  D == Redirs(sh)  D2 == Redirs(sh2)
             T2 == {a, b} \ {Nothing}
  <1>1. /\ Apart(fds, R, W, D, {}, H) /\ Accounted(fds, R \union W, lost)
        /\ Kept(fds, sh, H, ks)
    BY DEF Safe, Ends
  <1>2. T2 \subseteq R \union W /\ Nothing \notin Fds
    BY Numbers
  <1>3. /\ a # Nothing => a \in R /\ fds[a].type = "pipe_r"
        /\ b # Nothing => b \in W /\ fds[b].type = "pipe_w"
        /\ R \union W \union D \union H \subseteq Fds
    BY <1>1 DEF Apart
  <1>4. Ends(sh2) = (R \ {a}) \union (W \ {b}) \union T2
    BY DEF Ends
  <1>5. (R \ {a}) \union (W \ {b}) \union T2 = R \union W
    BY <1>2, <1>3
  <1>6. Apart(fds, R \ {a}, W \ {b}, D2, T2, {})
    <2>1. \A f \in T2 : fds[f].type \in PipeTypes
      BY <1>3 DEF PipeTypes
    <2>2. \A f \in D2 : fds[f].type = "file" /\ f \in Fds
      BY <1>1 DEF Apart
    <2>3. a # b \/ a = Nothing
      BY <1>3
    <2>4. T2 \intersect (R \ {a}) = {} /\ T2 \intersect (W \ {b}) = {} /\ T2 \intersect D2 = {}
      <3>1. a # Nothing => a \notin W
        BY <1>1, <1>3 DEF Apart
      <3>2. b # Nothing => b \notin R
        BY <1>1, <1>3 DEF Apart
      <3>3. T2 \intersect D2 = {}
        BY <2>1, <2>2 DEF PipeTypes
      <3> QED BY <3>1, <3>2, <3>3
    <2>5. /\ \A f \in R : fds[f].type = "pipe_r" /\ f \in Fds
          /\ \A f \in W : fds[f].type = "pipe_w" /\ f \in Fds
          /\ T2 \subseteq Fds
      BY <1>1, <1>2 DEF Apart
    <2> HIDE DEF T2, D2, R, W
    <2> QED BY <2>1, <2>2, <2>4, <2>5 DEF Apart, PipeTypes
  <1>7. Kept(fds, sh2, {}, ks)
    <2> SUFFICES ASSUME NEW k \in Kids, NEW g \in MaybeFd, NEW m \in Meanings,
                        Gave(ks[k], g, m)
                 PROVE  /\ g \in Fds /\ fds[g] = m /\ g \notin T2
                        /\ g \in D2 => Awaited(sh2, k)
      BY DEF Kept
    <2>1. /\ g \in Fds /\ fds[g] = m /\ g \notin H /\ m.type = "file"
          /\ g \in D => Awaited(sh, k)
      BY <1>1 DEF Kept, Gave
    <2>2. g \notin T2
      BY <1>3, <2>1
    <2> QED BY <2>1, <2>2
  <1> HIDE DEF R, W, T2
  <1> QED BY <1>1, <1>4, <1>5, <1>6, <1>7 DEF Safe, Paired, R, W, T2
LEMMA NothingHeld ==
    /\ Among(<<>>) = {} /\ OnceEach(<<>>)
    /\ \A sh : sh.pc = "prompt" =>
          /\ ReadEnds(sh) = {} /\ WriteEnds(sh) = {} /\ Redirs(sh) = {} /\ Todo(sh) = {}
          /\ InHand(sh) = {} /\ Once(sh)
    /\ \A sh : sh.pc \notin {"open_out", "spawn"} => InHand(sh) = {}
    /\ \A sh : sh.pc # "close" => Todo(sh) = {}
    /\ \A fds, sh : sh.pc # "pipes" => Paired(fds, sh)
  <1>1. Among(<<>>) = {} /\ OnceEach(<<>>)
    BY DEF Among, OnceEach
  <1>2. \A sh : sh.pc \notin {"open_out", "spawn"} => InHand(sh) = {}
    BY DEF InHand
  <1>3. \A sh : sh.pc = "prompt" =>
          /\ ReadEnds(sh) = {} /\ WriteEnds(sh) = {} /\ Redirs(sh) = {} /\ Todo(sh) = {}
          /\ Once(sh)
    BY DEF ReadEnds, WriteEnds, Redirs, Todo, Once, HoldsEnds, HoldsRedirs
  <1>4. \A sh : sh.pc # "close" => Todo(sh) = {}
    BY DEF Todo
  <1>5. \A fds, sh : sh.pc # "pipes" => Paired(fds, sh)
    BY DEF Paired
  <1> QED BY <1>1, <1>2, <1>3, <1>4, <1>5

LEMMA PromptSafe ==
    ASSUME NEW fds, NEW sh, NEW H, NEW ks, NEW lost, Safe(fds, sh, H, ks, lost),
           ReadEnds(sh) = {}, WriteEnds(sh) = {}, Todo(sh) = {}
    PROVE  Safe(fds, AtPrompt, {}, ks, lost) /\ Once(AtPrompt)
  <1>1. AtPrompt.pc = "prompt"
    BY DEF AtPrompt
  <1>2. /\ ReadEnds(AtPrompt) = {} /\ WriteEnds(AtPrompt) = {} /\ Redirs(AtPrompt) = {}
        /\ Todo(AtPrompt) = {} /\ Once(AtPrompt) /\ Paired(fds, AtPrompt)
    BY <1>1, NothingHeld
  <1>3. Ends(AtPrompt) = {} /\ Ends(sh) = {}
    BY <1>2 DEF Ends
  <1>4. Kept(fds, AtPrompt, {}, ks)
    BY <1>2 DEF Safe, Kept
  <1>5. Apart(fds, {}, {}, {}, {}, {})
    BY DEF Apart
  <1> QED BY <1>2, <1>3, <1>4, <1>5 DEF Safe

(* At the end of a stage the shell goes on to the next, to the wait, or,   *)
(* in the background, to the cleanup.                                      *)
LEMMA StageDoneSafe ==
    ASSUME NEW fds, NEW sh \in ShellStates, NEW ks, NEW lost,
           Safe(fds, sh, {}, ks, lost), Once(sh), Todo(sh) = {},
           HoldsEnds(sh), HoldsRedirs(sh), sh.pc # "wait",
           sh.line = shell.line, sh.s \in 1 .. StagesOf(sh),
           Len(sh.pipe_r) + 1 = StagesOf(sh), Len(sh.pipe_w) + 1 = StagesOf(sh),
           Len(sh.pids) = sh.s
    PROVE  LET d == StageDone(sh)
           IN  Safe(fds, d, InHand(d), ks, lost) /\ Once(d)
  <1> DEFINE d == StageDone(sh)
  <1>1. /\ d \in ShellStates
        /\ \/ d = Cleanup(sh)
           \/ /\ d.pc \in {"stage", "wait"}
              /\ d.pipe_r = sh.pipe_r /\ d.pipe_w = sh.pipe_w
              /\ d.redirs = sh.redirs /\ d.pids = sh.pids
              /\ d.pc = "wait" => d.s = 1
    BY StageDoneIs
  <1> HIDE DEF d
  <1>2. Len(sh.pipe_r) = Len(sh.pipe_w)
    <2>1. Len(sh.pipe_r) \in Nat /\ Len(sh.pipe_w) \in Nat
      BY DEF ShellStates
    <2> QED BY <2>1
  <1>3. CASE d = Cleanup(sh)
    <2>1. d.pc = "close"
      BY <1>2, <1>3, CleanupIs
    <2>2. InHand(d) = {}
      BY <2>1, NothingHeld
    <2> QED BY <1>2, <1>3, <2>2, CleanupSafe DEF d
  <1>4. CASE d # Cleanup(sh)
    <2>1. /\ d.pc \in {"stage", "wait"}
          /\ d.pipe_r = sh.pipe_r /\ d.pipe_w = sh.pipe_w
          /\ d.redirs = sh.redirs /\ d.pids = sh.pids
          /\ d.pc = "wait" => d.s = 1
      BY <1>1, <1>4
    <2>2. HoldsEnds(d) /\ HoldsRedirs(d) /\ d.pc \notin {"pipes", "close", "open_out", "spawn"}
      BY <2>1 DEF HoldsEnds, HoldsRedirs
    <2>3. /\ ReadEnds(d) = ReadEnds(sh) /\ WriteEnds(d) = WriteEnds(sh)
          /\ Redirs(d) = Redirs(sh) /\ Todo(d) = {} /\ InHand(d) = {} /\ Paired(fds, d)
      BY <2>1, <2>2, NothingHeld DEF ReadEnds, WriteEnds, Redirs
    <2>4. \A k \in Kids : Awaited(sh, k) => Awaited(d, k)
      <3> SUFFICES ASSUME NEW k \in Kids, Awaited(sh, k) PROVE Awaited(d, k)
        OBVIOUS
      <3>1. PICK i \in DOMAIN sh.pids : sh.pids[i] = k
        BY DEF Awaited
      <3>2. i >= 1
        BY DEF ShellStates
      <3> QED BY <2>1, <3>1, <3>2 DEF Awaited
    <2>5. Once(d)
      BY <2>1, <2>2 DEF Once
    <2>6. Safe(fds, d, {}, ks, lost)
      BY <2>3, <2>4, GoesOnSafe
    <2> QED BY <2>3, <2>5, <2>6 DEF d
  <1> QED BY <1>3, <1>4
-----------------------------------------------------------------------------
(* The steps of the shell and of the programs, one by one.                 *)
LEMMA Here ==
    ASSUME TableInv, ShellInv
    PROVE  /\ TypeOK /\ Counted(tables) /\ Progress(shell) /\ Once(shell)
           /\ Safe(tables.fds, shell, InHand(shell), kids, dropped)
           /\ tables \in TableStates /\ tables.fds \in [Fds -> Meanings]
           /\ shell \in ShellStates /\ shell.s \in Nat
           /\ shell.pipe_r \in Seq(MaybeFd) /\ shell.pipe_w \in Seq(MaybeFd)
           /\ shell.redirs \in Seq(MaybeFd) /\ shell.todo \in Seq(MaybeFd)
           /\ shell.redir_in \in MaybeFd /\ shell.redir_out \in MaybeFd
           /\ shell.pids \in Seq(Kids \union {Nothing})
           /\ Stages \in Nat /\ Stages = StagesOf(shell)
  <1>1. shell \in ShellStates /\ tables \in TableStates
    BY DEF TableInv, TypeOK
  <1>2. tables.fds \in [Fds -> Meanings]
    BY <1>1 DEF TableStates
  <1> QED BY <1>1, <1>2 DEF TableInv, ShellInv, ShellStates, Stages, StagesOf

LEMMA ShellInit == Init => ShellInv
  <1> SUFFICES ASSUME Init PROVE ShellInv
    OBVIOUS
  <1>1. /\ shell = AtPrompt /\ shell.pc = "prompt" /\ dropped = {}
        /\ \A f \in Fds : tables.fds[f] = FreeFd
        /\ \A k \in Kids : ~kids[k].live
    BY DEF Init, AtPrompt, EmptyTables, NoKid
  <1>2. /\ ReadEnds(shell) = {} /\ WriteEnds(shell) = {} /\ Redirs(shell) = {}
        /\ Todo(shell) = {} /\ InHand(shell) = {} /\ Once(shell) /\ Paired(tables.fds, shell)
    BY <1>1, NothingHeld
  <1>3. Ends(shell) = {}
    BY <1>2 DEF Ends
  <1>4. Apart(tables.fds, {}, {}, {}, {}, {})
    BY DEF Apart
  <1>5. Accounted(tables.fds, {}, dropped)
    BY <1>1 DEF Accounted, PipeTypes, FreeFd
  <1>6. Kept(tables.fds, shell, {}, kids)
    BY <1>1 DEF Kept, Gave
  <1> QED BY <1>2, <1>3, <1>4, <1>5, <1>6 DEF ShellInv, Safe

LEMMA ReadLineSafe ==
    ASSUME TableInv, ShellInv, NEW line \in Lines, ReadLine(line)
    PROVE  ShellInv'
  <1>1. /\ shell' = [AtPrompt EXCEPT !.line = line, !.s = 1,
                        !.pc = IF Len(line.stages) > 1 THEN "pipes" ELSE "stage"]
        /\ UNCHANGED <<tables, kids, dropped>> /\ shell.pc = "prompt"
    BY DEF ReadLine, At
  <1>2. /\ shell'.pc \in {"pipes", "stage"} /\ shell'.pipe_r = <<>> /\ shell'.pipe_w = <<>>
        /\ shell'.redirs = <<>>
    BY <1>1 DEF AtPrompt
  <1>3. /\ ReadEnds(shell) = {} /\ WriteEnds(shell) = {} /\ Redirs(shell) = {}
        /\ Todo(shell) = {} /\ InHand(shell) = {}
    BY <1>1, NothingHeld
  <1>4. Todo(shell') = {} /\ InHand(shell') = {}
    BY <1>2, NothingHeld
  <1>5. ReadEnds(shell') = {} /\ WriteEnds(shell') = {} /\ Redirs(shell') = {}
    BY <1>2, NothingHeld DEF ReadEnds, WriteEnds, Redirs
  <1>6. Once(shell')
    BY <1>2, NothingHeld DEF Once
  <1>7. Paired(tables.fds, shell')
    <2>1. DOMAIN <<>> = {}
      OBVIOUS
    <2> QED BY <1>2, <2>1 DEF Paired
  <1>8. Ends(shell') = {} /\ Ends(shell) = {}
    BY <1>3, <1>4, <1>5 DEF Ends
  <1>9. /\ Kept(tables.fds, shell, {}, kids) /\ Accounted(tables.fds, {}, dropped)
        /\ Apart(tables.fds, {}, {}, {}, {}, {})
    BY <1>3, <1>8, Here DEF Safe
  <1>10. Kept(tables.fds, shell', {}, kids)
    BY <1>4, <1>5, <1>9 DEF Kept
  <1>11. Safe(tables.fds, shell', {}, kids, dropped)
    BY <1>4, <1>5, <1>7, <1>8, <1>9, <1>10 DEF Safe
  <1> QED BY <1>1, <1>4, <1>6, <1>11 DEF ShellInv
LEMMA PipeMade ==
    ASSUME TableInv, ShellInv, sys_pipe, vfs_pipe(tables).r # Nothing
    PROVE  ShellInv'
  <1> DEFINE made == vfs_pipe(tables)  fds == tables.fds  r == made.r  w == made.w
             pr == Append(shell.pipe_r, r)  pw == Append(shell.pipe_w, w)
             sh == [shell EXCEPT !.pipe_r = pr, !.pipe_w = pw]
  <1>1. /\ MakesPipe(tables, made) /\ shell.pc = "pipes" /\ tables' = made.t
        /\ UNCHANGED kids /\ UNCHANGED dropped
        /\ shell' = (IF Len(sh.pipe_r) + 1 < Stages THEN sh ELSE [sh EXCEPT !.pc = "stage"])
    BY Here, PipeCounts DEF sys_pipe, At
  <1>2. /\ r \in Fds /\ w \in Fds /\ r # w /\ fds[r] = FreeFd /\ fds[w] = FreeFd
    BY <1>1 DEF MakesPipe
  <1>3. PICK p \in Pipes :
           /\ ~tables.pipes[p].used
           /\ tables'.fds = [[fds EXCEPT ![r] = Means("pipe_r", p)] EXCEPT ![w] = Means("pipe_w", p)]
    BY <1>1 DEF MakesPipe
  <1> DEFINE new == tables'.fds
  <1>4. /\ shell'.pc \in {"pipes", "stage"} /\ shell'.pipe_r = pr /\ shell'.pipe_w = pw
        /\ shell'.redirs = <<>>
    <2>1. shell.redirs = <<>>
      BY <1>1, Here DEF Progress
    <2> HIDE DEF pr, pw
    <2>2. /\ sh.pc = "pipes" /\ sh.pipe_r = pr /\ sh.pipe_w = pw /\ sh.redirs = <<>>
          /\ [sh EXCEPT !.pc = "stage"].pc = "stage" /\ [sh EXCEPT !.pc = "stage"].pipe_r = pr
          /\ [sh EXCEPT !.pc = "stage"].pipe_w = pw /\ [sh EXCEPT !.pc = "stage"].redirs = <<>>
      BY <1>1, <2>1, Here DEF ShellStates
    <2> HIDE DEF sh
    <2> QED BY <1>1, <2>2
  <1> HIDE DEF made, sh, r, w
  <1>5. InHand(shell) = {} /\ Todo(shell) = {} /\ InHand(shell') = {} /\ Todo(shell') = {}
    BY <1>1, <1>4, NothingHeld
  <1>6. /\ ReadEnds(shell) = Among(shell.pipe_r) /\ WriteEnds(shell) = Among(shell.pipe_w)
        /\ OnceEach(shell.pipe_r) /\ OnceEach(shell.pipe_w)
    BY <1>1, Here DEF ReadEnds, WriteEnds, HoldsEnds, Once
  <1>7. /\ Apart(fds, ReadEnds(shell), WriteEnds(shell), Redirs(shell), {}, {})
        /\ Accounted(fds, Ends(shell), dropped) /\ Paired(fds, shell)
    BY <1>5, Here DEF Safe
  <1>8. /\ r \notin Among(shell.pipe_r) /\ w \notin Among(shell.pipe_w)
        /\ r \notin Among(shell.pipe_w) /\ w \notin Among(shell.pipe_r)
    BY <1>2, <1>6, <1>7 DEF Apart, FreeFd
  <1>9. /\ Among(pr) = Among(shell.pipe_r) \union {r} /\ OnceEach(pr)
        /\ Among(pw) = Among(shell.pipe_w) \union {w} /\ OnceEach(pw)
    <2> HIDE DEF pr, pw
    <2>1. pr = Append(shell.pipe_r, r) /\ pw = Append(shell.pipe_w, w)
      BY DEF pr, pw
    <2> QED BY <1>2, <1>6, <1>8, <2>1, Here, AppendedEnds
  <1>10. Once(shell')
    BY <1>4, <1>9, NothingHeld DEF Once
  <1>11. p \notin dropped
    <2> SUFFICES ASSUME p \in dropped PROVE FALSE
      OBVIOUS
    <2>1. PICK f \in Fds : fds[f] = Means("pipe_r", p)
      BY <1>7 DEF Accounted
    <2>2. Cardinality(Points(fds, Means("pipe_r", p))) > 0
      BY <2>1, SomePoint
    <2>3. /\ Cardinality(Points(fds, Means("pipe_w", p))) \in Nat
          /\ Cardinality(Points(fds, Means("pipe_r", p))) \in Nat
      BY SomePoint
    <2> QED BY <1>3, <2>2, <2>3, Here DEF Counted
  <1>12. Paired(new, shell')
    <2> SUFFICES ASSUME shell'.pc = "pipes", NEW i \in DOMAIN pr
                 PROVE  pr[i] # Nothing /\ pw[i] # Nothing /\ new[pr[i]].index = new[pw[i]].index
      BY <1>4 DEF Paired
    <2> DEFINE n == Len(shell.pipe_r)
    <2>1. /\ n \in Nat /\ n = Len(shell.pipe_w) /\ DOMAIN shell.pipe_r = 1 .. n
          /\ DOMAIN shell.pipe_w = 1 .. n
          /\ DOMAIN pr = 1 .. n + 1 /\ pr[n + 1] = r /\ pw[n + 1] = w
          /\ \A j \in 1 .. n : pr[j] = shell.pipe_r[j] /\ pw[j] = shell.pipe_w[j]
      <3>1. Len(shell.pipe_r) = Len(shell.pipe_w)
        BY <1>1, Here DEF Progress
      <3>2. shell.pipe_r \in Seq(MaybeFd) /\ shell.pipe_w \in Seq(MaybeFd)
        BY Here
      <3>3. r \in MaybeFd /\ w \in MaybeFd
        BY <1>2 DEF MaybeFd
      <3>4. ASSUME NEW q \in Seq(MaybeFd), NEW x \in MaybeFd
            PROVE  LET q2 == Append(q, x)
                   IN  /\ Len(q) \in Nat /\ DOMAIN q = 1 .. Len(q)
                       /\ DOMAIN q2 = 1 .. Len(q) + 1 /\ q2[Len(q) + 1] = x
                       /\ \A j \in 1 .. Len(q) : q2[j] = q[j]
        OBVIOUS
      <3>5. /\ n \in Nat /\ DOMAIN shell.pipe_r = 1 .. n
            /\ DOMAIN pr = 1 .. n + 1 /\ pr[n + 1] = r
            /\ \A j \in 1 .. n : pr[j] = shell.pipe_r[j]
        BY <3>2, <3>3, <3>4, Zenon
      <3> DEFINE m == Len(shell.pipe_w)
      <3>6. /\ DOMAIN shell.pipe_w = 1 .. m /\ pw[m + 1] = w
            /\ \A j \in 1 .. m : pw[j] = shell.pipe_w[j]
        BY <3>2, <3>3, <3>4, Zenon
      <3> HIDE DEF n, m, pr, pw
      <3>7. n = m
        BY <3>1 DEF n, m
      <3> QED BY <3>5, <3>6, <3>7 DEF m
    <2>2. CASE i = n + 1
      <3>1. new[r] = Means("pipe_r", p) /\ new[w] = Means("pipe_w", p)
        BY <1>2, <1>3, Here
      <3>2. Means("pipe_r", p).index = Means("pipe_w", p).index
        BY MeaningFacts
      <3> HIDE DEF new, pr, pw
      <3>3. new[pr[i]].index = new[pw[i]].index
        BY <2>1, <2>2, <3>1, <3>2, Zenon
      <3>4. r # Nothing /\ w # Nothing
        BY <1>2, Numbers
      <3> QED BY <2>1, <2>2, <3>3, <3>4
    <2>3. CASE i # n + 1
      <3>1. i \in 1 .. n
        BY <2>1, <2>3
      <3> DEFINE a == shell.pipe_r[i]  b == shell.pipe_w[i]
      <3>2. pr[i] = a /\ pw[i] = b
        BY <2>1, <3>1
      <3>3. a # Nothing /\ b # Nothing /\ fds[a].index = fds[b].index
        BY <1>1, <1>7, <2>1, <3>1 DEF Paired
      <3>4. a \in Among(shell.pipe_r) /\ b \in Among(shell.pipe_w)
        BY <2>1, <3>1, <3>3 DEF Among
      <3>5. a \in Fds \ {r, w} /\ b \in Fds \ {r, w}
        BY <1>6, <1>7, <1>8, <3>4 DEF Apart
      <3>6. new[a] = fds[a] /\ new[b] = fds[b]
        BY <1>2, <1>3, <3>5, Here
      <3> QED BY <3>2, <3>3, <3>6
    <2> QED BY <2>2, <2>3
  <1>13. Redirs(shell') = {}
    BY <1>4, NothingHeld DEF Redirs
  <1>14. ReadEnds(shell') = Among(pr) /\ WriteEnds(shell') = Among(pw)
    BY <1>4 DEF ReadEnds, WriteEnds, HoldsEnds
  <1> HIDE DEF pr, pw, new, fds
  <1>15. Safe(new, shell', {}, kids, dropped)
    <2>1. Safe(fds, shell, {}, kids, dropped) /\ fds \in [Fds -> Meanings]
      BY <1>5, Here DEF fds
    <2>2. /\ ReadEnds(shell') = ReadEnds(shell) \union {r}
          /\ WriteEnds(shell') = WriteEnds(shell) \union {w}
      BY <1>6, <1>9, <1>14
    <2>3. new = [[fds EXCEPT ![r] = Means("pipe_r", p)] EXCEPT ![w] = Means("pipe_w", p)]
      BY <1>3 DEF new
    <2> QED BY <1>2, <1>5, <1>11, <1>12, <1>13, <2>1, <2>2, <2>3, PipeSafe
  <1> QED BY <1>1, <1>5, <1>10, <1>15 DEF ShellInv, new
LEMMA PipeFails ==
    ASSUME TableInv, ShellInv, sys_pipe, vfs_pipe(tables).r = Nothing
    PROVE  ShellInv'
  <1> DEFINE made == vfs_pipe(tables)  fds == tables.fds
             lost == {fds[shell.pipe_r[i]].index : i \in DOMAIN shell.pipe_r}
  <1>1. /\ MakesPipe(tables, made) /\ shell.pc = "pipes" /\ tables' = made.t
        /\ UNCHANGED kids /\ dropped' = dropped \union lost /\ shell' = AtPrompt
    BY Here, PipeCounts DEF sys_pipe, At
  <1>2. tables' = tables
    BY <1>1, Numbers DEF MakesPipe
  <1>3. shell'.pc = "prompt"
    BY <1>1 DEF AtPrompt
  <1>4. /\ ReadEnds(shell') = {} /\ WriteEnds(shell') = {} /\ Redirs(shell') = {}
        /\ Todo(shell') = {} /\ InHand(shell') = {} /\ Once(shell') /\ Paired(fds, shell')
    BY <1>3, NothingHeld
  <1>5. InHand(shell) = {} /\ Todo(shell) = {}
    BY <1>1, NothingHeld
  <1>6. ReadEnds(shell) = Among(shell.pipe_r) /\ WriteEnds(shell) = Among(shell.pipe_w)
    BY <1>1 DEF ReadEnds, WriteEnds, HoldsEnds
  <1>7. /\ Apart(fds, ReadEnds(shell), WriteEnds(shell), Redirs(shell), {}, {})
        /\ Accounted(fds, Ends(shell), dropped) /\ Paired(fds, shell)
        /\ Kept(fds, shell, {}, kids)
    BY <1>5, Here DEF Safe
  <1>8. Ends(shell) = Among(shell.pipe_r) \union Among(shell.pipe_w)
    BY <1>5, <1>6 DEF Ends
  <1>9. DOMAIN shell.pipe_r = DOMAIN shell.pipe_w
    BY <1>1, Here DEF Progress
  <1>10. Accounted(fds, {}, dropped \union lost)
    <2>1. ASSUME NEW f \in Fds, fds[f].type \in PipeTypes
          PROVE  fds[f].index \in dropped \union lost
      <3>1. CASE f \in Among(shell.pipe_r)
        BY <3>1 DEF Among
      <3>2. CASE f \in Among(shell.pipe_w)
        <4>1. PICK i \in DOMAIN shell.pipe_w : shell.pipe_w[i] = f
          BY <3>2 DEF Among
        <4>2. fds[shell.pipe_r[i]].index = fds[f].index
          BY <1>1, <1>7, <1>9, <4>1 DEF Paired
        <4> QED BY <1>9, <4>1, <4>2
      <3> QED BY <1>7, <1>8, <2>1, <3>1, <3>2 DEF Accounted
    <2>2. ASSUME NEW p \in dropped \union lost PROVE \E f \in Fds : fds[f] = Means("pipe_r", p)
      <3>1. CASE p \in dropped
        BY <1>7, <3>1 DEF Accounted
      <3>2. CASE p \in lost
        <4>1. PICK i \in DOMAIN shell.pipe_r : p = fds[shell.pipe_r[i]].index
          BY <3>2
        <4> DEFINE f == shell.pipe_r[i]
        <4>2. f \in Among(shell.pipe_r)
          BY <1>1, <1>7 DEF Among, Paired
        <4>3. f \in Fds /\ fds[f].type = "pipe_r"
          BY <1>6, <1>7, <4>2 DEF Apart
        <4>4. fds[f] \in Meanings
          BY <4>3, Here
        <4>5. fds[f] = Means("pipe_r", p)
          BY <4>1, <4>3, <4>4, MeaningFacts
        <4> QED BY <4>3, <4>5
      <3> QED BY <3>1, <3>2
    <2> QED BY <2>1, <2>2 DEF Accounted
  <1> HIDE DEF lost, fds
  <1>11. Kept(fds, shell', {}, kids)
    BY <1>4, <1>7 DEF Kept
  <1>12. Ends(shell') = {} /\ Apart(fds, {}, {}, {}, {}, {})
    BY <1>4 DEF Ends, Apart
  <1>13. Safe(fds, shell', {}, kids, dropped \union lost)
    BY <1>4, <1>10, <1>11, <1>12 DEF Safe
  <1> QED BY <1>1, <1>2, <1>4, <1>13 DEF ShellInv, fds
LEMMA AwaitedStill ==
    ASSUME NEW sh, NEW sh2, NEW S, sh.pids \in Seq(S), NEW x \in S,
           sh2.pids = Append(sh.pids, x), sh2.pc # "wait"
    PROVE  \A k \in Kids : Awaited(sh, k) => Awaited(sh2, k)
  <1> SUFFICES ASSUME NEW k \in Kids, Awaited(sh, k) PROVE Awaited(sh2, k)
    OBVIOUS
  <1>1. PICK i \in DOMAIN sh.pids : sh.pids[i] = k
    BY DEF Awaited
  <1>2. i \in DOMAIN sh2.pids /\ sh2.pids[i] = k
    BY <1>1
  <1> QED BY <1>2 DEF Awaited

LEMMA EmptyStageSafe ==
    ASSUME TableInv, ShellInv, EmptyStage
    PROVE  ShellInv'
  <1> DEFINE pids == Append(shell.pids, Nothing)
             sh == [shell EXCEPT !.pids = pids]
             fds == tables.fds
  <1>1. shell' = StageDone(sh) /\ shell.pc = "stage" /\ UNCHANGED <<tables, kids, dropped>>
    BY DEF EmptyStage, At
  <1>2. pids \in Seq(Kids \union {Nothing}) /\ Len(pids) = Len(shell.pids) + 1
    <2>1. shell.pids \in Seq(Kids \union {Nothing})
      BY Here
    <2> QED BY <2>1
  <1>3. /\ sh \in ShellStates /\ sh.pc = "stage" /\ sh.line = shell.line /\ sh.s = shell.s
        /\ sh.pids = pids /\ sh.redirs = shell.redirs
        /\ sh.pipe_r = shell.pipe_r /\ sh.pipe_w = shell.pipe_w
    <2> HIDE DEF pids
    <2> QED BY <1>1, <1>2, Here DEF ShellStates
  <1>4. \A k \in Kids : Awaited(shell, k) => Awaited(sh, k)
    <2>1. shell.pids \in Seq(Kids \union {Nothing}) /\ Nothing \in Kids \union {Nothing}
      BY Here
    <2>2. sh.pids = Append(shell.pids, Nothing) /\ sh.pc # "wait"
      BY <1>3
    <2> HIDE DEF sh
    <2> QED BY <2>1, <2>2, AwaitedStill
  <1> HIDE DEF pids, sh
  <1>5. /\ HoldsEnds(sh) /\ HoldsRedirs(sh) /\ HoldsEnds(shell) /\ HoldsRedirs(shell)
    BY <1>1, <1>3 DEF HoldsEnds, HoldsRedirs
  <1>6. /\ ReadEnds(sh) = ReadEnds(shell) /\ WriteEnds(sh) = WriteEnds(shell)
        /\ Redirs(sh) = Redirs(shell) /\ Todo(sh) = {} /\ Todo(shell) = {}
        /\ InHand(shell) = {} /\ Paired(fds, sh)
    BY <1>1, <1>3, <1>5, NothingHeld DEF ReadEnds, WriteEnds, Redirs
  <1>7. Safe(fds, sh, {}, kids, dropped)
    <2>1. Safe(fds, shell, {}, kids, dropped)
      BY <1>6, Here
    <2> QED BY <1>4, <1>6, <2>1, GoesOnSafe
  <1>8. Once(sh)
    BY <1>3, <1>5, Here DEF Once
  <1>9. /\ sh.s \in 1 .. StagesOf(sh) /\ Len(sh.pids) = sh.s
        /\ Len(sh.pipe_r) + 1 = StagesOf(sh) /\ Len(sh.pipe_w) + 1 = StagesOf(sh)
    BY <1>1, <1>2, <1>3, Here DEF Progress, StagesOf
  <1>10. Safe(fds, shell', InHand(shell'), kids, dropped) /\ Once(shell')
    BY <1>1, <1>3, <1>5, <1>6, <1>7, <1>8, <1>9, StageDoneSafe
  <1> QED BY <1>1, <1>10 DEF ShellInv
(* At two places of a stage, with the same lists.                          *)
LEMMA SameLists ==
    ASSUME NEW sh, NEW sh2, sh.pc \in {"stage", "open_out", "spawn", "wait"},
           sh2.pc \in {"stage", "open_out", "spawn", "wait"},
           sh2.pipe_r = sh.pipe_r, sh2.pipe_w = sh.pipe_w, sh2.redirs = sh.redirs
    PROVE  /\ ReadEnds(sh2) = ReadEnds(sh) /\ WriteEnds(sh2) = WriteEnds(sh)
           /\ Redirs(sh2) = Redirs(sh) /\ Todo(sh2) = {} /\ Todo(sh) = {}
           /\ sh2.pc # "pipes"
  <1>1. HoldsEnds(sh) /\ HoldsEnds(sh2) /\ HoldsRedirs(sh) /\ HoldsRedirs(sh2)
    BY DEF HoldsEnds, HoldsRedirs
  <1>2. /\ ReadEnds(sh2) = ReadEnds(sh) /\ WriteEnds(sh2) = WriteEnds(sh)
        /\ Redirs(sh2) = Redirs(sh)
    BY <1>1, Zenon DEF ReadEnds, WriteEnds, Redirs
  <1> QED BY <1>2, NothingHeld

(* At a stage, with what it has opened in hand: what opening one more      *)
(* redirection, or giving the line up, makes of it.                        *)
LEMMA InHandSafe ==
    ASSUME TableInv, ShellInv, shell.pc \in {"stage", "open_out"}, NEW how
    PROVE  LET r == Redirect(how)
           IN  /\ Safe(r.t.fds, shell, InHand(shell) \union ({r.fd} \ {Nothing}), kids, dropped)
               /\ r.fd # Nothing => r.fd \notin InHand(shell)
  <1> DEFINE r == Redirect(how)  fds == tables.fds  H == InHand(shell)
  <1>1. Opens(tables, r)
    BY Here, RedirectIs
  <1>2. Safe(fds, shell, H, kids, dropped) /\ fds \in [Fds -> Meanings]
    BY Here
  <1> HIDE DEF r, H
  <1>3. CASE r.fd = Nothing
    <2>1. r.t = tables
      BY <1>1, <1>3, Numbers DEF Opens
    <2>2. H \union ({r.fd} \ {Nothing}) = H
      BY <1>3
    <2> QED BY <1>2, <1>3, <2>1, <2>2 DEF r, H
  <1>4. CASE r.fd # Nothing
    <2> DEFINE f == r.fd
    <2>1. f \in Fds /\ fds[f] = FreeFd
      BY <1>1, <1>4 DEF Opens
    <2>2. PICK h \in Handles : r.t.fds = [fds EXCEPT ![f] = Means("file", h)]
      BY <1>1, <1>4 DEF Opens
    <2>3. f \notin H
      BY <1>2, <2>1 DEF Safe, Apart, FreeFd
    <2>4. H \union ({f} \ {Nothing}) = H \union {f}
      BY <1>4
    <2> HIDE DEF f, fds
    <2>5. Safe([fds EXCEPT ![f] = Means("file", h)], shell, H \union {f}, kids, dropped)
      BY <1>2, <2>1, OpensHand
    <2>6. Safe(r.t.fds, shell, H \union ({f} \ {Nothing}), kids, dropped)
      BY <2>2, <2>4, <2>5
    <2> QED BY <2>3, <2>6 DEF r, H, f
  <1> QED BY <1>3, <1>4

LEMMA GivenUp ==
    ASSUME TableInv, ShellInv, shell.pc \in {"stage", "open_out"}, NEW fds, NEW H,
           Safe(fds, shell, H, kids, dropped)
    PROVE  LET c == Cleanup(shell)
           IN  Once(c) /\ Safe(fds, c, InHand(c), kids, dropped)
  <1> DEFINE c == Cleanup(shell)
  <1>1. Len(shell.pipe_r) = Len(shell.pipe_w)
    <2>1. Len(shell.pipe_r) \in Nat /\ Len(shell.pipe_w) \in Nat
      BY Here
    <2>2. Len(shell.pipe_r) + 1 = StagesOf(shell) /\ Len(shell.pipe_w) + 1 = StagesOf(shell)
      BY Here DEF Progress
    <2> QED BY <2>1, <2>2
  <1>2. HoldsEnds(shell) /\ Todo(shell) = {}
    BY NothingHeld DEF HoldsEnds
  <1>3. Safe(fds, c, {}, kids, dropped) /\ Once(c)
    BY <1>1, <1>2, Here, CleanupSafe
  <1>4. c.pc = "close"
    BY <1>1, Here, CleanupIs
  <1> HIDE DEF c
  <1>5. InHand(c) = {}
    BY <1>4, NothingHeld
  <1> QED BY <1>3, <1>5 DEF c

LEMMA OpenInputSafe ==
    ASSUME TableInv, ShellInv, OpenInput
    PROVE  ShellInv'
  <1> DEFINE r == Redirect(Stage.in)
  <1>1. /\ shell.pc = "stage" /\ tables' = r.t /\ UNCHANGED kids /\ UNCHANGED dropped
        /\ shell' = IF Refused(Stage.in, r.fd) THEN Cleanup(shell)
                    ELSE [shell EXCEPT !.pc = "open_out", !.redir_in = r.fd]
    BY DEF OpenInput, At
  <1>2. InHand(shell) = {}
    BY <1>1, NothingHeld
  <1>3. Safe(tables'.fds, shell, {r.fd} \ {Nothing}, kids, dropped)
    <2>1. Safe(r.t.fds, shell, InHand(shell) \union ({r.fd} \ {Nothing}), kids, dropped)
      BY <1>1, InHandSafe
    <2>2. InHand(shell) \union ({r.fd} \ {Nothing}) = {r.fd} \ {Nothing}
      BY <1>2
    <2> QED BY <1>1, <2>1, <2>2
  <1>4. r.fd \in MaybeFd
    BY Here, RedirectIs
  <1> HIDE DEF r
  <1>5. CASE Refused(Stage.in, r.fd)
    <2>1. shell' = Cleanup(shell)
      BY <1>1, <1>5
    <2> QED BY <1>1, <1>3, <2>1, GivenUp DEF ShellInv
  <1>6. CASE ~Refused(Stage.in, r.fd)
    <2>1. /\ shell'.pc = "open_out" /\ shell'.redir_in = r.fd /\ shell'.pipe_r = shell.pipe_r
          /\ shell'.pipe_w = shell.pipe_w /\ shell'.redirs = shell.redirs
          /\ shell'.pids = shell.pids
      BY <1>1, <1>4, <1>6, Here DEF ShellStates
    <2>2. HoldsEnds(shell') /\ HoldsRedirs(shell') /\ HoldsEnds(shell) /\ HoldsRedirs(shell)
      BY <1>1, <2>1 DEF HoldsEnds, HoldsRedirs
    <2>3. /\ ReadEnds(shell') = ReadEnds(shell) /\ WriteEnds(shell') = WriteEnds(shell)
          /\ Redirs(shell') = Redirs(shell) /\ Todo(shell') = {} /\ Todo(shell) = {}
          /\ Paired(tables'.fds, shell')
      <3>1. /\ shell.pc \in {"stage", "open_out", "spawn", "wait"}
            /\ shell'.pc \in {"stage", "open_out", "spawn", "wait"}
        BY <1>1, <2>1
      <3>2. shell'.pc # "pipes"
        BY <2>1
      <3>3. Paired(tables'.fds, shell')
        BY <3>2, NothingHeld
      <3> QED BY <2>1, <3>1, <3>3, SameLists
    <2>4. InHand(shell') = {r.fd} \ {Nothing}
      BY <2>1 DEF InHand
    <2>5. \A k \in Kids : Awaited(shell, k) => Awaited(shell', k)
      BY <1>1, <2>1 DEF Awaited
    <2>6. Once(shell')
      BY <2>1, <2>2, Here DEF Once
    <2>7. Safe(tables'.fds, shell', {r.fd} \ {Nothing}, kids, dropped)
      BY <1>3, <2>3, <2>5, GoesOnSafe
    <2> QED BY <1>1, <2>4, <2>6, <2>7 DEF ShellInv
  <1> QED BY <1>5, <1>6

LEMMA OpenOutputSafe ==
    ASSUME TableInv, ShellInv, OpenOutput
    PROVE  ShellInv'
  <1> DEFINE r == Redirect(Stage.out)  in == shell.redir_in  H == {in} \ {Nothing}
             failed == Refused(Stage.out, r.fd)
  <1>1. /\ shell.pc = "open_out" /\ UNCHANGED kids /\ UNCHANGED dropped
        /\ tables' = IF failed /\ in # Nothing THEN vfs_close(tables, in) ELSE r.t
        /\ shell' = IF failed THEN Cleanup(shell)
                    ELSE [shell EXCEPT !.pc = "spawn", !.redir_out = r.fd]
    BY DEF OpenOutput, At
  <1>2. InHand(shell) = H
    BY <1>1 DEF InHand
  <1>3. Safe(tables.fds, shell, H, kids, dropped)
    BY <1>2, Here
  <1>4. /\ r.fd \in MaybeFd /\ (failed => r.t = tables)
    BY Here, RedirectIs
  <1>5. /\ Safe(r.t.fds, shell, H \union ({r.fd} \ {Nothing}), kids, dropped)
        /\ r.fd # Nothing => r.fd \notin H
    BY <1>1, <1>2, InHandSafe
  <1> HIDE DEF r, failed
  <1>6. CASE failed
    <2>1. shell' = Cleanup(shell)
      BY <1>1, <1>6
    <2>2. CASE in = Nothing
      <3>1. tables' = tables
        BY <1>1, <1>4, <1>6, <2>2
      <3> QED BY <1>1, <1>3, <2>1, <3>1, GivenUp DEF ShellInv
    <2>3. CASE in # Nothing
      <3>1. in \in H \intersect Fds
        BY <2>3, Here DEF MaybeFd
      <3>2. tables'.fds = [tables.fds EXCEPT ![in] = FreeFd]
        BY <1>1, <1>6, <2>3, <3>1, Here, CloseCounts
      <3>3. shell.pc # "pipes" /\ tables.fds \in [Fds -> Meanings]
        BY <1>1, Here
      <3> HIDE DEF H, in
      <3>4. Safe(tables'.fds, shell, H \ {in}, kids, dropped)
        BY <1>3, <3>1, <3>2, <3>3, ClosesHand
      <3> QED BY <1>1, <2>1, <3>4, GivenUp DEF ShellInv
    <2> QED BY <2>2, <2>3
  <1>7. CASE ~failed
    <2>1. tables' = r.t
      BY <1>1, <1>7
    <2>2. /\ shell'.pc = "spawn" /\ shell'.redir_in = in /\ shell'.redir_out = r.fd
          /\ shell'.pipe_r = shell.pipe_r /\ shell'.pipe_w = shell.pipe_w
          /\ shell'.redirs = shell.redirs /\ shell'.pids = shell.pids
      BY <1>1, <1>4, <1>7, Here DEF ShellStates
    <2>3. HoldsEnds(shell') /\ HoldsRedirs(shell') /\ HoldsEnds(shell) /\ HoldsRedirs(shell)
      BY <1>1, <2>2 DEF HoldsEnds, HoldsRedirs
    <2>4. /\ ReadEnds(shell') = ReadEnds(shell) /\ WriteEnds(shell') = WriteEnds(shell)
          /\ Redirs(shell') = Redirs(shell) /\ Todo(shell') = {} /\ Todo(shell) = {}
          /\ Paired(tables'.fds, shell')
      <3>1. /\ shell.pc \in {"stage", "open_out", "spawn", "wait"}
            /\ shell'.pc \in {"stage", "open_out", "spawn", "wait"}
        BY <1>1, <2>2
      <3>2. shell'.pc # "pipes"
        BY <2>2
      <3>3. Paired(tables'.fds, shell')
        BY <3>2, NothingHeld
      <3> QED BY <2>2, <3>1, <3>3, SameLists
    <2>5. InHand(shell') = H \union ({r.fd} \ {Nothing})
      BY <2>2 DEF InHand
    <2>6. \A k \in Kids : Awaited(shell, k) => Awaited(shell', k)
      BY <1>1, <2>2 DEF Awaited
    <2>7. Once(shell')
      <3>1. in # r.fd \/ in = Nothing
        BY <1>5
      <3>2. /\ OnceEach(shell.pipe_r) /\ OnceEach(shell.pipe_w) /\ OnceEach(shell.redirs)
        BY <2>3, Here DEF Once
      <3> QED BY <2>2, <3>1, <3>2 DEF Once
    <2>8. Safe(tables'.fds, shell', H \union ({r.fd} \ {Nothing}), kids, dropped)
      BY <1>5, <2>1, <2>4, <2>6, GoesOnSafe
    <2> QED BY <1>1, <2>5, <2>7, <2>8 DEF ShellInv
  <1> QED BY <1>6, <1>7
LEMMA SpawnEnds ==
    ASSUME TableInv, ShellInv, shell.pc = "spawn", NEW works \in BOOLEAN,
           NEW kid \in Kids \union {Nothing}
    PROVE  LET c == Spawned(shell, works, kid)
           IN  /\ Once(c) /\ Safe(tables.fds, c, {}, kids, dropped)
               /\ c.pc = "close" /\ c.pids = Append(shell.pids, kid)
               /\ \A f \in Todo(c) : tables.fds[f].type \in PipeTypes
  <1> DEFINE c == Spawned(shell, works, kid)  fds == tables.fds  s == shell.s
             a == IF s > 1 THEN shell.pipe_r[s - 1] ELSE Nothing
             b == IF s < Stages THEN shell.pipe_w[s] ELSE Nothing
             in == shell.redir_in  out == shell.redir_out  H == InHand(shell)
  <1>1. /\ c \in ShellStates /\ c.pc = "close" /\ c.todo = EndsGiven
        /\ c.next = (IF works THEN "stage_done" ELSE "cleanup")
        /\ c.pipe_r = [i \in DOMAIN shell.pipe_r |->
                          IF i = s - 1 THEN Nothing ELSE shell.pipe_r[i]]
        /\ c.pipe_w = [i \in DOMAIN shell.pipe_w |->
                          IF i = s THEN Nothing ELSE shell.pipe_w[i]]
        /\ c.redirs = shell.redirs \o <<in, out>> /\ c.pids = Append(shell.pids, kid)
    BY Here, SpawnedIs DEF At
  <1>2. HoldsEnds(shell) /\ HoldsRedirs(shell)
    BY DEF HoldsEnds, HoldsRedirs
  <1>3. /\ ReadEnds(shell) = Among(shell.pipe_r) /\ WriteEnds(shell) = Among(shell.pipe_w)
        /\ Redirs(shell) = Among(shell.redirs) /\ Todo(shell) = {}
        /\ H = {in, out} \ {Nothing}
    BY <1>2, NothingHeld DEF ReadEnds, WriteEnds, Redirs, InHand
  <1>4. /\ OnceEach(shell.pipe_r) /\ OnceEach(shell.pipe_w) /\ OnceEach(shell.redirs)
        /\ (in # out \/ in = Nothing)
    BY <1>2, Here DEF Once
  <1>5. /\ Safe(fds, shell, H, kids, dropped)
        /\ Apart(fds, ReadEnds(shell), WriteEnds(shell), Redirs(shell), {}, H)
    BY <1>3, Here DEF Safe
  <1>6. /\ s \in 1 .. Stages /\ Stages \in Nat
        /\ DOMAIN shell.pipe_r = 1 .. Stages - 1 /\ DOMAIN shell.pipe_w = 1 .. Stages - 1
    <2>1. /\ s \in 1 .. Stages /\ Stages \in Nat
          /\ Len(shell.pipe_r) + 1 = Stages /\ Len(shell.pipe_w) + 1 = Stages
      BY Here DEF Progress
    <2>2. shell.pipe_r \in Seq(MaybeFd) /\ shell.pipe_w \in Seq(MaybeFd)
      BY Here
    <2> QED BY <2>1, <2>2
  <1>7. /\ a = (IF s - 1 \in DOMAIN shell.pipe_r THEN shell.pipe_r[s - 1] ELSE Nothing)
        /\ b = (IF s \in DOMAIN shell.pipe_w THEN shell.pipe_w[s] ELSE Nothing)
    <2>1. (s > 1 <=> s - 1 \in 1 .. Stages - 1) /\ (s < Stages <=> s \in 1 .. Stages - 1)
      BY <1>6
    <2> QED BY <1>6, <2>1
  <1>8. /\ a \in MaybeFd /\ (a \in Among(shell.pipe_r) \/ a = Nothing)
        /\ b \in MaybeFd /\ (b \in Among(shell.pipe_w) \/ b = Nothing)
    <2>1. Nothing \in MaybeFd
      BY DEF MaybeFd
    <2>2. /\ \A i \in DOMAIN shell.pipe_r : shell.pipe_r[i] \in MaybeFd
          /\ \A i \in DOMAIN shell.pipe_w : shell.pipe_w[i] \in MaybeFd
      BY Here
    <2> HIDE DEF a, b
    <2> QED BY <1>7, <2>1, <2>2 DEF Among
  <1>9. EndsGiven = <<a, b>>
    BY DEF EndsGiven
  <1>10. /\ OnceEach(c.pipe_r) /\ Among(c.pipe_r) = Among(shell.pipe_r) \ {a}
         /\ OnceEach(c.pipe_w) /\ Among(c.pipe_w) = Among(shell.pipe_w) \ {b}
    <2> HIDE DEF a, b, c
    <2>1. shell.pipe_r \in Seq(MaybeFd) /\ shell.pipe_w \in Seq(MaybeFd)
      BY Here
    <2> DEFINE x == s - 1
    <2>2. c.pipe_r = Without(shell.pipe_r, x) /\ c.pipe_w = Without(shell.pipe_w, s)
      BY <1>1 DEF Without
    <2>3. /\ a = (IF x \in DOMAIN shell.pipe_r THEN shell.pipe_r[x] ELSE Nothing)
          /\ b = (IF s \in DOMAIN shell.pipe_w THEN shell.pipe_w[s] ELSE Nothing)
      BY <1>7
    <2> HIDE DEF x, s
    <2>4. OnceEach(c.pipe_r) /\ Among(c.pipe_r) = Among(shell.pipe_r) \ {a}
      BY <1>4, <2>1, <2>2, <2>3, ForgottenEnd
    <2>5. OnceEach(c.pipe_w) /\ Among(c.pipe_w) = Among(shell.pipe_w) \ {b}
      BY <1>4, <2>1, <2>2, <2>3, ForgottenEnd
    <2> QED BY <2>4, <2>5
  <1>11. a # b \/ a = Nothing
    <2> HIDE DEF a, b
    <2>1. a # Nothing => a \in Fds /\ fds[a].type = "pipe_r"
      BY <1>3, <1>5, <1>8 DEF Apart
    <2>2. b # Nothing => b \in Fds /\ fds[b].type = "pipe_w"
      BY <1>3, <1>5, <1>8 DEF Apart
    <2> QED BY <2>1, <2>2
  <1> HIDE DEF a, b, c
  <1>12. OnceEach(c.todo) /\ Among(c.todo) = {a, b} \ {Nothing}
    BY <1>1, <1>8, <1>9, <1>11, PairAmong
  <1>13. OnceEach(c.redirs) /\ Among(c.redirs) = Among(shell.redirs) \union H
    <2>1. shell.redirs \in Seq(MaybeFd) /\ in \in MaybeFd /\ out \in MaybeFd
      BY Here
    <2>2. in \notin Among(shell.redirs) /\ out \notin Among(shell.redirs)
      BY <1>3, <1>5 DEF Apart, Among
    <2>3. c.redirs = WithPair(shell.redirs, in, out)
      BY <1>1 DEF WithPair
    <2> HIDE DEF in, out, H
    <2> QED BY <1>3, <1>4, <2>1, <2>2, <2>3, AppendedPair
  <1>14. Once(c)
    BY <1>1, <1>10, <1>12, <1>13 DEF Once
  <1>15. /\ ReadEnds(c) = ReadEnds(shell) \ {a} /\ WriteEnds(c) = WriteEnds(shell) \ {b}
         /\ Todo(c) = {a, b} \ {Nothing} /\ Redirs(c) \subseteq Redirs(shell) \union H
    <2>1. HoldsEnds(c)
      BY <1>1 DEF HoldsEnds
    <2>2. ReadEnds(c) = Among(c.pipe_r) /\ WriteEnds(c) = Among(c.pipe_w)
      BY <2>1 DEF ReadEnds, WriteEnds
    <2>3. Todo(c) = Among(c.todo)
      BY <1>1 DEF Todo
    <2>4. Redirs(c) \subseteq Among(c.redirs)
      BY DEF Redirs
    <2> QED BY <1>3, <1>10, <1>12, <1>13, <2>2, <2>3, <2>4
  <1>16. \A k \in Kids : Awaited(shell, k) => Awaited(c, k)
    <2>1. shell.pids \in Seq(Kids \union {Nothing}) /\ c.pc # "wait"
      BY <1>1, Here
    <2> QED BY <1>1, <2>1, AwaitedStill
  <1>17. \A f \in Todo(c) : fds[f].type \in PipeTypes
    <2>1. a # Nothing => fds[a].type = "pipe_r"
      BY <1>3, <1>5, <1>8 DEF Apart
    <2>2. b # Nothing => fds[b].type = "pipe_w"
      BY <1>3, <1>5, <1>8 DEF Apart
    <2> QED BY <1>15, <2>1, <2>2 DEF PipeTypes
  <1>18. Safe(fds, c, {}, kids, dropped)
    <2>1. c.pc # "pipes" /\ fds \in [Fds -> Meanings]
      BY <1>1, Here
    <2>2. (a \in ReadEnds(shell) \/ a = Nothing) /\ (b \in WriteEnds(shell) \/ b = Nothing)
      BY <1>3, <1>8
    <2> HIDE DEF H, fds
    <2> QED BY <1>3, <1>5, <1>15, <1>16, <2>1, <2>2, SpawnSafe
  <1> QED BY <1>1, <1>14, <1>17, <1>18 DEF c

LEMMA SpawnStepSafe ==
    ASSUME TableInv, ShellInv, Spawn
    PROVE  ShellInv'
  <1> DEFINE free == {k \in Kids : ~kids[k].live}
             works == Stage.cmd = "spawns" /\ free # {}
             kid == IF works THEN Least(free) ELSE Nothing
             new == [NoKid EXCEPT !.live = TRUE, !.in = StdIn, !.out = StdOut,
                                  !.given = <<Fd(StdIn), Fd(StdOut)>>]
             fds == tables.fds
  <1>1. /\ shell.pc = "spawn" /\ UNCHANGED tables /\ UNCHANGED dropped
        /\ kids' = (IF ~works THEN kids ELSE [kids EXCEPT ![kid] = new])
        /\ shell' = Spawned(shell, works, kid)
    BY DEF Spawn, At
  <1>2. works \in BOOLEAN /\ kid \in Kids \union {Nothing} /\ (works => kid \in Kids)
    <2>1. CASE works
      <3>1. free \in SUBSET Nat /\ free # {}
        BY <2>1, PipelineAssumption
      <3>2. Least(free) \in free
        BY <3>1, LeastExists
      <3> QED BY <2>1, <3>2
    <2>2. CASE ~works
      BY <2>2
    <2> QED BY <2>1, <2>2
  <1>3. /\ new.live /\ new.in = StdIn /\ new.out = StdOut
        /\ new.given[1] = Fd(StdIn) /\ new.given[2] = Fd(StdOut)
    BY DEF NoKid
  <1>4. StdIn \in MaybeFd /\ StdOut \in MaybeFd
    <2>1. /\ shell.s \in 1 .. Stages /\ Stages \in Nat
          /\ Len(shell.pipe_r) + 1 = Stages /\ Len(shell.pipe_w) + 1 = Stages
      BY <1>1, Here DEF Progress
    <2>2. shell.pipe_r \in Seq(MaybeFd) /\ shell.pipe_w \in Seq(MaybeFd)
      BY Here
    <2>3. shell.s > 1 => shell.pipe_r[shell.s - 1] \in MaybeFd
      BY <2>1, <2>2
    <2>4. shell.s < Stages => shell.pipe_w[shell.s] \in MaybeFd
      BY <2>1, <2>2
    <2>5. Nothing \in MaybeFd
      BY DEF MaybeFd
    <2> QED BY <2>3, <2>4, <2>5, Here DEF StdIn, StdOut
  <1> HIDE DEF works, kid, new
  <1>5. /\ Once(shell') /\ Safe(fds, shell', {}, kids, dropped)
        /\ shell'.pc = "close" /\ shell'.pids = Append(shell.pids, kid)
        /\ \A f \in Todo(shell') : fds[f].type \in PipeTypes
    BY <1>1, <1>2, SpawnEnds
  <1>6. InHand(shell') = {}
    BY <1>5, NothingHeld
  <1>7. CASE ~works
    BY <1>1, <1>5, <1>6, <1>7 DEF ShellInv
  <1>8. CASE works
    <2>1. kid \in Kids /\ kids' = [kids EXCEPT ![kid] = new]
      BY <1>1, <1>2, <1>8
    <2>2. \A k \in Kids : kids'[k] = IF k = kid THEN new ELSE kids[k]
      BY <2>1, Here DEF TypeOK
    <2>3. Awaited(shell', kid)
      <3>1. shell.pids \in Seq(Kids \union {Nothing})
        BY Here
      <3>2. /\ Len(shell.pids) + 1 \in DOMAIN shell'.pids
            /\ shell'.pids[Len(shell.pids) + 1] = kid
        BY <1>2, <1>5, <3>1
      <3> QED BY <1>5, <3>2 DEF Awaited
    <2>4. Kept(fds, shell', {}, kids')
      <3> SUFFICES ASSUME NEW k \in Kids, NEW f \in MaybeFd, NEW m \in Meanings,
                          Gave(kids'[k], f, m)
                   PROVE  /\ f \in Fds /\ fds[f] = m /\ f \notin Todo(shell')
                          /\ f \in Redirs(shell') => Awaited(shell', k)
        BY DEF Kept
      <3>1. CASE k # kid
        <4>1. Gave(kids[k], f, m)
          BY <2>2, <3>1
        <4> QED BY <1>5, <4>1 DEF Safe, Kept
      <3>2. CASE k = kid
        <4>1. Gave(new, f, m)
          BY <2>2, <3>2
        <4>2. Fd(f) = m /\ m.type = "file"
          BY <1>3, <4>1 DEF Gave
        <4>3. f # Nothing
          BY <4>2 DEF Fd, FreeFd
        <4>4. f \in Fds /\ fds[f] = m
          BY <4>2, <4>3 DEF Fd, MaybeFd
        <4>5. f \notin Todo(shell')
          BY <1>5, <4>2, <4>4 DEF PipeTypes
        <4> QED BY <2>3, <3>2, <4>4, <4>5
      <3> QED BY <3>1, <3>2
    <2>5. Safe(fds, shell', {}, kids', dropped)
      BY <1>5, <2>4 DEF Safe
    <2> QED BY <1>1, <1>5, <1>6, <2>5 DEF ShellInv
  <1> QED BY <1>7, <1>8
LEMMA CloseNextSafe ==
    ASSUME TableInv, ShellInv, CloseNext
    PROVE  ShellInv'
  <1> DEFINE i == Least(Ahead)  f == shell.todo[i]
             rest == SubSeq(shell.todo, i + 1, Len(shell.todo))  fds == tables.fds
  <1>1. /\ shell.pc = "close" /\ Ahead # {} /\ UNCHANGED kids /\ UNCHANGED dropped
        /\ tables' = vfs_close(tables, f) /\ shell' = [shell EXCEPT !.todo = rest]
    BY DEF CloseNext, At
  <1>2. i \in Ahead /\ \A j \in Ahead : i <= j
    <2>1. Ahead \in SUBSET Nat
      BY Here DEF Ahead
    <2> QED BY <1>1, <2>1, LeastExists
  <1> HIDE DEF i
  <1>3. OnceEach(shell.todo) /\ Todo(shell) = Among(shell.todo)
    BY <1>1, Here DEF Once, Todo
  <1>4. /\ f \in Fds /\ rest \in Seq(MaybeFd) /\ OnceEach(rest)
        /\ Among(rest) = Among(shell.todo) \ {f}
    BY <1>2, <1>3, Here, RestIs DEF Ahead
  <1>5. f \in Todo(shell)
    BY <1>2, <1>3 DEF Ahead, Among
  <1>6. tables'.fds = [fds EXCEPT ![f] = FreeFd]
    BY <1>1, <1>4, Here, CloseCounts
  <1> HIDE DEF rest, f
  <1>7. /\ shell'.pc = "close" /\ shell'.next = shell.next /\ shell'.todo = rest
        /\ shell'.pipe_r = shell.pipe_r /\ shell'.pipe_w = shell.pipe_w
        /\ shell'.redirs = shell.redirs /\ shell'.pids = shell.pids
    BY <1>1, <1>4, Here DEF ShellStates
  <1>8. /\ HoldsEnds(shell') <=> HoldsEnds(shell)
        /\ HoldsRedirs(shell') <=> HoldsRedirs(shell)
    BY <1>1, <1>7 DEF HoldsEnds, HoldsRedirs
  <1>9. /\ ReadEnds(shell') = ReadEnds(shell) /\ WriteEnds(shell') = WriteEnds(shell)
        /\ Redirs(shell') = Redirs(shell)
    <2>1. ReadEnds(shell') = ReadEnds(shell)
      BY <1>7, <1>8 DEF ReadEnds
    <2>2. WriteEnds(shell') = WriteEnds(shell)
      BY <1>7, <1>8 DEF WriteEnds
    <2>3. Redirs(shell') = Redirs(shell)
      BY <1>7, <1>8 DEF Redirs
    <2> QED BY <2>1, <2>2, <2>3
  <1>10. Todo(shell') = Todo(shell) \ {f}
    BY <1>3, <1>4, <1>7 DEF Todo
  <1>11. InHand(shell) = {} /\ InHand(shell') = {}
    BY <1>1, <1>7, NothingHeld
  <1>12. \A k \in Kids : Awaited(shell, k) => Awaited(shell', k)
    BY <1>1, <1>7 DEF Awaited
  <1>13. Once(shell')
    BY <1>4, <1>7, <1>8, Here DEF Once
  <1>14. Safe(tables'.fds, shell', {}, kids, dropped)
    <2>1. Safe(fds, shell, {}, kids, dropped) /\ fds \in [Fds -> Meanings]
      BY <1>11, Here
    <2> HIDE DEF fds
    <2>2. shell'.pc # "pipes"
      BY <1>7
    <2>3. Safe([fds EXCEPT ![f] = FreeFd], shell', {}, kids, dropped)
      BY <1>5, <1>9, <1>10, <1>12, <2>1, <2>2, ClosesNext
    <2> QED BY <1>6, <2>3
  <1> QED BY <1>1, <1>11, <1>13, <1>14 DEF ShellInv

LEMMA ClosingDoneSafe ==
    ASSUME TableInv, ShellInv, ClosingDone
    PROVE  ShellInv'
  <1> DEFINE sh == [shell EXCEPT !.todo = <<>>]  fds == tables.fds
  <1>1. /\ shell.pc = "close" /\ Ahead = {} /\ shell' = GoesOn(sh)
        /\ UNCHANGED <<tables, kids, dropped>>
    BY DEF ClosingDone, At
  <1>2. /\ sh \in ShellStates /\ sh.pc = "close" /\ sh.next = shell.next /\ sh.todo = <<>>
        /\ sh.line = shell.line /\ sh.s = shell.s
        /\ sh.pipe_r = shell.pipe_r /\ sh.pipe_w = shell.pipe_w
        /\ sh.redirs = shell.redirs /\ sh.pids = shell.pids
    <2>1. <<>> \in Seq(MaybeFd)
      OBVIOUS
    <2> QED BY <1>1, <2>1, Here DEF ShellStates
  <1> HIDE DEF sh
  <1>3. Todo(shell) = {} /\ Todo(sh) = {} /\ OnceEach(sh.todo)
    BY <1>1, <1>2, NothingHeld DEF Todo, Ahead, Among
  <1>4. /\ HoldsEnds(sh) <=> HoldsEnds(shell)
        /\ HoldsRedirs(sh) <=> HoldsRedirs(shell)
    BY <1>1, <1>2 DEF HoldsEnds, HoldsRedirs
  <1>5. /\ ReadEnds(sh) = ReadEnds(shell) /\ WriteEnds(sh) = WriteEnds(shell)
        /\ Redirs(sh) = Redirs(shell)
    <2>1. ReadEnds(sh) = ReadEnds(shell)
      BY <1>2, <1>4 DEF ReadEnds
    <2>2. WriteEnds(sh) = WriteEnds(shell)
      BY <1>2, <1>4 DEF WriteEnds
    <2>3. Redirs(sh) = Redirs(shell)
      BY <1>2, <1>4 DEF Redirs
    <2> QED BY <2>1, <2>2, <2>3
  <1>6. InHand(shell) = {} /\ Paired(fds, sh)
    BY <1>1, <1>2, NothingHeld
  <1>7. Safe(fds, sh, {}, kids, dropped)
    <2>1. Safe(fds, shell, {}, kids, dropped)
      BY <1>6, Here
    <2>2. \A k \in Kids : Awaited(shell, k) => Awaited(sh, k)
      BY <1>1, <1>2 DEF Awaited
    <2> QED BY <1>3, <1>5, <1>6, <2>1, <2>2, GoesOnSafe
  <1>8. Once(sh)
    BY <1>2, <1>3, <1>4, Here DEF Once
  <1>9. /\ sh.s \in 1 .. StagesOf(sh)
        /\ Len(sh.pipe_r) + 1 = StagesOf(sh) /\ Len(sh.pipe_w) + 1 = StagesOf(sh)
        /\ (sh.next = "stage_done" => Len(sh.pids) = sh.s)
    BY <1>1, <1>2, Here DEF Progress, StagesOf
  <1>10. Once(shell') /\ Safe(fds, shell', InHand(shell'), kids, dropped)
    <2>1. CASE sh.next = "stage_done"
      <3>1. shell' = StageDone(sh)
        BY <1>1, <2>1 DEF GoesOn
      <3>2. HoldsEnds(sh) /\ HoldsRedirs(sh)
        BY <1>2, <2>1 DEF HoldsEnds, HoldsRedirs
      <3> QED BY <1>2, <1>3, <1>7, <1>8, <1>9, <2>1, <3>1, <3>2, StageDoneSafe
    <2>2. CASE sh.next = "cleanup"
      <3>1. shell' = Cleanup(sh)
        BY <1>1, <2>2 DEF GoesOn
      <3>2. HoldsEnds(sh)
        BY <1>2, <2>2 DEF HoldsEnds
      <3>3. Len(sh.pipe_r) = Len(sh.pipe_w)
        <4>1. Len(sh.pipe_r) \in Nat /\ Len(sh.pipe_w) \in Nat
          BY <1>2 DEF ShellStates
        <4> QED BY <1>9, <4>1
      <3>4. Cleanup(sh).pc = "close"
        BY <1>2, <3>3, CleanupIs
      <3>5. InHand(shell') = {}
        BY <3>1, <3>4, NothingHeld
      <3>6. Once(Cleanup(sh)) /\ Safe(fds, Cleanup(sh), {}, kids, dropped)
        BY <1>2, <1>3, <1>7, <1>8, <3>2, <3>3, CleanupSafe
      <3> QED BY <3>1, <3>5, <3>6
    <2>3. CASE sh.next = "prompt"
      <3>1. shell' = AtPrompt /\ AtPrompt.pc = "prompt"
        BY <1>1, <2>3 DEF GoesOn, AtPrompt
      <3>2. ReadEnds(sh) = {} /\ WriteEnds(sh) = {}
        BY <1>2, <2>3 DEF ReadEnds, WriteEnds, HoldsEnds
      <3>3. Once(AtPrompt) /\ Safe(fds, AtPrompt, {}, kids, dropped)
        BY <1>3, <1>7, <3>2, PromptSafe
      <3>4. InHand(shell') = {}
        BY <3>1, NothingHeld
      <3> QED BY <3>1, <3>3, <3>4
    <2> QED BY <1>2, <2>1, <2>2, <2>3 DEF ShellStates
  <1> QED BY <1>1, <1>10 DEF ShellInv
(* When the wait is over no live program has one of the redirections.      *)
LEMMA WaitForSafe ==
    ASSUME TableInv, ShellInv, WaitFor \/ WaitCutShort
    PROVE  ShellInv'
  <1> DEFINE fds == tables.fds
  <1>0. /\ shell.pc = "wait" /\ shell' = AfterWait /\ UNCHANGED <<tables, dropped>>
        /\ \A k \in Kids : \/ kids'[k] = kids[k]
                           \/ k = Child /\ kids'[k].left
        /\ Child \in Kids => ~kids'[Child].live \/ kids'[Child].left
    <2>1. CASE WaitFor
      <3>1. Child \in Kids => Child # Nothing
        BY PipelineAssumption DEF Nothing
      <3> QED BY <2>1, <3>1 DEF WaitFor, At, Running
    <2>2. CASE WaitCutShort
      BY <2>2, Here, WaitLeaves DEF WaitCutShort, At
    <2> QED BY <2>1, <2>2
  <1>1. shell.pc = "wait" /\ UNCHANGED <<tables, dropped>>
    BY <1>0
  <1>2. /\ InHand(shell) = {} /\ Todo(shell) = {} /\ HoldsEnds(shell) /\ HoldsRedirs(shell)
    BY <1>1, NothingHeld DEF HoldsEnds, HoldsRedirs
  <1>3. /\ Safe(fds, shell, {}, kids', dropped) /\ Once(shell) /\ shell.s \in Nat
        /\ shell.s \in 1 .. Stages /\ Len(shell.pids) = Stages /\ Stages \in Nat
        /\ DOMAIN shell.pids = 1 .. Stages
    <2>1. Len(shell.pids) = Stages /\ shell.s \in 1 .. Stages
      BY <1>1, Here DEF Progress
    <2>2. shell.pids \in Seq(Kids \union {Nothing})
      BY Here
    <2>3. DOMAIN shell.pids = 1 .. Stages
      BY <2>1, <2>2
    <2>4. Safe(fds, shell, {}, kids, dropped)
      BY <1>2, Here
    <2>5. \A k \in Kids : \A f, m : Gave(kids'[k], f, m) => Gave(kids[k], f, m)
      BY <1>0 DEF Gave
    <2>6. Safe(fds, shell, {}, kids', dropped)
      BY <2>4, <2>5 DEF Safe, Kept
    <2> QED BY <1>2, <2>1, <2>3, <2>6, Here
  <1>4. ASSUME NEW k \in Kids, kids'[k].live, ~kids'[k].left, Awaited(shell, k)
        PROVE  \E i \in 1 .. Stages : shell.pids[i] = k /\ i >= shell.s + 1
    <2>1. PICK i \in 1 .. Stages : shell.pids[i] = k /\ i >= shell.s
      BY <1>1, <1>3, <1>4 DEF Awaited
    <2>3. i # shell.s
      BY <1>0, <1>4, <2>1 DEF Child
    <2> QED BY <1>3, <2>1, <2>3
  <1>5. CASE shell.s < Stages
    <2>1. PICK n \in Nat : n = shell.s + 1
      BY <1>3
    <2>2. shell' = [shell EXCEPT !.s = n]
      BY <1>0, <1>5, <2>1 DEF AfterWait
    <2>3. /\ shell'.pc = "wait" /\ shell'.s = n /\ shell'.pids = shell.pids
          /\ shell'.pipe_r = shell.pipe_r /\ shell'.pipe_w = shell.pipe_w
          /\ shell'.redirs = shell.redirs
      BY <1>1, <2>2, Here DEF ShellStates
    <2>4. /\ ReadEnds(shell') = ReadEnds(shell) /\ WriteEnds(shell') = WriteEnds(shell)
          /\ Redirs(shell') = Redirs(shell) /\ Todo(shell') = {}
      <3>1. /\ shell.pc \in {"stage", "open_out", "spawn", "wait"}
            /\ shell'.pc \in {"stage", "open_out", "spawn", "wait"}
        BY <1>1, <2>3
      <3> QED BY <2>3, <3>1, SameLists
    <2>5. Paired(fds, shell') /\ InHand(shell') = {}
      BY <2>3, NothingHeld
    <2>6. \A k \in Kids : kids'[k].live /\ ~kids'[k].left /\ Awaited(shell, k)
                           => Awaited(shell', k)
      BY <1>3, <1>4, <2>1, <2>3 DEF Awaited
    <2>7. Once(shell')
      BY <1>2, <1>3, <2>3 DEF Once
    <2>8. Safe(fds, shell', {}, kids', dropped)
      BY <1>2, <1>3, <2>4, <2>5, <2>6, GoesOnSafe
    <2> QED BY <1>1, <2>5, <2>7, <2>8 DEF ShellInv
  <1>6. CASE ~(shell.s < Stages)
    <2> DEFINE c == Closing(shell, shell.redirs, "cleanup")
               R == ReadEnds(shell)  W == WriteEnds(shell)  D == Redirs(shell)
    <2>1. shell' = c
      BY <1>0, <1>6 DEF AfterWait
    <2>2. /\ c.pc = "close" /\ c.next = "cleanup" /\ c.todo = shell.redirs
          /\ c.pipe_r = shell.pipe_r /\ c.pipe_w = shell.pipe_w
      BY Here DEF Closing, ShellStates
    <2> HIDE DEF c
    <2>3. HoldsEnds(c) /\ ~HoldsRedirs(c) /\ InHand(c) = {} /\ Paired(fds, c)
      BY <2>2, NothingHeld DEF HoldsEnds, HoldsRedirs
    <2>4. /\ ReadEnds(c) = R /\ WriteEnds(c) = W /\ Redirs(c) = {} /\ Todo(c) = D
      BY <1>2, <2>2, <2>3 DEF ReadEnds, WriteEnds, Redirs, Todo
    <2>5. Once(c)
      BY <1>2, <1>3, <2>2, <2>3 DEF Once
    <2>6. /\ Apart(fds, R, W, D, {}, {}) /\ Accounted(fds, R \union W, dropped)
          /\ Kept(fds, shell, {}, kids')
      BY <1>2, <1>3 DEF Safe, Ends
    <2> HIDE DEF R, W, D, fds
    <2>7. Apart(fds, R, W, {}, D, {})
      BY <2>6 DEF Apart
    <2>8. Accounted(fds, R \union W \union D, dropped)
      BY <2>6 DEF Accounted, Apart, PipeTypes
    <2>9. Kept(fds, c, {}, kids')
      <3> SUFFICES ASSUME NEW k \in Kids, NEW f \in MaybeFd, NEW m \in Meanings,
                          Gave(kids'[k], f, m)
                   PROVE  f \in Fds /\ fds[f] = m /\ f \notin D
        BY <2>4 DEF Kept
      <3>1. f \in Fds /\ fds[f] = m /\ (f \in D => Awaited(shell, k))
        BY <2>6 DEF Kept, D
      <3>2. ~Awaited(shell, k)
        BY <1>3, <1>4, <1>6 DEF Gave
      <3> QED BY <3>1, <3>2
    <2>10. Ends(c) = R \union W \union D
      BY <2>4 DEF Ends
    <2>11. Safe(fds, c, {}, kids', dropped)
      BY <2>3, <2>4, <2>7, <2>8, <2>9, <2>10 DEF Safe
    <2> QED BY <1>1, <2>1, <2>3, <2>5, <2>11 DEF ShellInv, fds
  <1> QED BY <1>5, <1>6

LEMMA KidSafe ==
    ASSUME TableInv, ShellInv, NEW k \in Kids, KidSteps(k)
    PROVE  ShellInv'
  <1>1. /\ tables'.fds = tables.fds /\ UNCHANGED shell /\ UNCHANGED dropped
        /\ \A j \in Kids : \/ ~kids'[j].live
                           \/ /\ kids[j].live
                              /\ kids'[j].in = kids[j].in /\ kids'[j].out = kids[j].out
                              /\ kids'[j].given = kids[j].given
                              /\ kids'[j].left = kids[j].left
    <2>1. tables'.fds = tables.fds
      BY Here, KidStep, LevelKeeps
    <2> QED BY <2>1, Here, KidStep
  <1>2. \A j \in Kids : \A f, m : Gave(kids'[j], f, m) => Gave(kids[j], f, m)
    BY <1>1 DEF Gave
  <1>3. Kept(tables.fds, shell, InHand(shell), kids')
    BY <1>2, Here DEF Safe, Kept
  <1>4. Safe(tables.fds, shell, InHand(shell), kids', dropped)
    BY <1>3, Here DEF Safe
  <1> QED BY <1>1, <1>4, Here DEF ShellInv

LEMMA ShellStep == TableInv /\ ShellInv /\ [Next]_vars => ShellInv'
  <1> SUFFICES ASSUME TableInv, ShellInv, [Next]_vars PROVE ShellInv'
    OBVIOUS
  <1>1. CASE \E line \in Lines : ReadLine(line)
    BY <1>1, ReadLineSafe
  <1>2. CASE sys_pipe
    BY <1>2, PipeMade, PipeFails
  <1>3. CASE EmptyStage
    BY <1>3, EmptyStageSafe
  <1>4. CASE OpenInput
    BY <1>4, OpenInputSafe
  <1>5. CASE OpenOutput
    BY <1>5, OpenOutputSafe
  <1>6. CASE Spawn
    BY <1>6, SpawnStepSafe
  <1>7. CASE CloseNext
    BY <1>7, CloseNextSafe
  <1>8. CASE ClosingDone
    BY <1>8, ClosingDoneSafe
  <1>9. CASE WaitFor \/ WaitCutShort
    BY <1>9, WaitForSafe
  <1>10. CASE \E k \in Kids : KidSteps(k)
    BY <1>10, KidSafe
  <1>11. CASE UNCHANGED vars
    BY <1>11 DEF vars, ShellInv
  <1> QED BY <1>1, <1>2, <1>3, <1>4, <1>5, <1>6, <1>7, <1>8, <1>9, <1>10, <1>11
          DEF Next, KidSteps

(* When the shell is back at its prompt a pipe is in use only if a failed  *)
(* sys_pipe made run_pipeline forget it: every other end was closed, on    *)
(* every way through the stages, their redirections and the cleanup.       *)
THEOREM NoPipeIsLeft == Spec => []NoPipeLeft
  <1>1. TableInv /\ ShellInv => NoPipeLeft
    <2> SUFFICES ASSUME TableInv, ShellInv, shell.pc = "prompt"
                 PROVE  {p \in Pipes : tables.pipes[p].used} = dropped
      BY DEF NoPipeLeft, At
    <2> DEFINE fds == tables.fds
    <2>1. ReadEnds(shell) = {} /\ WriteEnds(shell) = {} /\ Todo(shell) = {}
      BY NothingHeld
    <2>2. Accounted(fds, {}, dropped) /\ Counted(tables)
      BY <2>1, Here DEF Safe, Ends
    <2>3. \A type, p : Cardinality(Points(fds, Means(type, p))) \in Nat
      BY SomePoint
    <2>4. ASSUME NEW p \in Pipes, tables.pipes[p].used PROVE p \in dropped
      <3>1. \/ Cardinality(Points(fds, Means("pipe_r", p))) > 0
            \/ Cardinality(Points(fds, Means("pipe_w", p))) > 0
        BY <2>2, <2>3, <2>4 DEF Counted
      <3>2. PICK f \in Fds : fds[f] = Means("pipe_r", p) \/ fds[f] = Means("pipe_w", p)
        BY <3>1, SomePoint
      <3>3. fds[f].type \in PipeTypes /\ fds[f].index = p
        BY <3>2, MeaningFacts DEF PipeTypes
      <3> QED BY <2>2, <3>3 DEF Accounted
    <2>5. ASSUME NEW p \in dropped PROVE p \in Pipes /\ tables.pipes[p].used
      <3>1. PICK f \in Fds : fds[f] = Means("pipe_r", p)
        BY <2>2 DEF Accounted
      <3>2. fds[f] \in Meanings /\ fds[f].type = "pipe_r" /\ fds[f].index = p
        BY <3>1, Here, MeaningFacts
      <3>3. p \in Pipes
        BY <3>2, MeaningFacts
      <3>4. Cardinality(Points(fds, Means("pipe_r", p))) > 0
        BY <3>1, SomePoint
      <3> QED BY <2>2, <2>3, <3>3, <3>4 DEF Counted
    <2> QED BY <2>4, <2>5
  <1> QED BY <1>1, TableInit, TableStep, ShellInit, ShellStep, PTL DEF Spec

(* As long as a program lives, the file it was given as its input or its   *)
(* output is what its descriptor means: run_pipeline closes a redirection  *)
(* only after the wait for the program that has it.  For a program whose   *)
(* wait came back while it was alive, as nobody was runnable, nothing is   *)
(* claimed: the shell then closes the file under it.                       *)
THEOREM RedirectsAreKept == Spec => []RedirectsStayOpen
  <1>1. TableInv /\ ShellInv => RedirectsStayOpen
    <2> SUFFICES ASSUME TableInv, ShellInv, NEW k \in Kids, kids[k].live, ~kids[k].left
                 PROVE  StillGiven(k, "file")
      BY DEF RedirectsStayOpen
    <2>1. Kept(tables.fds, shell, InHand(shell), kids)
      BY Here DEF Safe
    <2>2. kids[k] \in KidStates
      BY Here DEF TypeOK
    <2>3. /\ kids[k].in \in MaybeFd /\ kids[k].out \in MaybeFd
          /\ kids[k].given[1] \in Meanings /\ kids[k].given[2] \in Meanings
      BY <2>2 DEF KidStates
    <2>4. ASSUME NEW f \in MaybeFd, NEW m \in Meanings, Gave(kids[k], f, m)
          PROVE  Fd(f) = m
      <3>1. f \in Fds /\ tables.fds[f] = m
        BY <2>1, <2>4 DEF Kept
      <3>2. f # Nothing
        BY <3>1, Numbers
      <3> QED BY <3>1, <3>2 DEF Fd
    <2> QED BY <2>3, <2>4 DEF StillGiven, Gave
  <1> QED BY <1>1, TableInit, TableStep, ShellInit, ShellStep, PTL DEF Spec
=============================================================================
