------------------------------- MODULE Arena --------------------------------
(* What a memory allocator promises: what it hands out lies in its memory  *)
(* and apart from all that it has handed out and not taken back.           *)
EXTENDS Integers

CONSTANTS Low, High       \* its addresses

VARIABLE given              \* what was handed out: [ptr, size, ...]

Apart(r, s) == r.ptr + r.size <= s.ptr \/ s.ptr + s.size <= r.ptr
Inside(r) == r.size > 0 /\ Low <= r.ptr /\ r.ptr + r.size - 1 <= High

Init == given = {}

Allocate ==
    \E r \in given' \ given :
        /\ given' = given \union {r}
        /\ Inside(r) /\ \A s \in given : Apart(r, s)

Release == \E r \in given : given' = given \ {r}

Spec == Init /\ [][Allocate \/ Release]_given
=============================================================================
