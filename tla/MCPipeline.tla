----------------------------- MODULE MCPipeline -----------------------------
(* The command lines of the instance: each kind of failure at each stage,  *)
(* redirections, the background, two and three stages.                     *)
EXTENDS Pipeline

Command(in, out, cmd) == [in |-> in, out |-> out, cmd |-> cmd]
Plain == Command("none", "none", "spawns")

SomeLines ==
    {[stages |-> <<Plain, last>>, bg |-> FALSE] :
         last \in [in : {"none"}, out : Redirections, cmd : {"none", "spawns", "fails"}]}
    \union
    {[stages |-> <<Command("opens", "opens", "spawns"), Command("opens", "fails", "spawns")>>,
      bg |-> FALSE],
     [stages |-> <<Command("fails", "none", "spawns"), Plain>>, bg |-> FALSE],
     [stages |-> <<Command("opens", "none", "spawns"), Plain>>, bg |-> TRUE],
     [stages |-> <<Command("opens", "none", "spawns"), Command("none", "none", "none")>>,
      bg |-> FALSE],
     [stages |-> <<Plain, Plain, Plain>>, bg |-> FALSE]}
=============================================================================
