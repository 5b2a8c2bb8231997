------------------------------ MODULE MCDvStep ------------------------------
(***************************************************************************)
(* Every network of four nodes with links of three weights, connected or   *)
(* not, and the one in the script.                                         *)
(***************************************************************************)
EXTENDS DvStepProps

Weights == {1, 2, 5}
NoLink  == 0

FromMatrix(m) ==
  [a \in 1 .. 4 |->
     [n \in {x \in (1 .. 4) \ {a} : m[{a, x}] # NoLink} |-> m[{a, n}]]]

SmallGraphs ==
  {FromMatrix(m) : m \in [{{a, n} : a \in 1 .. 3, n \in 2 .. 4} \ {{a} : a \in 1 .. 4}
                            -> Weights \cup {NoLink}]}

ScriptLinks ==
  { <<2, 3, 2>>, <<2, 5, 5>>, <<2, 18, 1>>, <<3, 5, 3>>, <<3, 18, 2>>, <<5, 18, 9>>,
    <<5, 23, 1>>, <<5, 45, 5>>, <<18, 23, 9>>, <<23, 45, 2>>, <<45, 49, 7>>, <<49, 60, 6>> }

ScriptGraph ==
  [a \in {2, 3, 5, 18, 23, 45, 49, 60} |->
     LET at == {e \in ScriptLinks : a \in {e[1], e[2]}} IN
     [n \in (UNION {{e[1], e[2]} : e \in at}) \ {a} |->
        (CHOOSE e \in at : n \in {e[1], e[2]})[3]]]

MCGraphs == SmallGraphs \cup {ScriptGraph}
=============================================================================
