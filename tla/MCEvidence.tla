----------------------------- MODULE MCEvidence -----------------------------
(***************************************************************************)
(* Instances of Gate and ImportWave for TLC, in two worlds: in "gate" the  *)
(* gate runs over the checkout of MCGate, in "import" a wave of two cubes, *)
(* from a split of one variable, becomes evidence.                         *)
(***************************************************************************)
EXTENDS MCGate, ImportWave

MCSplit == <<2>>
MCBase == Formula(3, 3, 2, "totalizer", TRUE)

AllUnsat == [cube \in CubeIds(MCSplit) |-> 20]

VARIABLE world

worldsVars == <<world, vars, importVars>>

\* The gate has nothing to look at while a wave is imported.
WorldsInit ==
    /\ world \in {"gate", "import"}
    /\ ImportInit
    /\ world = "import" => repo = Checkout(<<>>, FALSE, FALSE)
    /\ Init

WorldsNext ==
    /\ UNCHANGED world
    /\ \/ world = "gate" /\ Next /\ UNCHANGED importVars
       \/ world = "import" /\ ImportNext /\ UNCHANGED vars

WorldsSpec == WorldsInit /\ [][WorldsNext]_worldsVars
=============================================================================
