---------------------------- MODULE MCOperations ----------------------------
(***************************************************************************)
(* Instances of Operations for TLC: the harvest of two waves, of which one *)
(* cube may be satisfiable, and the drivers overlap then; the consoles,    *)
(* with the launchers that resume uses and with all that have a window;    *)
(* the watchdog's lock, with starts one at a time, with process numbers    *)
(* given out again, and with starts that overlap; and the sleep sensor.    *)
(***************************************************************************)
EXTENDS Operations, TLC

CONSTANTS
    tot, seq,
    s1, s2, s3, p1, p2, p3

-----------------------------------------------------------------------------
(* Two waves of two cubes each, of one instance, from different encoders.  *)

MCWaves == <<tot, seq>>

Pin(encoder, split) ==
    LET base == Formula(2, 2, 1, encoder, TRUE) IN
    [shape |-> TRUE, N |-> 2, k |-> 2, l |-> 1, encoder |-> encoder,
     symmetryBreak |-> TRUE, base |-> base, split |-> split,
     nCubes |-> 2 ^ Len(split), construction |-> Construction,
     cubes |-> CubeSet(split)]

MCPins == [w \in {tot, seq} |-> IF w = tot THEN Pin("totalizer", <<1>>)
                                ELSE Pin("seqcount", <<2>>)]

MCAllUnsat == [w \in {tot, seq} |-> [cube \in CubeIds(MCPins[w].split) |-> 20]]

MCOneSat == [MCAllUnsat EXCEPT ![seq][{2}] = 10]

MCTruths == {MCAllUnsat, MCOneSat}

-----------------------------------------------------------------------------
\* resume_campaign.ps1 and start_watchdog.ps1; nothing checks, so that
\* verify_detached always fails.
Resumed ==
    [scripts |-> {"resume_campaign", "start_watchdog"},
     programs |-> {"orchestrator", "watchdog", "wave driver", "check_pass", "pruner",
                   "wave worker", "check worker", "kissat", "drat-trim"}]

\* With launchers that open a window besides.
Windows ==
    [scripts |-> {"resume_campaign", "start_watchdog",
                  "launch_detached", "launch_sample_pruner"},
     programs |-> {"orchestrator", "watchdog", "wave driver", "pruner", "checker",
                   "check worker"}]

MCSetups == {Resumed, Windows}

OneAtATime == [starts |-> {s1, s2, s3}, overlap |-> FALSE, reuse |-> FALSE]
MCModes == {OneAtATime,
            [OneAtATime EXCEPT !.starts = {s1, s2}, !.reuse = TRUE],
            [OneAtATime EXCEPT !.starts = {s1, s2}, !.overlap = TRUE]}

\* Process numbers are alike, and so are two of the starts.
Alike == Permutations({s1, s2}) \cup Permutations({p1, p2, p3})

\* What does not concern a world has one value there.
MCInit ==
    /\ WorldsInit
    /\ overlap = (truth = MCOneSat)
    /\ world # "harvest" => ~overlap /\ partial = [w \in WaveSet |-> FALSE]
    /\ world # "consoles" => setup = Resumed
    /\ world # "lock" => mode = OneAtATime

MCSpec == MCInit /\ [][WorldsNext]_worldsVars
=============================================================================
