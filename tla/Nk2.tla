---------------------------------- MODULE Nk2 ----------------------------------
(***************************************************************************)
(* The programs that work on one instance beside one another: an encoder   *)
(* writing an instance, its at_most constraint over every short sequence,  *)
(* a wave directory being laid out, and nk2.solve, alone or beside another *)
(* invocation.  One of them at a time moves, each in a world of its own.   *)
(***************************************************************************)
EXTENDS SolveOne

CONSTANTS
    Crew, CrewJobs, CrewStarts, CrewKills,      \* invocations at once
    StreamJobs, MaxClauses,                     \* of ClauseStream
    MaxWidth,                                   \* of AtMostCheck
    N, Encoders, Ranking, Depths, VerifiedDepth, Solutions, LayoutKills

VARIABLES
    world,
    job, d, a, t, stream, lines, left, pc,
    encoder, bound, values,
    base, cubes, manifest, verdicts, setup, driver, setupKills

\* Invocations of nk2.solve at once.
Together == INSTANCE SolveOne WITH
    Procs <- Crew, Jobs <- CrewJobs, MaxStarts <- CrewStarts, MaxKills <- CrewKills

Stream == INSTANCE ClauseStream WITH Jobs <- StreamJobs, body <- stream

Count == INSTANCE AtMostCheck

Layout == INSTANCE WaveSetup WITH MaxKills <- LayoutKills, kills <- setupKills

ASSUME EncodeAssumption == Stream!StreamAssumption /\ MaxWidth \in Nat
ASSUME LayoutAssumption == Layout!SetupAssumption

streamVars == <<job, d, a, t, stream, lines, left, pc>>
countVars == <<encoder, bound, values>>
layoutVars == <<base, cubes, manifest, verdicts, setup, driver, setupKills>>
others == <<streamVars, countVars, layoutVars>>
worldsVars == <<world, vars, others>>

-----------------------------------------------------------------------------
WorldsInit ==
    /\ world \in {"encode", "count", "lay out", "solve", "solve together"}
    /\ Stream!Init /\ Count!Init /\ Layout!Init
    /\ IF world = "solve together" THEN Together!Init ELSE Init

WorldsNext ==
    /\ UNCHANGED world
    /\ \/ world = "encode" /\ Stream!Next /\ UNCHANGED <<vars, countVars, layoutVars>>
       \/ world = "count" /\ Count!Next /\ UNCHANGED <<vars, streamVars, layoutVars>>
       \/ world = "lay out" /\ Layout!Next /\ UNCHANGED <<vars, streamVars, countVars>>
       \/ world = "solve" /\ Next /\ UNCHANGED others
       \/ world = "solve together" /\ Together!Next /\ UNCHANGED others

WorldsSpec == WorldsInit /\ [][WorldsNext]_worldsVars

-----------------------------------------------------------------------------
(* Properties.                                                             *)

\* Header and blocks are what the closed formulas promise, and at_most counts
\* at every bound.
EncodersExact ==
    /\ world = "encode" => Stream!HeaderExact /\ Stream!TypeOK
    /\ world = "count" => Count!CountsExactly

\* The clauses of every instance mean what the definition of avoidance says,
\* progression by progression.
MeaningSpec == Stream!MeaningSpec

\* Rows, hashes and verdicts of a directory laid out again and again are of
\* the cubes that the gate derives.
SetupTrue == world = "lay out" => Layout!SetupTrue

\* The exit codes of an invocation alone say what they are taken for.
RunTrue == world = "solve" => TypeOK /\ ExitCodes
=============================================================================
