------------------------------ MODULE Consoles ------------------------------
(***************************************************************************)
(* Which console each process of the campaign is attached to: detach.py    *)
(* and the creation flags of every launch below it, and the check of it    *)
(* all, verify_detached.py.  Closing a console's window ends whatever is   *)
(* attached to it; ignoring Ctrl+C (console_immunity.py) does not help.    *)
(*                                                                         *)
(* One process stands for all of a role.  A console is named by the role   *)
(* it was made for and by whether it has a window.  Windows gives a child  *)
(* started with no flag its parent's console, or a new one with a window   *)
(* if the parent has none.                                                 *)
(***************************************************************************)
EXTENDS FiniteSets

CONSTANTS
    Setups,     \* ways to set a campaign up, see Scripts and Programs
    Refusals    \* TRUE: AttachConsole may be refused

Launchers == {"resume_campaign", "start_watchdog",
              "launch_detached", "launch_sample_pruner", "launch_pruner"}

Roles == {"orchestrator", "watchdog", "wave driver", "check_pass", "pruner", "checker",
          "check_and_prune", "wave worker", "check worker", "kissat", "drat-trim"}

ConsolesAssumption ==
    Setups \subseteq [scripts : SUBSET Launchers, programs : SUBSET Roles]

Dead == [of |-> "dead", window |-> FALSE]
NoConsole == [of |-> "nobody", window |-> FALSE]
Windowless(r) == [of |-> r, window |-> FALSE]
Window(r) == [of |-> r, window |-> TRUE]

Consoles == {NoConsole} \cup [of : Roles, window : BOOLEAN]

VARIABLES
    setup,      \* one of the Setups; it stays
    console,    \* console[r]: what r is attached to, Dead when r does not run
    verify,     \* the one run of verify_detached.py
    exposed     \* history: on a window since verify listed the processes

vars == <<setup, console, verify, exposed>>

Scripts == setup.scripts    \* the launchers in use
Programs == setup.programs  \* the roles that are played

Alive(r) == console[r] # Dead
OnWindow(r) == Alive(r) /\ console[r].window

Init ==
    /\ setup \in Setups
    /\ console = [r \in Roles |-> Dead]
    /\ verify = [pc |-> "off", rows |-> {}]
    /\ exposed = {}

-----------------------------------------------------------------------------
(* Launches.                                                               *)

\* A new process of this role, on this console.
Begin(r, c) ==
    /\ r \in Programs
    /\ ~Alive(r)
    /\ console' = [console EXCEPT ![r] = c]
    /\ UNCHANGED <<verify, exposed>>

\* What CreateProcess attaches a child to.
Attached(parent, r, flag) ==
    CASE flag = "DETACHED_PROCESS" -> NoConsole
      [] flag = "CREATE_NO_WINDOW" -> Windowless(r)
      [] flag = "none" -> IF console[parent] = NoConsole THEN Window(r)
                          ELSE console[parent]

\* Seeded bug: every process is launched without a console.
BugDetachFlag(noWindow) == "DETACHED_PROCESS"

\* detach.py: spawn(logfile, argv, no_window).
DetachFlag(noWindow) == IF noWindow THEN "CREATE_NO_WINDOW" ELSE "DETACHED_PROCESS"

\* resume_campaign.ps1, through WMI and detach.py; the orchestrator and the
\* two modes of sample_prune.py, the latter with --no-window.
Resume(r) ==
    /\ "resume_campaign" \in Scripts
    /\ r \in {"orchestrator", "pruner", "checker"}
    /\ Begin(r, Attached(r, r, DetachFlag(r # "orchestrator")))

StartWatchdog ==
    /\ "start_watchdog" \in Scripts
    /\ Begin("watchdog", Attached("watchdog", "watchdog", DetachFlag(FALSE)))

\* The older launchers wrap the program in a cmd.exe, which WMI gives a window
\* and which passes its console on.  launch_sample_pruner.ps1 gives
\* sample_prune.py no mode: one process that prunes and checks.
LaunchInCmd(script, r) ==
    /\ script \in Scripts
    /\ <<script, r>> \in {<<"launch_detached", "orchestrator">>,
                          <<"launch_sample_pruner", "pruner">>,
                          <<"launch_pruner", "check_and_prune">>}
    /\ Begin(r, Window(r))

\* Seeded bug: the flag is left out, as it once was.
BugRun(r) ==
    /\ r \in {"wave driver", "check_pass"}
    /\ Alive("orchestrator")
    /\ \A s \in {"wave driver", "check_pass"} : ~Alive(s)
    /\ Begin(r, Attached("orchestrator", r, "none"))

\* run_campaign.py: run(args, tag), one at a time.
Run(r) ==
    /\ r \in {"wave driver", "check_pass"}
    /\ Alive("orchestrator")
    /\ \A s \in {"wave driver", "check_pass"} : ~Alive(s)
    /\ Begin(r, Attached("orchestrator", r, "CREATE_NO_WINDOW"))

\* A pool's workers, and the program a worker runs, get no flag.
Children == {<<"wave driver", "wave worker">>, <<"wave worker", "kissat">>,
             <<"check_pass", "check worker">>, <<"checker", "check worker">>,
             <<"pruner", "check worker">>, <<"check_and_prune", "check worker">>,
             <<"check worker", "drat-trim">>}

StartChild(parent, r) ==
    /\ <<parent, r>> \in Children
    \* sample_prune.py in mode "prune" checks nothing
    /\ parent = "pruner" => console[parent] = Window("pruner")
    /\ Alive(parent)
    /\ Begin(r, Attached(parent, r, "none"))

-----------------------------------------------------------------------------
(* Ends.  The children of a process outlive it.                            *)

End(ended) ==
    /\ console' = [r \in Roles |-> IF r \in ended THEN Dead ELSE console[r]]
    /\ exposed' = exposed \ ended
    /\ UNCHANGED verify

Exit(r) == Alive(r) /\ End({r})

\* One click on the X.
CloseWindow(c) ==
    /\ c.window
    /\ \E r \in Roles : console[r] = c
    /\ End({r \in Roles : console[r] = c})

-----------------------------------------------------------------------------
(* verify_detached.py: list, then probe one process after another.         *)

\* Seeded bug: only the roles that must be there, not what they started.
BugClassify(r) ==
    IF r \in {"orchestrator", "watchdog", "wave driver", "pruner", "checker"} THEN r ELSE "None"

\* The role a command line is taken for, "None" when it is not looked at.
Classify(r) ==
    CASE r = "check_and_prune" -> "None"
      [] r \in {"wave worker", "check worker"} -> "pool worker"
      [] OTHER -> r

Required == {"orchestrator", "watchdog", "wave driver", "pruner", "checker"}
Consoleless == {"orchestrator", "watchdog"}

\* A failure decides the result; the probes that follow it change nothing and
\* are left out.  A required role that is missing is one.
Enumerate ==
    LET rows == {r \in Roles : Alive(r) /\ Classify(r) # "None"} IN
    /\ verify.pc = "off"
    /\ verify' = IF Required \subseteq rows THEN [pc |-> "probe", rows |-> rows]
                 ELSE [pc |-> "FAIL", rows |-> {}]
    /\ exposed' = {r \in Roles : OnWindow(r)}
    /\ UNCHANGED console

Probed(r, failed) ==
    /\ verify.pc = "probe"
    /\ r \in verify.rows
    /\ verify' = IF failed THEN [pc |-> "FAIL", rows |-> {}]
                 ELSE [verify EXCEPT !.rows = @ \ {r}]
    /\ UNCHANGED <<console, exposed>>

\* AttachConsole fails for another reason than that there is none: the process
\* is gone, or access is refused.
Inconclusive(r) == (~Alive(r) \/ Refusals) /\ Probed(r, TRUE)

Probe(r) ==
    /\ Alive(r)
    /\ Probed(r, console[r].window \/ (r \in Consoleless /\ console[r] # NoConsole))

Result ==
    /\ verify.pc = "probe"
    /\ verify.rows = {}
    /\ verify' = [verify EXCEPT !.pc = "PASS"]
    /\ UNCHANGED <<console, exposed>>

-----------------------------------------------------------------------------
Launch ==
    \/ StartWatchdog
    \/ \E r \in Roles : Resume(r) \/ Run(r)
    \/ \E r \in Roles, script \in Scripts : LaunchInCmd(script, r)
    \/ \E pair \in Children : StartChild(pair[1], pair[2])

Next ==
    /\ UNCHANGED setup
    /\ \/ Launch
       \/ \E r \in Roles : Exit(r)
       \/ \E c \in Consoles : CloseWindow(c)
       \/ Enumerate \/ Result
       \/ \E r \in Roles : Probe(r) \/ Inconclusive(r)

Spec == Init /\ [][Next]_vars

-----------------------------------------------------------------------------
(* Properties.                                                             *)

\* The state has the shape the program gives it, and only the two processes
\* that are to have no console are ever without one.
TypeOK ==
    /\ \A r \in Roles : Alive(r) =>
        /\ console[r] \in Consoles
        /\ console[r] = NoConsole => r \in Consoleless
    /\ verify.pc \in {"off", "probe", "PASS", "FAIL"}
    /\ verify.rows \subseteq Roles
    /\ exposed \subseteq Roles

\* "A structural fix": with the launchers that go through detach.py nothing of
\* the campaign is ever behind a window, two levels of children without flags
\* included; and the two that spawn only flagged children have no console.
NothingToClick ==
    Scripts \subseteq {"resume_campaign", "start_watchdog"} =>
        \A r \in Roles : Alive(r) =>
            /\ ~console[r].window
            /\ r \in Consoleless => console[r] = NoConsole

\* "No campaign process owns a console window": whatever else starts and ends
\* while the processes are probed one by one, a PASS is about all of them.
\* None has been on a window since they were listed.  (check_and_prune.py,
\* which only launch_pruner starts, is not listed.)
PassSound ==
    "launch_pruner" \notin Scripts /\ verify.pc = "PASS" => exposed = {}

\* Nothing of a resumed campaign is behind a window, and a PASS of
\* verify_detached.py is about every process it lists.
ConsolesTrue == TypeOK /\ NothingToClick /\ PassSound
=============================================================================
