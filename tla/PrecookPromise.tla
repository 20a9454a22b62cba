--------------------------- MODULE PrecookPromise ---------------------------
(***************************************************************************)
(* What get_precook promises to build_projects.py and to the tests, in the *)
(* words of its docstring: a project is built after its dependencies,      *)
(* installed and cached for future access, and what is cached stays as it  *)
(* is, across calls, failures and restarts, for as long as the sources do. *)
(***************************************************************************)
CONSTANTS Labels,  \* the projects
          Sources, \* what they can be built from
          Deps,    \* Deps[s][l]: the dependencies the sources s give l
          None     \* no call is in progress, or none has returned

VARIABLES sources, \* those of the running process
          running,
          asked,   \* the label the current or last call asked for
          given,   \* the label of the project it returned
          cooked   \* the labels whose project is built, installed and cached

vars == <<sources, running, asked, given, cooked>>

Closed(C, s) == \A l \in C : l \in DOMAIN Deps[s] /\ Deps[s][l] \subseteq C

Init == /\ sources \in Sources
        /\ running = FALSE
        /\ asked = None
        /\ given = None
        /\ cooked = {}

\* A new process keeps what was cooked, or starts from what is still good
\* under sources that changed.
Start == /\ ~running
         /\ running' = TRUE
         /\ sources' \in Sources
         /\ IF sources' = sources
            THEN cooked' = cooked
            ELSE \E C \in SUBSET Labels : Closed(C, sources') /\ cooked' = C
         /\ UNCHANGED <<asked, given>>

Stop == /\ running
        /\ running' = FALSE
        /\ asked' = None
        /\ given' = None
        /\ UNCHANGED <<sources, cooked>>

Ask == /\ running
       /\ asked' \in Labels
       /\ given' = None
       /\ UNCHANGED <<sources, running, cooked>>

\* One project more is cooked, all its dependencies being so.
Cook(l) == /\ l \in DOMAIN Deps[sources]
           /\ l \notin cooked
           /\ Deps[sources][l] \subseteq cooked
           /\ cooked' = cooked \cup {l}

\* The project that is returned is the one that was asked for, and it is
\* cooked; a call that raises gives nothing.
Give == asked # None /\ given = None /\ asked \in cooked' /\ given' = asked

Work == /\ running
        /\ \/ (\E l \in Labels : Cook(l)) /\ (Give \/ UNCHANGED given)
           \/ Give /\ UNCHANGED cooked
        /\ UNCHANGED <<sources, running, asked>>

Next == Start \/ Stop \/ Ask \/ Work

Spec == Init /\ [][Next]_vars
=============================================================================
