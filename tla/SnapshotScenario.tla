-------------------------- MODULE SnapshotScenario --------------------------
(***************************************************************************)
(* The snapshot tests of tests/output_path/test_output_path.py, on top of  *)
(* Runtime: one session daemon and, test after test, one application       *)
(* (apps/gen_ust_events/gen-ust-events.c) that must have written an event  *)
(* and still be alive when the snapshot is recorded.  Driver and           *)
(* application tell each other so by two files, whose names are the same   *)
(* in every test.                                                          *)
(***************************************************************************)
EXTENDS Runtime

CONSTANTS
    sessiond, \* a subprocess
    App,      \* the subprocesses that run the application, test by test
    nb_loop   \* events an application writes

NrTests == Len(App)

ASSUME AppAssumption ==
    /\ sessiond \in Procs
    /\ App \in Seq(Procs \ {sessiond}) /\ App # <<>>
    /\ \A t, u \in DOMAIN App : App[t] = App[u] => t = u
ASSUME LoopAssumption == nb_loop \in Nat \ {0, 1}
-----------------------------------------------------------------------------
VARIABLES
    test,           \* the number of the test
    step,           \* its next statement
    app_sync_start, \* this file exists
    app_sync_end,   \* this one too
    tracing,        \* the session is started
    recorded,       \* events in the buffers of the session
    events,         \* events the application has written
    hit,            \* it is between tracepoint and create_file
    file_created,   \* the static variable of create_file
    refused         \* a command or a wait of the driver has failed

sync == <<app_sync_start, app_sync_end>>
session == <<tracing, recorded>>
application == <<events, hit, file_created>>
script == <<test, step>>
scenario == <<script, sync, session, application, refused>>
svars == <<vars, scenario>>

Step == {"sessiond", "create", "spawn", "wait_for_file", "record",
         "create_empty_file", "stop", "terminate", "remove start",
         "remove end", "terminate sessiond", "end"}

ScenarioTypeOK ==
    /\ test \in 1..NrTests + 1
    /\ step \in Step
    /\ app_sync_start \in BOOLEAN /\ app_sync_end \in BOOLEAN
    /\ tracing \in BOOLEAN /\ hit \in BOOLEAN /\ file_created \in BOOLEAN
    /\ refused \in BOOLEAN
    /\ recorded \in 0..nb_loop
    /\ events \in 0..nb_loop

app == App[test]

ScenarioInit ==
    /\ Init
    /\ test = 1 /\ step = "sessiond"
    /\ app_sync_start = FALSE /\ app_sync_end = FALSE
    /\ tracing = FALSE /\ recorded = 0
    /\ events = 0 /\ hit = FALSE /\ file_created = FALSE
    /\ refused = FALSE

\* The driver is at a statement of the test, and goes on to another.
Does(this, following) ==
    /\ At("body")
    /\ step = this
    /\ step' = following
    /\ UNCHANGED refused
-----------------------------------------------------------------------------
(* The driver.                                                             *)

SpawnSessiond ==
    /\ Does("sessiond", "create")
    /\ spawn_subprocess(sessiond)
    /\ UNCHANGED <<test, sync, session, application>>

\* Mutant: the session of the test before is still there.
CreateNothing ==
    /\ Does("create", "spawn")
    /\ tracing' = TRUE
    /\ UNCHANGED <<vars, test, sync, recorded, application>>

\* lttng create, enable-channel, enable-event, start.
CreateSession ==
    /\ Does("create", "spawn")
    /\ tracing' = TRUE
    /\ recorded' = 0
    /\ UNCHANGED <<vars, test, sync, application>>

SpawnApp ==
    /\ Does("spawn", "wait_for_file")
    /\ spawn_subprocess(app)
    /\ events' = 0 /\ hit' = FALSE /\ file_created' = FALSE
    /\ UNCHANGED <<test, sync, session>>

wait_for_file ==
    /\ Does("wait_for_file", "record")
    /\ app_sync_start
    /\ UNCHANGED <<vars, test, sync, session, application>>

SnapshotRecord ==
    /\ Does("record", "create_empty_file")
    /\ UNCHANGED <<vars, test, sync, session, application>>

\* It raises when the path exists.
create_empty_file ==
    /\ At("body") /\ step = "create_empty_file"
    /\ app_sync_end' = TRUE
    /\ IF app_sync_end THEN BodyRaises /\ UNCHANGED step
                       ELSE step' = "stop" /\ UNCHANGED vars
    /\ UNCHANGED <<test, app_sync_start, session, application, refused>>

\* lttng stop, lttng destroy -a.
StopSession ==
    /\ Does("stop", "terminate")
    /\ tracing' = FALSE
    /\ UNCHANGED <<vars, test, sync, recorded, application>>

TerminateApp ==
    /\ Does("terminate", "remove start")
    /\ subprocess_terminate(app, TRUE)
    /\ UNCHANGED <<test, sync, session, application>>

\* Mutant: leaves the file it waited for.
LeaveStart ==
    /\ Does("remove start", "remove end")
    /\ UNCHANGED <<vars, test, sync, session, application>>

\* os.remove raises when there is no file.
RemoveStart ==
    /\ At("body") /\ step = "remove start"
    /\ app_sync_start' = FALSE
    /\ IF app_sync_start THEN step' = "remove end" /\ UNCHANGED vars
                         ELSE BodyRaises /\ UNCHANGED step
    /\ UNCHANGED <<test, app_sync_end, session, application, refused>>

FollowingTest ==
    IF test < NrTests THEN "create" ELSE "terminate sessiond"

\* Mutant: leaves the file.
LeaveEnd ==
    /\ Does("remove end", FollowingTest)
    /\ test' = test + 1
    /\ UNCHANGED <<vars, sync, session, application>>

RemoveEnd ==
    /\ At("body") /\ step = "remove end"
    /\ app_sync_end' = FALSE
    /\ IF app_sync_end
         THEN step' = FollowingTest /\ test' = test + 1 /\ UNCHANGED vars
         ELSE BodyRaises /\ UNCHANGED script
    /\ UNCHANGED <<app_sync_start, session, application, refused>>

TerminateSessiond ==
    /\ Does("terminate sessiond", "end")
    /\ subprocess_terminate(sessiond, TRUE)
    /\ UNCHANGED <<test, sync, session, application>>

TestsEnd ==
    /\ Does("end", "end")
    /\ BodyEnds
    /\ UNCHANGED <<test, sync, session, application>>

\* An lttng command or spawn_subprocess fails, wait_for_file gives up after
\* a minute, or a test has left no trace where it should.
CommandFails ==
    /\ step \in {"sessiond", "create", "spawn", "wait_for_file", "record",
                "stop", "end"}
    /\ BodyRaises
    /\ refused' = TRUE
    /\ UNCHANGED <<script, sync, session, application>>

Script ==
    \/ SpawnSessiond
    \/ CreateSession
    \/ SpawnApp
    \/ wait_for_file
    \/ SnapshotRecord
    \/ create_empty_file
    \/ StopSession
    \/ TerminateApp
    \/ RemoveStart
    \/ RemoveEnd
    \/ TerminateSessiond
    \/ TestsEnd

\* What Runtime does for the driver: the waits of its calls, and close().
Calling == (Waiting \/ Close) /\ UNCHANGED scenario
-----------------------------------------------------------------------------
(* The application: nb_loop times an event, before the last of which it    *)
(* waits for one file, and after the first of which it creates the other.  *)

Working(p) == test \in DOMAIN App /\ p = app /\ Running(p)

\* Mutant: off by one, the application never waits.
NeverAwaited == events = nb_loop => app_sync_end

\* Mutant: the application waits before the first event.
AwaitedFirst == events = 0 => app_sync_end

\* wait_on_file returns, or is not called.
FileAwaited == events = nb_loop - 1 => app_sync_end

Tracepoint(p) ==
    /\ Working(p) /\ ~hit
    /\ events < nb_loop
    /\ FileAwaited
    /\ events' = events + 1
    /\ recorded' = IF tracing THEN recorded + 1 ELSE recorded
    /\ hit' = TRUE
    /\ UNCHANGED <<vars, script, sync, tracing, file_created, refused>>

create_file(p) ==
    /\ Working(p) /\ hit
    /\ app_sync_start' = (app_sync_start \/ ~file_created)
    /\ file_created' = TRUE
    /\ hit' = FALSE
    /\ UNCHANGED <<vars, script, app_sync_end, session, events, refused>>

\* The application ends after its last event; the session daemon when told.
Finishes(p) ==
    /\ Exit(p) /\ rc'[p] = "zero"
    /\ IF p = sessiond THEN p \in signalled
                       ELSE Working(p) /\ ~hit /\ events = nb_loop
    /\ UNCHANGED scenario

\* An application has no handler of SIGTERM.
Dies(p) ==
    /\ p # sessiond
    /\ Exit(p) /\ rc'[p] = "SIGTERM"
    /\ UNCHANGED scenario

Lives(p) == Tracepoint(p) \/ create_file(p) \/ Finishes(p) \/ Dies(p)
-----------------------------------------------------------------------------
ScenarioNext ==
    \/ Script
    \/ CommandFails
    \/ Calling
    \/ \E p \in Procs : Lives(p)

ScenarioSpec == ScenarioInit /\ [][ScenarioNext]_svars

(* Sequential programs, whose commands return and whose signals arrive.    *)
(* No wait is assumed to be given up.                                      *)
ScenarioFairSpec ==
    /\ ScenarioSpec
    /\ WF_svars(Script) /\ WF_svars(Calling)
    /\ \A p \in Procs : WF_svars(Lives(p))
-----------------------------------------------------------------------------
(* Correctness.                                                            *)

Recording == At("body") /\ step = "record"

\* `per-pid and snapshot mode need the application alive at snapshot time'
\* (test_output_path.py:322-323), in every test.
AliveAtRecord == Recording => Running(app)

\* `at least one tracepoint has been hit' (gen-ust-events.c:174) in this
\* session when its snapshot is recorded (test_output_path.py:327-329).
EventBeforeRecord == Recording => recorded > 0

\* If every command succeeds a test fails only because the SIGTERM of line
\* 335 is faster than the last event of an application; the files of one
\* test never are in the way of the next one.
OnlyRaceFails ==
    outcome = "test error" /\ ~refused =>
       \E t \in DOMAIN App : rc[App[t]] = "SIGTERM"

DriverWaits == At("body") /\ step = "wait_for_file" /\ ~app_sync_start
AppWaits    == Working(app) /\ ~hit /\ events < nb_loop /\ ~FileAwaited

\* The two never wait at the same time: while the driver waits for its file
\* the application is alive and on its way to it (utils.py:50-59), and while
\* the application waits the test has its file still to create (105-125).
NeverBothWait ==
    /\ DriverWaits => Running(app) /\ ~AppWaits
    /\ AppWaits /\ ~Closing =>
         step \in {"wait_for_file", "record", "create_empty_file"}

\* The driver and the application never wait for each other's file for ever.
ScenarioEnds == <>At("over")
=============================================================================
