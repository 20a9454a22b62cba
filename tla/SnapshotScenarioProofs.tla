----------------------- MODULE SnapshotScenarioProofs -----------------------
(***************************************************************************)
(* Proofs about SnapshotScenario, for any number of tests and events: the  *)
(* scenario is a behaviour of Runtime, the application is alive and has    *)
(* written when the snapshot is recorded, and only a race fails a test.    *)
(***************************************************************************)
EXTENDS SnapshotScenario, RuntimeProofs

\* Steps of a test before the application is spawned; while it cannot end;
\* after it may have ended.
Before == {"sessiond", "create", "spawn"}
Inside == {"wait_for_file", "record", "create_empty_file"}
After  == {"stop", "terminate"}
Remove == {"remove start", "remove end"}
Last   == {"terminate sessiond", "end"}

(* The steps of a test belong to a test, whose application, like those of  *)
(* the tests to come, is not born before its spawn.                        *)
Numbered ==
    /\ step \notin Last => test \in DOMAIN App
    /\ step \in Last => test = NrTests + 1

Unborn(t) ==
    /\ state[App[t]] = "unborn"
    /\ App[t] \notin signalled
    /\ rc[App[t]] = "none"

Fresh ==
    \A t \in DOMAIN App :
       t > test \/ (t = test /\ step \in Before) => Unborn(t)

(* Unless the body has ended it is between two calls, or in one of the two *)
(* calls of subprocess_terminate.                                          *)
BodyCall ==
    /\ ~Closing => \/ At("body")
                   \/ /\ pc \in {"term", "kill", "reap"}
                      /\ \/ step = "remove start" /\ target = app
                         \/ step = "end" /\ target = sessiond
    /\ pc \in {"kill", "reap"} => ~check

(* Which of the files exist.                                               *)
Files ==
    ~Closing =>
       /\ step \in Before \cup Last => ~app_sync_start /\ ~app_sync_end
       /\ step \in Inside => ~app_sync_end
       /\ step \in {"record", "create_empty_file"} \cup After => app_sync_start
       /\ step \in After \cup Remove => app_sync_end
       /\ step = "remove start" => app_sync_start
       /\ step = "remove end" => ~app_sync_start

(* What the application has done.                                          *)
Alive ==
    ~Closing /\ step \in Inside =>
       /\ Running(app) /\ app \notin signalled
       /\ tracing
       /\ events < nb_loop
       /\ app_sync_start \/ hit => recorded > 0
       /\ events > 0 => hit \/ app_sync_start
       /\ file_created => app_sync_start

Gone == ~Closing /\ step \in Remove /\ At("body") => state[app] = "reaped"

Counted ==
    /\ recorded <= events
    /\ step = "spawn" => tracing /\ recorded = 0

(* How the processes ended, and why the test failed.                       *)
Codes ==
    /\ \A p \in Procs : rc[p] # "error"
    /\ rc[sessiond] # "SIGTERM"
    /\ ~Closing => /\ step \in Inside \cup After => rc[app] # "SIGKILL"
                   /\ step # "end" => rc[sessiond] # "SIGKILL"
                   /\ At("term") => rc[target] # "SIGKILL"

RaceLost == \E t \in DOMAIN App : rc[App[t]] = "SIGTERM"

Reason == outcome = "test error" /\ ~refused => RaceLost

\* Only what has not been waited for is killed: the scenario calls
\* subprocess_kill through subprocess_terminate only.
KillsItsOwn == At("kill") => state[target] # "reaped"

ScenarioInv ==
    /\ ScenarioTypeOK
    /\ Numbered
    /\ Fresh
    /\ BodyCall
    /\ Files
    /\ Alive
    /\ Gone
    /\ Counted
    /\ Codes
    /\ Reason

-----------------------------------------------------------------------------
(* Facts about the tests.                                                  *)

LEMMA Tests ==
    /\ NrTests \in Nat /\ NrTests >= 1
    /\ DOMAIN App = 1..NrTests
    /\ \A t \in DOMAIN App : App[t] \in Procs /\ App[t] # sessiond
    /\ sessiond \in Procs
BY AppAssumption DEF NrTests

LEMMA Distinct ==
    ASSUME NEW t \in DOMAIN App, NEW u \in DOMAIN App, App[t] = App[u]
    PROVE  t = u
BY AppAssumption

LEMMA AppIs ==
    ASSUME ScenarioTypeOK, Numbered, step \notin Last
    PROVE  test \in 1..NrTests /\ app \in Procs /\ app # sessiond /\ app = App[test]
BY Tests DEF Numbered, app

LEMMA ScenarioInitial == ScenarioInit => ScenarioInv
<1> SUFFICES ASSUME ScenarioInit PROVE ScenarioInv
  OBVIOUS
<1>1. /\ test = 1 /\ step = "sessiond" /\ recorded = 0 /\ events = 0
      /\ ~app_sync_start /\ ~app_sync_end /\ ~tracing /\ ~hit
      /\ app_sync_start \in BOOLEAN /\ app_sync_end \in BOOLEAN
      /\ tracing \in BOOLEAN /\ hit \in BOOLEAN /\ file_created \in BOOLEAN
      /\ refused \in BOOLEAN
  BY DEF ScenarioInit
<1>2. /\ \A p \in Procs : state[p] = "unborn" /\ rc[p] = "none"
      /\ signalled = {} /\ pc = "body" /\ next = 0 /\ outcome = "none"
  BY DEF ScenarioInit, Init
<1>3. ScenarioTypeOK /\ Numbered
  BY <1>1, Tests, LoopAssumption DEF ScenarioTypeOK, Step, Numbered, Last
<1>4. Fresh
  BY <1>2, Tests DEF Fresh, Unborn
<1>5. Files /\ Alive /\ Gone /\ Counted
  BY <1>1 DEF Files, Alive, Gone, Counted, Before, Inside, After, Remove, Last
<1>6. BodyCall /\ Codes /\ Reason
  BY <1>1, <1>2, Tests DEF BodyCall, Codes, Reason, At, Inside, After
<1> QED
  BY <1>3, <1>4, <1>5, <1>6 DEF ScenarioInv
-----------------------------------------------------------------------------
(* The statements of the driver that call nothing of Runtime.              *)

\* In the body no process has been told to end but the one of the call.
LEMMA InBody == ASSUME Inv, At("body") PROVE ~Closing
BY DEF Inv, InCall, At

\* No file is in the way when one is created, and none missing when it is
\* removed.
LEMMA Silent ==
    ASSUME Inv, ScenarioInv,
           \/ CreateSession \/ wait_for_file \/ SnapshotRecord
           \/ create_empty_file \/ StopSession \/ RemoveStart \/ RemoveEnd
    PROVE  UNCHANGED vars /\ At("body") /\ refused' = refused
BY InBody DEF ScenarioInv, Files, Inside, After, Remove, CreateSession,
       wait_for_file, SnapshotRecord, create_empty_file, StopSession,
       RemoveStart, RemoveEnd, Does

\* What such a statement leaves alone.
Kept == UNCHANGED <<state, rc, signalled, pc, target, check, next, outcome>>

\* Within a test.
Goes(this, following) == step = this /\ step' = following

Moves ==
    \/ Goes("create", "spawn") /\ recorded' = 0 /\ tracing' = TRUE
       /\ UNCHANGED sync
    \/ Goes("wait_for_file", "record") /\ app_sync_start
       /\ UNCHANGED <<sync, session>>
    \/ Goes("record", "create_empty_file") /\ UNCHANGED <<sync, session>>
    \/ Goes("create_empty_file", "stop") /\ app_sync_end' = TRUE
       /\ UNCHANGED <<app_sync_start, session>>
    \/ Goes("stop", "terminate") /\ tracing' = FALSE /\ UNCHANGED <<sync, recorded>>
    \/ Goes("remove start", "remove end") /\ app_sync_start' = FALSE
       /\ UNCHANGED <<app_sync_end, session>>

LEMMA StatementStep ==
    ASSUME Inv, ScenarioInv, Moves, Kept, ~Closing, At("body"),
           UNCHANGED <<test, application, refused>>
    PROVE  ScenarioInv'
<1>1. /\ ScenarioTypeOK /\ Numbered /\ Files
      /\ step \notin Last /\ step' \notin Last /\ step' \in Step
      /\ step' \in Before => step \in Before
  BY DEF ScenarioInv, Last, Moves, Goes, Step, Before
<1>2. /\ app' = app /\ test \in 1..NrTests /\ test' = test
      /\ DOMAIN App = 1..NrTests
      /\ At("body")' /\ ~Closing'
  BY <1>1, AppIs, Tests DEF app, Kept, At, Closing
<1>3. /\ UNCHANGED <<events, hit, file_created, refused>>
      /\ recorded' = recorded \/ recorded' = 0
      /\ step' = "spawn" => tracing' /\ recorded' = 0
      /\ events \in 0..nb_loop /\ recorded \in 0..nb_loop /\ nb_loop \in Nat
  BY <1>1, LoopAssumption
     DEF Moves, Goes, application, session, ScenarioTypeOK
<1>4. /\ app_sync_start' \in BOOLEAN /\ app_sync_end' \in BOOLEAN
      /\ tracing' \in BOOLEAN
  BY <1>1 DEF Moves, sync, session, ScenarioTypeOK
<1>5. ScenarioTypeOK'
  <2>1. recorded' \in 0..nb_loop
    BY <1>3
  <2> QED
    BY <1>1, <1>2, <1>3, <1>4, <2>1 DEF ScenarioTypeOK
<1>6. Numbered' /\ Fresh'
  BY <1>1, <1>2 DEF ScenarioInv, Numbered, Fresh, Unborn, Kept
<1>7. Files'
  BY <1>1 DEF Moves, Goes, Files, sync, Before, Inside, After, Remove, Last
<1>8. Alive'
  BY <1>1, <1>2 DEF ScenarioInv, Moves, Goes, Alive, sync, session,
     application, Inside, Running, Kept
<1>9. Gone' /\ Counted'
  <2>1. Gone'
    BY <1>1, <1>2 DEF ScenarioInv, Moves, Goes, Gone, Remove, Kept
  <2>2. Counted'
    BY <1>3 DEF ScenarioInv, Counted
  <2> QED
    BY <2>1, <2>2
<1>10. BodyCall' /\ Reason'
  BY <1>1, <1>2 DEF ScenarioInv, Kept, BodyCall, Reason, RaceLost, At
<1>11. Codes'
  BY <1>1, <1>2 DEF ScenarioInv, Moves, Goes, Kept, Codes, Inside, After, At
<1> QED
  BY <1>5, <1>6, <1>7, <1>8, <1>9, <1>10, <1>11 DEF ScenarioInv

LEMMA RemoveEndStep ==
    ASSUME Inv, ScenarioInv, RemoveEnd PROVE ScenarioInv'
<1>1. /\ At("body") /\ ~Closing /\ At("body")' /\ ~Closing' /\ Kept
      /\ refused' = refused
  BY Silent, InBody DEF Kept, vars, procs, driver, ending, At, Closing
<1>2. /\ step = "remove end" /\ ~app_sync_start /\ app_sync_end
      /\ ScenarioTypeOK /\ Numbered
  BY <1>1 DEF ScenarioInv, RemoveEnd, Files, Remove
<1>3. /\ test \in 1..NrTests /\ test' = test + 1
      /\ DOMAIN App = 1..NrTests /\ NrTests \in Nat
      /\ step' = FollowingTest /\ ~app_sync_end' /\ app_sync_end' \in BOOLEAN
      /\ UNCHANGED <<app_sync_start, session, application>>
  BY <1>1, <1>2, AppIs, Tests DEF Last, RemoveEnd
<1>4. \/ test' \in 1..NrTests /\ step' = "create"
      \/ test' = NrTests + 1 /\ step' = "terminate sessiond"
  <2>1. CASE test < NrTests
    <3>1. step' = "create"
      BY <1>3, <2>1 DEF FollowingTest
    <3>2. test' \in 1..NrTests
      BY <1>3, <2>1
    <3> QED
      BY <3>1, <3>2
  <2>2. CASE ~(test < NrTests)
    <3>1. step' = "terminate sessiond"
      BY <1>3, <2>2 DEF FollowingTest
    <3>2. test' = NrTests + 1
      BY <1>3, <2>2
    <3> QED
      BY <3>1, <3>2
  <2> QED
    BY <2>1, <2>2
<1>5. ScenarioTypeOK' /\ Numbered'
  <2>1. test' \in 1..NrTests + 1
    BY <1>3
  <2>2. step' \in Step /\ Numbered'
    BY <1>3, <1>4 DEF Step, Numbered, Last
  <2>3. UNCHANGED <<tracing, recorded, events, hit, file_created>>
    BY <1>3 DEF session, application
  <2> QED
    BY <1>1, <1>2, <1>3, <2>1, <2>2, <2>3 DEF ScenarioTypeOK
<1>6. Fresh'
  <2> SUFFICES ASSUME NEW t \in DOMAIN App, t > test PROVE Unborn(t)'
    BY <1>3 DEF Fresh
  <2>1. Unborn(t)
    BY DEF ScenarioInv, Fresh
  <2> QED
    BY <1>1, <2>1 DEF Unborn, Kept
<1>7. /\ step' \in Before \cup Last /\ step' # "spawn" /\ step' # "end"
       /\ step' \notin Inside \cup After \cup Remove
  BY <1>4 DEF Before, Inside, After, Remove, Last
<1>8. Files' /\ Alive' /\ Gone' /\ Counted'
  BY <1>2, <1>3, <1>7
     DEF ScenarioInv, Files, Alive, Gone, Counted, Before, Inside, After, Remove,
         Last, session, application
<1>9. BodyCall' /\ Reason'
  BY <1>1 DEF ScenarioInv, Kept, BodyCall, Reason, RaceLost, At
<1>10. Codes'
  BY <1>1, <1>2, <1>7 DEF ScenarioInv, Kept, Codes, At
<1> QED
  BY <1>5, <1>6, <1>8, <1>9, <1>10 DEF ScenarioInv

LEMMA SilentStep ==
    ASSUME Inv, ScenarioInv,
           \/ CreateSession \/ wait_for_file \/ SnapshotRecord
           \/ create_empty_file \/ StopSession \/ RemoveStart \/ RemoveEnd
    PROVE  ScenarioInv'
<1>1. /\ At("body") /\ ~Closing /\ Kept /\ refused' = refused
  BY Silent, InBody DEF Kept, vars, procs, driver, ending, At
<1>2. CASE ~RemoveEnd
  <2>1. UNCHANGED <<test, application>>
    BY <1>2 DEF CreateSession, wait_for_file, SnapshotRecord, create_empty_file,
                StopSession, RemoveStart
  <2>2. Moves
    BY <1>1, <1>2
       DEF ScenarioInv, Files, Inside, Moves, Goes, Does, CreateSession,
           wait_for_file, SnapshotRecord, create_empty_file, StopSession,
           RemoveStart, sync, session
  <2> QED
    BY <1>1, <2>1, <2>2, StatementStep
<1> QED
  BY <1>2, RemoveEndStep
-----------------------------------------------------------------------------
(* The statements that call Runtime.                                       *)

LEMMA SpawnSessiondStep ==
    ASSUME Inv, ScenarioInv, SpawnSessiond PROVE ScenarioInv'
<1>1. /\ At("body") /\ ~Closing /\ At("body")' /\ ~Closing'
      /\ step = "sessiond" /\ step' = "create"
      /\ state \in [Procs -> {"unborn", "running", "zombie", "reaped"}]
      /\ state' = [state EXCEPT ![sessiond] = "running"]
      /\ UNCHANGED <<rc, signalled, pc, target, check, next, outcome, refused>>
      /\ UNCHANGED <<test, sync, session, application>>
  BY InBody DEF SpawnSessiond, Does, spawn_subprocess, driver, ending, At, Closing,
                Inv, TypeOK
<1>2. /\ \A t \in DOMAIN App : state'[App[t]] = state[App[t]]
      /\ DOMAIN App = 1..NrTests
  BY <1>1, Tests
<1>3. ScenarioTypeOK' /\ Numbered' /\ Fresh'
  BY <1>1, <1>2
     DEF ScenarioInv, ScenarioTypeOK, Step, Numbered, Fresh, Unborn, Before, Last,
         sync, session, application
<1>4. Files' /\ Alive' /\ Gone' /\ Counted'
  BY <1>1 DEF ScenarioInv, Files, Alive, Gone, Counted, Before, Inside, After,
              Remove, Last, sync, session, application
<1>5. BodyCall' /\ Reason' /\ Codes'
  BY <1>1 DEF ScenarioInv, BodyCall, Reason, RaceLost, Codes, At, Inside, After
<1> QED
  BY <1>3, <1>4, <1>5 DEF ScenarioInv

LEMMA SpawnAppStep ==
    ASSUME Inv, ScenarioInv, SpawnApp PROVE ScenarioInv'
<1>1. /\ At("body") /\ ~Closing /\ At("body")' /\ ~Closing'
      /\ step = "spawn" /\ step' = "wait_for_file"
      /\ state \in [Procs -> {"unborn", "running", "zombie", "reaped"}]
      /\ state' = [state EXCEPT ![app] = "running"]
      /\ UNCHANGED <<rc, signalled, pc, target, check, next, outcome, refused>>
      /\ UNCHANGED <<test, sync, session>>
      /\ events' = 0 /\ hit' = FALSE /\ file_created' = FALSE
  BY InBody DEF SpawnApp, Does, spawn_subprocess, driver, ending, At, Closing, Inv,
                TypeOK
<1>2. /\ test \in DOMAIN App /\ test' = test /\ app' = app /\ app = App[test]
      /\ app \in Procs /\ DOMAIN App = 1..NrTests
      /\ ScenarioTypeOK /\ Files /\ Counted
  BY <1>1, AppIs, Tests DEF ScenarioInv, app, Last
<1>3. \A t \in DOMAIN App : t # test => state'[App[t]] = state[App[t]]
  BY <1>1, <1>2, Distinct, Tests
<1>4. nb_loop \in Nat /\ nb_loop > 0
  BY LoopAssumption
<1>5. /\ recorded = 0 /\ recorded' = 0 /\ tracing /\ tracing' = tracing
      /\ ~app_sync_start /\ ~app_sync_end
      /\ app_sync_start' = app_sync_start /\ app_sync_end' = app_sync_end
  BY <1>1, <1>2 DEF Counted, Files, Before, sync, session
<1>6. ScenarioTypeOK' /\ Numbered'
  BY <1>1, <1>2, <1>4, <1>5 DEF ScenarioInv, ScenarioTypeOK, Step, Numbered, Last
<1>7. Fresh'
  BY <1>1, <1>2, <1>3 DEF ScenarioInv, Fresh, Unborn, Before
<1>8. Alive'
  <2>1. Unborn(test)
    BY <1>1, <1>2 DEF ScenarioInv, Fresh, Before
  <2> QED
    BY <1>1, <1>2, <1>4, <1>5, <2>1 DEF Alive, Running, Unborn
<1>9. Files' /\ Gone' /\ Counted'
  BY <1>1, <1>5
     DEF Files, Gone, Counted, Before, Inside, After, Remove, Last
<1>10. BodyCall' /\ Reason'
  BY <1>1 DEF ScenarioInv, BodyCall, Reason, RaceLost, At
<1>11. Codes'
  BY <1>1, <1>2 DEF ScenarioInv, Codes, Fresh, Unborn, Before, Inside, After, At
<1> QED
  BY <1>6, <1>7, <1>8, <1>9, <1>10, <1>11 DEF ScenarioInv

LEMMA SignalType == ASSUME TypeOK, NEW p \in Procs, Signal(p)
                    PROVE  signalled' = signalled \/ signalled' = signalled \cup {p}
BY DEF Signal, TypeOK

LEMMA TerminateAppStep ==
    ASSUME Inv, ScenarioInv, TerminateApp PROVE ScenarioInv'
<1>1. /\ At("body") /\ ~Closing /\ ~Closing'
      /\ step = "terminate" /\ step' = "remove start"
      /\ UNCHANGED <<state, rc, next, outcome, refused>>
      /\ UNCHANGED <<test, sync, session, application>>
      /\ pc' = "term" /\ target' = app /\ Signal(app) /\ TypeOK
  BY InBody DEF TerminateApp, Does, subprocess_terminate, Calls, ending, Closing, Inv
<1>2. /\ test \in DOMAIN App /\ app' = app /\ app = App[test]
      /\ app \in Procs /\ DOMAIN App = 1..NrTests
      /\ ScenarioTypeOK /\ Files /\ Counted /\ Codes
  BY <1>1, AppIs, Tests DEF ScenarioInv, app, Last
<1>3. \A t \in DOMAIN App :
         t # test /\ App[t] \notin signalled => App[t] \notin signalled'
  BY <1>1, <1>2, SignalType, Distinct
<1>4. ScenarioTypeOK' /\ Numbered'
  BY <1>1, <1>2
     DEF ScenarioInv, ScenarioTypeOK, Step, Numbered, Last, sync, session,
         application
<1>5. Fresh'
  <2> SUFFICES ASSUME NEW t \in DOMAIN App, t > test PROVE Unborn(t)'
    BY <1>1 DEF Fresh, Before
  <2>1. Unborn(t)
    BY DEF ScenarioInv, Fresh
  <2>2. t # test
    BY <1>2, Tests
  <2> QED
    BY <1>1, <1>3, <2>1, <2>2 DEF Unborn
<1>6. Files' /\ Alive' /\ Gone' /\ Counted'
  BY <1>1, <1>2
     DEF Files, Alive, Gone, Counted, Before, Inside, After, Remove, Last, At,
         sync, session, application
<1>7. BodyCall' /\ Reason'
  BY <1>1, <1>2 DEF ScenarioInv, BodyCall, Reason, RaceLost
<1>8. Codes'
  BY <1>1, <1>2 DEF Codes, Inside, After, At
<1> QED
  BY <1>4, <1>5, <1>6, <1>7, <1>8 DEF ScenarioInv

LEMMA TerminateSessiondStep ==
    ASSUME Inv, ScenarioInv, TerminateSessiond PROVE ScenarioInv'
<1>1. /\ At("body") /\ ~Closing /\ ~Closing'
      /\ step = "terminate sessiond" /\ step' = "end"
      /\ UNCHANGED <<state, rc, next, outcome, refused>>
      /\ UNCHANGED <<test, sync, session, application>>
      /\ pc' = "term" /\ target' = sessiond
      /\ TypeOK /\ ScenarioTypeOK /\ Files /\ Counted /\ Codes
  BY InBody DEF TerminateSessiond, Does, subprocess_terminate, Calls, ending,
                Closing, Inv, ScenarioInv
<1>2. ScenarioTypeOK' /\ Numbered'
  BY <1>1
     DEF ScenarioInv, ScenarioTypeOK, Step, Numbered, Last, sync, session,
         application
<1>3. Fresh'
  <2>1. test = NrTests + 1 /\ test' = test
    BY <1>1 DEF ScenarioInv, Numbered, Last
  <2> QED
    BY <2>1, Tests DEF Fresh
<1>4. Files' /\ Alive' /\ Gone' /\ Counted'
  BY <1>1
     DEF Files, Alive, Gone, Counted, Before, Inside, After, Remove, Last,
         sync, session, application
<1>5. BodyCall' /\ Reason'
  BY <1>1 DEF ScenarioInv, BodyCall, Reason, RaceLost
<1>6. Codes'
  BY <1>1 DEF Codes, Inside, After, At
<1> QED
  BY <1>2, <1>3, <1>4, <1>5, <1>6 DEF ScenarioInv

\* Once the body has ended little is left to show.
LEMMA ClosingStep ==
    ASSUME ScenarioInv, Closing', UNCHANGED <<script, session, application>>,
           UNCHANGED sync, refused' \in BOOLEAN,
           \A p \in Procs : Running(p) \/ /\ state[p] = "unborn" => state'[p] = "unborn"
                                          /\ rc'[p] = rc[p]
                                          /\ p \in signalled' => p \in signalled,
           \A p \in Procs : rc'[p] # "error",
           rc'[sessiond] # "SIGTERM",
           pc' \in {"kill", "reap"} => ~check',
           Reason'
    PROVE  ScenarioInv'
<1>1. ScenarioTypeOK' /\ Numbered' /\ Counted'
  BY DEF ScenarioInv, ScenarioTypeOK, Numbered, Counted, script, session,
         application, sync
<1>2. Fresh'
  BY Tests DEF ScenarioInv, Fresh, Unborn, Running, script
<1>3. BodyCall' /\ Files' /\ Alive' /\ Gone' /\ Codes'
  BY DEF BodyCall, Files, Alive, Gone, Codes
<1> QED
  BY <1>1, <1>2, <1>3 DEF ScenarioInv

LEMMA EndsStep ==
    ASSUME Inv, ScenarioInv, TestsEnd \/ CommandFails PROVE ScenarioInv'
<1>1. /\ Closing'
      /\ UNCHANGED <<script, session, application, sync, state, rc, signalled>>
      /\ pc' = "close"
  BY StartsClosing
     DEF TestsEnd, CommandFails, Does, BodyEnds, BodyRaises, Raise, Goto, Calls,
         Closing, procs, script
<1>2. Reason' /\ refused' \in BOOLEAN
  BY DEF ScenarioInv, ScenarioTypeOK, Reason, RaceLost, TestsEnd, CommandFails, Does,
         BodyEnds, procs
<1> QED
  BY <1>1, <1>2, ClosingStep DEF ScenarioInv, Codes

-----------------------------------------------------------------------------
(* What Runtime does for the driver.                                       *)

\* The process of a call of the body: never killed yet when SIGTERM was sent,
\* so that a wait that raises has seen what a SIGTERM does to an application.
LEMMA CallOf ==
    ASSUME Inv, ScenarioInv, ~Closing, NEW p \in Procs, target = p,
           pc \in {"term", "kill", "reap"}
    PROVE  /\ \/ step = "remove start" /\ test \in DOMAIN App /\ app = App[test] /\ p = app
              \/ step = "end" /\ p = sessiond
           /\ pc = "term" /\ Failed(p) => p # sessiond /\ rc[p] = "SIGTERM"
           /\ pc # "term" => ~check
<1>1. \/ step = "remove start" /\ p = app
      \/ step = "end" /\ p = sessiond
  BY DEF ScenarioInv, BodyCall, At
<1>2. step = "remove start" => test \in DOMAIN App /\ app = App[test]
  BY DEF ScenarioInv, Numbered, Last, app
<1>3. pc = "term" /\ Failed(p) => p # sessiond /\ rc[p] = "SIGTERM"
  <2>1. rc[p] \in {"none", "zero", "error", "SIGTERM", "SIGKILL"}
    BY DEF Inv, TypeOK, Code
  <2> QED
    BY <2>1 DEF ScenarioInv, Codes, Failed, At
<1> QED
  BY <1>1, <1>2, <1>3 DEF ScenarioInv, BodyCall

\* In a call of the body.
LEMMA BodyStep ==
    ASSUME Inv, ScenarioInv, ~Closing, ~Closing', UNCHANGED scenario,
           step \in {"remove start", "end"},
           \A p \in Procs : Running(p) \/ Ended(p) \/ /\ state'[p] = state[p]
                                                      /\ rc'[p] = rc[p],
           \A p \in Procs : rc'[p] # "error",
           rc'[sessiond] # "SIGTERM",
           step = "remove start" => rc'[sessiond] # "SIGKILL",
           signalled' = signalled,
           pc' # "term",
           BodyCall',
           pc' = "body" /\ step = "remove start" => state'[app] = "reaped",
           Reason'
    PROVE  ScenarioInv'
<1>1. UNCHANGED <<test, step, recorded, events, tracing, app>>
  BY DEF scenario, script, session, application, app
<1>2. ScenarioTypeOK' /\ Numbered' /\ Counted'
  BY DEF ScenarioInv, ScenarioTypeOK, Numbered, Counted, scenario, script, session,
         application, sync
<1>3. Fresh'
  BY <1>1, Tests DEF ScenarioInv, Fresh, Unborn, Running, Ended
<1>4. Files'
  BY DEF ScenarioInv, Files, scenario, script, sync
<1>5. Alive' /\ Gone' /\ Codes'
  BY <1>1 DEF Alive, Gone, Codes, Inside, After, Remove, At
<1> QED
  BY <1>2, <1>3, <1>4, <1>5 DEF ScenarioInv

LEMMA ReturnsStep ==
    ASSUME Inv, ScenarioInv, NEW p \in Procs, WaitReturns(p) \/ KillReturns(p),
           UNCHANGED scenario
    PROVE  ScenarioInv'
<1>1. /\ target = p /\ Ended(p) /\ CallReturns(p)
      /\ pc \in {"term", "wait", "reap"}
      /\ UNCHANGED <<rc, signalled, refused, test, step, app>>
      /\ state' = [state EXCEPT ![p] = "reaped"] /\ state'[p] = "reaped"
      /\ \A q \in Procs : q # p => state'[q] = state[q]
      /\ next \in Nat
  BY DEF WaitReturns, KillReturns, Reap, At, scenario, script, app, Inv, TypeOK
<1>2. /\ \A q \in Procs : rc'[q] # "error"
      /\ rc'[sessiond] # "SIGTERM"
      /\ \A q \in Procs : state[q] = "unborn" => state'[q] = "unborn"
      /\ refused' \in BOOLEAN
  BY <1>1 DEF ScenarioInv, ScenarioTypeOK, Codes, Ended
<1>3. CASE Closing
  <2>1. pc' = "close" /\ outcome' = outcome /\ Closing'
    BY <1>1, <1>3 DEF CallReturns, Goto, Calls, Note, Closing
  <2>2. Reason'
    BY <1>1, <2>1 DEF ScenarioInv, Reason, RaceLost
  <2> QED
    BY <1>1, <1>2, <2>1, <2>2, ClosingStep DEF scenario
<1>4. CASE ~Closing
  <2>1. pc \in {"term", "kill", "reap"}
    BY <1>1, <1>4 DEF ScenarioInv, BodyCall, At
  <2>2. CASE check /\ Failed(p)
    <3>1. pc' = "close" /\ Closing'
      BY <1>1, <1>4, <2>2, StartsClosing
         DEF CallReturns, Raise, Goto, Calls, Closing
    <3>2. p # sessiond /\ rc[p] = "SIGTERM" /\ RaceLost
      BY <1>1, <1>4, <2>1, <2>2, CallOf DEF RaceLost
    <3>3. Reason'
      BY <1>1, <3>2 DEF Reason, RaceLost
    <3> QED
      BY <1>1, <1>2, <3>1, <3>3, ClosingStep DEF scenario
  <2>3. CASE ~(check /\ Failed(p))
    <3>1. pc' = "body" /\ outcome' = outcome /\ ~Closing'
      BY <1>1, <1>4, <2>3 DEF CallReturns, Goto, Calls, ending, Closing
    <3>2. /\ step \in {"remove start", "end"}
          /\ step = "remove start" => p = app
      BY <1>1, <1>4, <2>1, CallOf
    <3>3. step = "remove start" => rc'[sessiond] # "SIGKILL"
      BY <1>1, <1>4 DEF ScenarioInv, Codes
    <3>4. Reason' /\ BodyCall'
      BY <1>1, <3>1 DEF ScenarioInv, Reason, RaceLost, BodyCall, At
    <3> QED
      BY <1>1, <1>2, <1>4, <3>1, <3>2, <3>3, <3>4, BodyStep
  <2> QED
    BY <2>2, <2>3
<1> QED
  BY <1>3, <1>4

\* A call that times out, and then kills.
LEMMA KillsStep ==
    ASSUME Inv, ScenarioInv, KillsItsOwn, NEW p \in Procs,
           TermTimeout(p) \/ KillGroup(p), UNCHANGED scenario
    PROVE  ScenarioInv'
<1>1. /\ target = p /\ target' = p /\ pc \in {"term", "kill"}
      /\ pc' \in {"kill", "reap"} /\ ~check'
      /\ UNCHANGED <<signalled, next, outcome, refused, test, step, app>>
  BY DEF TermTimeout, KillGroup, At, Calls, procs, ending, scenario, script, app
<1>2. /\ \A q \in Procs : rc'[q] \in {rc[q], "SIGKILL"}
      /\ \A q \in Procs : q # p \/ ~Running(q) =>
            state'[q] = state[q] /\ rc'[q] = rc[q]
  <2>1. CASE TermTimeout(p)
    BY <2>1 DEF TermTimeout, procs
  <2>2. CASE KillGroup(p)
    <3>1. Killed(p)
      BY <2>2 DEF KillGroup, KillsItsOwn
    <3>2. state \in [Procs -> {"unborn", "running", "zombie", "reaped"}] /\ rc \in [Procs -> Code]
      BY DEF Inv, TypeOK
    <3> QED
      BY <3>1, <3>2 DEF Killed
  <2> QED
    BY <2>1, <2>2
<1>3. /\ \A q \in Procs : rc'[q] # "error"
      /\ rc'[sessiond] # "SIGTERM"
      /\ refused' \in BOOLEAN
  BY <1>1, <1>2, Tests DEF ScenarioInv, ScenarioTypeOK, Codes
<1>4. Reason'
  <2>1. \A q \in Procs : rc[q] = "SIGTERM" => rc'[q] = "SIGTERM"
    BY <1>2 DEF Inv, Consistent, Running
  <2> QED
    BY <1>1, <2>1, Tests DEF ScenarioInv, Reason, RaceLost
<1>5. CASE Closing
  <2>1. Closing'
    BY <1>1, <1>5 DEF Closing
  <2> QED
    BY <1>1, <1>2, <1>3, <1>4, <2>1, ClosingStep DEF scenario
<1>6. CASE ~Closing
  <2>1. ~Closing'
    BY <1>1, <1>6 DEF Closing
  <2>2. \/ step = "remove start" /\ p = app /\ p # sessiond
        \/ step = "end" /\ p = sessiond
    BY <1>1, <1>6, CallOf, Tests
  <2>3. BodyCall'
    BY <1>1, <2>2 DEF BodyCall
  <2>4. step = "remove start" => rc'[sessiond] # "SIGKILL"
    BY <1>2, <1>6, <2>2, Tests DEF ScenarioInv, Codes
  <2> QED
    BY <1>1, <1>2, <1>3, <1>4, <1>6, <2>1, <2>2, <2>3, <2>4, BodyStep
<1> QED
  BY <1>5, <1>6

LEMMA CloseStep ==
    ASSUME Inv, ScenarioInv, Close, UNCHANGED scenario PROVE ScenarioInv'
<1>1. Closing /\ Closing'
  BY DEF Inv, InCall, Close, CloseNext, CloseLoopEnds, unload_test_module,
         UnloadRaises, CopyFails, CloseReturns, At, Closing, ending
<1>2. /\ pc' \notin {"kill", "reap"}
      /\ UNCHANGED <<state, rc, refused>>
      /\ outcome' \in {outcome, "close error", "SubProcessError", "passed"}
  BY DEF Close, CloseNext, CloseLoopEnds, unload_test_module, UnloadRaises,
         CopyFails, CloseReturns, At, Goto, Calls, ending, procs, scenario
<1>3. \A p \in Procs : p \in signalled' => p \in signalled \/ Running(p)
  <2>1. CASE CloseNext
    BY <2>1 DEF CloseNext, Signal
  <2>2. CASE ~CloseNext
    BY <2>2 DEF Close, CloseLoopEnds, unload_test_module, UnloadRaises,
                CopyFails, CloseReturns, procs
  <2> QED
    BY <2>1, <2>2
<1>4. Reason'
  BY <1>2 DEF ScenarioInv, Reason, RaceLost
<1>5. \A p \in Procs : rc'[p] # "error"
  BY <1>2 DEF ScenarioInv, Codes
<1>6. rc'[sessiond] # "SIGTERM" /\ refused' \in BOOLEAN
  BY <1>2 DEF ScenarioInv, ScenarioTypeOK, Codes
<1> QED
  BY <1>1, <1>2, <1>3, <1>4, <1>5, <1>6, ClosingStep DEF scenario
-----------------------------------------------------------------------------
(* The application.                                                        *)

\* An application that works has been spawned.
LEMMA Works ==
    ASSUME Inv, ScenarioInv, NEW p \in Procs, Working(p)
    PROVE  /\ step \notin Before \cup Last
           /\ ~Closing => step # "remove end"
           /\ p = app /\ Running(app)
<1>1. p = app /\ Running(app) /\ test \in DOMAIN App
  BY DEF Working
<1>2. step \notin Before
  BY <1>1, Tests DEF ScenarioInv, Fresh, Unborn, Running, app
<1>3. step \notin Last
  BY <1>1, Tests DEF ScenarioInv, Numbered
<1>4. ASSUME ~Closing, step = "remove end" PROVE FALSE
  <2>1. At("body")
    BY <1>4 DEF ScenarioInv, BodyCall, At
  <2> QED
    BY <1>1, <1>4, <2>1 DEF ScenarioInv, Gone, Remove, Running
<1> QED
  BY <1>1, <1>2, <1>3, <1>4

LEMMA AppStep ==
    ASSUME Inv, ScenarioInv, NEW p \in Procs, Tracepoint(p) \/ create_file(p)
    PROVE  ScenarioInv'
<1>1. /\ step \notin Before \cup Last
      /\ ~Closing => step # "remove end"
  BY Works DEF Tracepoint, create_file
<1>2. /\ UNCHANGED <<test, step, refused, app_sync_end, tracing, app>>
      /\ Kept
      /\ ScenarioTypeOK /\ Alive /\ Files /\ Counted
  BY DEF ScenarioInv, Tracepoint, create_file, vars, procs, driver, ending, script,
         session, sync, app, Kept
<1>3. Numbered' /\ Fresh' /\ BodyCall' /\ Gone' /\ Codes' /\ Reason'
  BY <1>2 DEF ScenarioInv, Numbered, Kept, Closing, BodyCall, Fresh, Unborn, Gone,
              Codes, Reason, RaceLost, At
<1>4. /\ signalled' = signalled /\ Running(app)' = Running(app)
      /\ Closing' = Closing
  BY <1>2 DEF Kept, Running, Closing
<1>5. CASE Tracepoint(p)
  <2>1. /\ events < nb_loop /\ events' = events + 1 /\ hit' = TRUE
        /\ recorded' = IF tracing THEN recorded + 1 ELSE recorded
        /\ events = nb_loop - 1 => app_sync_end
        /\ app_sync_start' = app_sync_start /\ file_created' = file_created
    BY <1>5 DEF Tracepoint, FileAwaited, sync
  <2>2. /\ events \in 0..nb_loop /\ recorded \in 0..nb_loop /\ nb_loop \in Nat
        /\ recorded <= events
    BY <1>2, LoopAssumption DEF ScenarioTypeOK, Counted
  <2>3. recorded' \in 0..nb_loop /\ events' \in 0..nb_loop /\ recorded' <= events'
    BY <2>1, <2>2
  <2>4. ScenarioTypeOK'
    BY <1>2, <2>1, <2>3 DEF ScenarioTypeOK
  <2>5. Files' /\ Counted'
    BY <1>1, <1>2, <1>4, <2>1, <2>3 DEF Files, Counted, Before
  <2>6. Alive'
    <3> SUFFICES ASSUME ~Closing, step \in Inside PROVE Alive'
      BY <1>2, <1>4 DEF Alive
    <3>1. Running(app) /\ app \notin signalled /\ tracing /\ ~app_sync_end
      BY <1>2 DEF Alive, Files
    <3>2. events' < nb_loop /\ recorded' > 0 /\ hit'
      BY <2>1, <2>2, <3>1
    <3>3. file_created' => app_sync_start'
      BY <1>2, <2>1 DEF Alive
    <3> QED
      BY <1>2, <1>4, <3>1, <3>2, <3>3 DEF Alive
  <2> QED
    BY <1>2, <1>3, <2>4, <2>5, <2>6 DEF ScenarioInv
<1>6. CASE create_file(p)
  <2>1. /\ hit /\ hit' = FALSE /\ file_created' = TRUE
        /\ app_sync_start' = (app_sync_start \/ ~file_created)
        /\ UNCHANGED <<events, recorded>>
    BY <1>6 DEF create_file, session
  <2>2. ScenarioTypeOK' /\ Counted'
    BY <1>2, <2>1 DEF ScenarioTypeOK, Counted
  <2>3. Files'
    BY <1>1, <1>2, <1>4, <2>1 DEF Files, Remove
  <2>4. Alive'
    <3> SUFFICES ASSUME ~Closing, step \in Inside PROVE Alive'
      BY <1>2, <1>4 DEF Alive
    <3>1. /\ Running(app) /\ app \notin signalled /\ tracing /\ recorded > 0
          /\ events < nb_loop /\ (file_created => app_sync_start)
      BY <1>2, <2>1 DEF Alive
    <3>2. app_sync_start' = TRUE
      BY <1>2, <2>1, <3>1, Zenon DEF ScenarioTypeOK
    <3>3. /\ Running(app)' /\ (app \notin signalled)' /\ tracing'
          /\ (recorded > 0)' /\ (events < nb_loop)'
      BY <1>2, <1>4, <2>1, <3>1
    <3> QED
      BY <3>2, <3>3 DEF Alive
  <2> QED
    BY <1>2, <1>3, <2>2, <2>3, <2>4 DEF ScenarioInv
<1> QED
  BY <1>5, <1>6

LEMMA EndStep ==
    ASSUME Inv, ScenarioInv, NEW p \in Procs, Finishes(p) \/ Dies(p)
    PROVE  ScenarioInv'
<1>1. /\ Running(p) /\ UNCHANGED <<signalled, pc, target, check, next, outcome>>
      /\ UNCHANGED <<test, step, refused, app, events, recorded, tracing, hit>>
      /\ UNCHANGED <<app_sync_start, app_sync_end, file_created>>
      /\ state' = [state EXCEPT ![p] = "zombie"]
      /\ \A q \in Procs : q # p => state'[q] = state[q] /\ rc'[q] = rc[q]
      /\ \/ p = sessiond /\ p \in signalled /\ rc'[p] = "zero"
         \/ p # sessiond /\ Working(p) /\ events = nb_loop /\ rc'[p] = "zero"
         \/ p # sessiond /\ p \in signalled /\ rc'[p] = "SIGTERM"
  BY DEF Finishes, Dies, Exit, driver, ending, scenario, script, session, sync,
         application, app, Inv, TypeOK
<1>2. rc[p] = "none" /\ state[p] # "unborn" /\ state[p] # "reaped"
  BY <1>1 DEF Inv, Consistent, Running
<1>3. ScenarioTypeOK' /\ Numbered' /\ Counted'
  BY DEF ScenarioInv, ScenarioTypeOK, Numbered, Counted, Finishes, Dies, scenario,
         script, session, application, sync
<1>4. Fresh'
  BY <1>1, <1>2, Tests DEF ScenarioInv, Fresh, Unborn
<1>5. BodyCall' /\ Files'
  BY <1>1 DEF ScenarioInv, BodyCall, Files, Closing, At
<1>6. Alive'
  <2> SUFFICES ASSUME ~Closing, step \in Inside PROVE Alive'
    BY <1>1 DEF Alive, Closing
  <2>1. app \in Procs /\ app # sessiond
    BY AppIs DEF ScenarioInv, Inside, Last
  <2>2. p # app
    <3>1. events < nb_loop /\ app \notin signalled
      BY DEF ScenarioInv, Alive
    <3>2. events \in Nat /\ nb_loop \in Nat
      BY LoopAssumption DEF ScenarioInv, ScenarioTypeOK
    <3>3. events # nb_loop
      BY <3>1, <3>2
    <3> QED
      BY <1>1, <2>1, <3>1, <3>3
  <2> QED
    BY <1>1, <2>1, <2>2 DEF ScenarioInv, Alive, Running, Closing
<1>7. Gone'
  <2> SUFFICES ASSUME ~Closing, step \in Remove, At("body")
               PROVE  state'[app] = "reaped"
    BY <1>1 DEF Gone, Closing, At
  <2>1. app \in Procs /\ state[app] = "reaped"
    BY AppIs DEF ScenarioInv, Remove, Last, Gone
  <2> QED
    BY <1>1, <1>2, <2>1
<1>8. Codes'
  <2>1. /\ \A q \in Procs : rc'[q] # "error"
        /\ \A q \in Procs : rc'[q] = "SIGKILL" => rc[q] = "SIGKILL"
        /\ rc'[sessiond] # "SIGTERM"
    BY <1>1, <1>2, Tests DEF ScenarioInv, Codes
  <2>2. ~Closing /\ step \in Inside \cup After => app \in Procs
    BY AppIs DEF ScenarioInv, Inside, After, Last
  <2>3. ~Closing /\ At("term") => target \in Procs
    BY CallOf, Tests, AppIs DEF ScenarioInv, BodyCall, At, Last
  <2> QED
    BY <1>1, <2>1, <2>2, <2>3, Tests DEF ScenarioInv, Codes, Closing, At
<1>9. Reason'
  BY <1>1, <1>2, Tests DEF ScenarioInv, Reason, RaceLost
<1> QED
  BY <1>3, <1>4, <1>5, <1>6, <1>7, <1>8, <1>9 DEF ScenarioInv
-----------------------------------------------------------------------------
(* The theorems.                                                           *)

LEMMA ScenarioStep ==
    Inv /\ ScenarioInv /\ KillsItsOwn /\ [ScenarioNext]_svars => ScenarioInv'
<1> SUFFICES ASSUME Inv, ScenarioInv, KillsItsOwn, [ScenarioNext]_svars
             PROVE  ScenarioInv'
  OBVIOUS
<1>1. CASE Script
  BY <1>1, SilentStep, SpawnSessiondStep, SpawnAppStep, TerminateAppStep,
     TerminateSessiondStep, EndsStep DEF Script
<1>2. CASE CommandFails
  BY <1>2, EndsStep
<1>3. CASE Calling
  <2>1. \A p \in Procs : ~KillRaises(p)
    BY DEF KillRaises, KillsItsOwn
  <2> QED
    BY <1>3, <2>1, ReturnsStep, KillsStep, CloseStep DEF Calling, Waiting
<1>4. ASSUME NEW p \in Procs, Lives(p) PROVE ScenarioInv'
  BY <1>4, AppStep, EndStep DEF Lives
<1>5. CASE UNCHANGED svars
  <2>1. /\ Kept
        /\ UNCHANGED <<test, step, app_sync_start, app_sync_end, tracing, recorded>>
        /\ UNCHANGED <<events, hit, file_created, refused>>
    BY <1>5 DEF svars, scenario, script, sync, session, application, vars, procs,
                driver, ending, Kept
  <2>2. ScenarioTypeOK' /\ Numbered' /\ Fresh' /\ Counted' /\ Reason'
    BY <2>1 DEF ScenarioInv, ScenarioTypeOK, Numbered, Fresh, Unborn, Counted,
                Reason, RaceLost, Kept
  <2>3. BodyCall' /\ Files' /\ Alive' /\ Gone' /\ Codes'
    BY <2>1 DEF ScenarioInv, BodyCall, Files, Alive, Gone, Codes, Kept, app,
                Running, Closing, At
  <2> QED
    BY <2>2, <2>3 DEF ScenarioInv
<1> QED
  BY <1>1, <1>2, <1>3, <1>4, <1>5 DEF ScenarioNext

\* A step of the scenario is a step of Runtime, or none.
LEMMA StepOfRuntime ==
    Inv /\ ScenarioInv /\ [ScenarioNext]_svars => [Next]_vars
<1> SUFFICES ASSUME Inv, ScenarioInv, [ScenarioNext]_svars PROVE [Next]_vars
  OBVIOUS
<1>1. CASE Script
  <2>1. CASE \/ CreateSession \/ wait_for_file \/ SnapshotRecord
             \/ create_empty_file \/ StopSession \/ RemoveStart \/ RemoveEnd
    BY <2>1, Silent
  <2>2. CASE SpawnSessiond \/ TerminateSessiond
    BY <2>2, Tests DEF SpawnSessiond, TerminateSessiond, Next, Body
  <2>3. CASE SpawnApp \/ TerminateApp
    <3>1. app \in Procs
      BY <2>3, AppIs DEF SpawnApp, TerminateApp, Does, ScenarioInv, Last
    <3> QED
      BY <2>3, <3>1 DEF SpawnApp, TerminateApp, Next, Body
  <2>4. CASE TestsEnd
    BY <2>4 DEF TestsEnd, Next, Body
  <2> QED
    BY <1>1, <2>1, <2>2, <2>3, <2>4 DEF Script
<1>2. CASE CommandFails
  BY <1>2 DEF CommandFails, Next, Body
<1>3. CASE Calling
  BY <1>3 DEF Calling, Next
<1>4. ASSUME NEW p \in Procs, Lives(p) PROVE [Next]_vars
  BY <1>4 DEF Lives, Tracepoint, create_file, Finishes, Dies, Next
<1>5. CASE UNCHANGED svars
  BY <1>5 DEF svars
<1> QED
  BY <1>1, <1>2, <1>3, <1>4, <1>5 DEF ScenarioNext

LEMMA KillsItsOwnStep ==
    Inv /\ ScenarioInv /\ KillsItsOwn /\ [ScenarioNext]_svars => KillsItsOwn'
<1> SUFFICES ASSUME Inv, ScenarioInv, KillsItsOwn, [ScenarioNext]_svars, pc' = "kill"
             PROVE  state'[target'] # "reaped"
  BY DEF KillsItsOwn, At
<1>1. CASE Script
  <2>1. At("body") /\ pc' # "kill"
    BY <1>1 DEF Script, SpawnSessiond, CreateSession, SpawnApp, wait_for_file,
       SnapshotRecord, create_empty_file, StopSession, TerminateApp, RemoveStart,
       RemoveEnd, TerminateSessiond, TestsEnd, Does, spawn_subprocess,
       subprocess_terminate, BodyRaises, BodyEnds, Raise, Goto, Calls, vars, driver, At
  <2> QED
    BY <2>1
<1>2. CASE CommandFails
  BY <1>2 DEF CommandFails, BodyRaises, Raise, Goto, Calls
<1>3. CASE Calling
  <2>1. ~Close
    BY DEF Close, CloseNext, CloseLoopEnds, unload_test_module, UnloadRaises,
           CopyFails, CloseReturns, Goto, Calls
  <2>2. PICK p \in Procs : TermTimeout(p)
    BY <1>3, <2>1 DEF Calling, Waiting, WaitReturns, KillGroup, KillRaises,
       KillReturns, CallReturns, Raise, Goto, Calls
  <2> QED
    BY <2>2 DEF TermTimeout, Calls, Running, procs
<1>4. ASSUME NEW p \in Procs, Lives(p) PROVE state'[target'] # "reaped"
  <2>1. UNCHANGED driver /\ At("kill")
    BY <1>4 DEF Lives, Tracepoint, create_file, Finishes, Dies, Exit, vars, driver, At
  <2>2. state' = state \/ (Running(p) /\ state' = [state EXCEPT ![p] = "zombie"])
    BY <1>4 DEF Lives, Tracepoint, create_file, Finishes, Dies, Exit, vars, procs
  <2>3. /\ target' = target /\ state[target] # "reaped"
        /\ state \in [Procs -> {"unborn", "running", "zombie", "reaped"}]
    BY <2>1 DEF KillsItsOwn, driver, Inv, TypeOK
  <2>4. target \in Procs
    <3>1. target \in Registered /\ registry \in Seq(Procs)
      BY <2>1 DEF Inv, InCall, TypeOK
    <3> QED
      BY <3>1 DEF Registered
  <2> QED
    BY <2>2, <2>3, <2>4
<1>5. CASE UNCHANGED svars
  BY <1>5 DEF svars, vars, driver, procs, KillsItsOwn, At
<1> QED
  BY <1>1, <1>2, <1>3, <1>4, <1>5 DEF ScenarioNext

LEMMA ScenarioInvariance == ScenarioSpec => [](Inv /\ ScenarioInv)
<1>1. ScenarioInit => Inv /\ ScenarioInv /\ KillsItsOwn
  BY ScenarioInitial, TypeInit, ConsistentInit, RestInit
     DEF Inv, ScenarioInit, Init, KillsItsOwn, At
<1>2. Inv /\ ScenarioInv /\ KillsItsOwn /\ [ScenarioNext]_svars
         => (Inv /\ ScenarioInv /\ KillsItsOwn)'
  BY ScenarioStep, KillsItsOwnStep, StepOfRuntime, InvStep
<1> QED
  BY <1>1, <1>2, PTL DEF ScenarioSpec

(* The sequence of the test, its files and the counts of its applications  *)
(* keep their ranges (test_output_path.py:307-347).                        *)
THEOREM ScenarioTypeCorrect == ScenarioSpec => []ScenarioTypeOK
<1>1. Inv /\ ScenarioInv => ScenarioTypeOK
  BY DEF ScenarioInv
<1> QED
  BY <1>1, ScenarioInvariance, PTL

(* The snapshot tests use Runtime as it is meant to be used: every         *)
(* behaviour of the scenario is one of Runtime, so that what is proved of  *)
(* close() holds of it.                                                    *)
THEOREM ScenarioUsesRuntime == ScenarioSpec => Spec
<1>1. ScenarioInit => Init
  BY DEF ScenarioInit
<1> QED
  BY <1>1, StepOfRuntime, ScenarioInvariance, PTL DEF ScenarioSpec, Spec

(* Nothing survives the snapshot tests (get_runtime, runtime.py:45-51).    *)
THEOREM NothingSurvivesScenario == ScenarioSpec => []NoSurvivor
BY ScenarioUsesRuntime, NothingSurvives, PTL

(* When a snapshot is recorded the application of the test is alive        *)
(* (test_output_path.py:322-329).                                          *)
THEOREM AppAliveAtRecord == ScenarioSpec => []AliveAtRecord
<1>1. Inv /\ ScenarioInv => AliveAtRecord
  BY InBody DEF ScenarioInv, Alive, Inside, AliveAtRecord, Recording
<1> QED
  BY <1>1, ScenarioInvariance, PTL

(* When a snapshot is recorded its session holds an event                  *)
(* (gen-ust-events.c:173-176, test_output_path.py:327-329).                *)
THEOREM EventWritten == ScenarioSpec => []EventBeforeRecord
<1>1. Inv /\ ScenarioInv => EventBeforeRecord
  BY InBody DEF ScenarioInv, Alive, Files, Inside, EventBeforeRecord, Recording
<1> QED
  BY <1>1, ScenarioInvariance, PTL

(* Driver and application never wait for each other's file at the same     *)
(* time (gen-ust-events.c:105-125, utils.py:50-59).                        *)
THEOREM OnlyOneWaits == ScenarioSpec => []NeverBothWait
<1>1. Inv /\ ScenarioInv => NeverBothWait
  <2> SUFFICES ASSUME Inv, ScenarioInv PROVE NeverBothWait
    OBVIOUS
  <2>1. ASSUME DriverWaits PROVE Running(app) /\ ~AppWaits
    <3>1. ~Closing /\ step \in Inside /\ ~app_sync_start
      BY <2>1, InBody DEF DriverWaits, Inside
    <3>2. Running(app) /\ (events > 0 => hit)
      BY <3>1 DEF ScenarioInv, Alive
    <3>3. AppWaits => events > 0
      BY LoopAssumption DEF AppWaits, FileAwaited
    <3> QED
      BY <3>2, <3>3 DEF AppWaits
  <2>2. ASSUME AppWaits, ~Closing PROVE step \in Inside
    <3>1. app \in Procs /\ Working(app) /\ ~app_sync_end
      BY <2>2, Tests DEF AppWaits, Working, FileAwaited, app
    <3>2. step \notin Before \cup Last /\ step # "remove end"
      BY <2>2, <3>1, Works
    <3>3. step \notin After \cup Remove
      BY <2>2, <3>1 DEF ScenarioInv, Files
    <3> QED
      BY <3>2, <3>3 DEF ScenarioInv, ScenarioTypeOK, Step, Before, Inside, After,
         Remove, Last
  <2> QED
    BY <2>1, <2>2 DEF NeverBothWait, Inside
<1> QED
  BY <1>1, ScenarioInvariance, PTL

(* The scenario keeps the promise of Runtime with its `with' statement     *)
(* (get_runtime, runtime.py:45-51).                                        *)
THEOREM ScenarioKeepsPromise == ScenarioSpec => KeepsPromise
BY ScenarioUsesRuntime, RuntimeKeepsPromise, PTL

(* When every command succeeds, a test fails only because an application   *)
(* was ended by the SIGTERM of subprocess_terminate                        *)
(* (test_output_path.py:335, runtime.py:105-119).                          *)
THEOREM OnlyTheRaceFails == ScenarioSpec => []OnlyRaceFails
<1>1. Inv /\ ScenarioInv => OnlyRaceFails
  BY DEF ScenarioInv, Reason, RaceLost, OnlyRaceFails
<1> QED
  BY <1>1, ScenarioInvariance, PTL
=============================================================================
