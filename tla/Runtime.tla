------------------------------ MODULE Runtime ------------------------------
(***************************************************************************)
(* utils/runtime.py: the object through which a test starts daemons and    *)
(* applications, and which ends all of them when the test is over, however *)
(* it ends (get_runtime calls close() in a `finally').                     *)
(*                                                                         *)
(* Three parties move: the driver (the Python process, one thread), the    *)
(* subprocesses, which end by themselves or when they are signalled, and   *)
(* the kernel, which holds the test module.  The driver is in the body of  *)
(* the test, or blocked in a wait, or in close().                          *)
(***************************************************************************)
EXTENDS Naturals, Sequences

CONSTANTS
    Procs,    \* the subprocesses a test may spawn, each at most once
    Projects, \* the projects it may add to the environment
    VarsOf,   \* project -> its special environment variables
    Nobody    \* no subprocess

ASSUME VarsAssumption == DOMAIN VarsOf = Projects
ASSUME NobodyAssumption == Nobody \notin Procs
-----------------------------------------------------------------------------
VARIABLES
    projects,  \* __projects
    registry,  \* keys of __subprocess, in the order in which close() takes them
    state, rc, \* the subprocesses: what the kernel has of them
    signalled, \* those that were sent a SIGTERM while alive
    files,     \* those whose stdout and stderr files are open here
    flag,      \* _is_test_modules_loaded
    kernel,    \* which of the test modules the kernel holds
    pc,        \* the statement the driver is at
    target,    \* the subprocess of the call it is in
    check,     \* the check_return argument of this call
    next,      \* 0 in the body; in close(), the next entry of the registry
    failures,  \* subprocess_execeptions, by process
    outcome    \* how the `with' statement ended

procs  == <<state, rc, signalled>>
mods   == <<flag, kernel>>
driver == <<pc, target, check>>
ending == <<next, failures, outcome>>
vars == <<projects, registry, procs, files, mods, driver, ending>>

Code == {"none", "zero", "error", "SIGTERM", "SIGKILL"}

(* "body": between two calls of the test; "term": process.wait(timeout)    *)
(* of subprocess_terminate; "wait": process.wait() of subprocess_wait;     *)
(* "kill", "reap": before killpg and in process.wait() of subprocess_kill; *)
(* "close", "unload", "copy": at these statements of close(); "over".      *)
Statement == {"body", "term", "wait", "kill", "reap",
              "close", "unload", "copy", "over"}

TypeOK ==
    /\ projects \in SUBSET Projects
    /\ registry \in Seq(Procs)
    /\ state \in [Procs -> {"unborn", "running", "zombie", "reaped"}]
    /\ rc \in [Procs -> Code]
    /\ signalled \in SUBSET Procs
    /\ files \in SUBSET Procs
    /\ flag \in BOOLEAN
    /\ kernel \in {"none", "partial", "loaded"}
    /\ pc \in Statement
    /\ target \in Procs \cup {Nobody}
    /\ check \in BOOLEAN
    /\ next \in Nat
    /\ failures \in SUBSET Procs
    /\ outcome \in {"none", "passed", "test error", "SubProcessError",
                    "close error"}
-----------------------------------------------------------------------------
\* get_env: a second definition of a special variable raises.
EnvRaises == \E p, q \in projects : p # q /\ VarsOf[p] \cap VarsOf[q] # {}

Registered == {registry[i] : i \in DOMAIN registry}
Running(p) == state[p] = "running"
Ended(p)   == state[p] \in {"zombie", "reaped"}
Failed(p)  == rc[p] \notin {"none", "zero"}
Closing    == next > 0

At(statement) == pc = statement
Calls(statement, p, c) == pc' = statement /\ target' = p /\ check' = c
Goto(statement) == Calls(statement, Nobody, FALSE)

(* An exception in the body runs close(); the outcome remembers it until   *)
(* close() raises something else.                                          *)
Raise == /\ Goto("close")
         /\ next' = 1
         /\ outcome' = "test error"
         /\ UNCHANGED failures
-----------------------------------------------------------------------------
Init ==
    /\ projects = {}
    /\ registry = <<>>
    /\ state = [p \in Procs |-> "unborn"]
    /\ rc = [p \in Procs |-> "none"]
    /\ signalled = {}
    /\ files = {}
    /\ flag = FALSE
    /\ kernel = "none"
    /\ pc = "body"
    /\ target = Nobody
    /\ check = FALSE
    /\ next = 0
    /\ failures = {}
    /\ outcome = "none"

(* A subprocess ends by itself, with or without an error, or because of a  *)
(* SIGTERM, which daemons handle (return code zero) and applications die   *)
(* of.  Nothing forces it to end.                                          *)
Exit(p) ==
    /\ Running(p)
    /\ state' = [state EXCEPT ![p] = "zombie"]
    /\ \E code \in {"zero", "error", "SIGTERM"} :
          /\ code = "SIGTERM" => p \in signalled
          /\ rc' = [rc EXCEPT ![p] = code]
    /\ UNCHANGED <<projects, registry, signalled, files, mods, driver, ending>>
-----------------------------------------------------------------------------
(* The body of the test.                                                   *)

AddProject(p) ==
    /\ At("body")
    /\ p \notin projects
    /\ projects' = projects \cup {p}
    /\ UNCHANGED <<registry, procs, files, mods, driver, ending>>

RemoveProject(p) ==
    /\ At("body")
    /\ p \in projects
    /\ projects' = projects \ {p}
    /\ UNCHANGED <<registry, procs, files, mods, driver, ending>>

\* Mutant: the process is only registered when it is first waited for.
SpawnUnregistered(p) ==
    /\ At("body")
    /\ ~EnvRaises
    /\ state[p] = "unborn"
    /\ state' = [state EXCEPT ![p] = "running"]
    /\ files' = files \cup {p}
    /\ UNCHANGED <<projects, registry, rc, signalled, mods, driver, ending>>

spawn_subprocess(p) ==
    /\ At("body")
    /\ ~EnvRaises
    /\ state[p] = "unborn"
    /\ state' = [state EXCEPT ![p] = "running"]
    /\ registry' = Append(registry, p)
    /\ files' = files \cup {p}
    /\ UNCHANGED <<projects, rc, signalled, mods, driver, ending>>

\* Popen.terminate and Popen.send_signal do nothing to a process that has
\* been waited for, and nothing happens to one that is dead.
Signal(p) == signalled' = IF Running(p) THEN signalled \cup {p} ELSE signalled

\* A SIGTERM; a process that another signal ends may do so by itself (Exit).
subprocess_signal(p) ==
    /\ At("body")
    /\ p \in Registered
    /\ Signal(p)
    /\ UNCHANGED <<projects, registry, state, rc, files, mods, driver, ending>>

\* The calls of a test, up to where they block.
subprocess_terminate(p, c) ==
    /\ At("body")
    /\ p \in Registered
    /\ Signal(p)
    /\ Calls("term", p, c)
    /\ UNCHANGED <<projects, registry, state, rc, files, mods, ending>>

subprocess_wait(p, c) ==
    /\ At("body")
    /\ p \in Registered
    /\ Calls("wait", p, c)
    /\ UNCHANGED <<projects, registry, procs, files, mods, ending>>

subprocess_kill(p) ==
    /\ At("body")
    /\ p \in Registered
    /\ Calls("kill", p, FALSE)
    /\ UNCHANGED <<projects, registry, procs, files, mods, ending>>

load_test_module ==
    /\ At("body")
    /\ ~EnvRaises
    /\ kernel' = "loaded"
    /\ flag' = TRUE
    /\ UNCHANGED <<projects, registry, procs, files, driver, ending>>

\* modprobe fails, perhaps after it has loaded some dependencies.
LoadFails ==
    /\ At("body")
    /\ ~EnvRaises
    /\ kernel # "loaded"
    /\ kernel' \in {kernel, "partial"}
    /\ Raise
    /\ UNCHANGED <<projects, registry, procs, files, flag>>

\* A command or an assertion fails, get_env or Popen raises.
BodyRaises ==
    /\ At("body")
    /\ Raise
    /\ UNCHANGED <<projects, registry, procs, files, mods>>

BodyEnds ==
    /\ At("body")
    /\ Goto("close")
    /\ next' = 1
    /\ UNCHANGED <<projects, registry, procs, files, mods, failures, outcome>>

-----------------------------------------------------------------------------
(* The waits, of the body and of close() alike.                            *)

\* process.wait() returns: the return code is known, the two files closed.
Reap(p) ==
    /\ Ended(p)
    /\ state' = [state EXCEPT ![p] = "reaped"]
    /\ files' = files \ {p}

\* Mutant: what ended with an error is terminated once more.
NoteAgain(p) ==
    /\ next' = IF Failed(p) THEN next ELSE next + 1
    /\ failures' = IF Failed(p) THEN failures \cup {p} ELSE failures
    /\ UNCHANGED outcome

\* close() notes the process that ended with an error and goes on.
Note(p) ==
    /\ next' = next + 1
    /\ failures' = IF Failed(p) THEN failures \cup {p} ELSE failures
    /\ UNCHANGED outcome

\* What follows a wait: close() takes its note, the body goes on or raises.
CallReturns(p) ==
    \/ Closing /\ Goto("close") /\ Note(p)
    \/ ~Closing /\ check /\ Failed(p) /\ Raise
    \/ ~Closing /\ ~(check /\ Failed(p)) /\ Goto("body") /\ UNCHANGED ending

WaitReturns(p) ==
    /\ At("term") \/ At("wait")
    /\ target = p
    /\ Reap(p)
    /\ CallReturns(p)
    /\ UNCHANGED <<projects, registry, rc, signalled, mods>>

\* Mutant: the process that does not end is waited for once more.
TermTimeoutAgain(p) ==
    /\ At("term")
    /\ target = p
    /\ Running(p)
    /\ UNCHANGED vars

\* Mutant: the process is killed in any case, also when it has ended.
TermTimeoutAlways(p) ==
    /\ At("term")
    /\ target = p
    /\ Calls("kill", p, FALSE)
    /\ UNCHANGED <<projects, registry, procs, files, mods, ending>>

\* TimeoutExpired: subprocess_terminate returns what subprocess_kill does,
\* check_return is forgotten.
TermTimeout(p) ==
    /\ At("term")
    /\ target = p
    /\ Running(p)
    /\ Calls("kill", p, FALSE)
    /\ UNCHANGED <<projects, registry, procs, files, mods, ending>>

\* Mutant: the call is over once the signal is sent.
KillGroupOnly(p) ==
    /\ At("kill")
    /\ target = p
    /\ state' = [state EXCEPT ![p] = "killed"]
    /\ rc' = [rc EXCEPT ![p] = "SIGKILL"]
    /\ Calls("reap", p, FALSE)
    /\ UNCHANGED <<projects, registry, signalled, files, mods, ending>>

\* A SIGKILL does nothing to what is dead, or belongs to nobody here.
Killed(q) ==
    \/ /\ Running(q)
       /\ state' = [state EXCEPT ![q] = "zombie"]
       /\ rc' = [rc EXCEPT ![q] = "SIGKILL"]
    \/ ~Running(q) /\ UNCHANGED <<state, rc>>

\* killpg; the process may have ended in the meantime.  The pid of one that
\* has been waited for may be that of any other process by now.
KillGroup(p) ==
    /\ At("kill")
    /\ target = p
    /\ \E q \in Procs : (q = p \/ state[p] = "reaped") /\ Killed(q)
    /\ Calls("reap", p, FALSE)
    /\ UNCHANGED <<projects, registry, signalled, files, mods, ending>>

\* os.getpgid: nobody has the pid of the process that was waited for.
KillRaises(p) ==
    /\ At("kill")
    /\ target = p
    /\ state[p] = "reaped"
    /\ Raise
    /\ UNCHANGED <<projects, registry, procs, files, mods>>

\* Mutant: close() takes a process it had to kill for one that ended well.
KilledUnnoticed(p) ==
    /\ At("reap")
    /\ target = p
    /\ Reap(p)
    /\ IF Closing THEN Goto("close") /\ next' = next + 1
                  ELSE Goto("body") /\ UNCHANGED next
    /\ UNCHANGED <<projects, registry, rc, signalled, mods, failures, outcome>>

KillReturns(p) ==
    /\ At("reap")
    /\ target = p
    /\ Reap(p)
    /\ CallReturns(p)
    /\ UNCHANGED <<projects, registry, rc, signalled, mods>>
-----------------------------------------------------------------------------
(* close().                                                                *)

CloseNext ==
    /\ At("close")
    /\ next <= Len(registry)
    /\ Signal(registry[next])
    /\ Calls("term", registry[next], FALSE)
    /\ UNCHANGED <<projects, registry, state, rc, files, mods, ending>>

CloseLoopEnds ==
    /\ At("close")
    /\ next > Len(registry)
    /\ Goto("unload")
    /\ UNCHANGED <<projects, registry, procs, files, mods, ending>>

\* unload_test_module(False): the result of modprobe does not count, and
\* the flag stays set.
unload_test_module ==
    /\ At("unload")
    /\ flag => ~EnvRaises
    /\ kernel' \in IF flag THEN {kernel, "none"} ELSE {kernel}
    /\ Goto("copy")
    /\ UNCHANGED <<projects, registry, procs, files, flag, ending>>

\* get_env raises: nothing is unloaded or copied, and what the subprocesses
\* did is not raised.
UnloadRaises ==
    /\ At("unload")
    /\ flag
    /\ EnvRaises
    /\ Goto("over")
    /\ outcome' = "close error"
    /\ UNCHANGED <<projects, registry, procs, files, mods, next, failures>>

\* copytree raises when a file of lttng_home disappears or cannot be read.
CopyFails ==
    /\ At("copy")
    /\ Goto("over")
    /\ outcome' = "close error"
    /\ UNCHANGED <<projects, registry, procs, files, mods, next, failures>>

\* Mutant: the exception of the test hides those of the subprocesses.
CloseReturnsHiding ==
    /\ At("copy")
    /\ Goto("over")
    /\ outcome' = CASE outcome # "none"                      -> outcome
                    [] outcome = "none" /\ failures = {} -> "passed"
                    [] OTHER                              -> "SubProcessError"
    /\ UNCHANGED <<projects, registry, procs, files, mods, next, failures>>

CloseReturns ==
    /\ At("copy")
    /\ Goto("over")
    /\ outcome' = CASE failures # {}          -> "SubProcessError"
                    [] failures = {} /\ outcome = "none" -> "passed"
                    [] OTHER                  -> outcome
    /\ UNCHANGED <<projects, registry, procs, files, mods, next, failures>>
-----------------------------------------------------------------------------
Body ==
    \/ \E p \in Projects : AddProject(p) \/ RemoveProject(p)
    \/ \E p \in Procs : \/ spawn_subprocess(p)
                        \/ subprocess_signal(p)
                        \/ subprocess_kill(p)
                        \/ \E c \in BOOLEAN : \/ subprocess_terminate(p, c)
                                              \/ subprocess_wait(p, c)
    \/ load_test_module
    \/ LoadFails
    \/ BodyRaises
    \/ BodyEnds

Waiting == \E p \in Procs : \/ WaitReturns(p)
                            \/ TermTimeout(p)
                            \/ KillGroup(p)
                            \/ KillRaises(p)
                            \/ KillReturns(p)

Close ==
    \/ CloseNext
    \/ CloseLoopEnds
    \/ unload_test_module
    \/ UnloadRaises
    \/ CopyFails
    \/ CloseReturns

Next ==
    \/ Body
    \/ Waiting
    \/ Close
    \/ \E p \in Procs : Exit(p)

Spec == Init /\ [][Next]_vars
-----------------------------------------------------------------------------
(* Correctness.                                                            *)

\* However the test and close() end, `cleanup is performed by runtime'
\* (utils.py:117): no process that was spawned is alive or a zombie, and
\* none of their files is open.
NoSurvivor ==
    At("over") => /\ \A p \in Procs : state[p] \in {"unborn", "reaped"}
                  /\ files = {}

\* The errors that close() raises are those of the processes that failed,
\* no more and no less, also of those the test has waited for or killed, or
\* that close() had to kill, unless close() itself broke off (306-326).
FailuresReported ==
    At("over") /\ outcome # "close error" =>
       /\ failures = {p \in Procs : Failed(p)}
       /\ (outcome = "SubProcessError") = (failures # {})

\* A file is open here exactly as long as its process has not been waited
\* for: whatever raises, the log of a process that is gone is complete.
FilesFollowProcesses ==
    files = {p \in Procs : state[p] \in {"running", "zombie"}}

\* The pid of a process that has been waited for may be somebody else's, and
\* killpg does not ask (121-123): who kills such a process may kill another.
\* Only a call of subprocess_kill by the test itself does.  The timeout of
\* subprocess_terminate never comes to that, and close(), which terminates
\* what the test may have terminated, waited for or killed before
\* (105-128, 309-310), kills no process but the one it is at.
ReapedIsFinal ==
    [][/\ \A p \in Procs : state[p] = "reaped" =>
             /\ state'[p] = state[p] /\ rc'[p] = rc[p]
             /\ p \in signalled' => p \in signalled
       /\ ~At("kill") /\ pc' = "kill" =>
             \/ At("body")
             \/ target' = target /\ state[target] # "reaped"
       /\ \A p \in Procs : rc[p] # "SIGKILL" /\ rc'[p] = "SIGKILL" =>
             /\ At("kill")
             /\ p # target => ~Closing /\ state[target] = "reaped"]_vars

\* `Always try to remove test module' (317): close() does not pass over the
\* modules a test has brought into the kernel.
AlwaysTriesToUnload ==
    [][At("unload") /\ pc' = "copy" => kernel = "none" \/ flag]_vars

\* What `with get_runtime(...)' promises a test, read off the state.
Phase  == CASE At("over")              -> "over"
            [] ~At("over") /\ Closing  -> "closing"
            [] OTHER                   -> "test"
Report == IF At("over")
          THEN [broken |-> outcome = "close error",
                errors |-> IF outcome = "SubProcessError" THEN failures ELSE {}]
          ELSE [broken |-> FALSE, errors |-> {}]

Born    == {p \in Procs : state[p] # "unborn"}
Live    == {p \in Procs : Running(p)}
Held    == {p \in Procs : state[p] \in {"running", "zombie"}}
Failing == {p \in Procs : Failed(p)}

Promise == INSTANCE RuntimePromise WITH
    phase <- Phase, report <- Report,
    spawned <- Born, live <- Live, held <- Held, failed <- Failing

\* And keeps, whatever the test calls, in whatever order the processes end:
\* the statement is over when each has been waited for, its errors are those
\* of all that failed, and nothing is spawned, or changes, behind its back.
KeepsPromise == Promise!Spec

\* What close() waits for without a timeout has ended: no process can hang
\* it, not even one of those the body has left in a call (105-128).
CloseNeverBlocks ==
    Closing => ~At("wait") /\ (At("reap") => Ended(target))

\* close() has at most four statements left for each entry of the registry,
\* and four after the loop.
StepsToNext == [close |-> 4, term |-> 3, unload |-> 3, kill |-> 2, copy |-> 2,
                reap |-> 1, over |-> 0]
StepsLeft == 4 * (Len(registry) + 1 - next) + StepsToNext[pc]

\* Every step of close() brings its end nearer, whatever the processes did
\* and whatever it had to note: it goes back to no entry, and no process
\* keeps it from the next (306-314).
CloseAdvances ==
    [][Closing => \/ StepsLeft' < StepsLeft
                  \/ \E p \in Procs : Exit(p)]_vars

\* Once the test is over close() ends, whatever the subprocesses do with
\* SIGTERM: after the timeout they are killed (108-112).
CloseEnds == Closing ~> At("over")
=============================================================================
