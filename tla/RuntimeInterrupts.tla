-------------------------- MODULE RuntimeInterrupts --------------------------
(***************************************************************************)
(* Runtime when the user presses ctrl-C.  Every subprocess runs in a       *)
(* session of its own (setsid, runtime.py:170), so that SIGINT reaches the *)
(* driver alone, where KeyboardInterrupt is raised between two bytecodes:  *)
(* in the body of the test, where get_runtime closes the runtime as after  *)
(* any exception, in the middle of a call, or in close() itself.           *)
(*                                                                         *)
(* spawn_subprocess has three statements that belong together, Popen and   *)
(* the two that file the process under its name (170-172).  A process      *)
(* between the first two is lost; one between the last two is in           *)
(* __subprocess without files, and makes close() raise a KeyError.         *)
(***************************************************************************)
EXTENDS Runtime

VARIABLES
    cut,    \* close() was interrupted
    lost,   \* those whose Popen was, before they were registered
    unfiled \* in __subprocess but not in __stdout_stderr

ivars == <<vars, cut, lost, unfiled>>

\* In the body it is an exception like any other; in close() nothing is
\* left to catch it and the rest of the registry is not looked at.
Interrupted ==
    \/ ~Closing /\ Raise /\ UNCHANGED cut
    \/ /\ Closing
       /\ Goto("over")
       /\ outcome' = "close error"
       /\ cut' = TRUE
       /\ UNCHANGED <<next, failures>>

\* Mutant: subprocess_kill takes the process out of the registry first.
InterruptForgetting ==
    /\ ~At("over")
    /\ registry' = IF At("reap") /\ ~Closing THEN SelectSeq(registry, LAMBDA p : p # target)
                                ELSE registry
    /\ Interrupted
    /\ UNCHANGED <<projects, procs, files, mods, lost, unfiled>>

Interrupt ==
    /\ ~At("over")
    /\ Interrupted
    /\ UNCHANGED <<projects, registry, procs, files, mods, lost, unfiled>>

\* Popen.wait, when it is interrupted, gives the process a quarter of a
\* second, and waits for it if it ends; the two files stay open.
InterruptReaping(p) ==
    /\ pc \in {"term", "wait", "reap"}
    /\ target = p
    /\ Ended(p)
    /\ state' = [state EXCEPT ![p] = "reaped"]
    /\ Interrupted
    /\ UNCHANGED <<projects, registry, rc, signalled, files, mods, lost, unfiled>>

\* After Popen the files that are not in __stdout_stderr go with the frame
\* of the call, which the traceback of the interruption may keep.
InterruptedSpawn(p) ==
    /\ At("body")
    /\ ~EnvRaises
    /\ state[p] = "unborn"
    /\ state' = [state EXCEPT ![p] = "running"]
    /\ files' \in {files, files \cup {p}}
    /\ Interrupted
    /\ UNCHANGED <<projects, rc, signalled, mods>>

\* Between Popen and the registry.
InterruptSpawn(p) ==
    /\ InterruptedSpawn(p)
    /\ lost' = lost \cup {p}
    /\ UNCHANGED <<registry, unfiled>>

\* Between the registry and __stdout_stderr.  Where the loop of close()
\* meets the new entry is up to the dictionary: Python 3.5, which the
\* project runs (README:13), does not keep the order of insertion.
InterruptFiling(p) ==
    /\ InterruptedSpawn(p)
    /\ \E place \in 1..Len(registry) + 1 :
          registry' = [i \in 1..Len(registry) + 1 |->
                          CASE i < place -> registry[i]
                            [] i = place -> p
                            [] i > place -> registry[i - 1]]
    /\ unfiled' = unfiled \cup {p}
    /\ UNCHANGED lost

\* modprobe, which ctrl-C reaches too, or before the flag is set.
InterruptLoad ==
    /\ At("body")
    /\ ~EnvRaises
    /\ kernel' \in {"partial", "loaded"}
    /\ kernel = "loaded" => kernel' = "loaded"
    /\ Interrupted
    /\ UNCHANGED <<projects, registry, procs, files, flag, lost, unfiled>>

Interrupts ==
    \/ Interrupt
    \/ InterruptLoad
    \/ \E p \in Procs : \/ InterruptReaping(p)
                        \/ InterruptSpawn(p)
                        \/ InterruptFiling(p)

\* The process has been waited for and the KeyError of its files leaves
\* close(), where nothing catches it (113, 125, 309-310).
NoFiles(p) ==
    /\ pc \in {"term", "reap"}
    /\ target = p
    /\ p \in unfiled
    /\ Ended(p)
    /\ state' = [state EXCEPT ![p] = "reaped"]
    /\ Goto("over")
    /\ outcome' = "close error"
    /\ UNCHANGED <<projects, registry, rc, signalled, files, mods, next, failures>>

\* A call comes back from its wait only when it has the files to close.
InterruptedWaiting ==
    \E p \in Procs : \/ TermTimeout(p)
                     \/ KillGroup(p)
                     \/ KillRaises(p)
                     \/ p \notin unfiled /\ (WaitReturns(p) \/ KillReturns(p))
                     \/ NoFiles(p)

IInit == Init /\ cut = FALSE /\ lost = {} /\ unfiled = {}
INext ==
    \/ /\ Body \/ InterruptedWaiting \/ Close \/ \E p \in Procs : Exit(p)
       /\ UNCHANGED <<cut, lost, unfiled>>
    \/ Interrupts

(* The user may press ctrl-C or not.  The driver is sequential code whose  *)
(* timeouts expire and whose kills arrive.  Nothing is assumed of the body *)
(* of the test, which may block in subprocess_wait, nor of the             *)
(* subprocesses.                                                           *)
ISpec == /\ IInit /\ [][INext]_ivars
         /\ WF_ivars(InterruptedWaiting /\ UNCHANGED <<cut, lost, unfiled>>)
         /\ WF_ivars(Close /\ UNCHANGED <<cut, lost, unfiled>>)
-----------------------------------------------------------------------------
(* Correctness.                                                            *)

\* The entries of the registry after one that makes close() break off.
Behind == {registry[j] : j \in {k \in DOMAIN registry :
                                    \E i \in 1..k - 1 : registry[i] \in unfiled}}

\* One ctrl-C in the test costs no daemon unless it falls into the three
\* statements that spawn one (170-172): close() ends and closes all that is
\* registered, also what an interrupted wait has reaped without closing its
\* files (105-139).  What survives was lost between Popen and the registry,
\* or comes behind an entry that has no files, or close() was interrupted
\* as well.
InterruptedIsClean ==
    At("over") /\ ~cut =>
       /\ \A p \in Procs \ (lost \cup Behind) : state[p] \in {"unborn", "reaped"}
       /\ files \subseteq lost \cup unfiled \cup Behind

\* And it costs no error: those of the registered processes are all raised.
\* Only an entry without files loses them, and always does: close() then
\* ends in its KeyError and raises nothing of what it noted (309-314, 325).
InterruptedIsReported ==
    At("over") /\ ~cut =>
       /\ unfiled # {} => outcome = "close error"
       /\ unfiled = {} /\ outcome # "close error" =>
             /\ failures = {p \in Procs \ lost : Failed(p)}
             /\ (outcome = "SubProcessError") = (failures # {})
=============================================================================
