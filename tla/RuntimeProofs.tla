---------------------------- MODULE RuntimeProofs ----------------------------
(***************************************************************************)
(* Proofs about Runtime, for any number of subprocesses and projects.      *)
(***************************************************************************)
EXTENDS Runtime, TLAPS

(* The registry holds the processes that were spawned, and their state,    *)
(* return code and files agree.                                            *)
Consistent ==
    /\ \A p \in Procs :
         /\ p \in Registered <=> state[p] # "unborn"
         /\ rc[p] = "none" <=> state[p] \in {"unborn", "running"}
         /\ p \in files <=> state[p] \in {"running", "zombie"}

(* The call the driver is in has a process of the registry; in close() it  *)
(* is the next one, and what it is to kill has not been waited for.        *)
InCall ==
    /\ At("body") \/ At("wait") => ~Closing
    /\ At("close") \/ At("unload") \/ At("copy") \/ At("over") => Closing
    /\ At("term") \/ At("wait") \/ At("kill") \/ At("reap") =>
         /\ target \in Registered
         /\ Closing => next <= Len(registry) /\ target = registry[next]
    /\ At("kill") \/ At("reap") => state[target] # "reaped" \/ ~Closing

(* close() has dealt with the entries of the registry before the next one, *)
(* and noted those that failed.                                            *)
Dealt(p) == \E i \in DOMAIN registry : i < next /\ registry[i] = p

Noted ==
    /\ \A p \in Procs : Dealt(p) => state[p] = "reaped"
    /\ \A p \in Procs : p \in failures <=> Dealt(p) /\ Failed(p)
    /\ At("unload") \/ At("copy") \/ At("over") => next > Len(registry)

Ending ==
    /\ ~At("over") => outcome \in {"none", "test error"}
    /\ At("over") /\ outcome # "close error" =>
         (outcome = "SubProcessError") = (failures # {})

Inv == TypeOK /\ Consistent /\ InCall /\ Noted /\ Ending

-----------------------------------------------------------------------------
(* Type correctness.                                                       *)

LEMMA Successor == ASSUME NEW n \in Nat PROVE n + 1 \in Nat
OBVIOUS

LEMMA StartsClosing == 1 > 0
OBVIOUS

LEMMA InRange ==
    ASSUME NEW S, NEW s \in Seq(S), NEW i \in Nat, i > 0, i <= Len(s)
    PROVE  i \in 1..Len(s) /\ s[i] \in S
OBVIOUS

LEMMA AppendType ==
    ASSUME NEW S, NEW s \in Seq(S), NEW e \in S
    PROVE  Append(s, e) \in Seq(S)
OBVIOUS

LEMMA TypeInit == Init => TypeOK
<1> SUFFICES ASSUME Init PROVE TypeOK
  OBVIOUS
<1>1. registry \in Seq(Procs)
  BY DEF Init
<1>2. /\ state \in [Procs -> {"unborn", "running", "zombie", "reaped"}]
      /\ rc \in [Procs -> Code]
  BY DEF Init, Code
<1> QED
  BY <1>1, <1>2 DEF Init, TypeOK, Statement

LEMMA TypeBody == TypeOK /\ Body => TypeOK'
<1> SUFFICES ASSUME TypeOK, Body PROVE TypeOK'
  OBVIOUS
<1> USE DEF TypeOK, Statement, Code
<1>1. ASSUME NEW p \in Projects, AddProject(p) \/ RemoveProject(p) PROVE TypeOK'
  BY <1>1 DEF AddProject, RemoveProject, procs, mods, driver, ending
<1>2. ASSUME NEW p \in Procs, spawn_subprocess(p) PROVE TypeOK'
  <2>1. registry' \in Seq(Procs)
    BY <1>2, AppendType DEF spawn_subprocess
  <2> QED
    BY <1>2, <2>1 DEF spawn_subprocess, mods, driver, ending
<1>3. ASSUME NEW p \in Procs, subprocess_signal(p) PROVE TypeOK'
  BY <1>3 DEF subprocess_signal, Signal, mods, driver, ending
<1>4. ASSUME NEW p \in Procs, subprocess_kill(p) PROVE TypeOK'
  BY <1>4 DEF subprocess_kill, Calls, procs, mods, driver, ending
<1>5. ASSUME NEW p \in Procs, NEW c \in BOOLEAN,
             subprocess_terminate(p, c) \/ subprocess_wait(p, c)
      PROVE  TypeOK'
  BY <1>5 DEF subprocess_terminate, subprocess_wait, Signal, Calls, procs, mods, driver, ending
<1>6. CASE load_test_module
  BY <1>6 DEF load_test_module, procs, driver, ending
<1>7. CASE LoadFails
  BY <1>7 DEF LoadFails, Raise, Goto, Calls, procs
<1>8. CASE BodyRaises
  BY <1>8 DEF BodyRaises, Raise, Goto, Calls, procs, mods
<1>9. CASE BodyEnds
  BY <1>9 DEF BodyEnds, Goto, Calls, procs, mods
<1> QED
  BY <1>1, <1>2, <1>3, <1>4, <1>5, <1>6, <1>7, <1>8, <1>9 DEF Body

LEMMA TypeWaiting == TypeOK /\ Waiting => TypeOK'
<1> SUFFICES ASSUME TypeOK, Waiting PROVE TypeOK'
  OBVIOUS
<1> USE DEF TypeOK, Statement, Code
<1>1. ASSUME NEW p \in Procs, Reap(p), CallReturns(p),
             UNCHANGED <<projects, registry, rc, signalled, mods>>
      PROVE  TypeOK'
  <2>1. /\ pc' \in Statement /\ target' \in Procs \cup {Nobody}
        /\ check' \in BOOLEAN
    BY <1>1 DEF CallReturns, Raise, Goto, Calls
  <2>2. next' \in Nat /\ failures' \in SUBSET Procs
    <3>1. CASE Closing /\ Goto("close") /\ Note(p)
      <4>1. next + 1 \in Nat
        BY Successor
      <4> QED
        BY <3>1, <4>1 DEF Note
    <3>2. CASE ~Closing
      <4>1. failures' = failures /\ (next' = 1 \/ next' = next)
        BY <1>1, <3>2 DEF CallReturns, Raise, ending
      <4>2. 1 \in Nat
        OBVIOUS
      <4> QED
        BY <4>1, <4>2
    <3> QED
      BY <1>1, <3>1, <3>2 DEF CallReturns
  <2>3. outcome' = outcome \/ outcome' = "test error"
    BY <1>1 DEF CallReturns, Note, Raise, ending
  <2> QED
    BY <1>1, <2>1, <2>2, <2>3 DEF Reap, mods
<1>2. ASSUME NEW p \in Procs, TermTimeout(p) PROVE TypeOK'
  BY <1>2 DEF TermTimeout, Calls, procs, mods, driver, ending
<1>3. ASSUME NEW p \in Procs, KillGroup(p) PROVE TypeOK'
  <2>1. PICK q \in Procs : Killed(q)
    BY <1>3 DEF KillGroup
  <2> QED
    BY <1>3, <2>1 DEF KillGroup, Killed, Calls, mods, driver, ending
<1>4. ASSUME NEW p \in Procs, KillRaises(p) PROVE TypeOK'
  BY <1>4 DEF KillRaises, Raise, Goto, Calls, procs, mods, driver, ending
<1> QED
  BY <1>1, <1>2, <1>3, <1>4 DEF Waiting, WaitReturns, KillReturns

LEMMA TypeClose == TypeOK /\ InCall /\ Close => TypeOK'
<1> SUFFICES ASSUME TypeOK, InCall, Close PROVE TypeOK'
  OBVIOUS
<1> USE DEF TypeOK, Statement, Code
<1>1. CASE CloseNext
  <2>1. next > 0 /\ next <= Len(registry)
    BY <1>1 DEF CloseNext, At, InCall, Closing
  <2>2. registry[next] \in Procs
    BY <2>1, InRange
  <2> QED
    BY <1>1, <2>2 DEF CloseNext, Signal, Calls, mods, driver, ending
<1>2. CASE CloseLoopEnds \/ unload_test_module
  BY <1>2 DEF CloseLoopEnds, unload_test_module, Goto, Calls, procs, mods, driver, ending
<1>3. CASE UnloadRaises \/ CopyFails \/ CloseReturns
  BY <1>3 DEF UnloadRaises, CopyFails, CloseReturns, Goto, Calls, procs, mods
<1> QED
  BY <1>1, <1>2, <1>3 DEF Close

-----------------------------------------------------------------------------
(* Consistency of the registry, the processes and the files.               *)

LEMMA AppendRange ==
    ASSUME NEW S, NEW s \in Seq(S), NEW e \in S
    PROVE  {Append(s, e)[i] : i \in DOMAIN Append(s, e)} =
           {s[i] : i \in DOMAIN s} \cup {e}
<1> DEFINE t == Append(s, e)
<1>1. /\ DOMAIN s = 1..Len(s) /\ DOMAIN t = 1..(Len(s) + 1) /\ Len(s) \in Nat
      /\ \A i \in 1..Len(s) : t[i] = s[i]
      /\ t[Len(s) + 1] = e
  OBVIOUS
<1>2. 1..(Len(s) + 1) = 1..Len(s) \cup {Len(s) + 1}
  BY <1>1
<1> HIDE DEF t
<1>3. ASSUME NEW i \in DOMAIN t PROVE t[i] \in {s[j] : j \in DOMAIN s} \cup {e}
  <2>1. CASE i \in 1..Len(s)
    BY <1>1, <2>1
  <2>2. CASE i = Len(s) + 1
    BY <1>1, <2>2
  <2> QED
    BY <1>1, <1>2, <2>1, <2>2
<1>4. ASSUME NEW i \in DOMAIN s PROVE s[i] \in {t[j] : j \in DOMAIN t}
  <2>1. i \in DOMAIN t /\ t[i] = s[i]
    BY <1>1, <1>2
  <2> QED
    BY <2>1
<1>5. e \in {t[j] : j \in DOMAIN t}
  <2>1. Len(s) + 1 \in DOMAIN t
    BY <1>1, <1>2
  <2> QED
    BY <1>1, <2>1
<1>6. {t[i] : i \in DOMAIN t} = {s[i] : i \in DOMAIN s} \cup {e}
  BY <1>3, <1>4, <1>5
<1> QED
  BY <1>6 DEF t

LEMMA ConsistentUnchanged ==
    Consistent /\ UNCHANGED <<registry, state, rc, files>> => Consistent'
BY DEF Consistent, Registered

LEMMA ConsistentInit == Init => Consistent
<1> SUFFICES ASSUME Init PROVE Consistent
  OBVIOUS
<1>1. Registered = {}
  BY DEF Init, Registered
<1> QED
  BY <1>1 DEF Init, Consistent

\* The actions that change what Consistent is about.
LEMMA ConsistentReap ==
    ASSUME TypeOK, Consistent, NEW p \in Procs, Reap(p), UNCHANGED <<registry, rc>>
    PROVE  Consistent'
BY DEF TypeOK, Consistent, Reap, Ended, Registered

LEMMA ConsistentSpawn ==
    ASSUME TypeOK, Consistent, NEW p \in Procs, spawn_subprocess(p)
    PROVE  Consistent'
<1>1. Registered' = Registered \cup {p}
  <2>1. registry \in Seq(Procs) /\ registry' = Append(registry, p)
    BY DEF TypeOK, spawn_subprocess
  <2>2. {Append(registry, p)[i] : i \in DOMAIN Append(registry, p)}
           = {registry[i] : i \in DOMAIN registry} \cup {p}
    BY <2>1, AppendRange
  <2> QED
    BY <2>1, <2>2, Zenon DEF Registered
<1>2. /\ state' = [state EXCEPT ![p] = "running"] /\ rc' = rc
      /\ files' = files \cup {p} /\ state[p] = "unborn"
  BY DEF spawn_subprocess
<1> QED
  BY <1>1, <1>2 DEF TypeOK, Consistent

LEMMA ConsistentStep == TypeOK /\ Consistent /\ Next => Consistent'
<1> SUFFICES ASSUME TypeOK, Consistent, Next PROVE Consistent'
  OBVIOUS
<1>1. CASE Body
  <2>1. ASSUME NEW p \in Procs,
               subprocess_signal(p) \/ subprocess_kill(p) \/
               \E c \in BOOLEAN : subprocess_terminate(p, c) \/ subprocess_wait(p, c)
        PROVE  UNCHANGED <<registry, state, rc, files>>
    BY <2>1 DEF subprocess_signal, subprocess_kill, subprocess_terminate,
       subprocess_wait, procs
  <2>2. ASSUME NEW p \in Projects, AddProject(p) \/ RemoveProject(p)
        PROVE  UNCHANGED <<registry, state, rc, files>>
    BY <2>2 DEF AddProject, RemoveProject, procs
  <2>3. ASSUME load_test_module \/ LoadFails \/ BodyRaises \/ BodyEnds
        PROVE  UNCHANGED <<registry, state, rc, files>>
    BY <2>3 DEF load_test_module, LoadFails, BodyRaises, BodyEnds, procs
  <2> QED
    <3>1. \/ UNCHANGED <<registry, state, rc, files>>
          \/ \E p \in Procs : spawn_subprocess(p)
      BY <1>1, <2>1, <2>2, <2>3, Zenon DEF Body
    <3> QED
      BY <3>1, ConsistentUnchanged, ConsistentSpawn
<1>2. CASE Waiting
  <2>1. ASSUME NEW p \in Procs, WaitReturns(p) \/ KillReturns(p) PROVE Consistent'
    BY <2>1, ConsistentReap DEF WaitReturns, KillReturns
  <2>2. ASSUME NEW p \in Procs, TermTimeout(p) PROVE Consistent'
    BY <2>2, ConsistentUnchanged DEF TermTimeout, procs
  <2>3. ASSUME NEW p \in Procs, KillGroup(p) PROVE Consistent'
    <3>1. PICK q \in Procs : Killed(q)
      BY <2>3 DEF KillGroup
    <3>2. files' = files /\ registry' = registry
      BY <2>3 DEF KillGroup
    <3>3. CASE Running(q)
      <4>1. /\ state' = [state EXCEPT ![q] = "zombie"] /\ state[q] = "running"
            /\ rc' = [rc EXCEPT ![q] = "SIGKILL"]
        BY <3>1, <3>3 DEF Killed, Running
      <4> QED
        BY <3>2, <4>1 DEF TypeOK, Consistent, Registered
    <3>4. CASE ~Running(q)
      BY <3>1, <3>2, <3>4, ConsistentUnchanged DEF Killed
    <3> QED
      BY <3>3, <3>4
  <2>4. ASSUME NEW p \in Procs, KillRaises(p) PROVE Consistent'
    BY <2>4, ConsistentUnchanged DEF KillRaises, procs
  <2> QED
    BY <1>2, <2>1, <2>2, <2>3, <2>4 DEF Waiting
<1>3. CASE Close
  <2>1. UNCHANGED <<registry, state, rc, files>>
    BY <1>3 DEF Close, CloseNext, CloseLoopEnds, unload_test_module,
       UnloadRaises, CopyFails, CloseReturns, procs
  <2> QED
    BY <2>1, ConsistentUnchanged
<1>4. ASSUME NEW p \in Procs, Exit(p) PROVE Consistent'
  <2>1. PICK code \in {"zero", "error", "SIGTERM"} : rc' = [rc EXCEPT ![p] = code]
    BY <1>4 DEF Exit
  <2>2. /\ state' = [state EXCEPT ![p] = "zombie"] /\ state[p] = "running"
        /\ files' = files /\ registry' = registry
    BY <1>4 DEF Exit, Running
  <2> QED
    BY <2>1, <2>2 DEF TypeOK, Consistent, Registered
<1> QED
  BY <1>1, <1>2, <1>3, <1>4 DEF Next

-----------------------------------------------------------------------------
(* The calls and the loop of close().                                      *)

LEMMA NothingBefore ==
    ASSUME NEW S, NEW s \in Seq(S), NEW n, n = 0 \/ n = 1, NEW p
    PROVE  ~\E i \in DOMAIN s : i < n /\ s[i] = p
OBVIOUS

\* What follows the entry close() has just dealt with.
LEMMA DealtNext ==
    ASSUME registry \in Seq(Procs), next \in Nat, next > 0, next <= Len(registry),
           UNCHANGED registry, next' = next + 1, NEW q
    PROVE  Dealt(q)' <=> Dealt(q) \/ q = registry[next]
<1>1. next \in DOMAIN registry
  OBVIOUS
<1>2. \A i \in DOMAIN registry : i < next + 1 <=> i < next \/ i = next
  OBVIOUS
<1> QED
  BY <1>1, <1>2 DEF Dealt

LEMMA AllDealt ==
    ASSUME registry \in Seq(Procs), next \in Nat, next > Len(registry),
           NEW p \in Registered
    PROVE  Dealt(p)
<1>1. PICK i \in DOMAIN registry : registry[i] = p
  BY DEF Registered
<1>2. i < next
  OBVIOUS
<1> QED
  BY <1>1, <1>2 DEF Dealt

LEMMA RestInit == Init => InCall /\ Noted /\ Ending
<1> SUFFICES ASSUME Init PROVE InCall /\ Noted /\ Ending
  OBVIOUS
<1>1. registry \in Seq(Procs) /\ next = 0
  BY DEF Init
<1>2. \A p : ~Dealt(p)
  BY <1>1, NothingBefore DEF Dealt
<1> QED
  BY <1>2 DEF Init, InCall, Noted, Ending, At, Closing

Rest == InCall /\ Noted /\ Ending

LEMMA RestUnchanged ==
    Rest /\ UNCHANGED <<registry, state, rc, pc, target, ending>> => Rest'
BY DEF Rest, InCall, Noted, Ending, Dealt, Failed, Registered, At, Closing, ending

\* Before close() nothing is dealt with and nothing has been noted.
LEMMA NotClosing ==
    ASSUME TypeOK, Rest, ~Closing
    PROVE  next = 0 /\ failures = {} /\ \A p : ~Dealt(p)
<1>1. next = 0 /\ registry \in Seq(Procs)
  <2>1. next \in Nat /\ registry \in Seq(Procs)
    BY DEF TypeOK
  <2> QED
    BY <2>1 DEF Closing
<1>2. \A p : ~Dealt(p)
  BY <1>1, NothingBefore DEF Dealt
<1> QED
  BY <1>1, <1>2 DEF TypeOK, Rest, Noted

\* An exception, or the end, of the body leads to the start of close(),
\* whatever becomes of the registry.
LEMMA RestLeave ==
    ASSUME TypeOK, Rest, ~Closing, Goto("close"), next' = 1,
           outcome' \in {"none", "test error"},
           registry' \in Seq(Procs), UNCHANGED failures
    PROVE  Rest'
<1>1. failures' = {}
  BY NotClosing
<1>2. \A p : ~Dealt(p)'
  BY NothingBefore DEF Dealt
<1>3. Closing' /\ pc' = "close"
  <2>1. Closing'
    BY StartsClosing, Zenon DEF Closing
  <2> QED
    BY <2>1 DEF Goto, Calls
<1>4. InCall'
  BY <1>3 DEF InCall, At
<1>5. Ending'
  BY <1>3 DEF Ending, At
<1>6. Noted'
  BY <1>1, <1>2, <1>3 DEF Noted, At
<1> QED
  BY <1>4, <1>5, <1>6 DEF Rest

LEMMA RestRaise ==
    ASSUME TypeOK, Rest, ~Closing, Goto("close"), next' = 1,
           outcome' \in {"none", "test error"},
           UNCHANGED <<registry, failures>>
    PROVE  Rest'
BY RestLeave DEF TypeOK

\* A call that blocks.
LEMMA RestCall ==
    ASSUME TypeOK, Rest, ~Closing, ~At("over"), NEW p \in Registered, target' = p,
           pc' \in {"term", "wait", "kill"},
           UNCHANGED <<registry, state, rc, ending>>
    PROVE  Rest'
<1>1. InCall'
  BY DEF InCall, At, Closing, Registered, ending
<1>2. Noted'
  BY DEF Rest, Noted, Dealt, Failed, At, ending
<1>3. Ending'
  BY DEF Rest, Ending, At, ending
<1> QED
  BY <1>1, <1>2, <1>3 DEF Rest

LEMMA RestBody == TypeOK /\ Rest /\ Body => Rest'
<1> SUFFICES ASSUME TypeOK, Rest, Body PROVE Rest'
  OBVIOUS
<1>1. At("body")
  BY DEF Body, AddProject, RemoveProject, spawn_subprocess, subprocess_signal,
     subprocess_kill, subprocess_terminate, subprocess_wait, load_test_module,
     LoadFails, BodyRaises, BodyEnds
<1>2. ~Closing /\ ~At("over") /\ outcome \in {"none", "test error"}
  BY <1>1 DEF Rest, InCall, Ending, At
<1>3. ASSUME NEW p \in Projects, AddProject(p) \/ RemoveProject(p) PROVE Rest'
  BY <1>3, RestUnchanged DEF AddProject, RemoveProject, procs, driver
<1>4. ASSUME NEW p \in Procs, spawn_subprocess(p) PROVE Rest'
  <2>1. failures' = {} /\ next' = 0 /\ outcome' = outcome /\ pc' = "body"
    BY <1>1, <1>2, <1>4, NotClosing DEF spawn_subprocess, driver, ending, At
  <2>2. \A q : ~Dealt(q)'
    <3>1. registry' \in Seq(Procs)
      BY <1>4, AppendType DEF TypeOK, spawn_subprocess
    <3> QED
      BY <2>1, <3>1, NothingBefore DEF Dealt
  <2>3. ~Closing'
    BY <2>1 DEF Closing
  <2> QED
    BY <1>2, <2>1, <2>2, <2>3 DEF Rest, InCall, Noted, Ending, At
<1>5. ASSUME NEW p \in Procs, subprocess_signal(p) PROVE Rest'
  BY <1>5, RestUnchanged DEF subprocess_signal, driver
<1>6. ASSUME NEW p \in Procs, subprocess_kill(p) PROVE Rest'
  BY <1>2, <1>6, RestCall DEF subprocess_kill, Calls, procs
<1>7. ASSUME NEW p \in Procs, NEW c \in BOOLEAN,
             subprocess_terminate(p, c) \/ subprocess_wait(p, c)
      PROVE  Rest'
  BY <1>2, <1>7, RestCall DEF subprocess_terminate, subprocess_wait, Calls, procs
<1>8. CASE load_test_module
  BY <1>8, RestUnchanged DEF load_test_module, procs, driver
<1>9. CASE LoadFails \/ BodyRaises
  BY <1>2, <1>9, RestRaise DEF LoadFails, BodyRaises, Raise
<1>10. CASE BodyEnds
  BY <1>2, <1>10, RestRaise DEF BodyEnds
<1> QED
  BY <1>3, <1>4, <1>5, <1>6, <1>7, <1>8, <1>9, <1>10, Zenon DEF Body

\* A wait returns, in close() or in the body.
LEMMA RestReturns ==
    ASSUME TypeOK, Rest, NEW p \in Procs, target = p,
           At("term") \/ At("wait") \/ At("reap"),
           Reap(p), CallReturns(p), UNCHANGED <<registry, rc>>
    PROVE  Rest'
<1>1. outcome \in {"none", "test error"}
  BY DEF Rest, Ending, At
<1>2. CASE Closing /\ Goto("close") /\ Note(p)
  <2>1. next <= Len(registry) /\ p = registry[next]
    BY <1>2 DEF Rest, InCall, At
  <2>2. next \in Nat /\ next > 0 /\ registry \in Seq(Procs)
    BY <1>2 DEF TypeOK, Closing
  <2>3. next' = next + 1
    BY <1>2 DEF Note
  <2>4. \A q : Dealt(q)' <=> Dealt(q) \/ q = p
    BY <2>1, <2>2, <2>3, DealtNext
  <2>5. /\ \A q \in Procs : state'[q] = IF q = p THEN "reaped" ELSE state[q]
        /\ pc' = "close" /\ rc' = rc /\ outcome' = outcome
    BY <1>2 DEF TypeOK, Reap, Note, Goto, Calls
  <2>6. \A q \in Procs : q \in failures' <=> q \in failures \/ (q = p /\ Failed(p))
    BY <1>2 DEF Note
  <2>7. Noted'
    BY <2>4, <2>5, <2>6 DEF Rest, Noted, Failed, At
  <2>8. Closing'
    <3>1. next + 1 > 0
      BY <2>2
    <3> QED
      BY <2>3, <3>1, Zenon DEF Closing
  <2>9. InCall' /\ Ending'
    BY <1>1, <2>5, <2>8 DEF InCall, Ending, At
  <2> QED
    BY <2>7, <2>9 DEF Rest
<1>3. CASE ~Closing /\ Raise
  BY <1>1, <1>3, RestRaise DEF Raise
<1>4. CASE ~Closing /\ Goto("body") /\ UNCHANGED ending
  <2>1. /\ pc' = "body" /\ next' = next /\ outcome' = outcome /\ rc' = rc
        /\ failures' = failures
    BY <1>4 DEF Goto, Calls, ending
  <2>2. \A q : Dealt(q)' <=> Dealt(q)
    BY <2>1 DEF Dealt
  <2>3. failures' = {} /\ \A q : ~Dealt(q)'
    BY <1>4, <2>1, <2>2, NotClosing
  <2>4. ~Closing'
    BY <1>4, <2>1 DEF Closing
  <2> QED
    BY <1>1, <2>1, <2>3, <2>4 DEF Rest, InCall, Noted, Ending, At
<1> QED
  BY <1>2, <1>3, <1>4 DEF CallReturns

LEMMA RestWaiting == TypeOK /\ Rest /\ Waiting => Rest'
<1> SUFFICES ASSUME TypeOK, Rest, Waiting PROVE Rest'
  OBVIOUS
<1>1. ASSUME NEW p \in Procs, WaitReturns(p) \/ KillReturns(p) PROVE Rest'
  BY <1>1, RestReturns DEF WaitReturns, KillReturns
<1>2. ASSUME NEW p \in Procs, TermTimeout(p) PROVE Rest'
  <2>1. /\ At("term") /\ target = p /\ state[p] = "running"
        /\ pc' = "kill" /\ target' = p
        /\ UNCHANGED <<registry, state, rc, ending>>
    BY <1>2 DEF TermTimeout, Running, Calls, procs
  <2>2. Closing' = Closing
    BY <2>1 DEF Closing, ending
  <2>3. InCall'
    BY <2>1, <2>2 DEF Rest, InCall, At, Registered, ending
  <2>4. Noted' /\ Ending'
    BY <2>1 DEF Rest, Noted, Ending, Dealt, Failed, At, ending
  <2> QED
    BY <2>3, <2>4 DEF Rest
<1>3. ASSUME NEW p \in Procs, KillGroup(p) PROVE Rest'
  <2>1. /\ At("kill") /\ target = p /\ pc' = "reap" /\ target' = p
        /\ UNCHANGED <<registry, ending>>
    BY <1>3 DEF KillGroup, Calls
  <2>2. PICK q \in Procs : Killed(q)
    BY <1>3 DEF KillGroup
  <2>3. \A r \in Procs : /\ state'[r] = "reaped" <=> state[r] = "reaped"
                         /\ state'[r] # state[r] \/ rc'[r] # rc[r] =>
                               r = q /\ state[q] = "running"
    BY <2>2 DEF Killed, Running, TypeOK
  <2>4. Closing' = Closing
    BY <2>1 DEF Closing, ending
  <2>5. InCall'
    BY <2>1, <2>3, <2>4 DEF Rest, InCall, At, Registered, ending
  <2>6. \A r : Dealt(r)' <=> Dealt(r)
    BY <2>1 DEF Dealt, ending
  <2>7. Noted'
    BY <2>1, <2>3, <2>6 DEF Rest, Noted, Failed, At, ending
  <2>8. Ending'
    BY <2>1 DEF Rest, Ending, At, ending
  <2> QED
    BY <2>5, <2>7, <2>8 DEF Rest
<1>4. ASSUME NEW p \in Procs, KillRaises(p) PROVE Rest'
  <2>1. At("kill") /\ target = p /\ state[p] = "reaped"
    BY <1>4 DEF KillRaises
  <2>2. ~Closing /\ outcome \in {"none", "test error"}
    BY <2>1 DEF Rest, InCall, Ending, At
  <2> QED
    BY <1>4, <2>2, RestRaise DEF KillRaises, Raise
<1> QED
  BY <1>1, <1>2, <1>3, <1>4 DEF Waiting

LEMMA RestExit ==
    ASSUME TypeOK, Rest, NEW p \in Procs, Exit(p)
    PROVE  Rest'
<1>1. /\ state[p] = "running" /\ state' = [state EXCEPT ![p] = "zombie"]
      /\ UNCHANGED <<registry, pc, target, ending>>
  BY DEF Exit, Running, driver
<1>2. /\ \A q \in Procs : q # p => state'[q] = state[q] /\ rc'[q] = rc[q]
      /\ state'[p] = "zombie"
  BY <1>1 DEF Exit, TypeOK
<1>3. \A q : Dealt(q)' <=> Dealt(q)
  BY <1>1 DEF Dealt, ending
<1>4. ~Dealt(p)
  BY <1>1 DEF Rest, Noted
<1>5. Noted'
  BY <1>1, <1>2, <1>3, <1>4 DEF Rest, Noted, Failed, At, ending
<1>6. Registered \subseteq Procs
  <2>1. registry \in Seq(Procs)
    BY DEF TypeOK
  <2> QED
    BY <2>1 DEF Registered
<1>7. Closing' = Closing
  BY <1>1 DEF Closing, ending
<1>8. InCall'
  BY <1>1, <1>2, <1>6, <1>7 DEF Rest, InCall, At, Registered, ending
<1>9. Ending'
  BY <1>1 DEF Rest, Ending, At, ending
<1> QED
  BY <1>5, <1>8, <1>9 DEF Rest

\* A step of close() other than the last keeps what Rest says of the
\* processes.
LEMMA RestGoto ==
    ASSUME Rest, ~At("over"), Closing,
           UNCHANGED <<registry, state, rc, next, failures>>,
           \/ pc' = "close"
           \/ pc' \in {"unload", "copy", "over"} /\ next > Len(registry),
           \/ pc' # "over" /\ outcome' = outcome
           \/ pc' = "over" /\ outcome' = "close error"
           \/ pc' = "over" /\ (outcome' = "SubProcessError") = (failures # {})
    PROVE  Rest'
<1>1. Closing'
  BY DEF Closing
<1>2. InCall'
  BY <1>1 DEF InCall, At
<1>3. Noted'
  BY DEF Rest, Noted, Dealt, Failed, At
<1>4. Ending'
  BY DEF Rest, Ending, At
<1> QED
  BY <1>2, <1>3, <1>4 DEF Rest

LEMMA RestClose == TypeOK /\ Rest /\ Close => Rest'
<1> SUFFICES ASSUME TypeOK, Rest, Close PROVE Rest'
  OBVIOUS
<1>1. /\ At("close") \/ At("unload") \/ At("copy")
      /\ ~At("over")
  BY DEF Close, CloseNext, CloseLoopEnds, unload_test_module, UnloadRaises,
     CopyFails, CloseReturns, At
<1>2. Closing
  BY <1>1 DEF Rest, InCall
<1>3. At("unload") \/ At("copy") => next > Len(registry)
  BY DEF Rest, Noted
<1>4. CASE CloseNext
  <2>1. /\ next <= Len(registry) /\ pc' = "term" /\ target' = registry[next]
        /\ UNCHANGED <<registry, state, rc, ending>>
    BY <1>4 DEF CloseNext, Calls
  <2>2. registry[next] \in Registered
    <3>1. next \in Nat /\ next > 0 /\ registry \in Seq(Procs)
      BY <1>2 DEF TypeOK, Closing
    <3>2. next \in DOMAIN registry
      BY <2>1, <3>1, InRange
    <3> QED
      BY <3>2 DEF Registered
  <2>3. Closing'
    BY <1>2, <2>1 DEF Closing, ending
  <2>4. InCall'
    BY <2>1, <2>2, <2>3 DEF InCall, At, Registered, ending
  <2>5. Noted' /\ Ending'
    BY <1>1, <2>1 DEF Rest, Noted, Ending, Dealt, Failed, At, ending
  <2> QED
    BY <2>4, <2>5 DEF Rest
<1>5. CASE CloseLoopEnds
  BY <1>1, <1>2, <1>5, RestGoto DEF CloseLoopEnds, Goto, Calls, procs, ending
<1>6. CASE unload_test_module
  BY <1>1, <1>2, <1>3, <1>6, RestGoto
     DEF unload_test_module, Goto, Calls, procs, ending
<1>7. CASE UnloadRaises \/ CopyFails
  BY <1>1, <1>2, <1>3, <1>7, RestGoto
     DEF UnloadRaises, CopyFails, Goto, Calls, procs
<1>8. CASE CloseReturns
  <2>1. (outcome' = "SubProcessError") = (failures # {})
    BY <1>1, <1>8 DEF CloseReturns, Rest, Ending
  <2> QED
    BY <1>1, <1>2, <1>3, <1>8, <2>1, RestGoto DEF CloseReturns, Goto, Calls, procs
<1> QED
  BY <1>4, <1>5, <1>6, <1>7, <1>8 DEF Close
-----------------------------------------------------------------------------
(* The theorems.                                                           *)

LEMMA InvStep == Inv /\ [Next]_vars => Inv'
<1> SUFFICES ASSUME Inv, [Next]_vars PROVE Inv'
  OBVIOUS
<1>1. TypeOK /\ Consistent /\ Rest
  BY DEF Inv, Rest
<1>2. CASE Next
  <2>1. TypeOK'
    <3>1. ASSUME NEW p \in Procs, Exit(p) PROVE TypeOK'
      BY <1>1, <3>1 DEF Exit, TypeOK, Code, mods, driver, ending
    <3> QED
      BY <1>1, <1>2, <3>1, TypeBody, TypeWaiting, TypeClose DEF Next, Rest
  <2>2. Consistent'
    BY <1>1, <1>2, ConsistentStep
  <2>3. Rest'
    BY <1>1, <1>2, RestBody, RestWaiting, RestClose, RestExit DEF Next
  <2> QED
    BY <2>1, <2>2, <2>3 DEF Inv, Rest
<1>3. CASE UNCHANGED vars
  <2>1. /\ UNCHANGED <<registry, state, rc, files, pc, target, ending>>
        /\ UNCHANGED <<projects, signalled, mods, check>>
    BY <1>3 DEF vars, procs, driver
  <2>2. Consistent' /\ Rest'
    BY <1>1, <2>1, ConsistentUnchanged, RestUnchanged
  <2>3. TypeOK'
    BY <1>1, <2>1 DEF TypeOK, mods, ending
  <2> QED
    BY <2>2, <2>3 DEF Inv, Rest
<1> QED
  BY <1>2, <1>3

LEMMA Invariance == Spec => []Inv
<1>1. Init => Inv
  BY TypeInit, ConsistentInit, RestInit DEF Inv
<1> QED
  BY <1>1, InvStep, PTL DEF Spec

(* The runtime is type correct.                                            *)
THEOREM TypeCorrect == Spec => []TypeOK
<1>1. Inv => TypeOK
  BY DEF Inv
<1> QED
  BY <1>1, Invariance, PTL

(* Files are closed exactly when their process has been waited for.        *)
THEOREM FilesFollow == Spec => []FilesFollowProcesses
<1>1. Inv => FilesFollowProcesses
  BY DEF Inv, TypeOK, Consistent, FilesFollowProcesses
<1> QED
  BY <1>1, Invariance, PTL

\* At the end every process of the registry has been dealt with.
LEMMA AllReaped ==
    ASSUME Inv, At("over"), NEW p \in Procs
    PROVE  /\ state[p] \in {"unborn", "reaped"}
           /\ Failed(p) => p \in failures
<1>1. registry \in Seq(Procs) /\ next \in Nat /\ next > Len(registry)
  BY DEF Inv, TypeOK, Noted
<1>2. p \in Registered => Dealt(p)
  BY <1>1, AllDealt
<1>3. p \in Registered <=> state[p] # "unborn"
  BY DEF Inv, Consistent
<1>4. Failed(p) => state[p] # "unborn"
  BY DEF Inv, Consistent, Failed
<1> QED
  BY <1>2, <1>3, <1>4 DEF Inv, Noted

(* Whatever the test and its subprocesses do, and however close() ends,    *)
(* nothing that was spawned survives and no file stays open.               *)
THEOREM NothingSurvives == Spec => []NoSurvivor
<1>1. Inv => NoSurvivor
  <2> SUFFICES ASSUME Inv, At("over") PROVE NoSurvivor
    BY DEF NoSurvivor
  <2>1. \A p \in Procs : state[p] \in {"unborn", "reaped"}
    BY AllReaped
  <2>2. files = {}
    BY <2>1 DEF Inv, TypeOK, Consistent
  <2> QED
    BY <2>1, <2>2 DEF NoSurvivor
<1> QED
  BY <1>1, Invariance, PTL

(* When close() does not break off it raises the failures of exactly the   *)
(* processes that failed.                                                  *)
THEOREM FailuresAreReported == Spec => []FailuresReported
<1>1. Inv => FailuresReported
  <2> SUFFICES ASSUME Inv, At("over"), outcome # "close error"
               PROVE  /\ failures = {p \in Procs : Failed(p)}
                      /\ (outcome = "SubProcessError") = (failures # {})
    BY DEF FailuresReported
  <2>1. failures = {p \in Procs : Failed(p)}
    BY AllReaped DEF Inv, TypeOK, Noted
  <2>2. (outcome = "SubProcessError") = (failures # {})
    BY DEF Inv, Ending
  <2> QED
    BY <2>1, <2>2
<1> QED
  BY <1>1, Invariance, PTL

\* What a step does to a process p that has been waited for: nothing.
LeftAlone(p) == /\ state'[p] = state[p] /\ rc'[p] = rc[p]
                /\ p \in signalled' => p \in signalled

\* Who enters the kill: the test itself, or the timeout of a process that
\* has not been waited for.
KillsOnPurpose ==
    ~At("kill") /\ pc' = "kill" =>
       \/ At("body")
       \/ target' = target /\ state[target] # "reaped"

\* A process that is killed is the target, or has the pid of a target that
\* the test had waited for.
KilledInPlaceOf(p) ==
    rc[p] # "SIGKILL" /\ rc'[p] = "SIGKILL" =>
       /\ At("kill")
       /\ p # target => ~Closing /\ state[target] = "reaped"

LEMMA ReapedLeftAlone ==
    ASSUME TypeOK, Next, NEW p \in Procs, state[p] = "reaped"
    PROVE  LeftAlone(p)
<1> USE DEF LeftAlone
<1>1. ASSUME UNCHANGED procs PROVE LeftAlone(p)
  BY <1>1 DEF procs
<1>2. CASE Body
  <2>1. ASSUME NEW q \in Projects, AddProject(q) \/ RemoveProject(q) PROVE LeftAlone(p)
    BY <1>1, <2>1 DEF AddProject, RemoveProject
  <2>2. ASSUME NEW q \in Procs, spawn_subprocess(q) PROVE LeftAlone(p)
    BY <2>2 DEF spawn_subprocess, TypeOK
  <2>3. ASSUME NEW q \in Procs, subprocess_signal(q) PROVE LeftAlone(p)
    BY <2>3 DEF subprocess_signal, Signal, Running
  <2>4. ASSUME NEW q \in Procs, subprocess_kill(q) PROVE LeftAlone(p)
    BY <1>1, <2>4 DEF subprocess_kill
  <2>5. ASSUME NEW q \in Procs, NEW c \in BOOLEAN,
               subprocess_terminate(q, c) \/ subprocess_wait(q, c)
        PROVE  LeftAlone(p)
    BY <2>5 DEF subprocess_terminate, subprocess_wait, Signal, Running, procs
  <2>6. CASE load_test_module \/ LoadFails \/ BodyRaises \/ BodyEnds
    BY <1>1, <2>6 DEF load_test_module, LoadFails, BodyRaises, BodyEnds
  <2> QED
    BY <1>2, <2>1, <2>2, <2>3, <2>4, <2>5, <2>6, Zenon DEF Body
<1>3. CASE Waiting
  <2>1. ASSUME NEW q \in Procs, WaitReturns(q) \/ KillReturns(q) PROVE LeftAlone(p)
    BY <2>1 DEF WaitReturns, KillReturns, Reap, TypeOK
  <2>2. ASSUME NEW q \in Procs, TermTimeout(q) \/ KillRaises(q) PROVE LeftAlone(p)
    BY <1>1, <2>2 DEF TermTimeout, KillRaises
  <2>3. ASSUME NEW q \in Procs, KillGroup(q) PROVE LeftAlone(p)
    <3>1. PICK r \in Procs : Killed(r)
      BY <2>3 DEF KillGroup
    <3> QED
      BY <2>3, <3>1 DEF KillGroup, Killed, Running, TypeOK
  <2> QED
    BY <1>3, <2>1, <2>2, <2>3 DEF Waiting
<1>4. CASE Close
  <2>1. CASE CloseNext
    BY <2>1 DEF CloseNext, Signal, Running
  <2>2. CASE CloseLoopEnds \/ unload_test_module
    BY <1>1, <2>2 DEF CloseLoopEnds, unload_test_module
  <2>3. CASE UnloadRaises \/ CopyFails \/ CloseReturns
    BY <1>1, <2>3 DEF UnloadRaises, CopyFails, CloseReturns
  <2> QED
    BY <1>4, <2>1, <2>2, <2>3 DEF Close
<1>5. ASSUME NEW q \in Procs, Exit(q) PROVE LeftAlone(p)
  BY <1>5 DEF Exit, Running, TypeOK
<1> QED
  BY <1>2, <1>3, <1>4, <1>5 DEF Next

LEMMA KillEntered == Next => KillsOnPurpose
<1> SUFFICES ASSUME Next, ~At("kill"), pc' = "kill", ~At("body")
             PROVE  target' = target /\ state[target] # "reaped"
  BY DEF KillsOnPurpose
<1>1. ~Body
  BY DEF Body, AddProject, RemoveProject, spawn_subprocess, subprocess_signal,
     subprocess_kill, subprocess_terminate, subprocess_wait, load_test_module,
     LoadFails, BodyRaises, BodyEnds
<1>2. ~Close
  BY DEF Close, CloseNext, CloseLoopEnds, unload_test_module, UnloadRaises,
     CopyFails, CloseReturns, Goto, Calls
<1>3. \A p \in Procs : ~Exit(p)
  BY DEF Exit, driver, At
<1>4. ASSUME NEW p \in Procs, WaitReturns(p) \/ KillReturns(p) PROVE FALSE
  BY <1>4 DEF WaitReturns, KillReturns, CallReturns, Raise, Goto, Calls
<1>5. ASSUME NEW p \in Procs, KillGroup(p) \/ KillRaises(p) PROVE FALSE
  BY <1>5 DEF KillGroup, KillRaises
<1>6. PICK p \in Procs : TermTimeout(p)
  BY <1>1, <1>2, <1>3, <1>4, <1>5 DEF Next, Waiting
<1> QED
  BY <1>6 DEF TermTimeout, Running, Calls

LEMMA OneIsKilled ==
    ASSUME TypeOK, InCall, Next, NEW p \in Procs
    PROVE  KilledInPlaceOf(p)
<1> SUFFICES ASSUME rc[p] # "SIGKILL", rc'[p] = "SIGKILL"
             PROVE  At("kill") /\ (p # target => ~Closing /\ state[target] = "reaped")
  BY DEF KilledInPlaceOf
<1>1. ~Body
  BY DEF Body, AddProject, RemoveProject, spawn_subprocess, subprocess_signal,
     subprocess_kill, subprocess_terminate, subprocess_wait, load_test_module,
     LoadFails, BodyRaises, BodyEnds, procs
<1>2. ~Close
  BY DEF Close, CloseNext, CloseLoopEnds, unload_test_module, UnloadRaises,
     CopyFails, CloseReturns, procs
<1>3. ASSUME NEW q \in Procs, Exit(q) PROVE FALSE
  <2>1. PICK code \in {"zero", "error", "SIGTERM"} : rc' = [rc EXCEPT ![q] = code]
    BY <1>3 DEF Exit
  <2> QED
    BY <2>1 DEF TypeOK
<1>4. ASSUME NEW q \in Procs, WaitReturns(q) \/ KillReturns(q) \/ TermTimeout(q)
                                \/ KillRaises(q)
      PROVE  FALSE
  BY <1>4 DEF WaitReturns, KillReturns, TermTimeout, KillRaises, procs
<1>5. PICK q \in Procs : KillGroup(q)
  BY <1>1, <1>2, <1>3, <1>4 DEF Next, Waiting
<1>6. At("kill") /\ target = q
  BY <1>5 DEF KillGroup
<1>7. PICK r \in Procs : (r = q \/ state[q] = "reaped") /\ Killed(r)
  BY <1>5 DEF KillGroup
<1>8. p = r
  BY <1>7 DEF Killed, TypeOK
<1>9. state[q] = "reaped" => ~Closing
  BY <1>6 DEF InCall
<1> QED
  BY <1>6, <1>7, <1>8, <1>9

Final == /\ \A p \in Procs : state[p] = "reaped" => LeftAlone(p)
         /\ KillsOnPurpose
         /\ \A p \in Procs : KilledInPlaceOf(p)

LEMMA FinalStep ==
    ASSUME TypeOK, InCall, Next
    PROVE  Final
<1>1. \A p \in Procs : state[p] = "reaped" => LeftAlone(p)
  BY ReapedLeftAlone
<1>2. KillsOnPurpose
  BY KillEntered
<1>3. \A p \in Procs : KilledInPlaceOf(p)
  BY OneIsKilled
<1> QED
  BY <1>1, <1>2, <1>3 DEF Final

\* Final is what ReapedIsFinal says of a step.
LEMMA FinalIs ==
    [Final]_vars =>
        [/\ \A p \in Procs : state[p] = "reaped" =>
               /\ state'[p] = state[p] /\ rc'[p] = rc[p]
               /\ p \in signalled' => p \in signalled
         /\ ~At("kill") /\ pc' = "kill" =>
               \/ At("body")
               \/ target' = target /\ state[target] # "reaped"
         /\ \A p \in Procs : rc[p] # "SIGKILL" /\ rc'[p] = "SIGKILL" =>
               /\ At("kill")
               /\ p # target => ~Closing /\ state[target] = "reaped"]_vars
BY Zenon DEF Final, LeftAlone, KillsOnPurpose, KilledInPlaceOf

(* A process that has been waited for keeps its result, and no call but a  *)
(* kill by the test itself uses its pid: not the timeout of a wait, and    *)
(* nothing in close().                                                     *)
THEOREM ReapedStays == Spec => ReapedIsFinal
<1>1. Inv /\ [Next]_vars => [Final]_vars
  BY FinalStep DEF Inv
<1> QED
  BY <1>1, FinalIs, Invariance, PTL DEF Spec, ReapedIsFinal

-----------------------------------------------------------------------------
(* The progress of close().                                                *)

\* What is registered was spawned.
Spawned == \A p \in Registered : state[p] # "unborn"

\* close() goes at most one entry past the registry, and what it waits for
\* without a timeout has ended.
Advancing ==
    /\ Closing => next <= Len(registry) + 1
    /\ At("reap") => Ended(target)

LEMMA SpawnedIs == TypeOK /\ Consistent => Spawned
<1> SUFFICES ASSUME TypeOK, Consistent, NEW p \in Registered PROVE state[p] # "unborn"
  BY DEF Spawned
<1>1. p \in Procs
  <2>1. registry \in Seq(Procs)
    BY DEF TypeOK
  <2> QED
    BY <2>1 DEF Registered
<1> QED
  BY <1>1 DEF Consistent

LEMMA LenNat == ASSUME NEW S, NEW s \in Seq(S) PROVE Len(s) \in Nat
OBVIOUS

LEMMA OneIsWithin == ASSUME NEW n \in Nat PROVE 1 <= n + 1
OBVIOUS

\* What the steps of the driver do to the position of close().
LEMMA AdvancingStep ==
    ASSUME TypeOK, Rest, Spawned, Advancing, Next
    PROVE  Advancing'
<1>0. registry \in Seq(Procs) /\ next \in Nat /\ Len(registry) \in Nat
  BY LenNat DEF TypeOK
<1>1. ASSUME UNCHANGED <<registry, state, pc, target, next>> PROVE Advancing'
  BY <1>1 DEF Advancing, Closing, At, Ended
<1>2. ASSUME UNCHANGED <<registry, next>>, pc' # "reap" PROVE Advancing'
  BY <1>2 DEF Advancing, Closing, At
<1>3. ASSUME UNCHANGED registry, next' = 1, pc' # "reap" PROVE Advancing'
  BY <1>0, <1>3, OneIsWithin DEF Advancing, At
<1>4. CASE Body
  <2>1. ASSUME NEW p \in Projects, AddProject(p) \/ RemoveProject(p) PROVE Advancing'
    BY <1>1, <2>1 DEF AddProject, RemoveProject, procs, driver, ending
  <2>2. ASSUME NEW p \in Procs, spawn_subprocess(p) PROVE Advancing'
    <3>1. At("body") /\ UNCHANGED <<pc, next>>
      BY <2>2 DEF spawn_subprocess, driver, ending
    <3>2. ~Closing' /\ ~At("reap")'
      BY <3>1 DEF Rest, InCall, At, Closing
    <3> QED
      BY <3>2 DEF Advancing
  <2>3. ASSUME NEW p \in Procs, subprocess_signal(p) PROVE Advancing'
    BY <1>1, <2>3 DEF subprocess_signal, driver, ending
  <2>4. ASSUME NEW p \in Procs,
               subprocess_kill(p) \/
               \E c \in BOOLEAN : subprocess_terminate(p, c) \/ subprocess_wait(p, c)
        PROVE  Advancing'
    BY <1>2, <2>4 DEF subprocess_kill, subprocess_terminate, subprocess_wait,
       Calls, ending
  <2>5. CASE load_test_module
    BY <1>1, <2>5 DEF load_test_module, procs, driver, ending
  <2>6. CASE LoadFails \/ BodyRaises \/ BodyEnds
    BY <1>3, <2>6 DEF LoadFails, BodyRaises, BodyEnds, Raise, Goto, Calls
  <2> QED
    BY <1>4, <2>1, <2>2, <2>3, <2>4, <2>5, <2>6, Zenon DEF Body
<1>5. CASE Waiting
  <2>1. ASSUME NEW p \in Procs, WaitReturns(p) \/ KillReturns(p) PROVE Advancing'
    <3>1. target = p /\ CallReturns(p) /\ UNCHANGED registry
          /\ (At("term") \/ At("wait") \/ At("reap"))
      BY <2>1 DEF WaitReturns, KillReturns
    <3>2. CASE Closing /\ Goto("close") /\ Note(p)
      <4>1. next <= Len(registry)
        BY <3>1, <3>2 DEF Rest, InCall
      <4>2. next' <= Len(registry) + 1 /\ pc' # "reap"
        BY <1>0, <3>2, <4>1 DEF Note, Goto, Calls
      <4> QED
        BY <3>1, <4>2 DEF Advancing, At
    <3>3. CASE ~Closing /\ Raise
      BY <1>3, <3>1, <3>3 DEF Raise, Goto, Calls
    <3>4. CASE Goto("body") /\ UNCHANGED ending
      BY <1>2, <3>1, <3>4 DEF Goto, Calls, ending
    <3> QED
      BY <3>1, <3>2, <3>3, <3>4 DEF CallReturns
  <2>2. ASSUME NEW p \in Procs, TermTimeout(p) PROVE Advancing'
    BY <1>2, <2>2 DEF TermTimeout, Calls, ending
  <2>3. ASSUME NEW p \in Procs, KillGroup(p) PROVE Advancing'
    <3>1. /\ At("kill") /\ target = p /\ target' = p
          /\ UNCHANGED <<registry, next>>
      BY <2>3 DEF KillGroup, Calls, ending
    <3>2. state[p] \in {"running", "zombie", "reaped"}
      BY <3>1 DEF Rest, InCall, Spawned, TypeOK
    <3>3. PICK q \in Procs : (q = p \/ state[p] = "reaped") /\ Killed(q)
      BY <2>3 DEF KillGroup
    <3>4. state'[p] \in {"zombie", "reaped"}
      BY <3>2, <3>3 DEF Killed, Running, TypeOK
    <3> QED
      BY <3>1, <3>4 DEF Advancing, Closing, Ended
  <2>4. ASSUME NEW p \in Procs, KillRaises(p) PROVE Advancing'
    BY <1>3, <2>4 DEF KillRaises, Raise, Goto, Calls
  <2> QED
    BY <1>5, <2>1, <2>2, <2>3, <2>4 DEF Waiting
<1>6. CASE Close
  BY <1>2, <1>6 DEF Close, CloseNext, CloseLoopEnds, unload_test_module,
     UnloadRaises, CopyFails, CloseReturns, Goto, Calls, ending
<1>7. ASSUME NEW p \in Procs, Exit(p) PROVE Advancing'
  <2>1. /\ UNCHANGED <<registry, pc, target, next>>
        /\ \A q \in Procs : Ended(q) => Ended(q)'
    BY <1>7 DEF Exit, Ended, TypeOK, driver, ending
  <2>2. At("reap") => target \in Procs
    <3>1. At("reap") => target \in Registered
      BY DEF Rest, InCall
    <3> QED
      BY <1>0, <3>1 DEF Registered
  <2>3. At("reap")' => Ended(target)'
    BY <2>1, <2>2 DEF Advancing, At, Ended
  <2> QED
    BY <2>1, <2>3 DEF Advancing, Closing
<1> QED
  BY <1>4, <1>5, <1>6, <1>7 DEF Next

\* The number of statements that are left of close().
LEMMA Fewer ==
    ASSUME NEW n \in Nat, NEW m \in Nat, NEW l \in Nat,
           NEW i \in 0..4, NEW j \in 0..4,
           m <= l + 1, n <= m,
           (m = n /\ i < j) \/ (m = n + 1 /\ i <= 4 /\ j >= 1)
    PROVE  4 * (l + 1 - m) + i < 4 * (l + 1 - n) + j
OBVIOUS

LEMMA StatementsLeft ==
    /\ StepsToNext["close"] = 4 /\ StepsToNext["term"] = 3
    /\ StepsToNext["unload"] = 3 /\ StepsToNext["kill"] = 2
    /\ StepsToNext["copy"] = 2 /\ StepsToNext["reap"] = 1
    /\ StepsToNext["over"] = 0
BY DEF StepsToNext

\* The driver goes on to a later statement for the same entry ...
LEMMA SameEntry ==
    ASSUME TypeOK, Closing, Advancing, UNCHANGED <<registry, next>>,
           StepsToNext[pc] \in 0..4, StepsToNext[pc'] \in 0..4,
           StepsToNext[pc'] < StepsToNext[pc]
    PROVE  StepsLeft' < StepsLeft
<1>1. next \in Nat /\ Len(registry) \in Nat
  BY LenNat DEF TypeOK
<1>5. next <= Len(registry) + 1
  BY DEF Advancing
<1> DEFINE i == StepsToNext[pc']
           j == StepsToNext[pc]
           l == Len(registry)
<1>2. i \in 0..4 /\ j \in 0..4 /\ i < j /\ l \in Nat /\ next <= l + 1
  BY <1>1, <1>5
<1>3. StepsLeft = 4 * (l + 1 - next) + j /\ StepsLeft' = 4 * (l + 1 - next) + i
  <2>1. StepsToNext' = StepsToNext
    BY DEF StepsToNext
  <2> QED
    BY <2>1 DEF StepsLeft
<1> HIDE DEF i, j, l
<1>4. 4 * (l + 1 - next) + i < 4 * (l + 1 - next) + j
  BY <1>1, <1>2, Fewer
<1> QED
  BY <1>3, <1>4

\* ... or to the next entry.
LEMMA NextEntry ==
    ASSUME TypeOK, Closing, UNCHANGED registry, next' = next + 1,
           next <= Len(registry), StepsToNext[pc] \in 1..4, pc' = "close"
    PROVE  StepsLeft' < StepsLeft
<1>1. registry \in Seq(Procs) /\ next \in Nat /\ Len(registry) \in Nat
  BY LenNat DEF TypeOK
<1> DEFINE j == StepsToNext[pc]
           l == Len(registry)
           n == next + 1
<1>2. j \in 0..4 /\ j >= 1 /\ l \in Nat /\ n \in Nat /\ n <= l + 1 /\ next <= n
      /\ 4 \in 0..4
  BY <1>1
<1>3. StepsLeft = 4 * (l + 1 - next) + j /\ StepsLeft' = 4 * (l + 1 - n) + 4
  <2>1. StepsToNext' = StepsToNext
    BY DEF StepsToNext
  <2> QED
    BY <2>1, StatementsLeft DEF StepsLeft
<1>4. 4 * (l + 1 - n) + 4 < 4 * (l + 1 - next) + j
  <2> HIDE DEF j, l
  <2> QED
    BY <1>1, <1>2
<1> QED
  BY <1>3, <1>4

LEMMA StepOfClose ==
    ASSUME TypeOK, Rest, Advancing, Closing, Next
    PROVE  StepsLeft' < StepsLeft \/ \E p \in Procs : Exit(p)
<1> USE StatementsLeft
<1>1. CASE Body
  BY <1>1 DEF Rest, InCall, Body, AddProject, RemoveProject, spawn_subprocess,
     subprocess_signal, subprocess_kill, subprocess_terminate, subprocess_wait,
     load_test_module, LoadFails, BodyRaises, BodyEnds
<1>2. CASE Waiting
  <2>1. ASSUME NEW p \in Procs, WaitReturns(p) \/ KillReturns(p)
        PROVE  StepsLeft' < StepsLeft
    <3>1. pc \in {"term", "reap"} /\ UNCHANGED registry
          /\ next <= Len(registry)
      BY <2>1 DEF WaitReturns, KillReturns, Rest, InCall, At
    <3>2. next' = next + 1 /\ pc' = "close"
      BY <2>1 DEF WaitReturns, KillReturns, CallReturns, Note, Goto, Calls
    <3>3. StepsToNext[pc] \in 1..4
      BY <3>1
    <3> QED
      BY <3>1, <3>2, <3>3, NextEntry
  <2>2. ASSUME NEW p \in Procs, TermTimeout(p) PROVE StepsLeft' < StepsLeft
    <3>1. pc = "term" /\ pc' = "kill" /\ UNCHANGED <<registry, next>>
      BY <2>2 DEF TermTimeout, At, Calls, ending
    <3>2. StepsToNext[pc] = 3 /\ StepsToNext[pc'] = 2
      BY <3>1
    <3> QED
      BY <3>1, <3>2, SameEntry
  <2>3. ASSUME NEW p \in Procs, KillGroup(p) PROVE StepsLeft' < StepsLeft
    <3>1. pc = "kill" /\ pc' = "reap" /\ UNCHANGED <<registry, next>>
      BY <2>3 DEF KillGroup, At, Calls, ending
    <3>2. StepsToNext[pc] = 2 /\ StepsToNext[pc'] = 1
      BY <3>1
    <3> QED
      BY <3>1, <3>2, SameEntry
  <2>4. ASSUME NEW p \in Procs PROVE ~KillRaises(p)
    BY DEF KillRaises, Rest, InCall
  <2> QED
    BY <1>2, <2>1, <2>2, <2>3, <2>4 DEF Waiting
<1>3. CASE Close
  <2>1. UNCHANGED <<registry, next>>
    BY <1>3 DEF Close, CloseNext, CloseLoopEnds, unload_test_module,
       UnloadRaises, CopyFails, CloseReturns, ending
  <2>2. \/ pc = "close" /\ pc' \in {"term", "unload"}
        \/ pc = "unload" /\ pc' \in {"copy", "over"}
        \/ pc = "copy" /\ pc' = "over"
    BY <1>3 DEF Close, CloseNext, CloseLoopEnds, unload_test_module,
       UnloadRaises, CopyFails, CloseReturns, Goto, Calls, At
  <2>3. /\ StepsToNext[pc] \in 0..4 /\ StepsToNext[pc'] \in 0..4
        /\ StepsToNext[pc'] < StepsToNext[pc]
    BY <2>2
  <2> QED
    BY <2>1, <2>3, SameEntry
<1> QED
  BY <1>1, <1>2, <1>3 DEF Next

LEMMA AdvancingUnchanged == Advancing /\ UNCHANGED vars => Advancing'
BY DEF Advancing, Closing, At, Ended, vars, procs, driver, ending

LEMMA AdvancingInit == Init => Advancing
BY DEF Init, Advancing, Closing, At

LEMMA AdvancingInvariance == Spec => []Advancing
<1>1. Inv /\ Advancing /\ [Next]_vars => Advancing'
  <2>1. Inv => TypeOK /\ Rest /\ Spawned
    BY SpawnedIs DEF Inv, Rest
  <2> QED
    BY <2>1, AdvancingStep, AdvancingUnchanged
<1> QED
  BY <1>1, AdvancingInit, Invariance, PTL DEF Spec

(* close() is never kept waiting by a process.                             *)
THEOREM CloseIsNotBlocked == Spec => []CloseNeverBlocks
<1>1. Inv /\ Advancing => CloseNeverBlocks
  BY DEF Inv, InCall, Advancing, CloseNeverBlocks
<1> QED
  BY <1>1, Invariance, AdvancingInvariance, PTL

(* Every step of close() leaves fewer of them.                             *)
THEOREM CloseGoesOn == Spec => CloseAdvances
<1>1. Inv /\ Advancing /\ [Next]_vars =>
        [Closing => StepsLeft' < StepsLeft \/ \E p \in Procs : Exit(p)]_vars
  BY StepOfClose DEF Inv, Rest
<1> QED
  BY <1>1, Invariance, AdvancingInvariance, PTL DEF Spec, CloseAdvances

-----------------------------------------------------------------------------
(* Runtime keeps its promise: the refinement, step by step.                *)

MappedVars == <<Phase, Born, Live, Held, Failing, Report>>

LEMMA PromiseStutters == UNCHANGED MappedVars => UNCHANGED Promise!vars
BY DEF MappedVars, Promise!vars

\* The phase and the report are those of the three parts of the statement.
LEMMA PhaseIs ==
    ASSUME InCall
    PROVE  /\ ~Closing => Phase = "test" /\ Report = Promise!Nothing
           /\ Closing /\ ~At("over") => Phase = "closing" /\ Report = Promise!Nothing
           /\ At("over") => Phase = "over"
BY DEF InCall, Phase, Report, Promise!Nothing

LEMMA PhaseKept ==
    ASSUME UNCHANGED <<next, outcome, failures>>, At("over") = At("over")'
    PROVE  UNCHANGED <<Phase, Report>>
BY DEF Phase, Report, Closing

LEMMA SetsKept ==
    ASSUME UNCHANGED <<state, rc>>
    PROVE  UNCHANGED <<Born, Live, Held, Failing>>
BY DEF Born, Live, Held, Failing, Running, Failed

LEMMA PromiseInit == Init => Promise!Init
<1> SUFFICES ASSUME Init PROVE Promise!Init
  OBVIOUS
<1>1. Born = {} /\ Live = {} /\ Held = {} /\ Failing = {}
  BY DEF Init, Born, Live, Held, Failing, Running, Failed
<1>2. Phase = "test" /\ Report = Promise!Nothing
  BY DEF Init, Phase, Report, Promise!Nothing, At, Closing
<1> QED
  BY <1>1, <1>2 DEF Promise!Init

LEMMA PromiseSpawn ==
    ASSUME Inv, NEW p \in Procs, spawn_subprocess(p)
    PROVE  Promise!Spawn(p)
<1>1. At("body") /\ state[p] = "unborn" /\ state' = [state EXCEPT ![p] = "running"]
      /\ rc' = rc /\ UNCHANGED <<pc, next, outcome, failures>>
  BY DEF spawn_subprocess, driver, ending
<1>2. Phase = "test"
  BY <1>1, PhaseIs DEF Inv, InCall
<1>3. UNCHANGED <<Phase, Report>>
  BY <1>1, PhaseKept DEF At
<1>4. /\ p \notin Born /\ Born' = Born \cup {p} /\ Live' = Live \cup {p}
      /\ Held' = Held \cup {p} /\ Failing' = Failing
  BY <1>1 DEF Inv, TypeOK, Born, Live, Held, Failing, Running, Failed
<1> QED
  BY <1>2, <1>3, <1>4 DEF Promise!Spawn

\* A process ends, of itself or because it is killed.
LEMMA PromiseEnd ==
    ASSUME Inv, NEW p \in Procs, Running(p), NEW code \in Code,
           state' = [state EXCEPT ![p] = "zombie"], rc' = [rc EXCEPT ![p] = code],
           UNCHANGED <<Phase, Report>>
    PROVE  Promise!End(p)
<1>1. /\ \A q \in Procs : state'[q] = IF q = p THEN "zombie" ELSE state[q]
      /\ \A q \in Procs : rc'[q] = IF q = p THEN code ELSE rc[q]
      /\ state[p] = "running" /\ rc[p] = "none"
  BY DEF Inv, TypeOK, Consistent, Running
<1>2. /\ p \in Live /\ Live' = Live \ {p} /\ Born' = Born /\ Held' = Held
      /\ Failing' \in {Failing, Failing \cup {p}}
  BY <1>1 DEF Born, Live, Held, Failing, Running, Failed
<1> QED
  BY <1>2 DEF Promise!End

\* The body ends, by an exception or not, without a wait.
LEMMA PromiseLeaves ==
    ASSUME Inv, ~Closing, Goto("close"), next' = 1, UNCHANGED <<Born, Live, Held, Failing>>
    PROVE  Promise!TestEnds
<1>1. Phase = "test" /\ Report = Promise!Nothing
  BY PhaseIs DEF Inv
<1>2. Closing' /\ pc' = "close"
  <2>1. Closing'
    BY StartsClosing, Zenon DEF Closing
  <2> QED
    BY <2>1 DEF Goto, Calls
<1>3. Phase' = "closing" /\ Report' = Promise!Nothing
  BY <1>2 DEF Phase, Report, At, Promise!Nothing
<1> QED
  BY <1>1, <1>3 DEF Promise!TestEnds, Promise!Leave

\* A wait returns: what was held is not any more, and the test may raise.
LEMMA PromiseCollects ==
    ASSUME Inv, NEW p \in Procs, Reap(p), CallReturns(p), UNCHANGED rc,
           ~At("over")
    PROVE  [Promise!Next]_(Promise!vars)
<1>1. /\ \A q \in Procs : state'[q] = IF q = p THEN "reaped" ELSE state[q]
      /\ state[p] \in {"zombie", "reaped"}
  BY DEF Inv, TypeOK, Reap, Ended
<1>2. /\ Born' = Born /\ Live' = Live /\ Failing' = Failing
      /\ Held' = Held \ {p} /\ p \notin Live
  BY <1>1 DEF Born, Live, Held, Failing, Running, Failed
<1>3. \/ UNCHANGED <<Phase, Report>>
      \/ Promise!Leave /\ Report' = Report
  <2>1. CASE Closing
    <3>1. Closing' /\ pc' = "close"
      <4>1. next' = next + 1 /\ next \in Nat /\ pc' = "close"
        BY <2>1 DEF CallReturns, Note, Goto, Calls, Inv, TypeOK
      <4>2. next + 1 > 0
        BY <4>1
      <4> QED
        BY <4>1, <4>2, Zenon DEF Closing
    <3>2. Phase' = "closing" /\ Report' = Promise!Nothing
      BY <3>1 DEF Phase, Report, At, Promise!Nothing
    <3>3. Phase = "closing" /\ Report = Promise!Nothing
      BY <2>1, PhaseIs DEF Inv
    <3> QED
      BY <3>2, <3>3
  <2>2. CASE ~Closing /\ Raise
    <3>1. Phase = "test" /\ Report = Promise!Nothing
      BY <2>2, PhaseIs DEF Inv
    <3>2. Closing'
      BY <2>2, StartsClosing, Zenon DEF Closing, Raise
    <3>3. Phase' = "closing" /\ Report' = Promise!Nothing
      BY <2>2, <3>2 DEF Phase, Report, At, Promise!Nothing, Raise, Goto, Calls
    <3> QED
      BY <3>1, <3>3 DEF Promise!Leave
  <2>3. CASE ~Closing /\ Goto("body") /\ UNCHANGED ending
    BY <2>3, PhaseKept DEF Goto, Calls, At, ending
  <2> QED
    BY <2>1, <2>2, <2>3 DEF CallReturns
<1>4. CASE state[p] = "zombie"
  <2>1. p \in Held
    BY <1>4 DEF Held
  <2>2. Promise!Collect(p)
    BY <1>2, <1>3, <2>1 DEF Promise!Collect
  <2> QED
    BY <2>2 DEF Promise!Next
<1>5. CASE state[p] = "reaped"
  <2>1. Held' = Held
    BY <1>2, <1>5 DEF Held
  <2>2. CASE UNCHANGED <<Phase, Report>>
    BY <1>2, <2>1, <2>2, PromiseStutters DEF MappedVars
  <2>3. CASE Promise!Leave /\ Report' = Report
    <3>1. Promise!TestEnds
      BY <1>2, <2>1, <2>3 DEF Promise!TestEnds
    <3> QED
      BY <3>1 DEF Promise!Next
  <2> QED
    BY <1>3, <2>2, <2>3
<1> QED
  BY <1>1, <1>4, <1>5

\* The last step of close(): all is waited for, and the report is complete.
LEMMA PromiseOver ==
    ASSUME Inv, At("unload") \/ At("copy"), Goto("over"),
           UNCHANGED <<state, rc, next, failures>>,
           \/ outcome' = "close error"
           \/ outcome' \in {"none", "passed", "test error", "SubProcessError"} /\
              (outcome' = "SubProcessError") = (failures # {})
    PROVE  Promise!Over
<1>1. Closing /\ ~At("over") /\ next > Len(registry)
  BY DEF Inv, InCall, Noted, At
<1>2. Phase = "closing"
  BY <1>1, PhaseIs DEF Inv
<1>3. registry \in Seq(Procs) /\ next \in Nat
  BY DEF Inv, TypeOK
<1>4. ASSUME NEW p \in Procs
      PROVE  /\ state[p] \in {"unborn", "reaped"}
             /\ p \in failures <=> Failed(p)
  <2>1. p \in Registered => Dealt(p)
    BY <1>1, <1>3, AllDealt
  <2>2. p \in Registered <=> state[p] # "unborn"
    BY DEF Inv, Consistent
  <2>3. Failed(p) => state[p] # "unborn"
    BY DEF Inv, Consistent, Failed
  <2> QED
    BY <2>1, <2>2, <2>3 DEF Inv, Noted
<1>5. Held = {} /\ Failing = failures
  <2>1. failures \subseteq Procs
    BY DEF Inv, TypeOK
  <2> QED
    BY <1>4, <2>1 DEF Held, Failing
<1>6. At("over")'
  BY DEF Goto, Calls, At
<1>7. Phase' = "over"
  BY <1>6 DEF Phase
<1>8. Report' \in {[broken |-> FALSE, errors |-> Failing],
                   [broken |-> TRUE, errors |-> {}]}
  <2>1. CASE outcome' = "close error"
    BY <1>6, <2>1 DEF Report
  <2>2. CASE outcome' = "SubProcessError" /\ failures # {}
    BY <1>5, <1>6, <2>2 DEF Report
  <2>3. CASE outcome' \in {"none", "passed", "test error"} /\ failures = {}
    BY <1>5, <1>6, <2>3 DEF Report
  <2> QED
    BY <2>1, <2>2, <2>3
<1> QED
  BY <1>2, <1>5, <1>7, <1>8, SetsKept DEF Promise!Over

\* Every step of Runtime is a step of the promise, or none.
LEMMA PromiseStep ==
    ASSUME Inv, [Next]_vars
    PROVE  [Promise!Next]_(Promise!vars)
<1>1. ASSUME UNCHANGED <<state, rc, next, outcome, failures>>,
             At("over") = At("over")'
      PROVE  UNCHANGED Promise!vars
  BY <1>1, PhaseKept, SetsKept, PromiseStutters DEF MappedVars
<1>2. CASE Body
  <2>1. At("body") /\ ~Closing
    BY <1>2 DEF Body, AddProject, RemoveProject, spawn_subprocess,
       subprocess_signal, subprocess_kill, subprocess_terminate,
       subprocess_wait, load_test_module, LoadFails, BodyRaises, BodyEnds,
       Inv, InCall
  <2>2. ASSUME NEW p \in Projects, AddProject(p) \/ RemoveProject(p)
        PROVE  UNCHANGED Promise!vars
    BY <1>1, <2>2 DEF AddProject, RemoveProject, procs, driver, ending, At
  <2>3. ASSUME NEW p \in Procs, spawn_subprocess(p) PROVE Promise!Next
    BY <2>3, PromiseSpawn DEF Promise!Next
  <2>4. ASSUME NEW p \in Procs, subprocess_signal(p)
        PROVE  UNCHANGED Promise!vars
    BY <1>1, <2>4 DEF subprocess_signal, driver, ending, At
  <2>5. ASSUME NEW p \in Procs,
               subprocess_kill(p) \/
               \E c \in BOOLEAN : subprocess_terminate(p, c) \/ subprocess_wait(p, c)
        PROVE  UNCHANGED Promise!vars
    BY <1>1, <2>1, <2>5 DEF subprocess_kill, subprocess_terminate,
       subprocess_wait, Calls, procs, ending, At
  <2>6. CASE load_test_module
    BY <1>1, <2>6 DEF load_test_module, procs, driver, ending, At
  <2>7. CASE LoadFails \/ BodyRaises \/ BodyEnds
    <3>1. UNCHANGED <<state, rc>> /\ Goto("close") /\ next' = 1
      BY <2>7 DEF LoadFails, BodyRaises, BodyEnds, Raise, procs
    <3>2. Promise!TestEnds
      BY <2>1, <3>1, SetsKept, PromiseLeaves
    <3> QED
      BY <3>2 DEF Promise!Next
  <2> QED
    BY <1>2, <2>2, <2>3, <2>4, <2>5, <2>6, <2>7, Zenon DEF Body
<1>3. CASE Waiting
  <2>1. ASSUME NEW p \in Procs, WaitReturns(p) \/ KillReturns(p)
        PROVE  [Promise!Next]_(Promise!vars)
    BY <2>1, PromiseCollects DEF WaitReturns, KillReturns, At
  <2>2. ASSUME NEW p \in Procs, TermTimeout(p) PROVE UNCHANGED Promise!vars
    BY <1>1, <2>2 DEF TermTimeout, Calls, procs, ending, At
  <2>3. ASSUME NEW p \in Procs, KillGroup(p)
        PROVE  [Promise!Next]_(Promise!vars)
    <3>1. /\ UNCHANGED <<next, outcome, failures>>
          /\ At("over") = At("over")'
      BY <2>3 DEF KillGroup, Calls, ending, At
    <3>2. PICK q \in Procs : Killed(q)
      BY <2>3 DEF KillGroup
    <3>3. CASE Running(q)
      <4>1. Promise!End(q)
        BY <3>1, <3>2, <3>3, PhaseKept, PromiseEnd DEF Killed, Code
      <4> QED
        BY <4>1 DEF Promise!Next
    <3>4. CASE ~Running(q)
      BY <1>1, <3>1, <3>2, <3>4 DEF Killed
    <3> QED
      BY <3>3, <3>4
  <2>4. ASSUME NEW p \in Procs, KillRaises(p) PROVE Promise!Next
    <3>1. ~Closing
      BY <2>4 DEF KillRaises, Inv, InCall
    <3>2. UNCHANGED <<state, rc>> /\ Goto("close") /\ next' = 1
      BY <2>4 DEF KillRaises, Raise, procs
    <3>3. Promise!TestEnds
      BY <3>1, <3>2, SetsKept, PromiseLeaves
    <3> QED
      BY <3>3 DEF Promise!Next
  <2> QED
    BY <1>3, <2>1, <2>2, <2>3, <2>4, Zenon DEF Waiting
<1>4. CASE Close
  <2>1. ASSUME CloseNext \/ CloseLoopEnds \/ unload_test_module
        PROVE  UNCHANGED Promise!vars
    BY <1>1, <2>1 DEF CloseNext, CloseLoopEnds, unload_test_module, Goto, Calls,
       procs, ending, At
  <2>2. ASSUME UnloadRaises \/ CopyFails PROVE Promise!Next
    <3>1. Promise!Over
      BY <2>2, PromiseOver DEF UnloadRaises, CopyFails, procs
    <3> QED
      BY <3>1 DEF Promise!Next
  <2>3. ASSUME CloseReturns PROVE Promise!Next
    <3>1. outcome \in {"none", "test error"}
      BY <2>3 DEF CloseReturns, Inv, Ending, At
    <3>2. /\ outcome' \in {"none", "passed", "test error", "SubProcessError"}
          /\ (outcome' = "SubProcessError") = (failures # {})
      BY <2>3, <3>1 DEF CloseReturns
    <3>3. Promise!Over
      BY <2>3, <3>2, PromiseOver DEF CloseReturns, procs
    <3> QED
      BY <3>3 DEF Promise!Next
  <2> QED
    BY <1>4, <2>1, <2>2, <2>3, Zenon DEF Close
<1>5. ASSUME NEW p \in Procs, Exit(p) PROVE Promise!Next
  <2>1. /\ UNCHANGED <<next, outcome, failures>>
        /\ At("over") = At("over")'
    BY <1>5 DEF Exit, driver, ending, At
  <2>2. PICK code \in {"zero", "error", "SIGTERM"} : rc' = [rc EXCEPT ![p] = code]
    BY <1>5 DEF Exit
  <2>3. Promise!End(p)
    BY <1>5, <2>1, <2>2, PhaseKept, PromiseEnd DEF Exit, Code
  <2> QED
    BY <2>3 DEF Promise!Next
<1>6. CASE UNCHANGED vars
  BY <1>1, <1>6 DEF vars, procs, driver, ending, At
<1> QED
  BY <1>2, <1>3, <1>4, <1>5, <1>6, Zenon DEF Next

(* Runtime implements its promise.                                         *)
THEOREM RuntimeKeepsPromise == Spec => KeepsPromise
<1>1. Inv /\ [Next]_vars => [Promise!Next]_(Promise!vars)
  BY PromiseStep
<1> QED
  BY <1>1, PromiseInit, Invariance, PTL DEF Spec, KeepsPromise, Promise!Spec
=============================================================================
