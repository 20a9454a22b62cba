---------------------- MODULE RuntimeInterruptsProofs ----------------------
(***************************************************************************)
(* Proofs about RuntimeInterrupts, for any number of subprocesses,         *)
(* projects and interruptions.  What RuntimeProofs shows of the calls and  *)
(* of the loop of close(), `Rest', holds as long as close() itself is not  *)
(* left half way; what it shows of the files does not.                     *)
(***************************************************************************)
EXTENDS RuntimeInterrupts, RuntimeProofs

(* The registry holds what was spawned and not lost on the way to it; a    *)
(* file is open only for what was spawned.                                 *)
Registry ==
    \A p \in Procs :
       /\ p \in Registered <=> state[p] # "unborn" /\ p \notin lost
       /\ p \in lost => state[p] # "unborn"
       /\ rc[p] = "none" <=> state[p] \in {"unborn", "running"}
       /\ p \in files => p \in Registered \/ p \in lost

(* What close() has dealt with has no file open, although an interrupted   *)
(* wait may have reaped a process and left its files.                      *)
Closed == \A p \in Procs : Dealt(p) => p \notin files

(* A process without files is in the registry, where close() breaks off    *)
(* once it has waited for it.                                              *)
Filed ==
    /\ unfiled \subseteq Registered
    /\ unfiled # {} => Closing
    /\ \A p \in unfiled : ~Dealt(p)

(* close() has been left half way, at the entry `next': by the user, or    *)
(* because that entry has no files.                                        *)
BrokenOff == At("over") /\ next <= Len(registry)
Whole     == ~cut /\ ~BrokenOff

LeftAt(p) ==
    /\ Closing
    /\ p = registry[next]
    /\ p \in unfiled /\ state[p] = "reaped"
    /\ outcome = "close error"

Left ==
    /\ Registry
    /\ Closed
    /\ \A p \in Procs : Dealt(p) => state[p] = "reaped"
    /\ \E p \in Procs : LeftAt(p)

IInv ==
    /\ TypeOK
    /\ cut \in BOOLEAN
    /\ lost \in SUBSET Procs
    /\ unfiled \in SUBSET Procs
    /\ ~Whole => At("over")
    /\ Whole => Registry /\ Closed /\ Rest /\ Filed
    /\ ~cut /\ BrokenOff => Left

(* A step of the driver or of a process that is not an interruption is one *)
(* of Runtime, or the KeyError.                                            *)
Step == Body \/ InterruptedWaiting \/ Close \/ \E p \in Procs : Exit(p)

LEMMA StepIs == Step => Next \/ \E p \in Procs : NoFiles(p)
BY Zenon DEF Step, Next, Waiting, InterruptedWaiting

-----------------------------------------------------------------------------
(* The steps of Runtime.                                                   *)

LEMMA RegistryUnchanged ==
    Registry /\ UNCHANGED <<registry, state, rc, files, lost>> => Registry'
BY DEF Registry, Registered

LEMMA RegistryReap ==
    ASSUME TypeOK, Registry, NEW p \in Procs, Reap(p),
           UNCHANGED <<registry, rc, lost>>
    PROVE  Registry'
<1>1. Registered' = Registered
  BY DEF Registered
<1>2. /\ \A q \in Procs : state'[q] = IF q = p THEN "reaped" ELSE state[q]
      /\ state[p] \in {"zombie", "reaped"} /\ files' \subseteq files
  BY DEF TypeOK, Reap, Ended
<1> QED
  BY <1>1, <1>2 DEF Registry

LEMMA RegistrySpawn ==
    ASSUME TypeOK, Registry, NEW p \in Procs, spawn_subprocess(p), UNCHANGED lost
    PROVE  Registry'
<1>1. Registered' = Registered \cup {p}
  <2>1. registry \in Seq(Procs) /\ registry' = Append(registry, p)
    BY DEF TypeOK, spawn_subprocess
  <2>2. {Append(registry, p)[i] : i \in DOMAIN Append(registry, p)}
           = {registry[i] : i \in DOMAIN registry} \cup {p}
    BY <2>1, AppendRange
  <2> QED
    BY <2>1, <2>2, Zenon DEF Registered
<1>2. /\ state' = [state EXCEPT ![p] = "running"] /\ rc' = rc
      /\ files' = files \cup {p} /\ state[p] = "unborn" /\ lost' = lost
  BY DEF spawn_subprocess
<1> QED
  BY <1>1, <1>2 DEF TypeOK, Registry

\* A process ends, whatever of.
LEMMA RegistryEnd ==
    ASSUME TypeOK, Registry, NEW p \in Procs, NEW code, code # "none",
           state[p] = "running", state' = [state EXCEPT ![p] = "zombie"],
           rc' = [rc EXCEPT ![p] = code], UNCHANGED <<registry, files, lost>>
    PROVE  Registry'
BY DEF TypeOK, Registry, Registered

\* A step that spawns nothing opens no file; only a wait closes one.
LEMMA QuietStep ==
    ASSUME Next
    PROVE  \/ UNCHANGED <<registry, state, rc, files>>
           \/ \E p \in Procs : \/ spawn_subprocess(p)
                               \/ WaitReturns(p) \/ KillReturns(p)
                               \/ KillGroup(p) \/ Exit(p)
<1>1. CASE Body
  <2>1. ASSUME NEW p \in Procs,
               subprocess_signal(p) \/ subprocess_kill(p) \/
               \E c \in BOOLEAN : subprocess_terminate(p, c) \/ subprocess_wait(p, c)
        PROVE  UNCHANGED <<registry, state, rc, files>>
    BY <2>1 DEF subprocess_signal, subprocess_kill, subprocess_terminate,
       subprocess_wait, procs
  <2>2. ASSUME NEW p \in Projects, AddProject(p) \/ RemoveProject(p)
        PROVE  UNCHANGED <<registry, state, rc, files>>
    BY <2>2 DEF AddProject, RemoveProject, procs
  <2>3. ASSUME load_test_module \/ LoadFails \/ BodyRaises \/ BodyEnds
        PROVE  UNCHANGED <<registry, state, rc, files>>
    BY <2>3 DEF load_test_module, LoadFails, BodyRaises, BodyEnds, procs
  <2> QED
    BY <1>1, <2>1, <2>2, <2>3, Zenon DEF Body
<1>2. CASE Close
  BY <1>2 DEF Close, CloseNext, CloseLoopEnds, unload_test_module,
     UnloadRaises, CopyFails, CloseReturns, procs
<1>3. CASE Waiting
  <2>1. ASSUME NEW p \in Procs, TermTimeout(p) \/ KillRaises(p)
        PROVE  UNCHANGED <<registry, state, rc, files>>
    BY <2>1 DEF TermTimeout, KillRaises, procs
  <2> QED
    BY <1>3, <2>1, Zenon DEF Waiting
<1> QED
  BY <1>1, <1>2, <1>3, Zenon DEF Next

LEMMA RegistryStep ==
    ASSUME TypeOK, Registry, Next, UNCHANGED lost
    PROVE  Registry'
<1>1. CASE UNCHANGED <<registry, state, rc, files>>
  BY <1>1, RegistryUnchanged
<1>2. ASSUME NEW p \in Procs, spawn_subprocess(p) PROVE Registry'
  BY <1>2, RegistrySpawn
<1>3. ASSUME NEW p \in Procs, WaitReturns(p) \/ KillReturns(p) PROVE Registry'
  BY <1>3, RegistryReap DEF WaitReturns, KillReturns
<1>4. ASSUME NEW p \in Procs, KillGroup(p) PROVE Registry'
  <2>1. PICK q \in Procs : Killed(q)
    BY <1>4 DEF KillGroup
  <2>2. CASE Running(q)
    BY <1>4, <2>1, <2>2, RegistryEnd DEF KillGroup, Killed, Running
  <2>3. CASE ~Running(q)
    BY <1>4, <2>1, <2>3, RegistryUnchanged DEF KillGroup, Killed
  <2> QED
    BY <2>2, <2>3
<1>5. ASSUME NEW p \in Procs, Exit(p) PROVE Registry'
  <2>1. PICK code \in {"zero", "error", "SIGTERM"} : rc' = [rc EXCEPT ![p] = code]
    BY <1>5 DEF Exit
  <2> QED
    BY <1>5, <2>1, RegistryEnd DEF Exit, Running
<1> QED
  BY <1>1, <1>2, <1>3, <1>4, <1>5, QuietStep

\* What close() has dealt with stays closed: files are opened in the body,
\* where nothing has been dealt with.
LEMMA ClosedBefore ==
    ASSUME TypeOK, next = 0 \/ next = 1
    PROVE  Closed
<1>1. registry \in Seq(Procs)
  BY DEF TypeOK
<1> QED
  BY <1>1, NothingBefore DEF Closed, Dealt

LEMMA ClosedStep ==
    ASSUME TypeOK, TypeOK', Rest, Closed, Next
    PROVE  Closed'
<1>1. CASE next' = 0 \/ next' = 1
  <2>1. registry' \in Seq(Procs)
    BY DEF TypeOK
  <2> QED
    BY <1>1, <2>1, NothingBefore DEF Closed, Dealt
<1>2. CASE ~(next' = 0 \/ next' = 1)
  <2>1. ASSUME ~Closing PROVE FALSE
    <3>1. next = 0
      BY <2>1, NotClosing
    <3>2. CASE Body
      BY <1>2, <3>1, <3>2 DEF Body, AddProject, RemoveProject, spawn_subprocess,
         subprocess_signal, subprocess_kill, subprocess_terminate, subprocess_wait,
         load_test_module, LoadFails, BodyRaises, BodyEnds, Raise, ending
    <3>3. CASE Waiting
      BY <1>2, <2>1, <3>1, <3>3 DEF Waiting, WaitReturns, TermTimeout, KillGroup,
         KillRaises, KillReturns, CallReturns, Raise, ending
    <3>4. CASE Close
      BY <2>1, <3>4 DEF Close, CloseNext, CloseLoopEnds, unload_test_module,
         UnloadRaises, CopyFails, CloseReturns, Rest, InCall, At
    <3>5. ASSUME NEW p \in Procs, Exit(p) PROVE FALSE
      BY <1>2, <3>1, <3>5 DEF Exit, ending
    <3> QED
      BY <3>2, <3>3, <3>4, <3>5 DEF Next
  <2>2. Closing /\ ~At("body")
    BY <2>1 DEF Rest, InCall
  <2>3. ASSUME NEW p \in Procs, WaitReturns(p) \/ KillReturns(p) PROVE Closed'
    <3>1. /\ Note(p) /\ Reap(p) /\ UNCHANGED registry
      BY <2>2, <2>3 DEF WaitReturns, KillReturns, CallReturns
    <3>2. next <= Len(registry) /\ p = registry[next]
      BY <2>2, <2>3 DEF Rest, InCall, At, WaitReturns, KillReturns
    <3>3. next \in Nat /\ next > 0 /\ registry \in Seq(Procs)
      BY <2>2 DEF TypeOK, Closing
    <3>4. \A q : Dealt(q)' <=> Dealt(q) \/ q = p
      BY <3>1, <3>2, <3>3, DealtNext DEF Note
    <3> QED
      BY <3>1, <3>4 DEF Closed, Reap
  <2>4. ASSUME UNCHANGED <<registry, next, files>> PROVE Closed'
    BY <2>4 DEF Closed, Dealt
  <2>5. CASE Close
    BY <2>4, <2>5 DEF Close, CloseNext, CloseLoopEnds, unload_test_module,
       UnloadRaises, CopyFails, CloseReturns, procs, ending
  <2>6. CASE Body
    BY <2>2, <2>6 DEF Body, AddProject, RemoveProject, spawn_subprocess,
       subprocess_signal, subprocess_kill, subprocess_terminate, subprocess_wait,
       load_test_module, LoadFails, BodyRaises, BodyEnds
  <2>7. ASSUME NEW p \in Procs, TermTimeout(p) \/ KillGroup(p) \/ Exit(p)
        PROVE  Closed'
    BY <2>4, <2>7 DEF TermTimeout, KillGroup, Exit, procs, ending
  <2>8. ASSUME NEW p \in Procs PROVE ~KillRaises(p)
    BY <2>2 DEF KillRaises, Rest, InCall
  <2> QED
    BY <2>3, <2>5, <2>6, <2>7, <2>8 DEF Next, Waiting
<1> QED
  BY <1>1, <1>2

LEMMA TypeStep == TypeOK /\ InCall /\ Next => TypeOK'
<1>1. ASSUME TypeOK, NEW p \in Procs, Exit(p) PROVE TypeOK'
  BY <1>1 DEF Exit, TypeOK, Code, mods, driver, ending
<1> QED
  BY <1>1, TypeBody, TypeWaiting, TypeClose DEF Next

LEMMA RestStep == TypeOK /\ Rest /\ Next => Rest'
BY RestBody, RestWaiting, RestClose, RestExit DEF Next

\* After close() the subprocesses that are left may still end.
LEMMA OverStep ==
    ASSUME TypeOK, At("over"), Next
    PROVE  TypeOK' /\ At("over")' /\ \E p \in Procs : Exit(p)
<1>1. PICK p \in Procs : Exit(p)
  BY DEF Next, Body, AddProject, RemoveProject, spawn_subprocess,
     subprocess_signal, subprocess_kill, subprocess_terminate, subprocess_wait,
     load_test_module, LoadFails, BodyRaises, BodyEnds, Waiting, WaitReturns,
     TermTimeout, KillGroup, KillRaises, KillReturns, Close, CloseNext,
     CloseLoopEnds, unload_test_module, UnloadRaises, CopyFails, CloseReturns, At
<1> QED
  BY <1>1 DEF Exit, TypeOK, Code, mods, driver, ending, At

\* What has no files is never dealt with: the wait for it does not return.
LEMMA FiledStep ==
    ASSUME TypeOK, Rest, Filed, Step, \A p \in Procs : ~NoFiles(p), UNCHANGED unfiled
    PROVE  Filed'
<1>1. CASE unfiled = {}
  BY <1>1 DEF Filed
<1>2. CASE unfiled # {}
  <2>1. Closing /\ ~At("body")
    BY <1>2 DEF Filed, Rest, InCall
  <2>2. ASSUME UNCHANGED <<registry, next>> PROVE Filed'
    BY <2>2 DEF Filed, Registered, Closing, Dealt
  <2>3. ASSUME NEW p \in Procs, p \notin unfiled, WaitReturns(p) \/ KillReturns(p)
        PROVE  Filed'
    <3>1. /\ Note(p) /\ UNCHANGED registry
      BY <2>1, <2>3 DEF WaitReturns, KillReturns, CallReturns
    <3>2. next <= Len(registry) /\ p = registry[next]
      BY <2>1, <2>3 DEF Rest, InCall, At, WaitReturns, KillReturns
    <3>3. next \in Nat /\ next > 0 /\ registry \in Seq(Procs)
      BY <2>1 DEF TypeOK, Closing
    <3>4. \A q : Dealt(q)' <=> Dealt(q) \/ q = p
      BY <3>1, <3>2, <3>3, DealtNext DEF Note
    <3>5. Closing'
      <4>1. next + 1 > 0
        BY <3>3
      <4> QED
        BY <3>1, <4>1, Zenon DEF Note, Closing
    <3>6. Registered' = Registered
      BY <3>1 DEF Registered
    <3> QED
      BY <2>3, <3>4, <3>5, <3>6 DEF Filed
  <2>4. CASE Close
    BY <2>2, <2>4 DEF Close, CloseNext, CloseLoopEnds, unload_test_module,
       UnloadRaises, CopyFails, CloseReturns, procs, ending
  <2>5. ~Body
    BY <2>1 DEF Body, AddProject, RemoveProject, spawn_subprocess,
       subprocess_signal, subprocess_kill, subprocess_terminate, subprocess_wait,
       load_test_module, LoadFails, BodyRaises, BodyEnds
  <2>6. ASSUME NEW p \in Procs, TermTimeout(p) \/ KillGroup(p) \/ Exit(p)
        PROVE  Filed'
    BY <2>2, <2>6 DEF TermTimeout, KillGroup, Exit, procs, ending
  <2>7. ASSUME NEW p \in Procs PROVE ~KillRaises(p)
    BY <2>1 DEF KillRaises, Rest, InCall
  <2> QED
    BY <2>3, <2>4, <2>5, <2>6, <2>7 DEF Step, InterruptedWaiting
<1> QED
  BY <1>1, <1>2

\* The KeyError leaves close() at the entry that has no files.
LEMMA NoFilesStep ==
    ASSUME IInv, Whole, NEW p \in Procs, NoFiles(p), UNCHANGED <<cut, lost, unfiled>>
    PROVE  IInv'
<1>1. TypeOK /\ Registry /\ Closed /\ Rest /\ Filed
  BY DEF IInv
<1>2. Closing /\ next <= Len(registry) /\ p = registry[next]
  <2>1. Closing
    BY <1>1 DEF Filed, NoFiles
  <2> QED
    BY <1>1, <2>1 DEF NoFiles, Rest, InCall, At
<1>3. /\ UNCHANGED <<registry, rc, files, next, failures>>
      /\ pc' = "over" /\ outcome' = "close error"
  BY DEF NoFiles, Goto, Calls
<1>4. \A q \in Procs : state'[q] = IF q = p THEN "reaped" ELSE state[q]
  BY <1>1 DEF NoFiles, TypeOK
<1>5. TypeOK'
  BY <1>1 DEF NoFiles, TypeOK, Statement, Goto, Calls, mods
<1>6. Registry'
  <2>1. Registered' = Registered
    BY <1>3 DEF Registered
  <2>2. state[p] \in {"zombie", "reaped"}
    BY DEF NoFiles, Ended
  <2> QED
    BY <1>1, <1>3, <1>4, <2>1, <2>2 DEF Registry
<1>7. /\ \A q : Dealt(q)' <=> Dealt(q)
      /\ Closing'
  BY <1>2, <1>3 DEF Dealt, Closing
<1>8. Closed'
  BY <1>1, <1>3, <1>7 DEF Closed
<1>9. \A q \in Procs : Dealt(q)' => state'[q] = "reaped"
  BY <1>1, <1>4, <1>7 DEF Rest, Noted
<1>10. LeftAt(p)'
  BY <1>2, <1>3, <1>4, <1>7 DEF LeftAt, NoFiles
<1>11. Left'
  BY <1>6, <1>8, <1>9, <1>10 DEF Left
<1>12. BrokenOff' /\ At("over")'
  BY <1>2, <1>3 DEF BrokenOff, At
<1> QED
  BY <1>5, <1>11, <1>12 DEF IInv, Whole

LEMMA LeftStep ==
    ASSUME TypeOK, Left, NEW p \in Procs, Exit(p), UNCHANGED <<lost, unfiled>>
    PROVE  Left'
<1>1. /\ state[p] = "running" /\ state' = [state EXCEPT ![p] = "zombie"]
      /\ UNCHANGED <<registry, files, next, outcome>>
  BY DEF Exit, Running, ending
<1>2. \A q \in Procs : state[q] = "reaped" => state'[q] = "reaped"
  BY <1>1 DEF TypeOK
<1>3. Registry'
  <2>1. Next
    BY DEF Next
  <2> QED
    BY <2>1, RegistryStep DEF Left
<1>4. /\ \A q : Dealt(q)' <=> Dealt(q)
      /\ Closing' = Closing
  BY <1>1 DEF Dealt, Closing
<1>5. Closed'
  BY <1>1, <1>4 DEF Left, Closed
<1>6. \A q \in Procs : Dealt(q)' => state'[q] = "reaped"
  BY <1>2, <1>4 DEF Left
<1>7. PICK q \in Procs : LeftAt(q)
  BY DEF Left
<1>8. LeftAt(q)'
  BY <1>1, <1>2, <1>4, <1>7 DEF LeftAt
<1> QED
  BY <1>3, <1>5, <1>6, <1>8 DEF Left

-----------------------------------------------------------------------------
(* The interruptions.                                                      *)

\* An entry more, at any place of the registry.
LEMMA FilingAdds ==
    ASSUME TypeOK, NEW p \in Procs, InterruptFiling(p)
    PROVE  /\ registry' \in Seq(Procs)
           /\ Registered' = Registered \cup {p}
<1> DEFINE n == Len(registry)
<1>1. PICK place \in 1..Len(registry) + 1 :
          registry' = [i \in 1..Len(registry) + 1 |->
                          CASE i < place -> registry[i]
                            [] i = place -> p
                            [] i > place -> registry[i - 1]]
  BY DEF InterruptFiling
<1>2. registry \in Seq(Procs)
  BY DEF TypeOK
<1>3. /\ DOMAIN registry = 1..n
      /\ \A i \in 1..n : registry[i] \in Procs
      /\ \A i \in 1..n + 1 : \/ i < place /\ i \in 1..n
                             \/ i = place
                             \/ i > place /\ i - 1 \in 1..n
  BY <1>2
<1>4. registry' \in [1..n + 1 -> Procs] /\ registry'[place] = p
  BY <1>1, <1>3
<1>5. /\ DOMAIN registry' = 1..n + 1
      /\ \A i \in 1..n + 1 : /\ i < place => registry'[i] = registry[i]
                             /\ i > place => registry'[i] = registry[i - 1]
  BY <1>1, <1>3
<1>6. registry' \in Seq(Procs)
  BY <1>2, <1>4
<1> HIDE DEF n
<1>7. place \in 1..n + 1 /\ n \in Nat
  <2>1. Len(registry) \in Nat
    BY <1>2
  <2> QED
    BY <1>1, <2>1 DEF n
<1>8. ASSUME NEW i \in 1..n + 1 PROVE registry'[i] \in Registered \cup {p}
  <2>1. CASE i < place /\ i \in 1..n
    <3>1. registry'[i] = registry[i] /\ i \in DOMAIN registry
      BY <1>3, <1>5, <2>1
    <3> QED
      BY <3>1 DEF Registered
  <2>2. CASE i = place
    BY <1>4, <2>2
  <2>3. CASE i > place /\ i - 1 \in 1..n
    <3>1. registry'[i] = registry[i - 1] /\ i - 1 \in DOMAIN registry
      BY <1>3, <1>5, <2>3
    <3> QED
      BY <3>1 DEF Registered
  <2> QED
    BY <1>3, <2>1, <2>2, <2>3
<1>9. ASSUME NEW j \in 1..n PROVE \E i \in 1..n + 1 : registry'[i] = registry[j]
  <2>1. CASE j < place
    <3>1. j \in 1..n + 1
      BY <1>7
    <3> QED
      BY <1>5, <2>1, <3>1
  <2>2. CASE ~(j < place)
    <3>1. j + 1 \in 1..n + 1 /\ j + 1 > place /\ (j + 1) - 1 = j
      BY <1>7, <2>2
    <3>2. registry'[j + 1] = registry[(j + 1) - 1]
      BY <1>5, <3>1
    <3>3. registry'[j + 1] = registry[j]
      BY <3>1, <3>2
    <3> QED
      BY <3>1, <3>3
  <2> QED
    BY <2>1, <2>2
<1>10. Registered' \subseteq Registered \cup {p}
  BY <1>5, <1>8 DEF Registered
<1>11. Registered \subseteq Registered'
  BY <1>3, <1>5, <1>9 DEF Registered
<1>12. p \in Registered'
  BY <1>4, <1>5, <1>7 DEF Registered
<1> QED
  BY <1>6, <1>10, <1>11, <1>12

LEMMA InterruptsAre ==
    ASSUME IInv, Interrupts
    PROVE  /\ ~At("over") /\ ~cut /\ Whole /\ Interrupted
           /\ UNCHANGED <<projects, rc, signalled>>
           /\ Closing => UNCHANGED registry
<1>1. /\ Interrupted /\ UNCHANGED <<projects, rc, signalled>> /\ ~At("over")
      /\ At("body") \/ UNCHANGED registry
  BY DEF Interrupts, Interrupt, InterruptReaping, InterruptSpawn, InterruptFiling,
     InterruptedSpawn, InterruptLoad, procs, At
<1>2. Whole /\ ~cut
  BY <1>1 DEF IInv, Whole
<1>3. At("body") => ~Closing
  BY <1>2 DEF IInv, Rest, InCall
<1> QED
  BY <1>1, <1>2, <1>3

LEMMA InterruptsTyped ==
    ASSUME IInv, Interrupts
    PROVE  /\ TypeOK' /\ cut' \in BOOLEAN
           /\ lost' \in SUBSET Procs /\ unfiled' \in SUBSET Procs
<1> USE DEF TypeOK, Statement
<1>1. TypeOK /\ cut \in BOOLEAN /\ lost \in SUBSET Procs /\ unfiled \in SUBSET Procs
  BY DEF IInv
<1>2. /\ UNCHANGED <<projects, rc, signalled>>
      /\ Interrupted
  BY InterruptsAre
<1> DEFINE Fine ==
        /\ registry' \in Seq(Procs)
        /\ state' \in [Procs -> {"unborn", "running", "zombie", "reaped"}]
        /\ files' \in SUBSET Procs
        /\ lost' \in SUBSET Procs /\ unfiled' \in SUBSET Procs
        /\ kernel' \in {"none", "partial", "loaded"} /\ flag' \in BOOLEAN
<1>3. Fine
  <2>1. CASE Interrupt
    BY <1>1, <2>1 DEF Interrupt, procs, mods
  <2>2. CASE InterruptLoad
    BY <1>1, <2>2 DEF InterruptLoad, procs
  <2>3. ASSUME NEW p \in Procs, InterruptReaping(p) PROVE Fine
    BY <1>1, <2>3 DEF InterruptReaping, mods
  <2>4. ASSUME NEW p \in Procs, InterruptSpawn(p) PROVE Fine
    BY <1>1, <2>4 DEF InterruptSpawn, InterruptedSpawn, mods
  <2>5. ASSUME NEW p \in Procs, InterruptFiling(p) PROVE Fine
    <3>1. registry' \in Seq(Procs)
      BY <1>1, <2>5, FilingAdds
    <3> QED
      BY <1>1, <2>5, <3>1 DEF InterruptFiling, InterruptedSpawn, mods
  <2> QED
    BY <2>1, <2>2, <2>3, <2>4, <2>5 DEF Interrupts
<1>4. /\ pc' \in Statement /\ target' \in Procs \cup {Nobody} /\ check' \in BOOLEAN
      /\ failures' = failures /\ (next' = next \/ next' = 1)
      /\ outcome' \in {"test error", "close error"}
      /\ cut' \in BOOLEAN
  BY <1>1, <1>2 DEF Interrupted, Raise, Goto, Calls
<1>5. next' \in Nat
  <2>1. 1 \in Nat /\ next \in Nat
    BY <1>1
  <2> QED
    BY <1>4, <2>1
<1> QED
  BY <1>1, <1>2, <1>3, <1>4, <1>5

\* In the body, or in a call of it: like any other exception.
LEMMA InterruptedBody ==
    ASSUME IInv, Interrupts, ~Closing
    PROVE  Whole' /\ Registry' /\ Closed' /\ Rest' /\ Filed'
<1>1. /\ Raise /\ ~cut' /\ UNCHANGED rc /\ Whole
  <2>1. ~cut /\ Interrupted /\ UNCHANGED rc /\ Whole
    BY InterruptsAre
  <2>2. Raise /\ cut' = cut
    BY <2>1 DEF Interrupted
  <2>3. ~cut'
    BY <2>1, <2>2, Zenon
  <2> QED
    BY <2>1, <2>2, <2>3
<1>2. TypeOK /\ TypeOK' /\ Registry /\ Rest /\ Filed
  BY <1>1, InterruptsTyped DEF IInv
<1>3. registry' \in Seq(Procs) /\ next' = 1 /\ pc' = "close"
  BY <1>1, <1>2 DEF TypeOK, Raise, Goto, Calls
<1>4. Rest'
  BY <1>1, <1>2, <1>3, RestLeave DEF Raise
<1>5. \A p : ~Dealt(p)'
  BY <1>3, NothingBefore DEF Dealt
<1>6. Whole'
  BY <1>1, <1>3 DEF Whole, BrokenOff, At
<1>7. unfiled = {}
  BY <1>2 DEF Filed
<1>8. Closing'
  BY <1>3, StartsClosing, Zenon DEF Closing
<1>9. Registry' /\ unfiled' \subseteq Registered'
  <2>1. CASE Interrupt
    BY <1>2, <1>7, <2>1, RegistryUnchanged DEF Interrupt, procs
  <2>2. CASE InterruptLoad
    BY <1>2, <1>7, <2>2, RegistryUnchanged DEF InterruptLoad, procs
  <2>3. ASSUME NEW p \in Procs, InterruptReaping(p)
        PROVE  Registry' /\ unfiled' \subseteq Registered'
    <3>1. Registered' = Registered /\ UNCHANGED <<rc, files, lost, unfiled>>
      BY <2>3 DEF InterruptReaping, Registered
    <3>2. /\ \A q \in Procs : state'[q] = IF q = p THEN "reaped" ELSE state[q]
          /\ state[p] \in {"zombie", "reaped"}
      BY <1>2, <2>3 DEF InterruptReaping, Ended, TypeOK
    <3> QED
      BY <1>2, <1>7, <3>1, <3>2 DEF Registry
  <2>4. ASSUME NEW p \in Procs, InterruptedSpawn(p)
        PROVE  /\ \A q \in Procs : state'[q] = IF q = p THEN "running" ELSE state[q]
               /\ state[p] = "unborn" /\ files' \subseteq files \cup {p} /\ rc' = rc
    BY <1>2, <2>4 DEF InterruptedSpawn, TypeOK
  <2>5. ASSUME NEW p \in Procs, InterruptSpawn(p)
        PROVE  Registry' /\ unfiled' \subseteq Registered'
    <3>1. /\ Registered' = Registered /\ unfiled' = unfiled
          /\ lost' = lost \cup {p} /\ InterruptedSpawn(p)
      BY <2>5 DEF InterruptSpawn, Registered
    <3> QED
      BY <1>2, <1>7, <2>4, <3>1 DEF Registry
  <2>6. ASSUME NEW p \in Procs, InterruptFiling(p)
        PROVE  Registry' /\ unfiled' \subseteq Registered'
    <3>1. Registered' = Registered \cup {p}
      BY <1>2, <2>6, FilingAdds
    <3>2. unfiled' = unfiled \cup {p} /\ lost' = lost /\ InterruptedSpawn(p)
      BY <2>6 DEF InterruptFiling
    <3> QED
      BY <1>2, <1>7, <2>4, <3>1, <3>2 DEF Registry
  <2> QED
    BY <2>1, <2>2, <2>3, <2>5, <2>6 DEF Interrupts
<1> QED
  BY <1>4, <1>5, <1>6, <1>8, <1>9 DEF Closed, Filed

LEMMA InterruptsStep == IInv /\ Interrupts => IInv'
<1> SUFFICES ASSUME IInv, Interrupts PROVE IInv'
  OBVIOUS
<1>1. CASE ~Closing
  BY <1>1, InterruptsTyped, InterruptedBody DEF IInv, Whole
<1>2. CASE Closing
  <2>1. cut' /\ At("over")'
    BY <1>2, InterruptsAre DEF Interrupted, Goto, Calls, At
  <2> QED
    BY <2>1, InterruptsTyped DEF IInv, Whole
<1> QED
  BY <1>1, <1>2

-----------------------------------------------------------------------------
(* The theorems.                                                           *)

LEMMA IInvInit == IInit => IInv
<1> SUFFICES ASSUME IInit PROVE IInv
  OBVIOUS
<1>1. TypeOK /\ Rest
  BY TypeInit, RestInit DEF IInit, Rest
<1>2. Registry
  <2>1. Registered = {}
    BY DEF IInit, Init, Registered
  <2> QED
    BY <2>1 DEF IInit, Init, Registry
<1>3. Closed
  BY <1>1, ClosedBefore DEF IInit, Init
<1>4. Filed /\ ~BrokenOff
  BY DEF IInit, Init, Filed, BrokenOff, At
<1> QED
  BY <1>1, <1>2, <1>3, <1>4 DEF IInit, IInv, Whole

\* A step that leaves all of it alone.
LEMMA IInvUnchanged == IInv /\ UNCHANGED ivars => IInv'
<1> SUFFICES ASSUME IInv, UNCHANGED ivars PROVE IInv'
  OBVIOUS
<1>1. /\ UNCHANGED <<registry, state, rc, files, lost, unfiled, cut>>
      /\ UNCHANGED <<pc, target, ending, next, failures, outcome>>
      /\ UNCHANGED <<projects, signalled, mods, flag, kernel, check>>
  BY DEF ivars, vars, procs, mods, driver, ending
<1>2. TypeOK'
  BY <1>1 DEF IInv, TypeOK
<1>3. /\ Registry => Registry'
      /\ Rest => Rest'
  BY <1>1, RegistryUnchanged, RestUnchanged
<1>4. /\ Closed => Closed'
      /\ Filed => Filed'
      /\ Whole' = Whole /\ BrokenOff' = BrokenOff /\ At("over")' = At("over")
  BY <1>1 DEF Closed, Filed, Dealt, Registered, Closing, Whole, BrokenOff, At
<1>5. Left => Left'
  <2> SUFFICES ASSUME Left PROVE Left'
    OBVIOUS
  <2>1. \E p \in Procs : LeftAt(p)'
    BY <1>1 DEF Left, LeftAt, Closing
  <2>2. \A p \in Procs : Dealt(p)' => state'[p] = "reaped"
    BY <1>1 DEF Left, Dealt
  <2> QED
    BY <1>3, <1>4, <2>1, <2>2 DEF Left
<1> QED
  BY <1>1, <1>2, <1>3, <1>4, <1>5 DEF IInv

\* Once close() has been left half way only processes move.
LEMMA AfterStep ==
    ASSUME IInv, ~Whole, Step, UNCHANGED <<cut, lost, unfiled>>
    PROVE  /\ IInv' /\ ~Whole'
           /\ At("over") /\ \E p \in Procs : Exit(p)
<1>1. At("over") /\ TypeOK
  BY DEF IInv
<1>2. Next
  BY <1>1, StepIs DEF NoFiles, At
<1>3. PICK p \in Procs : Exit(p)
  BY <1>1, <1>2, OverStep
<1>4. TypeOK' /\ At("over")'
  BY <1>1, <1>2, OverStep
<1>5. UNCHANGED <<registry, next>>
  BY <1>3 DEF Exit, ending
<1>6. Whole' = Whole /\ BrokenOff' = BrokenOff
  BY <1>1, <1>4, <1>5 DEF Whole, BrokenOff
<1>7. ~cut /\ BrokenOff => Left'
  BY <1>1, <1>3, LeftStep DEF IInv
<1> QED
  BY <1>1, <1>3, <1>4, <1>6, <1>7 DEF IInv

\* Until then the driver does what Runtime says.
LEMMA WholeStep ==
    ASSUME IInv, Whole, Step, \A p \in Procs : ~NoFiles(p),
           UNCHANGED <<cut, lost, unfiled>>
    PROVE  IInv'
<1>1. TypeOK /\ Registry /\ Closed /\ Rest /\ Filed /\ Next
  BY StepIs DEF IInv
<1>2. TypeOK'
  BY <1>1, TypeStep DEF Rest
<1>3. Registry' /\ Closed' /\ Rest'
  BY <1>1, <1>2, RegistryStep, ClosedStep, RestStep
<1>4. Filed'
  BY <1>1, FiledStep
<1>5. ~BrokenOff'
  <2>1. At("over")' => (next > Len(registry))'
    BY <1>3 DEF Rest, Noted
  <2>2. next' \in Nat /\ Len(registry') \in Nat
    BY <1>2, LenNat DEF TypeOK
  <2> QED
    BY <2>1, <2>2 DEF BrokenOff
<1>6. Whole'
  BY <1>5 DEF Whole
<1> QED
  BY <1>2, <1>3, <1>4, <1>5, <1>6 DEF IInv

LEMMA IInvStep == IInv /\ [INext]_ivars => IInv'
<1> SUFFICES ASSUME IInv, [INext]_ivars PROVE IInv'
  OBVIOUS
<1>1. ASSUME Step, UNCHANGED <<cut, lost, unfiled>> PROVE IInv'
  BY <1>1, AfterStep, WholeStep, NoFilesStep
<1>2. CASE Interrupts
  BY <1>2, InterruptsStep
<1>3. CASE UNCHANGED ivars
  BY <1>3, IInvUnchanged
<1> QED
  BY <1>1, <1>2, <1>3 DEF INext, Step

LEMMA InterruptedInvariance == ISpec => []IInv
BY IInvInit, IInvStep, PTL DEF ISpec

\* At the end of a whole close() the dealt with are the registered, all of
\* which have files.
LEMMA RegisteredDealt ==
    ASSUME IInv, At("over"), Whole
    PROVE  /\ \A p \in Procs : Dealt(p) <=> state[p] # "unborn" /\ p \notin lost
           /\ unfiled = {}
<1>1. registry \in Seq(Procs) /\ next \in Nat /\ next > Len(registry)
  BY DEF IInv, TypeOK, Rest, Noted
<1>2. \A p : Dealt(p) <=> p \in Registered
  BY <1>1, AllDealt DEF Dealt, Registered
<1> QED
  BY <1>2 DEF IInv, Registry, Filed

\* What close() has not come to is behind the entry at which it was left.
LEMMA NotDealtIsBehind ==
    ASSUME IInv, At("over"), ~cut, BrokenOff, NEW p \in Procs, p \in Registered
    PROVE  Dealt(p) \/ LeftAt(p) \/ p \in Behind
<1>1. PICK q \in Procs : LeftAt(q)
  BY DEF IInv, Left
<1>2. PICK j \in DOMAIN registry : registry[j] = p
  BY DEF Registered
<1>3. /\ registry \in Seq(Procs) /\ next \in Nat /\ next > 0
      /\ q = registry[next] /\ q \in unfiled
  BY <1>1 DEF IInv, TypeOK, LeftAt, Closing
<1>4. DOMAIN registry = 1..Len(registry) /\ Len(registry) \in Nat
  BY <1>3
<1>5. CASE j < next
  BY <1>2, <1>5 DEF Dealt
<1>6. CASE j = next
  BY <1>1, <1>2, <1>6 DEF LeftAt
<1>7. CASE j > next
  <2>1. next \in 1..j - 1
    BY <1>3, <1>4, <1>7
  <2>2. j \in {k \in DOMAIN registry : \E i \in 1..k - 1 : registry[i] \in unfiled}
    BY <1>3, <2>1
  <2> QED
    BY <1>2, <2>2 DEF Behind
<1> QED
  BY <1>3, <1>4, <1>5, <1>6, <1>7

(* However often the body of a test is interrupted, when close() was not   *)
(* interrupted every process that was registered is waited for and its     *)
(* files are closed, except behind an entry that has no files.             *)
THEOREM InterruptedClean == ISpec => []InterruptedIsClean
<1>1. IInv => InterruptedIsClean
  <2> SUFFICES ASSUME IInv, At("over"), ~cut, NEW p \in Procs, p \notin lost,
                      p \notin Behind
               PROVE  /\ state[p] \in {"unborn", "reaped"}
                      /\ p \in files => p \in unfiled
    BY DEF InterruptedIsClean, IInv, TypeOK
  <2>1. CASE Whole
    <3>1. Dealt(p) => state[p] = "reaped" /\ p \notin files
      BY <2>1 DEF IInv, Closed, Rest, Noted
    <3>2. p \in files => Dealt(p)
      BY <2>1, RegisteredDealt DEF IInv, Registry
    <3> QED
      BY <2>1, <3>1, <3>2, RegisteredDealt
  <2>2. CASE ~Whole
    <3>1. BrokenOff /\ Left
      BY <2>2 DEF Whole, IInv
    <3>2. /\ p \in Registered \/ state[p] = "unborn"
          /\ p \in files => p \in Registered
      BY <3>1 DEF Left, Registry
    <3>3. Dealt(p) => state[p] = "reaped" /\ p \notin files
      BY <3>1 DEF Left, Closed
    <3>4. LeftAt(p) => state[p] = "reaped" /\ p \in unfiled
      BY DEF LeftAt
    <3>5. p \in Registered => Dealt(p) \/ LeftAt(p)
      BY <3>1, NotDealtIsBehind
    <3> QED
      BY <3>2, <3>3, <3>4, <3>5
  <2> QED
    BY <2>1, <2>2
<1> QED
  BY <1>1, InterruptedInvariance, PTL

(* And close() raises the failures of exactly the registered processes,    *)
(* unless one of them has no files.                                        *)
THEOREM InterruptedReported == ISpec => []InterruptedIsReported
<1>1. IInv => InterruptedIsReported
  <2> SUFFICES ASSUME IInv, At("over"), ~cut
               PROVE  /\ unfiled # {} => outcome = "close error"
                      /\ unfiled = {} /\ outcome # "close error" =>
                            /\ failures = {p \in Procs \ lost : Failed(p)}
                            /\ (outcome = "SubProcessError") = (failures # {})
    BY DEF InterruptedIsReported
  <2>1. CASE ~Whole
    <3>1. \E p \in Procs : LeftAt(p)
      BY <2>1 DEF Whole, IInv, Left
    <3> QED
      BY <3>1 DEF LeftAt
  <2>2. CASE Whole
    <3>1. ASSUME NEW p \in Procs
          PROVE  p \in failures <=> p \notin lost /\ Failed(p)
      <4>1. Failed(p) => state[p] # "unborn"
        BY <2>2 DEF IInv, Registry, Failed
      <4>2. p \in failures <=> Dealt(p) /\ Failed(p)
        BY <2>2 DEF IInv, Rest, Noted
      <4> QED
        BY <2>2, <4>1, <4>2, RegisteredDealt
    <3>2. failures \subseteq Procs
      BY DEF IInv, TypeOK
    <3>3. outcome # "close error" => (outcome = "SubProcessError") = (failures # {})
      BY <2>2 DEF IInv, Rest, Ending
    <3>4. failures = {p \in Procs \ lost : Failed(p)}
      BY <3>1, <3>2
    <3> QED
      BY <2>2, <3>3, <3>4, RegisteredDealt
  <2> QED
    BY <2>1, <2>2
<1> QED
  BY <1>1, InterruptedInvariance, PTL

\* A step that kills nobody and touches nothing that was waited for.
LEMMA FinalOther ==
    ASSUME rc' = rc, signalled' = signalled, pc' # "kill",
           \A p \in Procs : state[p] = "reaped" => state'[p] = "reaped"
    PROVE  Final
BY DEF Final, LeftAlone, KillsOnPurpose, KilledInPlaceOf

(* A process that an interrupted wait has reaped is left alone as well.    *)
THEOREM InterruptedStaysReaped == ISpec => ReapedIsFinal
<1>1. ASSUME IInv, [INext]_ivars, ~UNCHANGED vars
      PROVE  Final
  <2>0. TypeOK
    BY <1>1, Zenon DEF IInv
  <2>1. ASSUME Step, UNCHANGED <<cut, lost, unfiled>>, Whole PROVE Final
    <3>1. InCall
      BY <1>1, <2>1 DEF IInv, Rest
    <3>2. CASE Next
      BY <2>0, <3>1, <3>2, FinalStep
    <3>3. ASSUME NEW p \in Procs, NoFiles(p) PROVE Final
      <4>1. rc' = rc /\ signalled' = signalled /\ pc' # "kill"
        BY <3>3 DEF NoFiles, Goto, Calls
      <4>2. \A q \in Procs : state[q] = "reaped" => state'[q] = "reaped"
        BY <2>0, <3>3 DEF NoFiles, TypeOK
      <4> QED
        BY <4>1, <4>2, FinalOther
    <3> QED
      BY <2>1, <3>2, <3>3, StepIs
  <2>2. ASSUME Step, UNCHANGED <<cut, lost, unfiled>>, ~Whole PROVE Final
    <3>1. At("over") /\ Next
      BY <1>1, <2>2, AfterStep DEF Next
    <3>2. PICK q \in Procs : Exit(q)
      BY <1>1, <2>2, AfterStep
    <3>3. /\ \A p \in Procs : state[p] = "reaped" => LeftAlone(p)
          /\ KillsOnPurpose
      BY <2>0, <3>1, ReapedLeftAlone, KillEntered
    <3>4. ASSUME NEW p \in Procs, rc'[p] = "SIGKILL" PROVE rc[p] = "SIGKILL"
      <4>1. PICK code \in {"zero", "error", "SIGTERM"} : rc' = [rc EXCEPT ![q] = code]
        BY <3>2 DEF Exit
      <4> QED
        BY <2>0, <3>4, <4>1 DEF TypeOK
    <3> QED
      BY <3>3, <3>4 DEF Final, KilledInPlaceOf
  <2>3. CASE Interrupts
    <3>1. UNCHANGED <<rc, signalled>> /\ Interrupted
      BY <1>1, <2>3, InterruptsAre
    <3>2. pc' # "kill"
      BY <3>1 DEF Interrupted, Raise, Goto, Calls
    <3>3. ASSUME NEW p \in Procs, state[p] = "reaped" PROVE state'[p] = "reaped"
      BY <2>0, <2>3, <3>3 DEF Interrupts, Interrupt, InterruptReaping,
         InterruptSpawn, InterruptFiling, InterruptedSpawn, InterruptLoad, procs,
         TypeOK
    <3> QED
      BY <3>1, <3>2, <3>3, FinalOther
  <2>4. UNCHANGED ivars => UNCHANGED vars
    BY DEF ivars
  <2> QED
    BY <1>1, <2>1, <2>2, <2>3, <2>4 DEF INext, Step
<1>2. IInv /\ [INext]_ivars => [Final]_vars
  BY <1>1
<1> QED
  BY <1>2, FinalIs, InterruptedInvariance, PTL DEF ISpec, ReapedIsFinal

\* An interruption takes the driver to the end of close(), or to its start.
LEMMA AdvancingInterrupted ==
    ASSUME IInv, Advancing, Interrupts
    PROVE  Advancing'
<1>1. Interrupted /\ (Closing => UNCHANGED registry)
  BY InterruptsAre
<1>2. Len(registry') \in Nat
  <2>1. registry' \in Seq(Procs)
    BY InterruptsTyped DEF TypeOK
  <2> QED
    BY <2>1, LenNat
<1>3. pc' # "reap"
  BY <1>1 DEF Interrupted, Raise, Goto, Calls
<1>4. next' = 1 \/ (Closing /\ next' = next)
  BY <1>1 DEF Interrupted, Raise
<1> QED
  BY <1>1, <1>2, <1>3, <1>4, OneIsWithin DEF Advancing, At, Closing

LEMMA InterruptedAdvancing == ISpec => [](Whole => Advancing)
<1>1. ASSUME IInv, Whole => Advancing, [INext]_ivars, Whole'
      PROVE  Advancing'
  <2>1. ASSUME Step, UNCHANGED <<cut, lost, unfiled>> PROVE Advancing'
    <3>1. Whole /\ Advancing
      BY <1>1, <2>1, AfterStep
    <3>2. TypeOK /\ Rest /\ Registry
      BY <1>1, <3>1 DEF IInv
    <3>3. Spawned
      <4>1. Registered \subseteq Procs
        <5>1. registry \in Seq(Procs)
          BY <3>2, Zenon DEF TypeOK
        <5> QED
          BY <5>1 DEF Registered
      <4> QED
        BY <3>2, <4>1 DEF Registry, Spawned
    <3>4. CASE Next
      BY <3>1, <3>2, <3>3, <3>4, AdvancingStep
    <3>5. ASSUME NEW p \in Procs, NoFiles(p) PROVE Advancing'
      BY <3>1, <3>5 DEF NoFiles, Goto, Calls, Advancing, Closing, At
    <3> QED
      BY <2>1, <3>4, <3>5, StepIs
  <2>2. CASE Interrupts
    BY <1>1, <2>2, InterruptsAre, AdvancingInterrupted
  <2>3. CASE UNCHANGED ivars
    <3>1. Whole
      BY <1>1, <2>3 DEF Whole, BrokenOff, At, ivars, vars, driver, ending
    <3> QED
      BY <1>1, <2>3, <3>1, AdvancingUnchanged DEF ivars
  <2> QED
    BY <1>1, <2>1, <2>2, <2>3 DEF INext, Step
<1>2. IInit => Advancing
  BY AdvancingInit DEF IInit
<1> QED
  BY <1>1, <1>2, InterruptedInvariance, PTL DEF ISpec

\* A step that ends close() leaves none of its statements.
LEMMA OverIsNearer ==
    ASSUME IInv, Whole, Closing, Advancing, ~At("over"),
           UNCHANGED <<registry, next>>, pc' = "over"
    PROVE  StepsLeft' < StepsLeft
<1>1. pc \in {"close", "term", "kill", "reap", "unload", "copy"}
  BY DEF IInv, Rest, InCall, TypeOK, Statement, At
<1>2. StepsToNext[pc] \in 1..4 /\ StepsToNext[pc'] = 0
  BY <1>1, StatementsLeft
<1>3. /\ StepsToNext[pc] \in 0..4 /\ StepsToNext[pc'] \in 0..4
      /\ StepsToNext[pc'] < StepsToNext[pc]
  BY <1>2
<1> QED
  BY <1>3, SameEntry DEF IInv

(* With the user's ctrl-C as with none, a step of the driver in close()    *)
(* leaves fewer of them.                                                   *)
THEOREM InterruptedGoesOn == ISpec => CloseAdvances
<1>1. ASSUME IInv, Whole => Advancing, [INext]_ivars, Closing, ~UNCHANGED vars
      PROVE  StepsLeft' < StepsLeft \/ \E p \in Procs : Exit(p)
  <2>1. ASSUME Step, UNCHANGED <<cut, lost, unfiled>>
        PROVE  StepsLeft' < StepsLeft \/ \E p \in Procs : Exit(p)
    <3>1. CASE ~Whole
      BY <1>1, <2>1, <3>1, AfterStep
    <3>2. CASE Whole /\ Next
      BY <1>1, <3>2, StepOfClose DEF IInv
    <3>3. ASSUME Whole, NEW p \in Procs, NoFiles(p) PROVE StepsLeft' < StepsLeft
      <4>1. ~At("over") /\ pc' = "over" /\ UNCHANGED <<registry, next>>
        BY <3>3 DEF NoFiles, Goto, Calls, At
      <4> QED
        BY <1>1, <3>3, <4>1, OverIsNearer
    <3> QED
      BY <2>1, <3>1, <3>2, <3>3, StepIs
  <2>2. CASE Interrupts
    <3>1. ~At("over") /\ Whole /\ Interrupted /\ UNCHANGED registry
      BY <1>1, <2>2, InterruptsAre
    <3>2. pc' = "over" /\ UNCHANGED next
      BY <1>1, <3>1 DEF Interrupted, Goto, Calls
    <3> QED
      BY <1>1, <3>1, <3>2, OverIsNearer
  <2>3. UNCHANGED ivars => UNCHANGED vars
    BY DEF ivars
  <2> QED
    BY <1>1, <2>1, <2>2, <2>3 DEF INext, Step
<1>2. IInv /\ (Whole => Advancing) /\ [INext]_ivars =>
        [Closing => StepsLeft' < StepsLeft \/ \E p \in Procs : Exit(p)]_vars
  BY <1>1
<1> QED
  BY <1>2, InterruptedInvariance, InterruptedAdvancing, PTL DEF ISpec, CloseAdvances
=============================================================================
