------------------------- MODULE ProjectObjectProofs -------------------------
(***************************************************************************)
(* Proofs about ProjectObject, for any objects, dependencies without a     *)
(* cycle and variables of the user, however many objects a test gets.      *)
(***************************************************************************)
EXTENDS ProjectObject, SequenceTheorems, TLAPS

Frame == [object : Objects, todo : SUBSET Objects]

\* A project ranks above those it depends on.
rank == CHOOSE r \in [DOMAIN OwnVars -> 0 .. 4] :
           \A o \in Objects : \A d \in DefaultDeps[o] :
              r[ProjectOf[d]] < r[ProjectOf[o]]
Rank(o) == rank[ProjectOf[o]]

(* Nested calls are calls for dependencies, hence all for different        *)
(* objects; all but the one that starts are for objects of the test, which *)
(* were not complete when they started.                                    *)
Entered(i) == i < Len(stack) \/ at # "enter"
Waiting(i) == i < Len(stack) \/ at = "deps"

Known ==
    /\ Cached \subseteq born
    /\ \A o \in Objects : deps[o] \subseteq born
    /\ \A i \in DOMAIN stack : /\ stack[i].object \in born
                               /\ stack[i].todo \subseteq deps[stack[i].object]
Ranked == \A o \in Objects : \A d \in deps[o] : Rank(d) < Rank(o)
Descending == \A i, j \in DOMAIN stack :
                 i < j => Rank(stack[j].object) < Rank(stack[i].object)
Mutable    == \A i \in DOMAIN stack : Entered(i) => stack[i].object \notin Cached
Incomplete == \A i \in DOMAIN stack : Waiting(i) => ~Complete(stack[i].object)
Silent     == at # "idle" => answer = NoAnswer

(* What a statement of autobuild implies of the steps before it, and what  *)
(* the flags of an object imply as long as the test lets autobuild work.   *)
InStep ==
    /\ at \in {"build", "install", "strip"} => Top.object \in configured \cup Modules
    /\ at \in {"install", "strip"} => Top.object \in built
    /\ at = "strip" => Top.object \in installed
    /\ at \in {"build", "install"} =>
          Top.object \in Modules \/ makefile[Top.object] = deps[Top.object]
Chain ==
    /\ configured \cap Modules = {}
    /\ \A o \in Objects \ (Cached \cup byHand) :
          /\ o \in installed => o \in built
          /\ o \in built => o \in configured \cup Modules

(* A Makefile is for dependencies that are installed, and for those of now *)
(* unless one was replaced.                                                *)
Made ==
    /\ \A o \in Objects \ Modules : makefile[o] # Absent =>
          /\ makefile[o] \subseteq installed
          /\ o \notin replaced => makefile[o] = deps[o]
    /\ \A o \in installed \ Modules : makefile[o] # Absent

Nested == Known /\ Ranked /\ Descending /\ Mutable /\ Incomplete
Rest == /\ Silent /\ InStep /\ Chain /\ Made
        /\ ReturnedIsComplete /\ UnstrippedExplained /\ LinkedToInstalled
        /\ RefusedExplained
Inv == TypeOK /\ Nested /\ Rest
-----------------------------------------------------------------------------
(* The constants.                                                          *)

LEMMA ObjectFacts ==
    /\ Fresh \cap Cached = {} /\ Objects = Fresh \cup Cached
    /\ Modules \subseteq Objects
    /\ Agent \subseteq Objects /\ Babeltrace2 \subseteq Objects
    /\ Agent \cap Modules = {} /\ Babeltrace2 \cap Modules = {}
BY ObjectsAssumption DEF Objects, Modules, Of

LEMMA RankFacts ==
    /\ \A o \in Objects : Rank(o) \in Nat
    /\ \A o \in Objects : \A d \in DefaultDeps[o] : Rank(d) < Rank(o)
<1>1. /\ rank \in [DOMAIN OwnVars -> 0 .. 4]
      /\ \A o \in Objects : \A d \in DefaultDeps[o] :
            rank[ProjectOf[d]] < rank[ProjectOf[o]]
  BY DepsAssumption DEF rank
<1> QED
  BY <1>1, ObjectsAssumption DEF Rank
-----------------------------------------------------------------------------
(* The steps.                                                              *)

Kept(o) ==
    /\ \A x \in Objects \ {o} : /\ makefile'[x] = makefile[x]
                                /\ linked'[x] = linked[x]
                                /\ x \in stripped' <=> x \in stripped
    /\ late' \in {late, late \cup {o}}

\* What a step does, whatever the step.
Effect(o, step, how) ==
    /\ configured' \in {configured, configured \cup {o}}
    /\ built' \in {built, built \cup {o}}
    /\ installed' \in {installed, installed \cup {o}}
    /\ how # "ok" => UNCHANGED flags
    /\ o \in Cached /\ step # "strip" => UNCHANGED <<flags, disk>>
    /\ o \in Modules => configured' = configured
    /\ step # "configure" => configured' = configured /\ makefile' = makefile
    /\ step # "build" => built' = built
    /\ step # "install" => installed' = installed /\ linked' = linked
    /\ step \in {"configure", "build"} => stripped' = stripped

LEMMA StepEffect ==
    ASSUME TypeOK, NEW o \in Objects, NEW step \in Step, NEW how \in How,
           Runs(o, step, how)
    PROVE  Effect(o, step, how) /\ Kept(o)
<1> USE DEF TypeOK, Kept, Effect, flags, disk, How, Fails, Immutable
<1>0. late' \in {late, late \cup {o}}
  BY DEF Runs
<1>1. CASE step = "configure"
  <2>1. configure(o, how)
    BY <1>1 DEF Runs
  <2> QED
    BY <1>0, <1>1, <2>1 DEF configure
<1>2. CASE step = "build"
  <2>1. build(o, how)
    BY <1>2 DEF Runs
  <2> QED
    BY <1>0, <1>2, <2>1 DEF build
<1>3. CASE step = "install"
  <2>1. install(o, how)
    BY <1>3 DEF Runs
  <2>2. CASE /\ Fails(o, how, Immutable(o) \/ EnvRaises(o))
             /\ stripped' \in IF Immutable(o) \/ EnvRaises(o) THEN {stripped}
                              ELSE {stripped, stripped \ {o}}
             /\ UNCHANGED <<flags, makefile, linked>>
    <3>1. stripped' \in {stripped, stripped \ {o}}
      BY <2>2
    <3>2. o \in Cached => stripped' = stripped
      BY <2>2
    <3> QED
      BY <1>0, <1>3, <2>2, <3>1, <3>2
  <2>3. CASE /\ how = IF o \in installed \cap (Agent \cup Babeltrace2)
                     THEN "raised" ELSE "ok"
             /\ ~(Immutable(o) \/ EnvRaises(o))
             /\ installed' = installed \cup {o}
             /\ linked' = [linked EXCEPT ![o] =
                             IF o \in Modules THEN {} ELSE makefile[o]]
             /\ stripped' = stripped \ {o}
             /\ UNCHANGED <<configured, built, makefile>>
    <3>1. how # "ok" => installed' = installed
      BY <2>3
    <3>2. o \notin Cached
      BY <2>3
    <3>3. \A x \in Objects \ {o} : linked'[x] = linked[x]
      BY <2>3
    <3> QED
      BY <1>0, <1>3, <2>3, <3>1, <3>2, <3>3
  <2> QED
    BY <2>1, <2>2, <2>3 DEF install
<1>4. CASE step = "strip"
  <2>1. rpath_strip(o, how)
    BY <1>4 DEF Runs
  <2> QED
    BY <1>0, <1>4, <2>1 DEF rpath_strip
<1> QED
  BY <1>1, <1>2, <1>3, <1>4 DEF Step

LEMMA StepTyped ==
    ASSUME TypeOK, NEW o \in born, NEW step \in Step, NEW how \in How,
           Runs(o, step, how)
    PROVE  /\ makefile' \in [Objects -> {Absent} \cup SUBSET Objects]
           /\ linked' \in [Objects -> {Absent} \cup SUBSET Objects]
           /\ configured' \subseteq born /\ built' \subseteq born
           /\ installed' \subseteq born
           /\ stripped' \subseteq born /\ late' \subseteq born
<1>1. o \in Objects
  BY DEF TypeOK
<1>2. Effect(o, step, how) /\ Kept(o)
  BY <1>1, StepEffect
<1>3. /\ configured' \subseteq born /\ built' \subseteq born
      /\ installed' \subseteq born
      /\ stripped' \subseteq born /\ late' \subseteq born
  <2>1. stripped' \subseteq stripped \cup {o}
    BY DEF Runs, configure, build, install, rpath_strip, disk
  <2> QED
    BY <1>2, <2>1 DEF Effect, Kept, TypeOK
<1>4. makefile' \in [Objects -> {Absent} \cup SUBSET Objects]
  <2>1. makefile' \in {makefile, [makefile EXCEPT ![o] = deps[o]]}
    BY DEF Runs, configure, build, install, rpath_strip, disk
  <2> QED
    BY <1>1, <2>1 DEF TypeOK
<1>5. linked' \in [Objects -> {Absent} \cup SUBSET Objects]
  <2>1. linked' \in {linked, [linked EXCEPT ![o] = {}],
                     [linked EXCEPT ![o] = makefile[o]]}
    BY DEF Runs, configure, build, install, rpath_strip, disk
  <2> QED
    BY <1>1, <2>1 DEF TypeOK
<1> QED
  BY <1>3, <1>4, <1>5
-----------------------------------------------------------------------------
(* The stack.                                                              *)

LEMMA StackFacts ==
    ASSUME TypeOK, at # "idle"
    PROVE  /\ stack \in Seq(Frame) /\ Len(stack) \in Nat \ {0}
           /\ DOMAIN stack = 1 .. Len(stack)
           /\ \A i \in 1 .. Len(stack) : stack[i] \in Frame
           /\ Top = stack[Len(stack)] /\ Top \in Frame /\ Top.object \in Objects
<1>1. stack \in Seq(Frame) /\ stack # <<>>
  BY DEF TypeOK, Frame
<1>2. /\ Len(stack) \in Nat \ {0} /\ DOMAIN stack = 1 .. Len(stack)
      /\ \A i \in 1 .. Len(stack) : stack[i] \in Frame
  BY <1>1, EmptySeq, LenProperties, ElementOfSeq
<1>3. Top = stack[Len(stack)] /\ Top \in Frame
  BY <1>2 DEF Top
<1> QED
  BY <1>1, <1>2, <1>3 DEF Frame

\* A call that is over leaves its callers as they are.
LEMMA Returns ==
    ASSUME TypeOK, at # "idle", Return
    PROVE  /\ stack' \in Seq(Frame) /\ Len(stack') = Len(stack) - 1
           /\ DOMAIN stack' = 1 .. Len(stack) - 1
           /\ \A i \in DOMAIN stack' : stack'[i] = stack[i]
           /\ stack' = <<>> <=> Len(stack) = 1
           /\ at' = IF stack' = <<>> THEN "idle" ELSE "deps"
           /\ answer' = IF stack' = <<>> THEN [object |-> Top.object, how |-> "ok"]
                                         ELSE answer
<1>1. /\ stack \in Seq(Frame) /\ Len(stack) \in Nat \ {0}
      /\ DOMAIN stack = 1 .. Len(stack)
  BY StackFacts
<1>2. stack' = SubSeq(stack, 1, Len(stack) - 1)
  BY DEF Return, Below
<1>3. \A i \in 1 .. Len(stack) - 1 : stack[i] \in Frame
  BY <1>1, ElementOfSeq
<1>4. CASE Len(stack) = 1
  <2>1. stack' = <<>>
    BY <1>1, <1>2, <1>4, SubSeqEmpty
  <2> QED
    BY <1>4, <2>1, EmptySeq DEF Return, Below
<1>5. CASE Len(stack) # 1
  <2>1. /\ stack' \in Seq(Frame) /\ Len(stack') = Len(stack) - 1
        /\ \A i \in 1 .. Len(stack) - 1 : stack'[i] = stack[i]
    BY <1>1, <1>2, <1>5
  <2>2. stack' # <<>>
    BY <1>1, <1>5, <2>1
  <2> QED
    BY <1>1, <1>5, <2>1, <2>2 DEF Return, Below
<1> QED
  BY <1>4, <1>5

LEMMA PopNested ==
    ASSUME TypeOK, Nested, at # "idle", Return, UNCHANGED <<born, deps, flags>>
    PROVE  Nested'
<1>1. /\ Len(stack) \in Nat \ {0} /\ DOMAIN stack = 1 .. Len(stack)
      /\ DOMAIN stack' = 1 .. Len(stack) - 1
      /\ Len(stack') = Len(stack) - 1
      /\ \A i \in DOMAIN stack' : stack'[i] = stack[i]
  BY StackFacts, Returns
<1>2. \A i \in DOMAIN stack' : i \in DOMAIN stack /\ i < Len(stack)
  BY <1>1
<1>3. Known' /\ Ranked'
  BY <1>1, <1>2 DEF Nested, Known, Ranked, Rank
<1>4. Descending'
  BY <1>1, <1>2 DEF Nested, Descending, Rank
<1>5. Mutable'
  BY <1>1, <1>2 DEF Nested, Mutable, Entered
<1>6. Incomplete'
  BY <1>1, <1>2 DEF Nested, Incomplete, Waiting, Complete, flags
<1> QED
  BY <1>3, <1>4, <1>5, <1>6 DEF Nested

LEMMA EmptyNested ==
    ASSUME Nested, stack' = <<>>, born \subseteq born', UNCHANGED deps PROVE Nested'
<1>1. DOMAIN stack' = {}
  OBVIOUS
<1> QED
  BY <1>1 DEF Nested, Known, Ranked, Descending, Mutable, Incomplete, Rank

LEMMA Raises ==
    ASSUME TypeOK, at # "idle", NEW how, Raise(how)
    PROVE  \/ /\ how = "called" /\ Top.object \in Modules
              /\ skip' = skip \cup {Top.object}
              /\ Return
           \/ /\ stack' = <<>> /\ at' = "idle" /\ skip' = skip
              /\ answer' = [object |-> Top.object, how |-> how]
BY DEF Raise

LEMMA RaiseTyped ==
    ASSUME TypeOK, at # "idle", NEW how \in How \cup {"refused"}, Raise(how)
    PROVE  /\ skip' \subseteq Modules
           /\ stack' \in Seq(Frame) /\ at' \in {"idle", "deps"}
           /\ at' = "idle" <=> stack' = <<>>
           /\ answer' \in [object : Objects \cup {Absent},
                           how : How \cup {"none", "refused"}]
<1>1. Top.object \in Objects
  BY StackFacts
<1>2. CASE how = "called" /\ Top.object \in Modules
           /\ skip' = skip \cup {Top.object} /\ Return
  <2>1. "ok" \in How
    BY DEF How
  <2>2. [object |-> Top.object, how |-> "ok"] \in
           [object : Objects \cup {Absent}, how : How \cup {"none", "refused"}]
    BY <1>1, <2>1
  <2>3. answer' \in [object : Objects \cup {Absent},
                     how : How \cup {"none", "refused"}]
    BY <1>2, <2>2, Returns DEF TypeOK
  <2>4. /\ stack' \in Seq(Frame) /\ at' \in {"idle", "deps"}
        /\ at' = "idle" <=> stack' = <<>>
    BY <1>2, Returns
  <2> QED
    BY <1>2, <2>3, <2>4 DEF TypeOK
<1>3. CASE stack' = <<>> /\ at' = "idle" /\ skip' = skip
           /\ answer' = [object |-> Top.object, how |-> how]
  <2>1. stack' \in Seq(Frame)
    BY <1>3
  <2>2. answer' \in [object : Objects \cup {Absent},
                     how : How \cup {"none", "refused"}]
    BY <1>1, <1>3
  <2> QED
    BY <1>3, <2>1, <2>2 DEF TypeOK
<1> QED
  BY <1>2, <1>3, Raises

LEMMA ReturnTyped ==
    ASSUME TypeOK, at # "idle", Return
    PROVE  /\ stack' \in Seq(Frame) /\ at' \in {"idle", "deps"}
           /\ at' = "idle" <=> stack' = <<>>
           /\ answer' \in [object : Objects \cup {Absent},
                           how : How \cup {"none", "refused"}]
<1>1. "ok" \in How
  BY DEF How
<1>2. [object |-> Top.object, how |-> "ok"] \in
         [object : Objects \cup {Absent}, how : How \cup {"none", "refused"}]
  BY <1>1, StackFacts
<1> QED
  BY <1>2, Returns DEF TypeOK

\* The test, between two calls.
LEMMA TestTyped ==
    ASSUME TypeOK, Test PROVE TypeOK'
<1>1. ASSUME NEW o \in Objects, get_fresh(o) PROVE TypeOK'
  BY <1>1 DEF get_fresh, TypeOK, flags, disk, call, past
<1>2. ASSUME NEW o \in Objects, NEW d \in Objects, Replace(o, d) PROVE TypeOK'
  <2>1. deps' \in [Objects -> SUBSET Objects]
    BY <1>2 DEF Replace, TypeOK
  <2>2. replaced' \subseteq born
    BY <1>2 DEF Replace, Replaceable, Outdated, TypeOK
  <2> QED
    BY <1>2, <2>1, <2>2 DEF Replace, TypeOK, flags, disk, call
<1>3. ASSUME NEW o \in Objects, NEW step \in Step \ {"strip"}, Manual(o, step)
      PROVE TypeOK'
  <2>1. o \in born
    BY <1>3 DEF Manual
  <2>2. PICK how \in How : Runs(o, step, how)
    BY <1>3 DEF Manual
  <2>3. byHand' \subseteq born
    BY <1>3, <2>1 DEF Manual, TypeOK
  <2>4. NoAnswer \in [object : Objects \cup {Absent},
                      how : How \cup {"none", "refused"}]
    BY DEF NoAnswer
  <2>5. /\ UNCHANGED <<environ, born, deps, skip, stack, at, replaced>>
        /\ answer' = NoAnswer
    BY <1>3 DEF Manual
  <2> QED
    BY <2>1, <2>2, <2>3, <2>4, <2>5, StepTyped DEF TypeOK
<1>4. ASSUME NEW o \in Objects, autobuild(o) PROVE TypeOK'
  <2>1. NoAnswer \in [object : Objects \cup {Absent},
                      how : How \cup {"none", "refused"}]
    BY DEF NoAnswer
  <2>2. [object |-> o, todo |-> {}] \in [object : Objects, todo : SUBSET Objects]
    OBVIOUS
  <2>3. /\ stack' \in Seq([object : Objects, todo : SUBSET Objects])
        /\ stack' # <<>>
    BY <1>4, <2>2 DEF autobuild
  <2> QED
    BY <1>4, <2>1, <2>3 DEF autobuild, TypeOK, flags, disk, past
<1> QED
  BY <1>1, <1>2, <1>3, <1>4 DEF Test

LEMMA AutobuildTyped ==
    ASSUME TypeOK, Nested, Autobuild PROVE TypeOK'
<1>0. at # "idle"
  BY DEF Autobuild, EnterComplete, EnterImmutable, Enter, AutobuildDependency,
     RefuseManual, StartSteps, StepSucceeds, StepFails, Step
<1>a. /\ stack \in Seq(Frame) /\ Len(stack) \in Nat \ {0}
      /\ DOMAIN stack = 1 .. Len(stack)
      /\ Top = stack[Len(stack)] /\ Top \in Frame /\ Top.object \in Objects
  BY <1>0, StackFacts
<1>b. Top.object \in born
  BY <1>a DEF Nested, Known
<1>1. CASE EnterComplete
  BY <1>0, <1>1, ReturnTyped DEF EnterComplete, TypeOK, Frame, flags, disk, past
<1>2. CASE EnterImmutable
  <2>1. "raised" \in How
    BY DEF How
  <2> QED
    BY <1>0, <1>2, <2>1, RaiseTyped DEF EnterImmutable, TypeOK, Frame, flags, disk, past
<1>3. CASE Enter
  <2>1. stack' = [stack EXCEPT ![Len(stack)] = [@ EXCEPT !.todo = deps[Top.object]]]
    BY <1>3 DEF Enter
  <2>2. [stack[Len(stack)] EXCEPT !.todo = deps[Top.object]] \in Frame
    BY <1>a DEF Frame, TypeOK
  <2>3. stack' \in Seq(Frame) /\ stack' # <<>>
    BY <1>a, <2>1, <2>2, ExceptSeq
  <2> QED
    BY <1>3, <2>3 DEF Enter, TypeOK, Frame, flags, disk, past
<1>4. ASSUME NEW d \in Objects, AutobuildDependency(d) PROVE TypeOK'
  <2> DEFINE s == [stack EXCEPT ![Len(stack)].todo = @ \ {d}]
             f == [stack[Len(stack)] EXCEPT !.todo = @ \ {d}]
  <2>1. stack' = Append(s, [object |-> d, todo |-> {}])
    BY <1>4 DEF AutobuildDependency
  <2>2. f \in Frame /\ s = [stack EXCEPT ![Len(stack)] = f]
    BY <1>a DEF Frame
  <2>3. s \in Seq(Frame)
    <3>1. [stack EXCEPT ![Len(stack)] = f] \in Seq(Frame)
      <4> HIDE DEF f
      <4> QED
        BY <1>a, <2>2, ExceptSeq
    <3> QED
      BY <2>2, <3>1
  <2>4. [object |-> d, todo |-> {}] \in Frame
    BY DEF Frame
  <2> HIDE DEF s
  <2>5. stack' \in Seq(Frame) /\ stack' # <<>>
    BY <2>1, <2>3, <2>4
  <2> QED
    BY <1>4, <2>5 DEF AutobuildDependency, TypeOK, Frame, flags, disk, past
<1>5. CASE RefuseManual
  BY <1>0, <1>5, RaiseTyped DEF RefuseManual, TypeOK, Frame, flags, disk, past
<1>6. CASE StartSteps
  BY <1>6 DEF StartSteps, TypeOK, Step, flags, disk, past
<1>7. CASE StepSucceeds
  <2>1. at \in Step /\ Runs(Top.object, at, "ok") /\ "ok" \in How
    BY <1>7 DEF StepSucceeds, How
  <2>2. /\ stack' \in Seq(Frame) /\ at' \in Step \cup {"idle", "enter", "deps"}
        /\ at' = "idle" <=> stack' = <<>>
        /\ answer' \in [object : Objects \cup {Absent},
                        how : How \cup {"none", "refused"}]
    <3>1. CASE at = "strip"
      BY <1>0, <1>7, <3>1, ReturnTyped DEF StepSucceeds
    <3>2. CASE at # "strip"
      BY <1>0, <1>7, <3>2 DEF StepSucceeds, After, Step, TypeOK, Frame
    <3> QED
      BY <3>1, <3>2
  <2> QED
    BY <1>b, <1>7, <2>1, <2>2, StepTyped DEF StepSucceeds, TypeOK, Frame
<1>8. CASE StepFails
  <2>1. PICK how \in How \ {"ok"} : Runs(Top.object, at, how) /\ Raise(how)
    BY <1>8 DEF StepFails
  <2>2. at \in Step
    BY <1>8 DEF StepFails
  <2> QED
    BY <1>0, <1>b, <1>8, <2>1, <2>2, StepTyped, RaiseTyped DEF StepFails, TypeOK, Frame
<1> QED
  BY <1>1, <1>2, <1>3, <1>4, <1>5, <1>6, <1>7, <1>8 DEF Autobuild

LEMMA RaiseNested ==
    ASSUME TypeOK, Nested, at # "idle", NEW how, Raise(how),
           UNCHANGED <<born, deps, flags>>
    PROVE  Nested'
BY Raises, PopNested, EmptyNested

LEMMA TestNested ==
    ASSUME TypeOK, Nested, Test PROVE Nested'
<1>1. ASSUME NEW o \in Objects, get_fresh(o) PROVE Nested'
  BY <1>1, EmptyNested DEF get_fresh, TypeOK, call
<1>2. ASSUME NEW o \in Objects, NEW d \in Objects, Replace(o, d) PROVE Nested'
  <2>1. PICK e \in deps[o] : ProjectOf[e] = ProjectOf[d]
    BY <1>2 DEF Replace, Replaceable
  <2>2. /\ stack' = <<>> /\ born' = born /\ d \in born
        /\ deps' = [deps EXCEPT ![o] =
                      {x \in @ : ProjectOf[x] # ProjectOf[d]} \cup {d}]
    BY <1>2 DEF Replace, Replaceable, TypeOK, call
  <2>3. Rank(d) < Rank(o)
    BY <2>1 DEF Nested, Ranked, Rank
  <2>4. \A x \in Objects : \A y \in deps'[x] : y \in deps[x] \/ (x = o /\ y = d)
    BY <2>2 DEF TypeOK
  <2>5. Ranked'
    BY <2>3, <2>4 DEF Nested, Ranked, Rank
  <2>6. Known'
    BY <2>2, <2>4 DEF Nested, Known
  <2>7. Descending' /\ Mutable' /\ Incomplete'
    BY <2>2 DEF Descending, Mutable, Incomplete
  <2> QED
    BY <2>5, <2>6, <2>7 DEF Nested
<1>3. ASSUME NEW o \in Objects, NEW step \in Step \ {"strip"}, Manual(o, step)
      PROVE Nested'
  BY <1>3, EmptyNested DEF Manual, TypeOK
<1>4. ASSUME NEW o \in Objects, autobuild(o) PROVE Nested'
  <2>1. /\ DOMAIN stack' = {1} /\ Len(stack') = 1 /\ stack'[1].object = o
        /\ stack'[1].todo = {} /\ o \in born /\ at' = "enter"
        /\ UNCHANGED <<born, deps>>
    BY <1>4 DEF autobuild
  <2>2. Known' /\ Ranked'
    BY <2>1 DEF Nested, Known, Ranked, Rank
  <2>3. Descending'
    BY <2>1 DEF Descending
  <2>4. Mutable' /\ Incomplete'
    BY <2>1 DEF Mutable, Incomplete, Entered, Waiting
  <2> QED
    BY <2>2, <2>3, <2>4 DEF Nested
<1> QED
  BY <1>1, <1>2, <1>3, <1>4 DEF Test

LEMMA AutobuildNested ==
    ASSUME TypeOK, Nested, Autobuild PROVE Nested'
<1>0. at # "idle"
  BY DEF Autobuild, EnterComplete, EnterImmutable, Enter, AutobuildDependency,
     RefuseManual, StartSteps, StepSucceeds, StepFails, Step
<1>a. /\ stack \in Seq(Frame) /\ Len(stack) \in Nat \ {0}
      /\ DOMAIN stack = 1 .. Len(stack)
      /\ \A i \in 1 .. Len(stack) : stack[i] \in Frame
      /\ Top = stack[Len(stack)] /\ Top.object \in Objects
  BY <1>0, StackFacts
<1>1. CASE EnterComplete
  BY <1>0, <1>1, PopNested DEF EnterComplete
<1>2. CASE EnterImmutable
  BY <1>0, <1>2, RaiseNested DEF EnterImmutable
<1>3. CASE Enter
  <2>1. /\ stack' = [stack EXCEPT ![Len(stack)].todo = deps[Top.object]]
        /\ at' = "deps" /\ UNCHANGED <<born, deps, flags>>
        /\ ~Complete(Top.object) /\ Top.object \notin Cached /\ at = "enter"
    BY <1>3 DEF Enter, Immutable
  <2>2. /\ Len(stack') = Len(stack) /\ DOMAIN stack' = 1 .. Len(stack)
        /\ \A i \in 1 .. Len(stack) :
              /\ stack'[i].object = stack[i].object
              /\ stack'[i].todo = IF i = Len(stack) THEN deps[Top.object]
                                                    ELSE stack[i].todo
    BY <1>a, <2>1 DEF Frame
  <2>3. Known' /\ Ranked'
    <3>1. \A i \in 1 .. Len(stack) : /\ stack'[i].object \in born
                                     /\ stack'[i].todo \subseteq deps[stack'[i].object]
      BY <1>a, <2>2 DEF Nested, Known
    <3> QED
      BY <2>1, <2>2, <3>1 DEF Nested, Known, Ranked, Rank
  <2>4. Descending'
    BY <1>a, <2>2 DEF Nested, Descending, Rank
  <2>5. Mutable'
    BY <1>a, <2>1, <2>2 DEF Nested, Mutable, Entered
  <2>6. Incomplete'
    BY <1>a, <2>1, <2>2 DEF Nested, Incomplete, Waiting, Complete, flags
  <2> QED
    BY <2>3, <2>4, <2>5, <2>6 DEF Nested
<1>4. ASSUME NEW d \in Objects, AutobuildDependency(d) PROVE Nested'
  <2> DEFINE s == [stack EXCEPT ![Len(stack)].todo = @ \ {d}]
  <2>1. /\ stack' = Append(s, [object |-> d, todo |-> {}])
        /\ at' = "enter" /\ UNCHANGED <<born, deps, flags>>
        /\ d \in Top.todo /\ at = "deps"
    BY <1>4 DEF AutobuildDependency
  <2>2. /\ Len(s) = Len(stack) /\ DOMAIN s = 1 .. Len(stack)
        /\ \A i \in 1 .. Len(stack) : /\ s[i].object = stack[i].object
                                      /\ s[i].todo \subseteq stack[i].todo
    BY <1>a DEF Frame
  <2>3. /\ Len(stack') = Len(stack) + 1 /\ DOMAIN stack' = 1 .. Len(stack) + 1
        /\ \A i \in 1 .. Len(stack) : stack'[i] = s[i]
        /\ stack'[Len(stack) + 1] = [object |-> d, todo |-> {}]
    <3> HIDE DEF s
    <3> QED
      BY <1>a, <2>1, <2>2
  <2>4. \A i \in DOMAIN stack' :
           \/ /\ i \in 1 .. Len(stack)
              /\ stack'[i].object = stack[i].object
              /\ stack'[i].todo \subseteq stack[i].todo
           \/ i = Len(stack) + 1 /\ stack'[i].object = d /\ stack'[i].todo = {}
    <3> HIDE DEF s
    <3> QED
      BY <1>a, <2>2, <2>3
  <2>5. d \in deps[Top.object] /\ d \in born
    BY <1>a, <2>1 DEF Nested, Known
  <2> HIDE DEF s
  <2>6. Known' /\ Ranked'
    BY <1>a, <2>1, <2>4, <2>5 DEF Nested, Known, Ranked, Rank
  <2>7. Descending'
    <3>1. Rank(d) < Rank(Top.object) /\ Rank(d) \in Nat /\ Rank(Top.object) \in Nat
      BY <1>a, <2>5, RankFacts DEF Nested, Ranked
    <3>2. \A i \in 1 .. Len(stack) : Rank(stack[i].object) \in Nat
      BY <1>a, RankFacts DEF Frame
    <3>3. \A i \in 1 .. Len(stack) : Rank(d) < Rank(stack[i].object)
      <4> TAKE i \in 1 .. Len(stack)
      <4>1. CASE i = Len(stack)
        BY <1>a, <3>1, <4>1
      <4>2. CASE i < Len(stack)
        <5>1. Rank(Top.object) < Rank(stack[i].object)
          BY <1>a, <4>2 DEF Nested, Descending
        <5> QED
          BY <3>1, <3>2, <5>1
      <4>3. i = Len(stack) \/ i < Len(stack)
        <5>1. Len(stack) \in Nat
          BY <1>a
        <5> QED
          BY <5>1
      <4> QED
        BY <4>1, <4>2, <4>3
    <3> QED
      BY <1>a, <2>3, <2>4, <3>3 DEF Nested, Descending, Rank
  <2>8. Mutable'
    BY <1>a, <2>1, <2>3, <2>4 DEF Nested, Mutable, Entered
  <2>9. Incomplete'
    BY <1>a, <2>1, <2>3, <2>4 DEF Nested, Incomplete, Waiting, Complete, flags
  <2> QED
    BY <2>6, <2>7, <2>8, <2>9 DEF Nested
<1>5. CASE RefuseManual
  BY <1>0, <1>5, RaiseNested DEF RefuseManual
<1>6. CASE StartSteps
  <2>1. /\ at = "deps" /\ at' = "configure"
        /\ UNCHANGED <<born, deps, flags, stack>>
    BY <1>6 DEF StartSteps
  <2> QED
    BY <1>a, <2>1 DEF Nested, Known, Ranked, Rank, Descending, Mutable, Entered,
       Incomplete, Waiting, Complete, flags
<1>7. CASE StepSucceeds
  <2>1. /\ at \in Step /\ "ok" \in How /\ UNCHANGED <<born, deps>>
        /\ Effect(Top.object, at, "ok")
    BY <1>a, <1>7, StepEffect DEF StepSucceeds, How
  <2>2. CASE at = "strip"
    BY <1>0, <1>7, <2>1, <2>2, PopNested DEF StepSucceeds, Effect, flags
  <2>3. CASE at # "strip"
    <3>1. stack' = stack /\ at' \in {"build", "install", "strip"}
      BY <1>7, <2>1, <2>3 DEF StepSucceeds, After, Step
    <3>2. \A i \in DOMAIN stack : i < Len(stack) =>
             stack[i].object # Top.object
      <4>1. \A i \in 1 .. Len(stack) : Rank(stack[i].object) \in Nat
        BY <1>a, RankFacts DEF Frame
      <4> QED
        BY <1>a, <4>1 DEF Nested, Descending
    <3>3. \A x \in Objects \ {Top.object} : Complete(x)' <=> Complete(x)
      BY <2>1 DEF Effect, Complete
    <3>4. \A i \in 1 .. Len(stack) : stack[i].object \in Objects
      BY <1>a DEF Frame
    <3>5. Incomplete'
      BY <1>a, <3>1, <3>2, <3>3, <3>4 DEF Nested, Incomplete, Waiting, Complete
    <3>6. Mutable'
      BY <1>a, <2>1, <3>1 DEF Nested, Mutable, Entered, Step
    <3> QED
      BY <2>1, <3>1, <3>5, <3>6 DEF Nested, Known, Ranked, Rank, Descending
  <2> QED
    BY <2>2, <2>3
<1>8. CASE StepFails
  <2>1. PICK how \in How \ {"ok"} : Runs(Top.object, at, how) /\ Raise(how)
    BY <1>8 DEF StepFails
  <2>2. UNCHANGED flags
    BY <1>a, <1>8, <2>1, StepEffect DEF StepFails, Effect
  <2> QED
    BY <1>0, <1>8, <2>1, <2>2, RaiseNested DEF StepFails
<1> QED
  BY <1>1, <1>2, <1>3, <1>4, <1>5, <1>6, <1>7, <1>8 DEF Autobuild

-----------------------------------------------------------------------------
(* Flags, Makefiles and installations.                                     *)

LEMMA StepDone ==
    ASSUME NEW o, o \notin Cached, NEW step \in Step, Runs(o, step, "ok")
    PROVE  /\ step = "configure" => o \in configured' \cup Modules
           /\ step = "build" => o \in built'
           /\ step = "install" => o \in installed'
           /\ step = "strip" => o \in stripped' \cup Modules
<1> USE DEF Fails
<1>1. step = "configure" => o \in configured' \cup Modules
  BY DEF Runs, configure
<1>2. step = "build" => o \in built'
  BY DEF Runs, build
<1>3. step = "install" => o \in installed'
  BY DEF Runs, install
<1>4. step = "strip" => o \in stripped' \cup Modules
  BY DEF Runs, rpath_strip
<1> QED
  BY <1>1, <1>2, <1>3, <1>4

LEMMA StepLate ==
    ASSUME NEW o, NEW step \in {"install", "strip"}, NEW how, how # "ok",
           Runs(o, step, how), o \in installed \ Cached
    PROVE  o \in late'
BY DEF Runs

\* An object stops to count as replaced when it is installed with a Makefile
\* for the dependencies it has.
Renewed(o, step, how) ==
    /\ step = "install" /\ how = "ok"
    /\ o \in Modules \/ makefile[o] = deps[o]
    /\ replaced' = replaced \ {o}

LEMMA StepMade ==
    ASSUME TypeOK, Made, LinkedToInstalled, NEW o \in Objects, NEW step \in Step,
           NEW how \in How, Runs(o, step, how), deps' = deps,
           replaced' = replaced \/ Renewed(o, step, how)
    PROVE  Made' /\ LinkedToInstalled'
<1>0. Effect(o, step, how) /\ Kept(o) /\ installed \subseteq installed'
  BY StepEffect DEF Effect
<1>1. CASE UNCHANGED <<flags, makefile, linked, replaced>>
  BY <1>1 DEF Made, LinkedToInstalled, flags
<1>2. CASE /\ step = "configure" /\ deps[o] \subseteq installed
           /\ makefile' = [makefile EXCEPT ![o] = deps[o]]
           /\ UNCHANGED <<built, installed, linked, stripped, replaced>>
  <2>1. makefile'[o] = deps[o] /\ deps[o] # Absent
    BY <1>2, AbsentAssumption DEF TypeOK
  <2>2. \A x \in Objects \ {o} : makefile'[x] = makefile[x]
    BY <1>2 DEF TypeOK
  <2>3. Made'
    BY <1>2, <2>1, <2>2 DEF Made, TypeOK
  <2> QED
    BY <1>2, <2>3 DEF LinkedToInstalled
<1>3. CASE /\ step = "install" /\ Makeable(o)
           /\ installed' = installed \cup {o}
           /\ linked' = [linked EXCEPT ![o] =
                           IF o \in Modules THEN {} ELSE makefile[o]]
           /\ UNCHANGED <<configured, built, makefile>>
  <2>1. o \notin Modules => /\ makefile[o] # Absent /\ linked'[o] = makefile[o]
                            /\ makefile[o] \subseteq installed
                            /\ o \notin replaced' => makefile[o] = deps[o]
    BY <1>3 DEF Makeable, Made, TypeOK, Renewed
  <2>2. \A x \in Objects \ {o} : /\ linked'[x] = linked[x]
                                  /\ x \in replaced' <=> x \in replaced
    BY <1>3 DEF TypeOK, Renewed
  <2>3. Made'
    <3>1. ASSUME NEW x \in Objects \ Modules, makefile[x] # Absent
          PROVE  /\ makefile[x] \subseteq installed'
                 /\ x \notin replaced' => makefile[x] = deps[x]
      <4>1. CASE x # o
        BY <1>3, <2>2, <3>1, <4>1 DEF Made
      <4>2. CASE x = o
        BY <1>3, <2>1, <3>1, <4>2
      <4> QED
        BY <4>1, <4>2
    <3>2. \A x \in installed' \ Modules : makefile[x] # Absent
      BY <1>3, <2>1 DEF Made
    <3> QED
      BY <1>3, <3>1, <3>2 DEF Made
  <2>4. LinkedToInstalled'
    BY <1>3, <2>1, <2>2 DEF LinkedToInstalled, TypeOK
  <2> QED
    BY <2>3, <2>4
<1>4. CASE /\ step = "build" /\ built' = built \cup {o}
           /\ UNCHANGED <<configured, installed, disk, replaced>>
  BY <1>4 DEF Made, LinkedToInstalled, disk
<1>5. \/ UNCHANGED <<flags, makefile, linked, replaced>>
      \/ /\ step = "configure" /\ deps[o] \subseteq installed
         /\ makefile' = [makefile EXCEPT ![o] = deps[o]]
         /\ UNCHANGED <<built, installed, linked, stripped, replaced>>
      \/ /\ step = "install" /\ Makeable(o)
         /\ installed' = installed \cup {o}
         /\ linked' = [linked EXCEPT ![o] =
                         IF o \in Modules THEN {} ELSE makefile[o]]
         /\ UNCHANGED <<configured, built, makefile>>
      \/ /\ step = "build" /\ built' = built \cup {o}
         /\ UNCHANGED <<configured, installed, disk, replaced>>
  <2>1. CASE step = "configure"
    BY <2>1 DEF Runs, configure, disk, Renewed
  <2>2. CASE step = "build"
    BY <2>2 DEF Runs, build, disk, Renewed
  <2>3. CASE step = "install"
    BY <2>3 DEF Runs, install, Fails, Renewed
  <2>4. CASE step = "strip"
    BY <2>4 DEF Runs, rpath_strip, Renewed
  <2> QED
    BY <2>1, <2>2, <2>3, <2>4 DEF Step
<1> QED
  BY <1>1, <1>2, <1>3, <1>4, <1>5

\* Nothing of the project changes.
LEMMA Quiet ==
    ASSUME TypeOK, Chain, Made, LinkedToInstalled, UnstrippedExplained,
           at # "strip", at' \notin {"build", "install", "strip"},
           UNCHANGED <<deps, flags, disk, past>>
    PROVE  /\ Chain' /\ Made' /\ LinkedToInstalled' /\ UnstrippedExplained'
           /\ InStep'
<1> USE DEF flags, disk, past
<1>1. Chain' /\ Made' /\ LinkedToInstalled'
  BY DEF Chain, Made, LinkedToInstalled
<1>2. UnstrippedExplained'
  BY DEF UnstrippedExplained
<1>3. InStep'
  BY DEF InStep
<1> QED
  BY <1>1, <1>2, <1>3
-----------------------------------------------------------------------------
(* Answers.                                                                *)

Explained(o) ==
    \/ o \in byHand
    \/ o \in Modules /\ o \in built \ installed
    \/ o \notin Modules /\ o \in configured \ (built \cup installed)

LEMMA NoAnswerYet ==
    ASSUME answer' = NoAnswer
    PROVE  Silent' /\ ReturnedIsComplete' /\ RefusedExplained'
BY DEF NoAnswer, Silent, ReturnedIsComplete, RefusedExplained

LEMMA ReturnAnswer ==
    ASSUME TypeOK, Silent, at # "idle", Return,
           IF Top.object \in Modules
           THEN Top.object \in (built' \cap installed') \cup skip'
           ELSE Top.object \in configured' \cap built' \cap installed'
    PROVE  Silent' /\ ReturnedIsComplete' /\ RefusedExplained'
<1>1. CASE stack' = <<>>
  <2>1. at' = "idle" /\ answer' = [object |-> Top.object, how |-> "ok"]
    BY <1>1, Returns
  <2> QED
    BY <2>1 DEF Silent, ReturnedIsComplete, RefusedExplained
<1>2. CASE stack' # <<>>
  <2>1. answer' = NoAnswer
    BY <1>2, Returns DEF Silent
  <2> QED
    BY <2>1, NoAnswerYet
<1> QED
  BY <1>1, <1>2

LEMMA RaiseAnswer ==
    ASSUME TypeOK, Silent, at # "idle", NEW how \in {"called", "raised", "refused"},
           Raise(how), how = "refused" => Explained(Top.object) /\ UNCHANGED <<flags, byHand>>
    PROVE  Silent' /\ ReturnedIsComplete' /\ RefusedExplained'
<1>1. CASE /\ how = "called" /\ Top.object \in Modules
           /\ skip' = skip \cup {Top.object} /\ Return
  BY <1>1, ReturnAnswer
<1>2. CASE stack' = <<>> /\ at' = "idle" /\ skip' = skip
           /\ answer' = [object |-> Top.object, how |-> how]
  <2>1. answer'.object = Top.object /\ answer'.how = how
    BY <1>2
  <2>2. Silent' /\ ReturnedIsComplete'
    BY <1>2, <2>1 DEF Silent, ReturnedIsComplete
  <2>3. how = "refused" => RefusedExplained'
    BY <1>2, <2>1 DEF RefusedExplained, Explained, flags
  <2>4. how # "refused" => RefusedExplained'
    BY <2>1 DEF RefusedExplained
  <2> QED
    BY <2>2, <2>3, <2>4
<1> QED
  BY <1>1, <1>2, Raises

-----------------------------------------------------------------------------
(* The steps of the specification.                                         *)

LEMMA TestRest ==
    ASSUME TypeOK, Nested, Rest, Test PROVE Rest'
<1> USE DEF Rest
<1>1. ASSUME NEW o \in Objects, get_fresh(o) PROVE Rest'
  <2>1. /\ at = "idle" /\ UNCHANGED <<deps, flags, skip, disk, past, at, answer>>
    BY <1>1 DEF get_fresh, call
  <2>2. /\ Chain' /\ Made' /\ LinkedToInstalled' /\ UnstrippedExplained'
        /\ InStep'
    BY <2>1, Quiet
  <2>3. Silent' /\ ReturnedIsComplete' /\ RefusedExplained'
    BY <2>1 DEF Silent, ReturnedIsComplete, RefusedExplained, flags, past
  <2> QED
    BY <2>2, <2>3
<1>2. ASSUME NEW o \in Objects, NEW d \in Objects, Replace(o, d) PROVE Rest'
  <2>1. /\ at = "idle" /\ UNCHANGED <<flags, skip, disk, byHand, late, at, answer>>
        /\ replaced \subseteq replaced'
        /\ makefile[o] # Absent => o \in replaced'
        /\ \A x \in Objects \ {o} : deps'[x] = deps[x]
    BY <1>2 DEF Replace, Replaceable, Outdated, call, TypeOK
  <2>2. Made'
    BY <2>1 DEF Made, flags, disk
  <2>3. LinkedToInstalled'
    BY <2>1 DEF LinkedToInstalled, Made, flags, disk, TypeOK
  <2>4. Silent' /\ ReturnedIsComplete' /\ RefusedExplained' /\ Chain' /\ InStep'
    BY <2>1 DEF Silent, ReturnedIsComplete, RefusedExplained, Chain, InStep, flags
  <2>5. UnstrippedExplained'
    BY <2>1 DEF UnstrippedExplained, flags, disk
  <2> QED
    BY <2>2, <2>3, <2>4, <2>5
<1>3. ASSUME NEW o \in Objects, NEW step \in Step \ {"strip"}, Manual(o, step)
      PROVE Rest'
  <2>1. PICK how \in How : /\ Runs(o, step, how)
                           /\ byHand' = IF how = "ok" THEN byHand \cup {o}
                                                      ELSE byHand
    BY <1>3 DEF Manual
  <2>2. /\ at = "idle" /\ at' = "idle" /\ answer' = NoAnswer /\ deps' = deps
        /\ replaced' = replaced
    BY <1>3 DEF Manual
  <2>3. Effect(o, step, how) /\ Kept(o)
    BY <2>1, StepEffect
  <2>4. Silent' /\ ReturnedIsComplete' /\ RefusedExplained'
    BY <2>2, NoAnswerYet
  <2>5. Made' /\ LinkedToInstalled'
    BY <2>1, <2>2, StepMade
  <2>6. InStep'
    BY <2>2 DEF InStep
  <2>7. Chain'
    <3>1. CASE how = "ok"
      BY <2>1, <2>3, <3>1 DEF Chain, Effect
    <3>2. CASE how # "ok"
      BY <2>1, <2>3, <3>2 DEF Chain, Effect, flags
    <3> QED
      BY <3>1, <3>2
  <2>8. UnstrippedExplained'
    <3>1. \A x \in installed \ (Modules \cup stripped \cup byHand \cup late) : FALSE
      BY <2>2 DEF UnstrippedExplained
    <3>2. \A x \in installed' \ {o} : x \in installed
      BY <2>3 DEF Effect
    <3>3. installed' \subseteq Objects /\ byHand \subseteq byHand' /\ late \subseteq late'
      BY <2>1, <2>3 DEF Effect, Kept, TypeOK
    <3>4. o \in installed' => o \in Modules \cup stripped' \cup byHand' \cup late'
      <4>1. CASE how = "ok"
        BY <2>1, <4>1
      <4>2. CASE how # "ok" /\ o \in Cached
        BY <2>3, <3>1, <3>3, <4>2 DEF Effect, flags, disk
      <4>3. CASE how # "ok" /\ o \notin Cached /\ step = "install"
        BY <2>1, <2>3, <4>3, StepLate DEF Effect, flags
      <4>4. CASE how # "ok" /\ o \notin Cached /\ step # "install"
        <5>1. step \in {"configure", "build"}
          BY <4>4 DEF Step
        <5> QED
          BY <2>3, <3>1, <3>3, <4>4, <5>1 DEF Effect, flags
      <4> QED
        BY <4>1, <4>2, <4>3, <4>4
    <3>5. \A x \in installed' : x \in Modules \cup stripped' \cup byHand' \cup late'
      BY <2>3, <3>1, <3>2, <3>3, <3>4 DEF Kept
    <3> QED
      BY <3>5 DEF UnstrippedExplained
  <2> QED
    BY <2>4, <2>5, <2>6, <2>7, <2>8
<1>4. ASSUME NEW o \in Objects, autobuild(o) PROVE Rest'
  <2>1. /\ at = "idle" /\ at' = "enter" /\ answer' = NoAnswer
        /\ UNCHANGED <<deps, flags, skip, disk, past>>
    BY <1>4 DEF autobuild
  <2>2. /\ Chain' /\ Made' /\ LinkedToInstalled' /\ UnstrippedExplained'
        /\ InStep'
    BY <2>1, Quiet
  <2> QED
    BY <2>1, <2>2, NoAnswerYet
<1> QED
  BY <1>1, <1>2, <1>3, <1>4 DEF Test

\* The guard of line 177 is only met by what the property says.
LEMMA RefusalExplained ==
    ASSUME TypeOK, Nested, Chain, RefuseManual PROVE Explained(Top.object)
<1>1. /\ Len(stack) \in Nat \ {0} /\ DOMAIN stack = 1 .. Len(stack)
      /\ Top = stack[Len(stack)] /\ Top.object \in Objects
  BY StackFacts DEF RefuseManual
<1>2. Top.object \notin Cached /\ ~Complete(Top.object) /\ Odd(Top.object)
  BY <1>1 DEF Nested, Mutable, Entered, Incomplete, Waiting, RefuseManual
<1> QED
  BY <1>1, <1>2 DEF Explained, Chain, Complete, Odd

LEMMA SucceedsRest ==
    ASSUME TypeOK, Nested, Rest, StepSucceeds PROVE Rest'
<1> USE DEF Rest
<1> DEFINE o == Top.object
<1>1. /\ at # "idle" /\ at \in Step /\ "ok" \in How
      /\ deps' = deps /\ byHand' = byHand /\ skip' = skip
      /\ Runs(o, at, "ok")
  BY DEF StepSucceeds, Step, How
<1>2. /\ o \in Objects /\ o \notin Cached
      /\ Len(stack) \in Nat \ {0} /\ DOMAIN stack = 1 .. Len(stack)
      /\ Top = stack[Len(stack)]
  BY <1>1, StackFacts DEF Nested, Mutable, Entered, Step
<1> HIDE DEF o
<1>3. Effect(o, at, "ok") /\ Kept(o)
  BY <1>1, <1>2, StepEffect
<1>4. /\ at = "configure" => o \in configured' \cup Modules
      /\ at = "build" => o \in built'
      /\ at = "install" => o \in installed'
      /\ at = "strip" => o \in stripped' \cup Modules
  BY <1>1, <1>2, StepDone
<1>5. Made' /\ LinkedToInstalled'
  <2>1. replaced' = replaced \/ Renewed(o, at, "ok")
    BY DEF StepSucceeds, InStep, Renewed, o
  <2> QED
    BY <1>1, <1>2, <2>1, StepMade
<1>6. Chain'
  <2>1. /\ at \in {"build", "install", "strip"} => o \in configured \cup Modules
        /\ at \in {"install", "strip"} => o \in built
    BY DEF InStep, o
  <2>2. configured' \cap Modules = {}
    BY <1>3 DEF Chain, Effect
  <2>3. ASSUME NEW x \in Objects \ (Cached \cup byHand')
        PROVE  /\ x \in installed' => x \in built'
               /\ x \in built' => x \in configured' \cup Modules
    <3>1. CASE x # o
      BY <1>1, <1>3, <2>3, <3>1 DEF Chain, Effect
    <3>2. CASE x = o
      BY <1>1, <1>3, <2>1, <2>3, <3>2 DEF Chain, Effect, Step
    <3> QED
      BY <3>1, <3>2
  <2> QED
    BY <2>2, <2>3 DEF Chain
<1>7. CASE at # "strip"
  <2>1. /\ stack' = stack /\ answer' = answer
        /\ at' = After[at] /\ Top' = Top
    BY <1>7 DEF StepSucceeds, Top
  <2>2. Silent' /\ ReturnedIsComplete' /\ RefusedExplained'
    BY <1>1, <2>1, NoAnswerYet DEF Silent
  <2>3. InStep'
    <3>1. /\ configured \subseteq configured' /\ built \subseteq built'
          /\ installed \subseteq installed'
      BY <1>3 DEF Effect
    <3>2. \/ at = "configure" /\ at' = "build"
          \/ at = "build" /\ at' = "install"
          \/ at = "install" /\ at' = "strip"
      BY <1>1, <1>7, <2>1 DEF After, Step
    <3>3. Top'.object = o
      BY <2>1 DEF o
    <3>4. /\ at \in {"build", "install"} => o \in configured \cup Modules
          /\ at = "install" => o \in built
      BY DEF InStep, o
    <3>5. at \in {"configure", "build"} => o \in Modules \/ makefile'[o] = deps'[o]
      <4>1. CASE at = "configure"
        BY <1>1, <1>2, <4>1 DEF Runs, configure, TypeOK, Fails
      <4>2. CASE at = "build"
        BY <1>1, <1>3, <4>2 DEF InStep, Effect, o
      <4> QED
        BY <4>1, <4>2
    <3> QED
      BY <1>4, <3>1, <3>2, <3>3, <3>4, <3>5 DEF InStep
  <2>4. UnstrippedExplained'
    <3>1. \A x \in installed' : x \in Objects
      BY <1>2, <1>3 DEF Effect, TypeOK
    <3>2. \A x \in installed' \ {o} :
             x \in Modules \cup stripped' \cup byHand' \cup late'
      BY <1>1, <1>3, <1>7, <3>1 DEF Effect, Kept, UnstrippedExplained
    <3>3. CASE at = "install"
      <4>1. at' = "strip" /\ Top'.object = o
        BY <2>1, <3>3 DEF After, o
      <4> QED
        BY <3>2, <4>1 DEF UnstrippedExplained
    <3>4. CASE at # "install"
      <4>1. installed' = installed /\ stripped' = stripped /\ late \subseteq late'
        BY <1>1, <1>3, <1>7, <3>4 DEF Effect, Kept, Step
      <4> QED
        BY <1>1, <1>7, <4>1 DEF UnstrippedExplained
    <3> QED
      BY <3>3, <3>4
  <2> QED
    BY <1>5, <1>6, <2>2, <2>3, <2>4
<1>8. CASE at = "strip"
  <2>1. Return
    BY <1>8 DEF StepSucceeds
  <2>2. UNCHANGED flags
    BY <1>3, <1>8 DEF Effect, flags
  <2>3. IF o \in Modules THEN o \in (built' \cap installed') \cup skip'
        ELSE o \in configured' \cap built' \cap installed'
    BY <1>8, <2>2 DEF InStep, flags, o
  <2>4. Silent' /\ ReturnedIsComplete' /\ RefusedExplained'
    BY <1>1, <2>1, <2>3, ReturnAnswer DEF o
  <2>5. at' \in {"idle", "deps"}
    BY <1>1, <2>1, Returns
  <2>6. InStep'
    BY <2>5 DEF InStep
  <2>7. UnstrippedExplained'
    <3>1. \A x \in installed \ (Modules \cup stripped \cup byHand \cup late) : x = o
      BY DEF UnstrippedExplained, o
    <3>2. installed \subseteq Objects /\ late \subseteq late'
      BY <1>3 DEF Kept, TypeOK
    <3>3. o \in Modules \cup stripped' /\ installed' = installed
      BY <1>4, <1>8, <2>2 DEF flags
    <3> QED
      BY <1>1, <1>3, <3>1, <3>2, <3>3 DEF UnstrippedExplained, Kept
  <2> QED
    BY <1>5, <1>6, <2>4, <2>6, <2>7
<1> QED
  BY <1>7, <1>8

LEMMA FailsRest ==
    ASSUME TypeOK, Nested, Rest, StepFails PROVE Rest'
<1> USE DEF Rest
<1> DEFINE o == Top.object
<1>0. PICK how \in How \ {"ok"} : Runs(Top.object, at, how) /\ Raise(how)
  BY DEF StepFails
<1>1. /\ at # "idle" /\ at \in Step /\ deps' = deps /\ byHand' = byHand
      /\ replaced' = replaced
      /\ Runs(o, at, how) /\ how \in {"called", "raised"}
  BY <1>0 DEF StepFails, Step, How
<1>2. o \in Objects /\ o \notin Cached
  BY <1>1, StackFacts DEF Nested, Mutable, Entered, Step
<1> HIDE DEF o
<1>3. Effect(o, at, how) /\ Kept(o) /\ UNCHANGED flags
  BY <1>0, <1>1, <1>2, StepEffect DEF Effect
<1>4. Made' /\ LinkedToInstalled'
  BY <1>0, <1>1, <1>2, StepMade
<1>5. Chain'
  BY <1>1, <1>3 DEF Chain, flags
<1>6. Silent' /\ ReturnedIsComplete' /\ RefusedExplained'
  BY <1>0, <1>1, RaiseAnswer
<1>7. at' \in {"idle", "deps"}
  BY <1>0, <1>1, RaiseTyped
<1>8. InStep'
  BY <1>7 DEF InStep
<1>9. UnstrippedExplained'
  <2>1. \A x \in installed \ (Modules \cup stripped \cup byHand \cup late) : x = o
    BY DEF UnstrippedExplained, o
  <2>2. installed \subseteq Objects /\ installed' = installed /\ late \subseteq late'
    BY <1>3 DEF Kept, TypeOK, flags
  <2>3. \A x \in installed' \ {o} :
           x \in Modules \cup stripped' \cup byHand' \cup late'
    BY <1>1, <1>3, <2>1, <2>2 DEF Kept
  <2>4. o \in installed => o \in Modules \cup stripped' \cup byHand' \cup late'
    <3>1. CASE at \in {"install", "strip"}
      BY <1>1, <1>2, <3>1, StepLate
    <3>2. CASE at \in {"configure", "build"}
      <4>1. stripped' = stripped
        BY <1>3, <3>2 DEF Effect
      <4> QED
        BY <1>1, <2>2, <3>2, <4>1 DEF UnstrippedExplained
    <3> QED
      BY <1>1, <3>1, <3>2 DEF Step
  <2> QED
    BY <2>2, <2>3, <2>4 DEF UnstrippedExplained
<1> QED
  BY <1>4, <1>5, <1>6, <1>8, <1>9

LEMMA AutobuildRest ==
    ASSUME TypeOK, Nested, Rest, Autobuild PROVE Rest'
<1> USE DEF Rest
<1>1. CASE EnterComplete
  <2>1. /\ at # "idle" /\ at # "strip" /\ Return /\ Complete(Top.object)
        /\ UNCHANGED <<deps, flags, skip, disk, past>>
    BY <1>1 DEF EnterComplete
  <2>2. at' \in {"idle", "deps"}
    BY <2>1, Returns
  <2>3. IF Top.object \in Modules
        THEN Top.object \in (built' \cap installed') \cup skip'
        ELSE Top.object \in configured' \cap built' \cap installed'
    BY <2>1 DEF Complete, flags
  <2> QED
    BY <2>1, <2>2, <2>3, Quiet, ReturnAnswer
<1>2. CASE EnterImmutable
  <2>1. /\ at # "idle" /\ at # "strip" /\ Raise("raised")
        /\ UNCHANGED <<deps, flags, disk, past>>
    BY <1>2 DEF EnterImmutable
  <2>2. at' \in {"idle", "deps"}
    BY <2>1, RaiseTyped DEF How
  <2> QED
    BY <2>1, <2>2, Quiet, RaiseAnswer
<1>3. CASE \/ Enter \/ StartSteps \/ \E d \in Objects : AutobuildDependency(d)
  <2>1. /\ at \in {"enter", "deps"} /\ at' \in {"enter", "deps", "configure"}
        /\ answer' = answer /\ UNCHANGED <<deps, flags, disk, past>>
    BY <1>3 DEF Enter, StartSteps, AutobuildDependency
  <2>2. answer' = NoAnswer
    BY <2>1 DEF Silent
  <2> QED
    BY <2>1, <2>2, Quiet, NoAnswerYet
<1>4. CASE RefuseManual
  <2>1. /\ at # "idle" /\ at # "strip" /\ Raise("refused")
        /\ UNCHANGED <<deps, flags, disk, past>>
    BY <1>4 DEF RefuseManual
  <2>2. at' \in {"idle", "deps"}
    BY <2>1, RaiseTyped
  <2>3. Explained(Top.object) /\ byHand' = byHand
    BY <1>4, <2>1, RefusalExplained DEF past
  <2> QED
    BY <2>1, <2>2, <2>3, Quiet, RaiseAnswer
<1> QED
  BY <1>1, <1>2, <1>3, <1>4, SucceedsRest, FailsRest DEF Autobuild

LEMMA Initially == ASSUME Init PROVE TypeOK /\ Nested /\ Rest
<1> USE DEF Init
<1>1. TypeOK
  <2>1. deps \in [Objects -> SUBSET Objects]
    BY DepsAssumption DEF Objects
  <2>2. /\ makefile \in [Objects -> {Absent} \cup SUBSET Objects]
        /\ linked \in [Objects -> {Absent} \cup SUBSET Objects]
    BY DepsAssumption DEF Objects
  <2>3. answer \in [object : Objects \cup {Absent},
                    how : How \cup {"none", "refused"}]
    BY DEF NoAnswer
  <2>4. stack \in Seq([object : Objects, todo : SUBSET Objects])
    OBVIOUS
  <2> QED
    BY <2>1, <2>2, <2>3, <2>4 DEF TypeOK, Objects
<1>2. Nested
  <2>1. DOMAIN stack = {}
    OBVIOUS
  <2>2. \A o \in Objects : deps[o] \subseteq born
    BY DepsAssumption
  <2>3. Ranked
    BY RankFacts DEF Ranked
  <2> QED
    BY <2>1, <2>2, <2>3 DEF Nested, Known, Descending, Mutable, Incomplete
<1>3. Silent /\ InStep /\ ReturnedIsComplete /\ RefusedExplained
  BY DEF Silent, InStep, ReturnedIsComplete, RefusedExplained, NoAnswer
<1>4. Chain
  BY DEF Chain, Objects
<1>5. Made /\ LinkedToInstalled
  <2>1. \A o \in Objects : DefaultDeps[o] \subseteq Cached \ Modules
    BY DepsAssumption
  <2>2. /\ Cached \ Modules \subseteq installed
        /\ installed \ Modules \subseteq Cached \ Modules
        /\ Cached \subseteq Objects
    BY DEF Objects
  <2>3. \A o \in Cached \ Modules : DefaultDeps[o] # Absent
    BY DepsAssumption, AbsentAssumption DEF Objects
  <2>4. \A o \in Objects : makefile[o] # Absent => o \in Cached \ Modules
    OBVIOUS
  <2>5. \A o \in Cached \ Modules : /\ makefile[o] = DefaultDeps[o]
                                    /\ linked[o] = DefaultDeps[o]
    BY DEF Objects
  <2>6. Made
    BY <2>1, <2>2, <2>3, <2>4, <2>5 DEF Made
  <2>7. LinkedToInstalled
    BY <2>1, <2>2, <2>5 DEF LinkedToInstalled
  <2> QED
    BY <2>6, <2>7
<1>6. UnstrippedExplained
  BY DEF UnstrippedExplained
<1> QED
  BY <1>1, <1>2, <1>3, <1>4, <1>5, <1>6 DEF Rest

LEMMA Invariance == Spec => []Inv
<1>1. Init => Inv
  BY Initially DEF Inv
<1>2. Inv /\ [Next]_vars => Inv'
  <2>1. CASE Test
    BY <2>1, TestTyped, TestNested, TestRest DEF Inv
  <2>2. CASE Autobuild
    BY <2>2, AutobuildTyped, AutobuildNested, AutobuildRest DEF Inv
  <2>3. ASSUME Inv, UNCHANGED vars PROVE Inv'
    <3> USE <2>3 DEF vars, flags, disk, call, past
    <3>1. TypeOK'
      BY DEF Inv, TypeOK
    <3>2. Nested'
      BY DEF Inv, Nested, Known, Ranked, Rank, Descending, Mutable, Entered,
         Incomplete, Waiting, Complete
    <3>3. Silent' /\ InStep' /\ Chain' /\ Made'
      BY DEF Inv, Rest, Silent, InStep, Top, Chain, Made
    <3>4. /\ ReturnedIsComplete' /\ UnstrippedExplained'
          /\ LinkedToInstalled' /\ RefusedExplained'
      BY DEF Inv, Rest, ReturnedIsComplete, UnstrippedExplained, Top,
         LinkedToInstalled, RefusedExplained
    <3> QED
      BY <3>1, <3>2, <3>3, <3>4 DEF Inv, Rest
  <2> QED
    BY <2>1, <2>2, <2>3 DEF Next
<1> QED
  BY <1>1, <1>2, PTL DEF Spec
-----------------------------------------------------------------------------
(* The flags and directories of all objects, and the calls, are what the   *)
(* constructors and steps may make of them (project.py:37-420).            *)
THEOREM ObjectsTyped == Spec => []TypeOK
<1>1. Inv => TypeOK
  BY DEF Inv
<1> QED
  BY <1>1, Invariance, PTL

(* After any steps, failures and retries, an autobuild that returns leaves *)
(* a complete project, or lttng-modules to be skipped (project.py:163-205, *)
(* 391-395).                                                               *)
THEOREM AutobuildCompletes == Spec => []ReturnedIsComplete
<1>1. Inv => ReturnedIsComplete
  BY DEF Inv, Rest
<1> QED
  BY <1>1, Invariance, PTL

(* The rpath stays in an installed project only where the test ran a step  *)
(* or a step failed after isInstalled was set (project.py:302-353).        *)
THEOREM UnstrippedOnlyThen == Spec => []UnstrippedExplained
<1>1. Inv => UnstrippedExplained
  BY DEF Inv, Rest
<1> QED
  BY <1>1, Invariance, PTL

(* An installed project was linked to installed dependencies, and to those *)
(* it has now unless one was replaced after a configure and no autobuild   *)
(* has installed the project since (project.py:177-189, 242-246).          *)
THEOREM LinkedAsConfigured == Spec => []LinkedToInstalled
<1>1. Inv => LinkedToInstalled
  BY DEF Inv, Rest
<1> QED
  BY <1>1, Invariance, PTL

(* autobuild refuses a project only after a step of the test or a make     *)
(* that failed (project.py:177-178).                                       *)
THEOREM RefusesOnlyThen == Spec => []RefusedExplained
<1>1. Inv => RefusedExplained
  BY DEF Inv, Rest
<1> QED
  BY <1>1, Invariance, PTL

-----------------------------------------------------------------------------
(* The objects of the cache.                                               *)

LEMMA StepUntouched ==
    ASSUME Inv, NEW o \in Objects, NEW step \in Step, NEW how \in How,
           Runs(o, step, how), o \in Cached => step # "strip", deps' = deps
    PROVE  CacheUntouched
<1>1. TypeOK /\ Effect(o, step, how) /\ Kept(o)
  BY StepEffect DEF Inv
<1>2. CASE o \in Cached
  BY <1>1, <1>2 DEF Effect, flags, disk, CacheUntouched
<1>3. CASE o \notin Cached
  <2>1. /\ configured' \cap Cached = configured \cap Cached
        /\ built' \cap Cached = built \cap Cached
        /\ installed' \cap Cached = installed \cap Cached
    BY <1>1, <1>3 DEF Effect
  <2>2. /\ \A x \in Cached : linked'[x] = linked[x]
        /\ stripped \cap Cached \subseteq stripped'
    BY <1>1, <1>3 DEF Kept, Objects
  <2> QED
    BY <2>1, <2>2 DEF CacheUntouched
<1> QED
  BY <1>2, <1>3

LEMMA NextUntouched == ASSUME Inv, Next PROVE CacheUntouched
<1>1. ASSUME NEW o \in Objects, NEW d \in Objects, Replace(o, d)
      PROVE  CacheUntouched
  <2>1. o \notin Cached
    BY <1>1, ObjectsAssumption DEF Replace, Replaceable
  <2>2. \A x \in Cached : deps'[x] = deps[x]
    BY <1>1, <2>1 DEF Replace, Inv, TypeOK, Objects
  <2> QED
    BY <1>1, <2>2 DEF Replace, CacheUntouched, flags, disk
<1>2. ASSUME NEW o \in Objects, NEW step \in Step \ {"strip"}, Manual(o, step)
      PROVE  CacheUntouched
  <2>1. PICK how \in How : Runs(o, step, how)
    BY <1>2 DEF Manual
  <2> QED
    BY <1>2, <2>1, StepUntouched DEF Manual
<1>3. CASE StepSucceeds \/ StepFails
  <2>1. PICK how \in How : Runs(Top.object, at, how)
    BY <1>3 DEF StepSucceeds, StepFails, How
  <2>2. at # "idle" /\ at \in Step /\ deps' = deps
    BY <1>3 DEF StepSucceeds, StepFails, Step
  <2>3. Top.object \in Objects \ Cached
    BY <2>2, StackFacts DEF Inv, Nested, Mutable, Entered, Step
  <2> QED
    BY <2>1, <2>2, <2>3, StepUntouched
<1>4. CASE UNCHANGED <<deps, flags, disk>>
  BY <1>4 DEF CacheUntouched, flags, disk
<1> QED
  BY <1>1, <1>2, <1>3, <1>4 DEF Next, Test, Autobuild, get_fresh, autobuild,
     EnterComplete, EnterImmutable, Enter, AutobuildDependency, RefuseManual,
     StartSteps

(* Whatever a test calls, the projects of the cache that other tests share *)
(* stay as they are (_immutable, project.py:169, 208, 238, 277, 307).      *)
THEOREM CacheStaysUntouched == Spec => ImmutableUntouched
<1>1. Inv /\ [Next]_vars => [CacheUntouched]_vars
  BY NextUntouched
<1> QED
  BY <1>1, Invariance, PTL DEF Spec, ImmutableUntouched
-----------------------------------------------------------------------------
(* The environment.                                                        *)

Unique == \A o \in Objects : \A d, e \in deps[o] :
             ProjectOf[d] = ProjectOf[e] => d = e

LEMMA UniqueStep == ASSUME Inv, Unique, Next PROVE Unique'
<1>1. ASSUME NEW o \in Objects, NEW d \in Objects, Replace(o, d) PROVE Unique'
  BY <1>1 DEF Replace, Unique, Inv, TypeOK
<1>2. CASE UNCHANGED deps
  BY <1>2 DEF Unique
<1> QED
  BY <1>1, <1>2 DEF Next, Test, Autobuild, get_fresh, Manual, autobuild,
     EnterComplete, EnterImmutable, Enter, AutobuildDependency, RefuseManual,
     StartSteps, StepSucceeds, StepFails

\* Two projects have no special variable in common.
LEMMA SpecialApart ==
    ASSUME NEW a \in Objects, NEW b \in Objects, ProjectOf[a] # ProjectOf[b]
    PROVE  Special(a) \cap Special(b) = {}
<1>1. /\ \A o \in Agent : ProjectOf[o] = "lttng-ust"
      /\ ProjectOf[a] \in DOMAIN OwnVars /\ ProjectOf[b] \in DOMAIN OwnVars
  BY ObjectsAssumption DEF Of
<1>2. \A p, q \in DOMAIN OwnVars : p # q => OwnVars[p] \cap OwnVars[q] = {}
  BY DEF OwnVars
<1>3. \A p \in DOMAIN OwnVars : "PYTHONPATH" \notin OwnVars[p]
  BY DEF OwnVars
<1>4. /\ Special(a) \subseteq OwnVars[ProjectOf[a]] \cup {"PYTHONPATH"}
      /\ "PYTHONPATH" \in Special(a) => ProjectOf[a] = "lttng-ust"
      /\ Special(b) \subseteq OwnVars[ProjectOf[b]] \cup {"PYTHONPATH"}
      /\ "PYTHONPATH" \in Special(b) => ProjectOf[b] = "lttng-ust"
  BY <1>1, <1>3 DEF Special
<1> QED
  BY <1>1, <1>2, <1>4

LEMMA ConflictsExplained == ASSUME Inv, Unique PROVE ConflictsAreTheUsers
<1>1. SUFFICES ASSUME NEW o \in born, EnvRaises(o)
               PROVE  \E p \in deps[o] \cup {o} : Special(p) \cap environ # {}
  BY DEF ConflictsAreTheUsers
<1>2. o \in Objects /\ deps[o] \subseteq Objects
  BY DEF Inv, TypeOK
<1>3. \A d \in deps[o] : Special(d) \cap Special(o) = {}
  <2> TAKE d \in deps[o]
  <2>1. Rank(d) < Rank(o) /\ Rank(d) \in Nat /\ Rank(o) \in Nat
    BY <1>2, RankFacts DEF Inv, Nested, Ranked
  <2>2. Rank(d) # Rank(o)
    BY <2>1
  <2>3. ProjectOf[d] # ProjectOf[o]
    BY <2>2 DEF Rank
  <2> QED
    BY <1>2, <2>3, SpecialApart
<1>4. \A d, e \in deps[o] : d # e => Special(d) \cap Special(e) = {}
  BY <1>2, SpecialApart DEF Unique
<1> QED
  BY <1>1, <1>3, <1>4 DEF EnvRaises

(* get_env raises only over a variable of the user: a project never        *)
(* defines one its dependencies define (project.py:116-161).               *)
THEOREM ConflictsOfTheUser == Spec => []ConflictsAreTheUsers
<1>1. Init => Unique
  BY DepsAssumption DEF Init, Unique
<1>2. Inv /\ Unique /\ [Next]_vars => Unique'
  <2>1. CASE UNCHANGED vars
    BY <2>1 DEF vars, Unique
  <2> QED
    BY <2>1, UniqueStep
<1>3. Inv /\ Unique => ConflictsAreTheUsers
  BY ConflictsExplained
<1> QED
  BY <1>1, <1>2, <1>3, Invariance, PTL DEF Spec
=============================================================================
