---------------------------- MODULE ProjectObject ----------------------------
(***************************************************************************)
(* utils/project.py: the Project objects a test works with.  get_fresh     *)
(* gives it objects of its own, whose dependencies are immutable objects   *)
(* of the cache until the test replaces them; it then calls autobuild() or *)
(* single steps of the build, in any order and again after a failure.      *)
(*                                                                         *)
(* The three flags of an object say which steps succeeded.  What is on the *)
(* disk is kept apart from them: the Makefiles of the last configure, what *)
(* the installation was linked to and whether it is stripped of its rpath, *)
(* without which LD_LIBRARY_PATH does not choose what a test runs.         *)
(***************************************************************************)
EXTENDS Naturals, Sequences, FiniteSets

CONSTANTS
    Fresh,       \* objects a test may get from get_fresh
    Cached,      \* objects of the cache, immutable
    ProjectOf,   \* object -> its project, the key it has as a dependency
    DefaultDeps, \* object -> the dependencies get_fresh, get_precook gave it
    Agent,       \* versions of lttng-ust that install the Python agent
    Babeltrace2, \* versions of babeltrace that install bin/babeltrace2
    UserVars,    \* variables the user may have in the environment
    MaxFresh,    \* how many fresh objects a test gets
    Absent       \* no Makefile, no installation

Objects == Fresh \cup Cached
Of(project) == {o \in Objects : ProjectOf[o] = project}
Modules == Of("lttng-modules")

\* add_special_env_variable in the constructors of the three classes.
OwnVars == [p \in {"babeltrace", "lttng-modules", "lttng-tools", "lttng-ust",
                   "urcu"} |->
              CASE p = "lttng-modules" -> {"MODPROBE_OPTIONS"}
                [] p = "lttng-ust"     -> {"CLASSPATH"}
                [] p = "lttng-tools"   -> {"LTTNG_SESSION_CONFIG_XSD_PATH"}
                [] OTHER               -> {}]

ASSUME ObjectsAssumption ==
    /\ Fresh \cap Cached = {}
    /\ ProjectOf \in [Objects -> DOMAIN OwnVars]
    /\ Agent \subseteq Of("lttng-ust")
    /\ Babeltrace2 \subseteq Of("babeltrace")
    /\ MaxFresh \in Nat

\* Those of config.yaml: lttng-modules depends on nothing and nothing on it,
\* a project is a dependency once, and there is no cycle of projects.
ASSUME DepsAssumption ==
    /\ DefaultDeps \in [Objects -> SUBSET (Cached \ Modules)]
    /\ \A m \in Modules : DefaultDeps[m] = {}
    /\ \A o \in Objects : \A d, e \in DefaultDeps[o] :
          ProjectOf[d] = ProjectOf[e] => d = e
    /\ \E rank \in [DOMAIN OwnVars -> 0 .. 4] :
          \A o \in Objects : \A d \in DefaultDeps[o] :
             rank[ProjectOf[d]] < rank[ProjectOf[o]]

ASSUME AbsentAssumption == \A S \in SUBSET Objects : S # Absent
-----------------------------------------------------------------------------
VARIABLES
    environ,    \* special variables in os.environ
    born,       \* the objects that exist
    deps,       \* object -> its dependencies
    configured, built, installed, \* isConfigured, isBuilt, isInstalled
    skip,       \* those whose `skip' is set
    makefile,   \* object -> what its Makefiles were configured against
    linked,     \* object -> what its installation was linked to
    stripped,   \* those whose installation has no rpath
    stack,      \* the nested autobuild calls, the innermost last
    at,         \* the statement of the innermost one
    answer,     \* how the last autobuild ended, and for which object
    byHand,     \* those a step of which the test ran itself
    late,       \* those whose install or strip failed after isInstalled was set
    replaced    \* those a dependency of which was replaced after a configure,
                \* and which no autobuild has installed since

flags == <<configured, built, installed>>
disk  == <<makefile, linked, stripped>>
call  == <<stack, at, answer>>
past  == <<byHand, late, replaced>>
vars  == <<environ, born, deps, flags, skip, disk, call, past>>

Step == {"configure", "build", "install", "strip"}
How  == {"ok", "called", "raised"}  \* "called": a CalledProcessError
NoAnswer == [object |-> Absent, how |-> "none"]

TypeOK ==
    /\ environ \subseteq UserVars
    /\ born \subseteq Objects
    /\ deps \in [Objects -> SUBSET Objects]
    /\ configured \subseteq born /\ built \subseteq born /\ installed \subseteq born
    /\ skip \subseteq Modules
    /\ makefile \in [Objects -> {Absent} \cup SUBSET Objects]
    /\ linked \in [Objects -> {Absent} \cup SUBSET Objects]
    /\ stripped \subseteq born
    /\ stack \in Seq([object : Objects, todo : SUBSET Objects])
    /\ at \in Step \cup {"idle", "enter", "deps"}
    /\ at = "idle" <=> stack = <<>>
    /\ answer \in [object : Objects \cup {Absent},
                   how : How \cup {"none", "refused"}]
    /\ byHand \subseteq born /\ late \subseteq born /\ replaced \subseteq born
-----------------------------------------------------------------------------
(* get_env: a variable defined twice raises.                               *)
Special(o) == OwnVars[ProjectOf[o]]
                \cup IF o \in Agent \cap installed THEN {"PYTHONPATH"} ELSE {}

EnvRaises(o) ==
    \/ Special(o) \cap environ # {}
    \/ \E d \in deps[o] : Special(d) \cap (environ \cup Special(o)) # {}
    \/ \E d, e \in deps[o] : d # e /\ Special(d) \cap Special(e) # {}

Immutable(o) == o \in Cached

\* Mutant: the installation of a project does not count.
CompleteUninstalled(o) == o \in configured \cap built

Complete(o) == o \in configured \cap built \cap installed
\* Mutant: any step that was done.
AnyStep(o) == o \in configured \cup built \cup installed

\* isConfigured ^ isBuilt ^ isInstalled
Odd(o) == (o \in configured) # ((o \in built) # (o \in installed))

(* The steps.  Each may fail by itself, a command that is missing raising  *)
(* another exception than one that fails.                                  *)
Fails(o, how, illegal) ==
    /\ how # "ok"
    /\ illegal => how = "raised"

\* For lttng-modules it does nothing, and sets no flag either.
configure(o, how) ==
    LET illegal == \/ Immutable(o)
                   \/ ~(deps[o] \subseteq installed)
                   \/ EnvRaises(o)
    IN  \/ o \in Modules /\ how = "ok" /\ UNCHANGED <<flags, disk>>
        \/ o \notin Modules /\ Fails(o, how, illegal) /\ UNCHANGED <<flags, disk>>
        \/ /\ o \notin Modules
           /\ how = "ok"
           /\ ~illegal
           /\ configured' = configured \cup {o}
           /\ makefile' = [makefile EXCEPT ![o] = deps[o]]
           /\ UNCHANGED <<built, installed, linked, stripped>>

Makeable(o) == o \in Modules \/ makefile[o] # Absent

build(o, how) ==
    LET illegal == Immutable(o) \/ EnvRaises(o)
    IN  \/ Fails(o, how, illegal) /\ UNCHANGED <<flags, disk>>
        \/ /\ how = "ok"
           /\ ~illegal
           /\ Makeable(o)
           /\ built' = built \cup {o}
           /\ UNCHANGED <<configured, installed, disk>>

\* Mutant: _immutable is not looked at.
installAnyone(o, how) ==
    \/ Fails(o, how, EnvRaises(o)) /\ UNCHANGED <<flags, disk>>
    \/ /\ how = IF o \in installed \cap (Agent \cup Babeltrace2) THEN "raised" ELSE "ok"
       /\ ~EnvRaises(o)
       /\ Makeable(o)
       /\ installed' = installed \cup {o}
       /\ linked' = [linked EXCEPT ![o] =
                       IF o \in Modules THEN {} ELSE makefile[o]]
       /\ stripped' = stripped \ {o}
       /\ UNCHANGED <<configured, built, makefile>>

\* Mutant: isInstalled is set before make install.
installEarly(o, how) ==
    /\ ~(Immutable(o) \/ EnvRaises(o))
    /\ how = "ok" => Makeable(o)
    /\ how = "ok" \/ o \notin installed
    /\ installed' = installed \cup {o}
    /\ linked' = [linked EXCEPT ![o] =
                    IF how # "ok" THEN @ ELSE IF o \in Modules THEN {} ELSE makefile[o]]
    /\ stripped' = stripped \ {o}
    /\ UNCHANGED <<configured, built, makefile>>

\* Installed files have an rpath again, perhaps also those of an install
\* that fails.  On success the files are there and the flag is set; then a
\* second installation of babeltrace 2 finds its symbolic link and one of
\* lttng-ust its PYTHONPATH, and raises.
install(o, how) ==
    LET illegal == Immutable(o) \/ EnvRaises(o)
        again   == o \in installed \cap (Agent \cup Babeltrace2)
    IN  \/ /\ Fails(o, how, illegal)
           /\ stripped' \in IF illegal THEN {stripped}
                                       ELSE {stripped, stripped \ {o}}
           /\ UNCHANGED <<flags, makefile, linked>>
        \/ /\ how = IF again THEN "raised" ELSE "ok"
           /\ ~illegal
           /\ Makeable(o)
           /\ installed' = installed \cup {o}
           /\ linked' = [linked EXCEPT ![o] =
                           IF o \in Modules THEN {} ELSE makefile[o]]
           /\ stripped' = stripped \ {o}
           /\ UNCHANGED <<configured, built, makefile>>

\* No check of _immutable.
rpath_strip(o, how) ==
    /\ o \in Modules => how = "ok"
    /\ stripped' = IF how = "ok" /\ o \notin Modules THEN stripped \cup {o}
                                                     ELSE stripped
    /\ UNCHANGED <<flags, makefile, linked>>

Runs(o, step, how) ==
    /\ \/ step = "configure" /\ configure(o, how)
       \/ step = "build" /\ build(o, how)
       \/ step = "install" /\ install(o, how)
       \/ step = "strip" /\ rpath_strip(o, how)
    /\ late' = IF how # "ok" /\ step \in {"install", "strip"} /\ o \in installed \ Cached
               THEN late \cup {o} ELSE late
-----------------------------------------------------------------------------
Init ==
    /\ environ \in SUBSET UserVars
    /\ born = Cached
    /\ deps = DefaultDeps
    /\ skip \in SUBSET (Cached \cap Modules)
    /\ configured = Cached \ Modules
    /\ built = Cached \ skip /\ installed = Cached \ skip
    /\ makefile = [o \in Objects |->
                     IF o \in Cached \ Modules THEN DefaultDeps[o] ELSE Absent]
    /\ linked = [o \in Objects |->
                   IF o \in Cached \ skip THEN DefaultDeps[o] ELSE Absent]
    /\ stripped = Cached \ Modules
    /\ stack = <<>>
    /\ at = "idle"
    /\ answer = NoAnswer
    /\ byHand = {} /\ late = {} /\ replaced = {}

(* The test, between two calls.                                            *)
get_fresh(o) ==
    /\ at = "idle"
    /\ o \in Fresh \ born
    /\ Cardinality(born \cap Fresh) < MaxFresh
    /\ born' = born \cup {o}
    /\ UNCHANGED <<environ, deps, flags, skip, disk, call, past>>

\* `tools.dependencies["lttng-ust"] = ust': an assignment, possible at any
\* time.  A test does it to its own objects only.
Replaceable(o, d) ==
    /\ at = "idle"
    /\ o \in born \cap Fresh
    /\ d \in born \cap Fresh
    /\ \E e \in deps[o] : ProjectOf[e] = ProjectOf[d]

Outdated(o) == IF makefile[o] # Absent THEN {o} ELSE {}

\* Mutant: the new dependency is kept beside the one it replaces.
ReplaceBeside(o, d) ==
    /\ Replaceable(o, d)
    /\ deps' = [deps EXCEPT ![o] = @ \cup {d}]
    /\ replaced' = replaced \cup Outdated(o)
    /\ UNCHANGED <<environ, born, flags, skip, disk, call, byHand, late>>

Replace(o, d) ==
    /\ Replaceable(o, d)
    /\ deps' = [deps EXCEPT ![o] = {e \in @ : ProjectOf[e] # ProjectOf[d]} \cup {d}]
    /\ replaced' = replaced \cup Outdated(o)
    /\ UNCHANGED <<environ, born, flags, skip, disk, call, byHand, late>>

Manual(o, step) ==
    /\ at = "idle"
    /\ o \in born
    /\ \E how \in How :
          /\ Runs(o, step, how)
          /\ byHand' = IF how = "ok" THEN byHand \cup {o} ELSE byHand
    /\ answer' = NoAnswer
    /\ UNCHANGED <<environ, born, deps, skip, stack, at, replaced>>

autobuild(o) ==
    /\ at = "idle"
    /\ o \in born
    /\ stack' = <<[object |-> o, todo |-> {}]>>
    /\ at' = "enter"
    /\ answer' = NoAnswer
    /\ UNCHANGED <<environ, born, deps, flags, skip, disk, past>>
-----------------------------------------------------------------------------
(* autobuild().                                                            *)
Top   == stack[Len(stack)]
Below == SubSeq(stack, 1, Len(stack) - 1)

Return ==
    /\ stack' = Below
    /\ at' = IF Below = <<>> THEN "idle" ELSE "deps"
    /\ answer' = IF Below = <<>> THEN [object |-> Top.object, how |-> "ok"]
                                 ELSE answer

\* Mutant: the calls are left but not the statement.
RaiseInPlace(how) ==
    /\ stack' = <<>>
    /\ answer' = [object |-> Top.object, how |-> how]
    /\ UNCHANGED <<at, skip>>

\* Nothing catches an exception but the autobuild of lttng-modules, which
\* is nobody's dependency, and that only a CalledProcessError.
Raise(how) ==
    \/ /\ how = "called"
       /\ Top.object \in Modules
       /\ skip' = skip \cup {Top.object}
       /\ Return
    \/ /\ ~(how = "called" /\ Top.object \in Modules)
       /\ stack' = <<>>
       /\ at' = "idle"
       /\ answer' = [object |-> Top.object, how |-> how]
       /\ UNCHANGED skip

EnterComplete ==
    /\ at = "enter"
    /\ Complete(Top.object)
    /\ Return
    /\ UNCHANGED <<environ, born, deps, flags, skip, disk, past>>

EnterImmutable ==
    /\ at = "enter"
    /\ ~Complete(Top.object)
    /\ Immutable(Top.object)
    /\ Raise("raised")
    /\ UNCHANGED <<environ, born, deps, flags, disk, past>>

Enter ==
    /\ at = "enter"
    /\ ~Complete(Top.object)
    /\ ~Immutable(Top.object)
    /\ at' = "deps"
    /\ stack' = [stack EXCEPT ![Len(stack)].todo = deps[Top.object]]
    /\ UNCHANGED <<environ, born, deps, flags, skip, disk, answer, past>>

AutobuildDependency(d) ==
    /\ at = "deps"
    /\ d \in Top.todo
    /\ at' = "enter"
    /\ stack' = Append([stack EXCEPT ![Len(stack)].todo = @ \ {d}],
                       [object |-> d, todo |-> {}])
    /\ UNCHANGED <<environ, born, deps, flags, skip, disk, answer, past>>

\* `Project steps where manually triggered. Can't autobuild'
RefuseManual ==
    /\ at = "deps"
    /\ Top.todo = {}
    /\ Odd(Top.object)
    /\ Raise("refused")
    /\ UNCHANGED <<environ, born, deps, flags, disk, past>>

\* Mutant: the steps that were done are not done again.
StartWhereItStopped ==
    /\ at = "deps"
    /\ Top.todo = {}
    /\ ~Odd(Top.object)
    /\ at' = IF Top.object \in built THEN "install" ELSE "configure"
    /\ UNCHANGED <<environ, born, deps, flags, skip, disk, stack, answer, past>>

StartSteps ==
    /\ at = "deps"
    /\ Top.todo = {}
    /\ ~Odd(Top.object)
    /\ at' = "configure"
    /\ UNCHANGED <<environ, born, deps, flags, skip, disk, stack, answer, past>>

After == [configure |-> "build", build |-> "install", install |-> "strip"]

StepSucceeds ==
    /\ at \in Step
    /\ Runs(Top.object, at, "ok")
    /\ \/ at = "strip" /\ Return
       \/ at # "strip" /\ at' = After[at] /\ UNCHANGED <<stack, answer>>
    /\ replaced' = IF at = "install" THEN replaced \ {Top.object} ELSE replaced
    /\ UNCHANGED <<environ, born, deps, skip, byHand>>

StepFails ==
    /\ at \in Step
    /\ \E how \in How \ {"ok"} : Runs(Top.object, at, how) /\ Raise(how)
    /\ UNCHANGED <<environ, born, deps, byHand, replaced>>
-----------------------------------------------------------------------------
Test ==
    \E o \in Objects :
       \/ get_fresh(o)
       \/ \E d \in Objects : Replace(o, d)
       \/ \E step \in Step \ {"strip"} : Manual(o, step)
       \/ autobuild(o)

Autobuild ==
    \/ EnterComplete
    \/ EnterImmutable
    \/ Enter
    \/ \E d \in Objects : AutobuildDependency(d)
    \/ RefuseManual
    \/ StartSteps
    \/ StepSucceeds
    \/ StepFails

Next == Test \/ Autobuild

Spec == Init /\ [][Next]_vars

-----------------------------------------------------------------------------
(* Correctness.                                                            *)

\* An autobuild that returns leaves a project that is configured, built and
\* installed, whatever steps, failures and retries came before (177); that
\* of lttng-modules may leave one that is to be skipped instead (394).
ReturnedIsComplete ==
    answer.how = "ok" =>
       IF answer.object \in Modules
       THEN answer.object \in (built \cap installed) \cup skip
       ELSE answer.object \in configured \cap built \cap installed

\* A project that counts as installed and still has the rpath of its build,
\* so that tests of it do not run the libraries they ask for, is one that
\* the test worked on by hand or that an exception left after isInstalled
\* was set (328, 420): no failure before that leads there.
UnstrippedExplained ==
    \A o \in installed \ (Modules \cup stripped \cup byHand \cup late) :
       at = "strip" /\ Top.object = o

\* Whatever is installed was linked to dependencies that are installed, and
\* so on down the tree (configure checks the direct ones only, 243), and they
\* are those the object has now and LD_LIBRARY_PATH names: a dependency that
\* is replaced after a configure is linked to by the next autobuild that
\* installs the object, whichever steps it and others failed in before; until
\* then nothing notices (autobuild of a complete object returns at once).
LinkedToInstalled ==
    \A o \in installed \ Modules :
       /\ linked[o] \subseteq installed
       /\ o \notin replaced => linked[o] = deps[o]

\* get_env raises only over a variable the user has set: a project and its
\* dependencies never define one twice (116-161).
ConflictsAreTheUsers ==
    \A o \in born :
       EnvRaises(o) => \E p \in deps[o] \cup {o} : Special(p) \cap environ # {}

CacheUntouched ==
    /\ \A o \in Cached : deps'[o] = deps[o] /\ linked'[o] = linked[o]
    /\ configured' \cap Cached = configured \cap Cached
    /\ built' \cap Cached = built \cap Cached
    /\ installed' \cap Cached = installed \cap Cached
    /\ stripped \cap Cached \subseteq stripped'

\* Nothing a test calls changes an object of the cache or its installation,
\* which other tests share (_immutable).
ImmutableUntouched == [][CacheUntouched]_vars

\* `Project steps where manually triggered. Can't autobuild' (177): nothing
\* else leads there but a make that failed, of lttng-modules its install,
\* which leave one flag set, and then each retry is refused.  A failed
\* configure, install or strip of another project is not held against it.
RefusedExplained ==
    answer.how = "refused" =>
       \/ answer.object \in byHand
       \/ /\ answer.object \in Modules
          /\ answer.object \in built \ installed
       \/ /\ answer.object \notin Modules
          /\ answer.object \in configured \ (built \cup installed)
=============================================================================
