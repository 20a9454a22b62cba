---------------------------- MODULE PrecookCache ----------------------------
(***************************************************************************)
(* The project cache of lttng-ivc: ProjectFactory.get_precook and the      *)
(* construction and build of a Project below it, over the cache directory  *)
(* runtime/projects_cache/<label>/{source,install,<label>.pickle}.         *)
(*                                                                         *)
(* One Python process at a time (build_projects.py, then pytest) imports   *)
(* ProjectFactory, which loads run_configuration.yaml and the checksum of  *)
(* project.py once, and then calls get_precook for one label after the     *)
(* other.  The process may be killed between any two steps; the two files  *)
(* may be edited, or produced again by bootstrap.py, between processes and *)
(* while one runs.                                                         *)
(*                                                                         *)
(* A Project object is a tree: the project and, through `dependencies',    *)
(* the projects it was built against.  It is represented by the set of its *)
(* nodes.  That loses nothing _validate_pickle can see: every node records *)
(* the labels of its own dependencies.                                     *)
(***************************************************************************)
EXTENDS Naturals, Sequences

CONSTANTS
    Labels,          \* the labels (markers) a run configuration may define
    Modules,         \* those of project 'lttng-modules'
    Shas,            \* git commits
    Pys,             \* contents (checksums) of utils/project.py
    Configs,         \* contents of run_configuration.yaml
    Edits,           \* pairs <<s, t>>: the sources s may be edited into t
    EditedDuringRun, \* whether project.py may change while a process runs
    OnlyForward,     \* whether what an edit replaces never comes back
    MaxDepth,        \* Python's recursion limit, in nested get_precook calls
    Absent,          \* no pickle file / no object
    Truncated        \* a pickle file that pickle.load cannot read

Source == [conf : Configs, py : Pys]
Node   == [label : Labels, sha : Shas, py : Pys, deps : SUBSET Labels]
Object == [label : Labels, nodes : SUBSET Node, skip : BOOLEAN]

(* What a Project object records of the sources s of the label l.          *)
NodeOf(s, l) == [label |-> l, sha |-> s.conf[l].sha,
                 py |-> s.py, deps |-> s.conf[l].deps]

(* An edit of an edit is an edit, and what is replaced of the description  *)
(* of a project does not come back.                                        *)
NeverReturns ==
    \A s, t, u \in Source :
       <<s, t>> \in Edits /\ <<t, u>> \in Edits =>
          /\ s = u \/ <<s, u>> \in Edits
          /\ \A l \in DOMAIN s.conf \cap DOMAIN u.conf :
                NodeOf(s, l) = NodeOf(u, l) =>
                   l \in DOMAIN t.conf /\ NodeOf(t, l) = NodeOf(s, l)

\* bootstrap.py refuses a dependency that is no marker.
ASSUME ConfigsAssumption ==
    /\ Modules \subseteq Labels
    /\ \A c \in Configs :
         /\ DOMAIN c \subseteq Labels
         /\ \A l \in DOMAIN c : /\ c[l] \in [sha : Shas, deps : SUBSET Labels]
                                /\ c[l].deps \subseteq DOMAIN c \ Modules

ASSUME EditsAssumption == /\ Edits \subseteq Source \X Source
                          /\ EditedDuringRun \in BOOLEAN
                          /\ OnlyForward \in BOOLEAN
                          /\ OnlyForward => NeverReturns

ASSUME SentinelAssumption == /\ Absent \notin Object \cup Labels
                             /\ Truncated \notin Object
                             /\ Absent # Truncated

ASSUME DepthAssumption == MaxDepth \in Nat \ {0}
-----------------------------------------------------------------------------
VARIABLES
    files,    \* run_configuration.yaml and project.py as they are on disk
    loaded,   \* the same as the process imported them
    running,  \* a process is alive
    stack,    \* its nested get_precook calls, the innermost last
    answer,   \* the last outermost call: its label and how it ended
    install,  \* label -> what its installation directory holds
    pickle    \* label -> its pickle file

vars == <<files, loaded, running, stack, answer, install, pickle>>
disk == <<install, pickle>>

(* An installation is identified by the sources it was compiled from and   *)
(* against: its own node and those of the installations it was linked to.  *)
NotInstalled == [nodes |-> {}, stripped |-> FALSE]
Installation == [nodes : SUBSET Node, stripped : BOOLEAN]

(* The statement of get_precook a call will run next; todo: the `deps' it  *)
(* has still to get; nodes, skip: the object under construction.           *)
Frame == [label : Labels,
          pc    : {"lookup", "construct", "deps", "make", "install",
                   "strip", "save", "dump"},
          todo  : SUBSET Labels,
          nodes : SUBSET Node,
          skip  : BOOLEAN]

Outcome == {"none", "returned", "unknown label", "unreadable pickle",
            "build error", "recursion limit"}

TypeOK ==
    /\ files \in Source
    /\ loaded \in Source
    /\ running \in BOOLEAN
    /\ stack \in Seq(Frame)
    /\ answer \in [label : Labels \cup {Absent}, how : Outcome,
                   object : Object \cup {Absent}]
    /\ install \in [Labels -> Installation]
    /\ pickle \in [Labels -> Object \cup {Absent, Truncated}]
-----------------------------------------------------------------------------
(* _validate_pickle, the recursion over the dependencies included: every   *)
(* project of the tree has the checksum, the commit and the dependencies   *)
(* that the sources of the process give its label.                         *)
Valid(o, l, s) ==
    /\ o.label = l
    /\ \A n \in o.nodes : n.label \in DOMAIN s.conf /\ n = NodeOf(s, n.label)

Top == stack[Len(stack)]
At(pc) == running /\ stack # <<>> /\ Top.pc = pc
SetTop(f) == stack' = [stack EXCEPT ![Len(stack)] = f]
Goto(pc) == SetTop([Top EXCEPT !.pc = pc])
NewFrame(l) == [label |-> l, pc |-> "lookup", todo |-> {}, nodes |-> {},
                skip |-> FALSE]
Asked(l) == [label |-> l, how |-> "none", object |-> Absent]

\* Mutant: the exception leaves the name of the label where the object goes.
RaiseLabel(why) ==
    /\ stack' = <<>>
    /\ answer' = [answer EXCEPT !.how = why, !.object = Top.label]

(* An exception: nothing between the raise and the test catches it.        *)
Raise(why) == stack' = <<>> /\ answer' = [answer EXCEPT !.how = why]

\* Mutant: the caller does not record the dependency it got.
ReturnUnrecorded(o) ==
    /\ stack' = SubSeq(stack, 1, Len(stack) - 1)
    /\ answer' = IF Len(stack) = 1
                 THEN [answer EXCEPT !.how = "returned", !.object = o]
                 ELSE answer

(* get_precook returns o to the caller: the test, or the enclosing call,   *)
(* which adds it to its dependencies.                                      *)
Resumed(f, o) == [f EXCEPT !.todo = @ \ {o.label}, !.nodes = @ \cup o.nodes]

Return(o) ==
    \/ /\ Len(stack) = 1
       /\ stack' = <<>>
       /\ answer' = [answer EXCEPT !.how = "returned", !.object = o]
    \/ /\ Len(stack) > 1
       /\ LET rest == SubSeq(stack, 1, Len(stack) - 1)
          IN  stack' = [rest EXCEPT ![Len(rest)] = Resumed(@, o)]
       /\ UNCHANGED answer
-----------------------------------------------------------------------------
Init ==
    /\ files \in Source
    /\ loaded = files
    /\ running = FALSE
    /\ stack = <<>>
    /\ answer = Asked(Absent)
    /\ install = [l \in Labels |-> NotInstalled]
    /\ pickle = [l \in Labels |-> Absent]

(* The environment.                                                        *)

\* config.yaml is edited and bootstrap.py run, a branch moves, project.py
\* is edited.
Edit ==
    /\ \E s \in Source :
         /\ <<files, s>> \in Edits
         /\ running /\ ~EditedDuringRun => s.py = files.py
         /\ files' = s
    /\ UNCHANGED <<loaded, running, stack, answer, disk>>

\* A process imports ProjectFactory.
Start ==
    /\ ~running
    /\ running' = TRUE
    /\ loaded' = files
    /\ UNCHANGED <<files, stack, answer, disk>>

\* The process ends, or is killed wherever it is.
Stop ==
    /\ running
    /\ running' = FALSE
    /\ stack' = <<>>
    /\ answer' = Asked(Absent)
    /\ UNCHANGED <<files, loaded, disk>>

\* A test, or build_projects.py, calls get_precook(l).
Request(l) ==
    /\ running
    /\ stack = <<>>
    /\ stack' = <<NewFrame(l)>>
    /\ answer' = Asked(l)
    /\ UNCHANGED <<files, loaded, running, disk>>
-----------------------------------------------------------------------------
(* get_precook: is there a valid pickle?                                   *)

UnknownLabel ==
    /\ At("lookup")
    /\ Top.label \notin DOMAIN loaded.conf
    /\ Raise("unknown label")
    /\ UNCHANGED <<files, loaded, running, disk>>

Looking == At("lookup") /\ Top.label \in DOMAIN loaded.conf

LoadFails ==
    /\ Looking
    /\ pickle[Top.label] = Truncated
    /\ Raise("unreadable pickle")
    /\ UNCHANGED <<files, loaded, running, disk>>

\* Mutant: only the project itself is validated, not its dependencies.
CacheHitRootOnly ==
    /\ Looking
    /\ pickle[Top.label] \in Object
    /\ \A n \in pickle[Top.label].nodes :
          n.label = Top.label => n = NodeOf(loaded, Top.label)
    /\ Return(pickle[Top.label])
    /\ UNCHANGED <<files, loaded, running, disk>>

CacheHit ==
    /\ Looking
    /\ pickle[Top.label] \in Object
    /\ Valid(pickle[Top.label], Top.label, loaded)
    /\ Return(pickle[Top.label])
    /\ UNCHANGED <<files, loaded, running, disk>>

\* Mutant: the test of _validate_pickle is inverted when it cleans up.
CacheStaleInverted ==
    /\ Looking
    /\ pickle[Top.label] \in Object
    /\ install' = [install EXCEPT ![Top.label] = NotInstalled]
    /\ Goto("construct")
    /\ UNCHANGED <<files, loaded, running, answer, pickle>>

\* cleanup() removes the sources and the installation, not the pickle.
CacheStale ==
    /\ Looking
    /\ pickle[Top.label] \in Object
    /\ ~Valid(pickle[Top.label], Top.label, loaded)
    /\ install' = [install EXCEPT ![Top.label] = NotInstalled]
    /\ Goto("construct")
    /\ UNCHANGED <<files, loaded, running, answer, pickle>>

CacheMiss ==
    /\ Looking
    /\ pickle[Top.label] = Absent
    /\ Goto("construct")
    /\ UNCHANGED <<files, loaded, running, answer, disk>>

(* The constructor wipes the whole directory of the label, clones and      *)
(* bootstraps; it takes the checksum of project.py from the file.          *)
Wipe(l) == /\ install' = [install EXCEPT ![l] = NotInstalled]
           /\ pickle' = [pickle EXCEPT ![l] = Absent]

Construct ==
    /\ At("construct")
    /\ Wipe(Top.label)
    /\ LET own == NodeOf([loaded EXCEPT !.py = files.py], Top.label)
       IN  SetTop([Top EXCEPT !.pc = "deps", !.todo = own.deps,
                              !.nodes = {own}])
    /\ UNCHANGED <<files, loaded, running, answer>>

ConstructFails ==
    /\ At("construct")
    /\ Wipe(Top.label)
    /\ Raise("build error")
    /\ UNCHANGED <<files, loaded, running>>

\* Mutant: the recursive call is given the label of the project itself.
CallItself(d) ==
    /\ At("deps")
    /\ d \in Top.todo
    /\ Len(stack) < MaxDepth
    /\ stack' = Append(stack, NewFrame(Top.label))
    /\ UNCHANGED <<files, loaded, running, answer, disk>>

CallDependency(d) ==
    /\ At("deps")
    /\ d \in Top.todo
    /\ Len(stack) < MaxDepth
    /\ stack' = Append(stack, NewFrame(d))
    /\ UNCHANGED <<files, loaded, running, answer, disk>>

RecursionLimit ==
    /\ At("deps")
    /\ Top.todo # {}
    /\ Len(stack) = MaxDepth
    /\ Raise("recursion limit")
    /\ UNCHANGED <<files, loaded, running, disk>>
-----------------------------------------------------------------------------
(* autobuild of a new object.  The dependencies are complete, so their     *)
(* autobuild() and the isInstalled test of configure() let them pass.      *)

Configure ==
    /\ At("deps")
    /\ Top.todo = {}
    /\ Goto("make")
    /\ UNCHANGED <<files, loaded, running, answer, disk>>

Make ==
    /\ At("make")
    /\ Goto("install")
    /\ UNCHANGED <<files, loaded, running, answer, disk>>

\* What is installed was compiled by the code the process has loaded and
\* linked against what the dependencies' directories hold.
Install ==
    /\ At("install")
    /\ LET l       == Top.label
           against == UNION {install[d].nodes : d \in loaded.conf[l].deps}
       IN  install' = [install EXCEPT ![l] =
                         [nodes    |-> {NodeOf(loaded, l)} \cup against,
                          stripped |-> FALSE]]
    /\ Goto("strip")
    /\ UNCHANGED <<files, loaded, running, answer, pickle>>

\* rpath_strip, which is a `pass' for lttng-modules.
RpathStrip ==
    /\ At("strip")
    /\ install' = [install EXCEPT ![Top.label].stripped = TRUE]
    /\ Goto("save")
    /\ UNCHANGED <<files, loaded, running, answer, pickle>>

Building ==
    \/ At("deps") /\ Top.todo = {}
    \/ At("make")
    \/ At("install")
    \/ At("strip")

\* Mutant: autobuild logs the failure and forgets to raise it again.
BuildFailsLogged ==
    /\ Building
    /\ Goto("save")
    /\ UNCHANGED <<files, loaded, running, answer, disk>>

BuildFails ==
    /\ Building
    /\ Raise("build error")
    /\ UNCHANGED <<files, loaded, running, disk>>

\* Mutant: the failure of any project is swallowed.
AnythingSkips ==
    /\ At("make") \/ At("install")
    /\ SetTop([Top EXCEPT !.pc = "save", !.skip = TRUE])
    /\ UNCHANGED <<files, loaded, running, answer, disk>>

\* Lttng_modules.autobuild swallows a failure of make or of its install and
\* the object is cached all the same, marked skip.
ModulesSkip ==
    /\ At("make") \/ At("install")
    /\ Top.label \in Modules
    /\ SetTop([Top EXCEPT !.pc = "save", !.skip = TRUE])
    /\ UNCHANGED <<files, loaded, running, answer, disk>>

\* open(pickle_path, 'wb') creates an empty file; pickle.dump fills it.
OpenPickle ==
    /\ At("save")
    /\ pickle' = [pickle EXCEPT ![Top.label] = Truncated]
    /\ Goto("dump")
    /\ UNCHANGED <<files, loaded, running, answer, install>>

DumpPickle ==
    /\ At("dump")
    /\ LET o == [label |-> Top.label, nodes |-> Top.nodes, skip |-> Top.skip]
       IN  /\ pickle' = [pickle EXCEPT ![Top.label] = o]
           /\ Return(o)
    /\ UNCHANGED <<files, loaded, running, install>>

DumpFails ==
    /\ At("dump")
    /\ Raise("build error")
    /\ UNCHANGED <<files, loaded, running, disk>>
-----------------------------------------------------------------------------
GetPrecook ==
    \/ UnknownLabel
    \/ LoadFails
    \/ CacheHit
    \/ CacheStale
    \/ CacheMiss
    \/ Construct
    \/ ConstructFails
    \/ \E d \in Labels : CallDependency(d)
    \/ RecursionLimit
    \/ Configure
    \/ Make
    \/ Install
    \/ RpathStrip
    \/ BuildFails
    \/ ModulesSkip
    \/ OpenPickle
    \/ DumpPickle
    \/ DumpFails

Next ==
    \/ Edit
    \/ Start
    \/ Stop
    \/ \E l \in Labels : Request(l)
    \/ GetPrecook

Spec == Init /\ [][Next]_vars

\* The process is sequential code: while it is not killed it goes on.
FairSpec == Spec /\ WF_vars(GetPrecook)
-----------------------------------------------------------------------------
(* Correctness.                                                            *)

ValidPickle(l) == /\ pickle[l] \in Object
                  /\ l \in DOMAIN loaded.conf
                  /\ Valid(pickle[l], l, loaded)

(* The object is the complete tree the sources describe for its label.     *)
Described(o, s) ==
    /\ o.label \in DOMAIN s.conf
    /\ NodeOf(s, o.label) \in o.nodes
    /\ Valid(o, o.label, s)
    /\ \A n \in o.nodes : \A d \in n.deps : \E m \in o.nodes : m.label = d

(* Every project of the tree is installed, its rpath is stripped, and its  *)
(* installation was made from the sources the tree records and against     *)
(* installations the tree records.                                         *)
Honest(o) ==
    \A n \in o.nodes :
       \/ n.label = o.label /\ o.skip
       \/ /\ install[n.label].stripped
          /\ n \in install[n.label].nodes
          /\ install[n.label].nodes \subseteq o.nodes

\* The project get_precook returns is the one the run configuration and
\* project.py of this process describe, dependencies included, whether it
\* comes from the cache or was built, and from whatever an earlier process
\* left in the cache (ProjectFactory.py:72-150).
ReturnedMatchesMarkers ==
    answer.how = "returned" => Described(answer.object, loaded)

\* A pickle the process would accept tells the truth about the directories
\* of the project and of all its dependencies: get_precook returns it
\* without a look at them (ProjectFactory.py:128-132), and the dependencies
\* are directories of the cache that other calls wipe and build again.
ValidCacheIsHonest ==
    running => \A l \in Labels : ValidPickle(l) => Honest(pickle[l])

\* A returned project is the one asked for and is in the cache, where the
\* next call will find it valid: `cached for future access'
\* (ProjectFactory.py:111).
ReturnedIsCached ==
    answer.how = "returned" => /\ pickle[answer.label] = answer.object
                               /\ ValidPickle(answer.label)

\* get_precook fails only when a build does: a project that is not in the
\* cache `is built, installed and cached' (ProjectFactory.py:110-111), so
\* what a killed process left behind must not stop it.
LeftoversAreRebuilt == answer.how # "unreadable pickle"

\* configure() runs with all dependencies `actually installed'
\* (project.py:242): there is something in the installation directory of
\* each, and not only a flag in the object that was unpickled.
DependenciesInstalled ==
    At("make") =>
       \A d \in loaded.conf[Top.label].deps : install[d] # NotInstalled

\* While the cache holds a valid object nobody changes its pickle, its
\* installation or those of its dependencies: it is `immutable'
\* (ProjectFactory.py:110, project.py:54).
ImmutableWhileValid ==
    [][running =>
         \A l \in Labels : ValidPickle(l) =>
            /\ pickle'[l] = pickle[l]
            /\ \A n \in pickle[l].nodes : install'[n.label] = install[n.label]]_vars

(* The projects of c can be numbered below the recursion limit, each after *)
(* its dependencies: none is reached from itself, or through too many.     *)
Ranks(c) == {r \in [DOMAIN c -> 0..(MaxDepth - 1)] :
               \A l \in DOMAIN c : \A d \in c[l].deps : r[d] < r[l]}
Shallow(c) == Ranks(c) # {}

\* get_precook follows the `deps' of the run configuration and nothing else
\* (ProjectFactory.py:139-140): only markers that depend on each other in a
\* circle or in too long a chain, neither of which bootstrap.py refuses, let
\* a call reach the recursion limit.
LimitOnlyIfDeep == answer.how = "recursion limit" => ~Shallow(loaded.conf)

\* Every call ends, by returning or raising: the recursion over the
\* dependencies comes to an end (ProjectFactory.py:139-140).
CallsEnd == [](stack # <<>> => <>(stack = <<>>))

(* The promise of get_precook, with `cooked' read off the pickles.         *)
Promise == INSTANCE PrecookPromise WITH
    Sources <- Source,
    Deps    <- [s \in Source |-> [l \in DOMAIN s.conf |-> s.conf[l].deps]],
    None    <- Absent,
    sources <- loaded,
    asked   <- answer.label,
    given   <- IF answer.how = "returned" THEN answer.object.label ELSE Absent,
    cooked  <- {l \in Labels : ValidPickle(l)}

\* The cache keeps its promise: dependencies are cached first, the project
\* asked for is the one returned, and nothing cached is lost to a call, a
\* failure or a restart while the sources stay (ProjectFactory.py:108-150).
KeepsPromise == Promise!Spec
=============================================================================
