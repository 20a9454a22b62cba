-------------------------- MODULE RunConfiguration --------------------------
(***************************************************************************)
(* The three programs tox runs one after the other, until one fails:       *)
(* bootstrap.py resolves config.yaml into run_configuration.yaml,          *)
(* build_projects.py has get_precook build what is not deprecated, and     *)
(* pytest runs the tests whose labels settings.py keeps.                   *)
(*                                                                         *)
(* Around them developers push to the remotes, and each program may be     *)
(* killed.  git, the remotes and the cache are as these programs use them: *)
(* the cache is what get_precook promises (module PrecookPromise), a tree  *)
(* of markers for each label.                                              *)
(***************************************************************************)
EXTENDS Naturals, FiniteSets

CONSTANTS
    Labels, Urls, Refs, Shas,
    Configs,    \* contents of config.yaml, sets of markers
    Deprecated, \* projects_deprecated
    TestOnly,   \* test_only
    Tests,      \* tests with their rows of the matrices: sequences of columns,
                \* a column the set of what it holds, alone or in a tuple; the
                \* indexes of the criteria; the labels the test gets
    Mark,       \* a MarkDecorator
    MaxMoves,   \* how often a reference of a remote moves
    MaxMissed,  \* how many lookups of one bootstrap.py are cut short
    Absent

\* `nr' tells two entries of config.yaml with the same name apart.
Marker == [nr : Nat, name : Labels, url : Urls, ref : Refs \cup Shas,
           deps : SUBSET Labels]

ASSUME ConfigAssumption == /\ \A c \in Configs : c \subseteq Marker
                           /\ Deprecated \subseteq Labels
                           /\ TestOnly \subseteq Labels
                           /\ MaxMoves \in Nat /\ MaxMissed \in Nat
-----------------------------------------------------------------------------
VARIABLES
    remote,   \* url -> its branches and tags
    moves,    \* how often they moved
    place,    \* url -> what is at the path of its clone
    clone,    \* url -> remote and local branches, tags, commits of the clone
    file,     \* run_configuration.yaml
    cached,   \* label -> the tree of its valid cached project
    pc,       \* which program runs, and where it is
    loaded,   \* the config.yaml bootstrap.py read
    todo,     \* the remotes it has to fetch
    seen,     \* url -> the branches and tags of the remote as it fetched
    missed,   \* the lookups of it that an exception cut short
    origin    \* the `known' that the file was made from

world == <<remote, moves>>
git   == <<place, clone>>
known == <<loaded, seen, missed>>
boot  == <<known, todo>>
vars  == <<world, git, file, cached, pc, boot, origin>>

Lookups == {"branch", "tag", "commit"}
References == [branch : [Refs -> Shas \cup {Absent}],
               tag    : [Refs -> Shas \cup {Absent}]]
Clones == [branch : [Refs -> Shas \cup {Absent}],
           tag    : [Refs -> Shas \cup {Absent}],
           local  : [Refs -> Shas \cup {Absent}], commits : SUBSET Shas]
NoRefs == [r \in Refs |-> Absent]
Nothing == [branch |-> NoRefs, tag |-> NoRefs]
NoClone == [branch |-> NoRefs, tag |-> NoRefs, local |-> NoRefs, commits |-> {}]
NoFile == [markers |-> [l \in {} |-> Absent], whole |-> FALSE]

TypeOK ==
    /\ loaded \in Configs \cup {{}}
    /\ remote \in [Urls -> References] /\ seen \in [Urls -> References]
    /\ moves \in 0 .. MaxMoves
    /\ place \in [Urls -> {"none", "repository", "file"}]
    /\ clone \in [Urls -> Clones]
    /\ DOMAIN file.markers \subseteq Labels
    /\ \A l \in DOMAIN file.markers :
          file.markers[l] \in [sha : Shas, deps : SUBSET Labels]
    /\ pc \in {"idle", "fetch", "write", "dump", "build", "test"}
    /\ todo \subseteq {m.url : m \in loaded}
    /\ pc = "fetch" \/ todo = {}
    /\ missed \subseteq loaded \X Lookups
-----------------------------------------------------------------------------
Init ==
    /\ remote \in [Urls -> [branch : [Refs -> Shas], tag : {NoRefs}]]
    /\ moves = 0
    /\ place \in [Urls -> {"none", "file"}]
    /\ clone = [u \in Urls |-> NoClone]
    /\ file = NoFile
    /\ cached = [l \in Labels |-> Absent]
    /\ pc = "idle"
    /\ loaded = {}
    /\ todo = {}
    /\ seen = [u \in Urls |-> Nothing]
    /\ missed = {}
    /\ origin = known

(* The environment.                                                        *)

\* A branch or a tag is pushed, moved or deleted.
Move(u, r) ==
    /\ moves < MaxMoves
    /\ moves' = moves + 1
    /\ \E s \in Shas \cup {Absent}, kind \in {"branch", "tag"} :
          remote' = [remote EXCEPT ![u][kind][r] = s]
    /\ UNCHANGED <<git, file, cached, pc, boot, origin>>

-----------------------------------------------------------------------------
(* bootstrap.py.                                                           *)
\* Mutant: what was still to be fetched is kept.
GotoOnly(statement) == pc' = statement /\ UNCHANGED todo
Goto(statement) == pc' = statement /\ todo' = {}
Defined(c) == {m.name : m \in c}

\* Mutant: dependencies are not checked.
StartUnchecked ==
    /\ pc = "idle"
    /\ loaded' \in Configs
    /\ pc' = "fetch"
    /\ todo' = {m.url : m \in loaded'}
    /\ seen' = [u \in Urls |-> Nothing]
    /\ missed' = {}
    /\ UNCHANGED <<world, git, file, cached, origin>>

\* config.yaml is whatever the user has made of it; a dependency that it does
\* not define raises before anything is fetched.
Start ==
    /\ pc = "idle"
    /\ loaded' \in Configs
    /\ \A m \in loaded' : m.deps \subseteq Defined(loaded')
    /\ pc' = "fetch"
    /\ todo' = {m.url : m \in loaded'}
    /\ seen' = [u \in Urls |-> Nothing]
    /\ missed' = {}
    /\ UNCHANGED <<world, git, file, cached, origin>>

\* exit() with status zero: tox goes on.
PathIsFile ==
    /\ pc = "fetch"
    /\ \E u \in todo : place[u] = "file"
    /\ Goto("build")
    /\ UNCHANGED <<world, git, file, cached, known, origin>>

FirstOf(a, b) == IF a # Absent THEN a ELSE b

\* git clone makes a local branch of the one the HEAD of the remote names.
Cloned(u) ==
    IF place[u] = "none"
    THEN {[clone[u] EXCEPT !.local = [NoRefs EXCEPT ![head] = remote[u].branch[head]]] :
             head \in Refs}
    ELSE {clone[u]}

\* git fetch: branches that are gone stay, tags do not move, local branches
\* are left alone (116).
Fetched(c, r) ==
    [branch  |-> [b \in Refs |-> FirstOf(r.branch[b], c.branch[b])],
     tag     |-> [t \in Refs |-> FirstOf(c.tag[t], r.tag[t])],
     local   |-> c.local,
     commits |-> c.commits
                   \cup (({r.branch[b] : b \in Refs} \cup {r.tag[t] : t \in Refs})
                           \ {Absent})]

\* Mutant: what has been cloned is not fetched again.
FetchOnce(u) ==
    /\ pc = "fetch"
    /\ u \in todo
    /\ place[u] # "file"
    /\ place' = [place EXCEPT ![u] = "repository"]
    /\ \E c \in Cloned(u) :
          clone' = [clone EXCEPT ![u] =
                      IF place[u] = "none" THEN Fetched(c, remote[u]) ELSE @]
    /\ seen' = [seen EXCEPT ![u] = remote[u]]
    /\ todo' = todo \ {u}
    /\ UNCHANGED <<world, file, cached, pc, loaded, missed, origin>>

Fetch(u) ==
    /\ pc = "fetch"
    /\ u \in todo
    /\ place[u] # "file"
    /\ place' = [place EXCEPT ![u] = "repository"]
    /\ \E c \in Cloned(u) : clone' = [clone EXCEPT ![u] = Fetched(c, remote[u])]
    /\ seen' = [seen EXCEPT ![u] = remote[u]]
    /\ todo' = todo \ {u}
    /\ UNCHANGED <<world, file, cached, pc, loaded, missed, origin>>

Named(names, ref) == IF ref \in Refs THEN names[ref] ELSE Absent

\* rev_parse knows a name that is no sha as a tag, then as a local branch.
rev_parse(c, ref) ==
    IF ref \in c.commits THEN ref
                         ELSE FirstOf(Named(c.tag, ref), Named(c.local, ref))

Answers(c, ref) == [branch |-> Named(c.branch, ref), tag |-> Named(c.tag, ref),
                    commit |-> rev_parse(c, ref)]

\* is_ref_branch, is_ref_tag, is_ref_commit, and what stands for the reference.
Found(m, lookup) ==
    IF <<m, lookup>> \in missed THEN Absent ELSE Answers(clone[m.url], m.ref)[lookup]

\* What the is_ref functions before this one are asked (137-141).
Before(lookup) == {earlier \in Lookups : <<earlier, lookup>> \in
                     {<<"branch", "tag">>, <<"branch", "commit">>, <<"tag", "commit">>}}

\* What an is_ref function raises, be it the KeyboardInterrupt of a ctrl-C or
\* an error of git, its bare `except' takes for `no such reference'.  For one
\* that would have found nothing it makes no difference.
Miss(m, lookup) ==
    /\ pc = "fetch" /\ todo = {}
    /\ \A earlier \in Before(lookup) : Found(m, earlier) = Absent
    /\ Found(m, lookup) # Absent
    /\ Cardinality(missed) < MaxMissed
    /\ missed' = missed \cup {<<m, lookup>>}
    /\ UNCHANGED <<world, git, file, cached, pc, loaded, todo, seen, origin>>

Sha(m) == FirstOf(Found(m, "branch"), FirstOf(Found(m, "tag"), Found(m, "commit")))

Resolvable ==
    /\ \A m \in loaded : Sha(m) # Absent
    /\ \A m, n \in loaded : m.name = n.name => m = n

Resolved ==
    [l \in Defined(loaded) |->
       LET m == CHOOSE m \in loaded : m.name = l
       IN  [sha |-> Sha(m), deps |-> m.deps]]

\* Mutant: the exit of line 146 or 152 has no status.
ResolveFailsSilently ==
    /\ pc = "fetch" /\ todo = {}
    /\ ~Resolvable
    /\ Goto("build")
    /\ UNCHANGED <<world, git, file, cached, known, origin>>

ResolveFails ==
    /\ pc = "fetch" /\ todo = {}
    /\ ~Resolvable
    /\ Goto("idle")
    /\ UNCHANGED <<world, git, file, cached, known, origin>>

\* open(..., 'w') empties the file.
OpenFile ==
    /\ pc = "fetch" /\ todo = {}
    /\ Resolvable
    /\ Goto("dump")
    /\ file' = NoFile
    /\ origin' = known
    /\ UNCHANGED <<world, git, cached, known>>

DumpFile ==
    /\ pc = "dump"
    /\ Goto("build")
    /\ file' = [markers |-> Resolved, whole |-> TRUE]
    /\ UNCHANGED <<world, git, cached, known, origin>>

\* A fetch fails, or the program is killed; of the file, any part may have
\* been flushed.
Dies ==
    /\ pc # "idle"
    /\ Goto("idle")
    /\ \/ /\ pc = "dump"
          /\ \E part \in SUBSET DOMAIN Resolved :
                file' = [NoFile EXCEPT !.markers = [l \in part |-> Resolved[l]]]
       \/ pc # "dump" /\ UNCHANGED file
    /\ UNCHANGED <<world, git, cached, known, origin>>
-----------------------------------------------------------------------------
(* build_projects.py and pytest.                                           *)
Markers == file.markers

\* The label and its dependencies, theirs included.
Needs(l) ==
    {x \in Labels : \A S \in SUBSET Labels :
       l \in S /\ (\A y \in S \cap DOMAIN Markers : Markers[y].deps \subseteq S)
          => x \in S}

Tree(l) == [x \in Needs(l) |-> Markers[x]]

\* get_precook finds a marker for every dependency and comes to an end.
Buildable(l) ==
    /\ Needs(l) \subseteq DOMAIN Markers
    /\ \A x \in Needs(l) : \A d \in Markers[x].deps : x \notin Needs(d)

\* get_precook for these labels, which gets their dependencies as well.
Precooked(labels) ==
    [x \in Labels |-> IF \E l \in labels : x \in Needs(l) THEN Tree(x) ELSE cached[x]]

BuildProjects ==
    /\ pc = "build"
    /\ Markers # NoFile.markers
    /\ LET labels == DOMAIN Markers \ Deprecated
       IN  /\ \A l \in labels : Buildable(l)
           /\ cached' = Precooked(labels)
    /\ Goto("test")
    /\ UNCHANGED <<world, git, file, known, origin>>

\* No file or an empty one, a label that does not build: those before it do.
BuildFails ==
    /\ pc = "build"
    /\ \E labels \in SUBSET (DOMAIN Markers \ Deprecated) :
          /\ \A l \in labels : Buildable(l)
          /\ cached' = Precooked(labels)
    /\ Goto("idle")
    /\ UNCHANGED <<world, git, file, known, origin>>

Criteria(t) == UNION {t.row[i] : i \in t.indexes} \ {Mark}

\* Mutant: only rows that are deprecated as a whole are left out.
generate_unless_all(matrix) ==
    {t \in matrix : ~(Criteria(t) \subseteq Deprecated)}

generate_runtime_test_matrix(matrix) ==
    {t \in matrix :
       /\ Criteria(t) \cap Deprecated = {}
       /\ TestOnly # {} => Criteria(t) \cap TestOnly # {}}

\* A test asks get_precook for its criteria and for what is none of them, as
\* Settings.default_babeltrace; what is not in the cache is built, and its
\* build may fail.
TestGets(t) ==
    /\ pc = "test"
    /\ t \in generate_runtime_test_matrix(Tests)
    /\ \E l \in t.asks : \E labels \in SUBSET Needs(l) :
          /\ \A x \in labels : Buildable(x)
          /\ cached' = Precooked(labels)
    /\ UNCHANGED <<world, git, file, pc, boot, origin>>

\* The tests are over.
TestsEnd ==
    /\ pc = "test"
    /\ Goto("idle")
    /\ UNCHANGED <<world, git, file, cached, known, origin>>
-----------------------------------------------------------------------------
Environment ==
    \/ \E u \in Urls, r \in Refs : Move(u, r)
    \/ Dies

Programs ==
    \/ Start
    \/ PathIsFile
    \/ \E u \in Urls : Fetch(u)
    \/ \E m \in loaded, lookup \in Lookups : Miss(m, lookup)
    \/ ResolveFails
    \/ OpenFile
    \/ DumpFile
    \/ BuildProjects
    \/ BuildFails
    \/ \E t \in Tests : TestGets(t)
    \/ TestsEnd

Next == Environment \/ Programs

Spec == Init /\ [][Next]_vars
-----------------------------------------------------------------------------
(* Correctness.                                                            *)

\* A file that was written to its end has every marker of the config.yaml
\* it was made from and every dependency of one: get_precook does not meet
\* an unknown label below a known one (71-87, 150-160).
MarkersClosed ==
    file.whole =>
       /\ DOMAIN Markers = Defined(origin[1])
       /\ \A l \in DOMAIN Markers : Markers[l].deps \subseteq DOMAIN Markers

\* A branch stands for the commit the remote had when this run fetched it,
\* whatever older clones, tags of the same name and pushes since then say;
\* all markers of one remote for the same state of it (106-142).  Only the
\* branch whose lookup was cut short may stand for something else (18).
AsRemoteSaid ==
    file.whole =>
       \A m \in origin[1] :
          IF m.ref \in Refs
          THEN /\ origin[2][m.url].branch[m.ref] # Absent
               /\ <<m, "branch">> \notin origin[3]
               => Markers[m.name].sha = origin[2][m.url].branch[m.ref]
          ELSE Markers[m.name].sha = m.ref

\* Projects are built and tests run with the file the bootstrap.py before
\* them made, never with one a failed or killed run left; unless a plain
\* file is where the clone of one of its own remotes should be (108-111).
PipelineUsesItsOwn ==
    pc \in {"build", "test"} =>
       \/ file.whole /\ origin = known
       \/ \E m \in loaded : place[m.url] = "file"

\* What a test asks for, if the run configuration has it, is in the cache as
\* the run configuration describes it, from the start of the tests to their
\* end: build_projects.py and the matrices agree on what is deprecated.  They
\* do not on a label outside the criteria, such as Settings.default_babeltrace:
\* nothing keeps the test from running when it is deprecated (65).
TestsFindPrebuilt ==
    pc = "test" =>
       \A t \in generate_runtime_test_matrix(Tests) :
          \A l \in t.asks \cap DOMAIN Markers :
             l \in Criteria(t) \/ l \notin Deprecated => cached[l] = Tree(l)
=============================================================================
