------------------------ MODULE RunConfigurationProofs ------------------------
(***************************************************************************)
(* Proofs about RunConfiguration, for any labels, remotes, references,     *)
(* config.yaml, deprecated labels and test matrices.                       *)
(*                                                                         *)
(* What the file says is what bootstrap.py knew when it opened it: a run   *)
(* that resolves has a closed config.yaml (Sound), its clones agree with   *)
(* what it has seen of the remotes (FetchedAsSeen), and `origin' is that   *)
(* from when the file is opened (Opened).                                  *)
(***************************************************************************)
EXTENDS RunConfiguration, TLAPS

Closed(c) == \A m \in c : m.deps \subseteq Defined(c)

Sound == pc \in {"fetch", "dump"} => Closed(loaded)

\* The branches of a clone that was fetched by this run.
FetchedAsSeen ==
    pc \in {"fetch", "dump"} =>
       \A m \in loaded : m.url \notin todo =>
          \A r \in Refs : seen[m.url].branch[r] # Absent =>
             clone[m.url].branch[r] = seen[m.url].branch[r]

Opened == pc = "dump" => origin = known /\ Resolvable

IInv == /\ TypeOK /\ Sound /\ FetchedAsSeen /\ Opened
        /\ MarkersClosed /\ AsRemoteSaid /\ PipelineUsesItsOwn /\ TestsFindPrebuilt
-----------------------------------------------------------------------------
LEMMA Entries ==
    ASSUME NEW c \in Configs \cup {{}}, NEW m \in c
    PROVE  m \in Marker
BY ConfigAssumption

\* What resolves to a commit resolves to one the clone has.
LEMMA ShaTyped ==
    ASSUME TypeOK, NEW m \in loaded, Sha(m) # Absent
    PROVE  Sha(m) \in Shas
<1> DEFINE c == clone[m.url]
<1>1. m \in Marker
  BY Entries DEF TypeOK
<1>2. /\ c.branch \in [Refs -> Shas \cup {Absent}]
      /\ c.tag \in [Refs -> Shas \cup {Absent}]
      /\ c.local \in [Refs -> Shas \cup {Absent}]
      /\ c.commits \subseteq Shas
  BY <1>1 DEF TypeOK, Marker, Clones
<1>3. /\ Named(c.branch, m.ref) \in Shas \cup {Absent}
      /\ Named(c.tag, m.ref) \in Shas \cup {Absent}
      /\ Named(c.local, m.ref) \in Shas \cup {Absent}
  BY <1>2 DEF Named
<1>4. rev_parse(c, m.ref) \in Shas \cup {Absent}
  BY <1>2, <1>3 DEF rev_parse, FirstOf
<1>5. \A lookup \in Lookups : Found(m, lookup) \in Shas \cup {Absent}
  BY <1>3, <1>4 DEF Found, Answers, Lookups
<1>6. QED
  BY <1>5 DEF Sha, FirstOf, Lookups

LEMMA ResolvedSound ==
    ASSUME TypeOK, Resolvable, NEW l \in Defined(loaded)
    PROVE  \E m \in loaded : /\ m.name = l
                             /\ Resolved[l] = [sha |-> Sha(m), deps |-> m.deps]
<1> DEFINE m == CHOOSE m \in loaded : m.name = l
<1>1. m \in loaded /\ m.name = l
  BY DEF Defined
<1>2. Resolved[l] = [sha |-> Sha(m), deps |-> m.deps]
  BY DEF Resolved
<1>3. QED
  BY <1>1, <1>2

\* A name has one entry, hence one commit.
LEMMA ResolvedUnique ==
    ASSUME TypeOK, Resolvable, NEW m \in loaded
    PROVE  Resolved[m.name] = [sha |-> Sha(m), deps |-> m.deps]
<1>1. m.name \in Defined(loaded)
  BY DEF Defined
<1>2. PICK n \in loaded : /\ n.name = m.name
                          /\ Resolved[m.name] = [sha |-> Sha(n), deps |-> n.deps]
  BY <1>1, ResolvedSound
<1>3. n = m
  BY <1>2 DEF Resolvable
<1>4. QED
  BY <1>2, <1>3

LEMMA ResolvedTyped ==
    ASSUME TypeOK, Resolvable
    PROVE  /\ DOMAIN Resolved = Defined(loaded)
           /\ Defined(loaded) \subseteq Labels
           /\ \A l \in Defined(loaded) :
                 Resolved[l] \in [sha : Shas, deps : SUBSET Labels]
<1>1. DOMAIN Resolved = Defined(loaded)
  BY DEF Resolved
<1>2. \A m \in loaded : m.name \in Labels /\ m.deps \subseteq Labels
  BY Entries DEF TypeOK, Marker
<1>3. Defined(loaded) \subseteq Labels
  BY <1>2 DEF Defined
<1>4. ASSUME NEW l \in Defined(loaded)
      PROVE  Resolved[l] \in [sha : Shas, deps : SUBSET Labels]
  <2>1. PICK m \in loaded : /\ m.name = l
                            /\ Resolved[l] = [sha |-> Sha(m), deps |-> m.deps]
    BY ResolvedSound
  <2>2. Sha(m) \in Shas
    BY <2>1, ShaTyped DEF Resolvable
  <2>3. QED
    BY <1>2, <2>1, <2>2
<1>5. QED
  BY <1>1, <1>3, <1>4
-----------------------------------------------------------------------------
LEMMA InitInv == Init => IInv
<1> SUFFICES ASSUME Init
             PROVE  IInv
  OBVIOUS
<1>1. TypeOK
  <2>1. \A u \in Urls : remote[u] \in References
    BY DEF Init, References, NoRefs
  <2>2. remote \in [Urls -> References]
    BY <2>1 DEF Init
  <2>3. seen \in [Urls -> References]
    BY DEF Init, References, NoRefs, Nothing
  <2>4. clone \in [Urls -> Clones]
    BY DEF Init, NoRefs, NoClone, Clones
  <2>5. DOMAIN file.markers = {}
    BY DEF Init, NoFile
  <2>6. QED
    BY <2>2, <2>3, <2>4, <2>5, ConfigAssumption DEF Init, TypeOK
<1>2. ~file.whole /\ pc = "idle"
  BY DEF Init, NoFile
<1>3. QED
  BY <1>1, <1>2 DEF IInv, Sound, FetchedAsSeen, Opened, MarkersClosed, AsRemoteSaid,
                    PipelineUsesItsOwn, TestsFindPrebuilt
-----------------------------------------------------------------------------
LEMMA TypeStep ==
    ASSUME TypeOK, Opened, Next
    PROVE  TypeOK'
<1> USE ConfigAssumption
<1>1. ASSUME NEW u \in Urls, NEW r \in Refs, Move(u, r)
      PROVE  TypeOK'
  <2>1. remote' \in [Urls -> References]
    <3>1. PICK s \in Shas \cup {Absent}, kind \in {"branch", "tag"} :
             remote' = [remote EXCEPT ![u][kind][r] = s]
      BY <1>1 DEF Move
    <3>2. [remote[u] EXCEPT ![kind][r] = s] \in References
      <4>1. PICK b, t \in [Refs -> Shas \cup {Absent}] :
               remote[u] = [branch |-> b, tag |-> t]
        BY DEF TypeOK, References
      <4>2. [b EXCEPT ![r] = s] \in [Refs -> Shas \cup {Absent}]
            /\ [t EXCEPT ![r] = s] \in [Refs -> Shas \cup {Absent}]
        OBVIOUS
      <4>3. CASE kind = "branch"
        BY <4>1, <4>2, <4>3 DEF References
      <4>4. CASE kind = "tag"
        BY <4>1, <4>2, <4>4 DEF References
      <4>5. QED
        BY <4>3, <4>4
    <3>3. QED
      BY <3>1, <3>2 DEF TypeOK
  <2>2. moves' \in 0 .. MaxMoves
    BY <1>1 DEF Move, TypeOK
  <2>3. UNCHANGED <<git, file, pc, boot>>
    BY <1>1 DEF Move
  <2>4. QED
    BY <2>1, <2>2, <2>3 DEF TypeOK, git, boot, known
<1>2. CASE Start
  <2>2. todo' \subseteq {m.url : m \in loaded'} /\ missed' = {}
    BY <1>2 DEF Start
  <2>3. seen' \in [Urls -> References]
    BY <1>2 DEF Start, References, NoRefs, Nothing
  <2>4. /\ loaded' \in Configs /\ pc' = "fetch"
        /\ UNCHANGED <<world, git, file>>
    BY <1>2 DEF Start
  <2>5. QED
    BY <2>2, <2>3, <2>4 DEF TypeOK, world, git
<1>3. CASE PathIsFile \/ ResolveFails \/ TestsEnd
  BY <1>3 DEF PathIsFile, ResolveFails, TestsEnd, Goto, TypeOK, world, git, known
<1>4. ASSUME NEW u \in Urls, Fetch(u)
      PROVE  TypeOK'
  <2>1. /\ place' = [place EXCEPT ![u] = "repository"]
        /\ seen' = [seen EXCEPT ![u] = remote[u]]
        /\ todo' = todo \ {u}
        /\ pc = "fetch"
        /\ UNCHANGED <<world, file, pc, loaded, missed>>
    BY <1>4 DEF Fetch
  <2>0. PICK c \in Cloned(u) : clone' = [clone EXCEPT ![u] = Fetched(c, remote[u])]
    BY <1>4 DEF Fetch
  <2> DEFINE f == Fetched(c, remote[u])
  <2>2. remote[u].branch \in [Refs -> Shas \cup {Absent}]
        /\ remote[u].tag \in [Refs -> Shas \cup {Absent}]
    BY DEF TypeOK, References
  <2>3. /\ c.branch \in [Refs -> Shas \cup {Absent}]
        /\ c.tag \in [Refs -> Shas \cup {Absent}]
        /\ c.local \in [Refs -> Shas \cup {Absent}]
        /\ c.commits \subseteq Shas
    <3>1. clone[u] \in Clones
      BY DEF TypeOK
    <3>2. \A head \in Refs : [NoRefs EXCEPT ![head] = remote[u].branch[head]]
                              \in [Refs -> Shas \cup {Absent}]
      BY <2>2 DEF NoRefs
    <3>3. c \in Clones
      BY <3>1, <3>2 DEF Cloned, Clones
    <3>4. QED
      BY <3>3 DEF Clones
  <2>4. f \in Clones
    BY <2>2, <2>3 DEF Fetched, FirstOf, Clones
  <2>5. clone' \in [Urls -> Clones]
    BY <2>0, <2>4 DEF TypeOK
  <2>6. seen' \in [Urls -> References]
    BY <2>1 DEF TypeOK
  <2>7. QED
    BY <2>1, <2>5, <2>6 DEF TypeOK, world
<1>5. CASE OpenFile
  <2>1. DOMAIN file'.markers = {}
    BY <1>5 DEF OpenFile, NoFile
  <2>2. QED
    BY <1>5, <2>1 DEF OpenFile, Goto, TypeOK, world, git, known
<1>6. CASE DumpFile
  <2>1. file'.markers = Resolved /\ UNCHANGED <<world, git, loaded, seen, missed>>
        /\ pc' = "build" /\ todo' = {}
    BY <1>6 DEF DumpFile, Goto, known
  <2>2. Resolvable
    BY <1>6 DEF DumpFile, Opened
  <2>3. QED
    BY <2>1, <2>2, ResolvedTyped DEF TypeOK, world, git
<1>7. CASE Dies
  <2>1. /\ pc' = "idle" /\ todo' = {}
        /\ UNCHANGED <<world, git, loaded, seen, missed>>
    BY <1>7 DEF Dies, Goto, known
  <2>2. CASE pc = "dump"
    <3>1. PICK part \in SUBSET DOMAIN Resolved :
             file' = [NoFile EXCEPT !.markers = [l \in part |-> Resolved[l]]]
      BY <1>7, <2>2 DEF Dies
    <3>2. DOMAIN file'.markers = part /\ \A l \in part : file'.markers[l] = Resolved[l]
      BY <3>1 DEF NoFile
    <3>3. Resolvable
      BY <2>2 DEF Opened
    <3>4. /\ part \subseteq Labels
          /\ \A l \in part : file'.markers[l] \in [sha : Shas, deps : SUBSET Labels]
      BY <3>2, <3>3, ResolvedTyped
    <3>5. QED
      BY <2>1, <3>2, <3>4 DEF TypeOK, world, git, known
  <2>3. CASE pc # "dump"
    BY <1>7, <2>1, <2>3 DEF Dies, TypeOK, world, git, known
  <2>4. QED
    BY <2>2, <2>3
<1>8. CASE BuildProjects
  BY <1>8 DEF BuildProjects, Goto, TypeOK, world, git, known
<1>9. CASE BuildFails
  BY <1>9 DEF BuildFails, Goto, TypeOK, world, git, known
<1>10. ASSUME NEW t \in Tests, TestGets(t)
       PROVE  TypeOK'
  BY <1>10 DEF TestGets, TypeOK, world, git, boot, known
<1>11. ASSUME NEW m \in loaded, NEW lookup \in Lookups, Miss(m, lookup)
       PROVE  TypeOK'
  BY <1>11 DEF Miss, TypeOK, world, git
<1>12. QED
  BY <1>1, <1>2, <1>3, <1>4, <1>5, <1>6, <1>7, <1>8, <1>9, <1>10, <1>11
     DEF Next, Environment, Programs
-----------------------------------------------------------------------------
(* What bootstrap.py knows.                                                *)

LEMMA SoundStep ==
    ASSUME Sound, Next
    PROVE  Sound'
<1>1. CASE Start
  BY <1>1 DEF Start, Sound, Closed
<1>2. CASE UNCHANGED loaded /\ (pc' \in {"fetch", "dump"} => pc \in {"fetch", "dump"})
  BY <1>2 DEF Sound, Closed, Defined
<1>3. QED
  BY <1>1, <1>2 DEF Next, Environment, Programs, Move, Dies, PathIsFile, Fetch,
     ResolveFails, OpenFile, DumpFile, BuildProjects, BuildFails, TestsEnd, Miss, TestGets, Goto, boot,
     known

LEMMA FetchedStep ==
    ASSUME TypeOK, FetchedAsSeen, Next
    PROVE  FetchedAsSeen'
<1>1. CASE Start
  BY <1>1 DEF Start, FetchedAsSeen
<1>2. ASSUME NEW u \in Urls, Fetch(u)
      PROVE  FetchedAsSeen'
  <2> SUFFICES ASSUME NEW m \in loaded, m.url \notin todo', NEW r \in Refs,
                      seen'[m.url].branch[r] # Absent
               PROVE  clone'[m.url].branch[r] = seen'[m.url].branch[r]
    BY <1>2 DEF Fetch, FetchedAsSeen
  <2>1. m.url \in Urls
    BY Entries DEF TypeOK, Marker
  <2>2. CASE m.url = u
    <3>1. clone'[u].branch[r] = remote[u].branch[r]
      <4>1. PICK c \in Cloned(u) : clone' = [clone EXCEPT ![u] = Fetched(c, remote[u])]
        BY <1>2 DEF Fetch
      <4>2. clone'[u] = Fetched(c, remote[u])
        BY <4>1 DEF TypeOK
      <4>3. clone'[u].branch[r] = FirstOf(remote[u].branch[r], c.branch[r])
        BY <4>2 DEF Fetched
      <4>4. remote[u].branch[r] # Absent
        BY <1>2, <2>2 DEF Fetch, TypeOK
      <4>5. QED
        BY <4>3, <4>4 DEF FirstOf
    <3>2. seen'[u] = remote[u]
      BY <1>2 DEF Fetch, TypeOK
    <3>3. QED
      BY <2>2, <3>1, <3>2
  <2>3. CASE m.url # u
    <3>1. m.url \notin todo
      BY <1>2, <2>3 DEF Fetch
    <3>2. clone'[m.url] = clone[m.url] /\ seen'[m.url] = seen[m.url]
      BY <1>2, <2>1, <2>3 DEF Fetch, TypeOK
    <3>3. QED
      BY <1>2, <3>1, <3>2 DEF Fetch, FetchedAsSeen
  <2>4. QED
    BY <2>2, <2>3
<1>3. CASE OpenFile
  BY <1>3 DEF OpenFile, Goto, FetchedAsSeen, git, known
<1>4. CASE UNCHANGED <<clone, loaded, seen, todo, pc>>
  BY <1>4 DEF FetchedAsSeen
<1>5. CASE pc' \notin {"fetch", "dump"}
  BY <1>5 DEF FetchedAsSeen
<1>6. QED
  BY <1>1, <1>2, <1>3, <1>4, <1>5 DEF Next, Environment, Programs, Move, Dies,
     PathIsFile, ResolveFails, DumpFile, BuildProjects, BuildFails, TestsEnd, Miss, TestGets,
     Goto, git, boot, known

LEMMA OpenedStep ==
    ASSUME Opened, Next
    PROVE  Opened'
<1>1. CASE OpenFile
  <2>1. Resolvable' = Resolvable
    BY <1>1 DEF OpenFile, git, known, Resolvable, Sha, Found
  <2>2. QED
    BY <1>1, <2>1 DEF OpenFile, Opened
<1>2. CASE UNCHANGED <<clone, known, origin, pc>>
  <2>1. Resolvable' = Resolvable
    BY <1>2 DEF known, Resolvable, Sha, Found
  <2>2. QED
    BY <1>2, <2>1 DEF Opened
<1>3. CASE pc' # "dump"
  BY <1>3 DEF Opened
<1>4. QED
  BY <1>1, <1>2, <1>3 DEF Next, Environment, Programs, Start, Move, Dies, Fetch,
     PathIsFile, ResolveFails, DumpFile, BuildProjects, BuildFails, TestsEnd, Miss, TestGets,
     Goto, git, boot, known
-----------------------------------------------------------------------------
(* The file.                                                               *)

LEMMA DumpedClosed ==
    ASSUME TypeOK, Sound, Opened, DumpFile
    PROVE  MarkersClosed'
<1>1. /\ Resolvable /\ Closed(loaded) /\ origin'[1] = loaded
      /\ Markers' = Resolved
  BY DEF DumpFile, Opened, Sound, Markers, known
<1>2. DOMAIN Resolved = Defined(loaded)
  BY <1>1, ResolvedTyped
<1>3. ASSUME NEW l \in Defined(loaded)
      PROVE  Resolved[l].deps \subseteq Defined(loaded)
  <2>1. PICK m \in loaded : Resolved[l] = [sha |-> Sha(m), deps |-> m.deps]
    BY <1>1, ResolvedSound
  <2>2. QED
    BY <1>1, <2>1 DEF Closed
<1>4. (Markers = Resolved /\ origin[1] = loaded)'
  BY <1>1 DEF DumpFile, Resolved, Sha, Found, Defined, git, known
<1>5. QED
  BY <1>1, <1>2, <1>3 DEF MarkersClosed, Defined

LEMMA DumpedAsSaid ==
    ASSUME TypeOK, FetchedAsSeen, Opened, DumpFile, todo = {}
    PROVE  AsRemoteSaid'
<1>1. /\ Resolvable /\ origin' = known /\ Markers' = Resolved
      /\ pc = "dump"
  BY DEF DumpFile, Opened, Markers
<1>2. ASSUME NEW m \in loaded
      PROVE  IF m.ref \in Refs
             THEN seen[m.url].branch[m.ref] # Absent /\ <<m, "branch">> \notin missed
                     => Resolved[m.name].sha = seen[m.url].branch[m.ref]
             ELSE Resolved[m.name].sha = m.ref
  <2>1. Resolved[m.name].sha = Sha(m) /\ Sha(m) # Absent
    <3>1. Resolved[m.name] = [sha |-> Sha(m), deps |-> m.deps]
      BY <1>1, ResolvedUnique
    <3>2. QED
      BY <1>1, <3>1 DEF Resolvable
  <2>2. \A r \in Refs : seen[m.url].branch[r] # Absent =>
           clone[m.url].branch[r] = seen[m.url].branch[r]
    BY <1>1 DEF FetchedAsSeen
  <2>3. CASE m.ref \in Refs
    BY <2>1, <2>2, <2>3 DEF Sha, Found, Answers, Named, FirstOf
  <2>4. CASE m.ref \notin Refs
    BY <2>1, <2>4 DEF Sha, Found, Answers, Named, FirstOf, rev_parse
  <2>5. QED
    BY <2>3, <2>4
<1>3. QED
  BY <1>1, <1>2 DEF AsRemoteSaid, known

LEMMA ClosedStep ==
    ASSUME TypeOK, Sound, Opened, MarkersClosed, Next
    PROVE  MarkersClosed'
<1>1. CASE DumpFile
  BY <1>1, DumpedClosed
<1>2. CASE UNCHANGED <<file, origin>>
  BY <1>2 DEF MarkersClosed, Markers, Defined
<1>3. CASE ~file'.whole
  BY <1>3 DEF MarkersClosed
<1>4. QED
  BY <1>1, <1>2, <1>3 DEF Next, Environment, Programs, Start, Move, Dies, Fetch,
     PathIsFile, ResolveFails, OpenFile, BuildProjects, BuildFails, TestsEnd, Miss, TestGets,
     NoFile

LEMMA SaidStep ==
    ASSUME TypeOK, FetchedAsSeen, Opened, AsRemoteSaid, Next
    PROVE  AsRemoteSaid'
<1>1. CASE DumpFile
  BY <1>1, DumpedAsSaid DEF DumpFile, TypeOK
<1>2. CASE UNCHANGED <<file, origin>>
  BY <1>2 DEF AsRemoteSaid, Markers
<1>3. CASE ~file'.whole
  BY <1>3 DEF AsRemoteSaid
<1>4. QED
  BY <1>1, <1>2, <1>3 DEF Next, Environment, Programs, Start, Move, Dies, Fetch,
     PathIsFile, ResolveFails, OpenFile, BuildProjects, BuildFails, TestsEnd, Miss, TestGets,
     NoFile

\* Between the end of bootstrap.py and the end of the tests nobody writes
\* the file or reads another config.yaml.
LEMMA PipelineStep ==
    ASSUME TypeOK, Opened, PipelineUsesItsOwn, Next
    PROVE  PipelineUsesItsOwn'
<1>1. CASE DumpFile
  BY <1>1 DEF DumpFile, Opened, PipelineUsesItsOwn
<1>2. CASE PathIsFile
  BY <1>2 DEF PathIsFile, PipelineUsesItsOwn, git, known, TypeOK
<1>3. CASE UNCHANGED <<place, file, known, origin>>
           /\ (pc' \in {"build", "test"} => pc \in {"build", "test"})
  BY <1>3 DEF known, PipelineUsesItsOwn
<1>4. CASE pc' \notin {"build", "test"}
  BY <1>4 DEF PipelineUsesItsOwn
<1>5. QED
  BY <1>1, <1>2, <1>3, <1>4 DEF Next, Environment, Programs, Start, Move, Dies, Fetch,
     ResolveFails, OpenFile, BuildProjects, BuildFails, TestsEnd, Miss, TestGets,
     Goto, git, boot, known

\* What the tests ask for is not deprecated, and is its own first need.
LEMMA BuiltForTests ==
    ASSUME TypeOK, BuildProjects
    PROVE  TestsFindPrebuilt'
<1> DEFINE labels == DOMAIN Markers \ Deprecated
<1>1. cached' = Precooked(labels) /\ file' = file
  BY DEF BuildProjects
<1>2. ASSUME NEW t \in generate_runtime_test_matrix(Tests),
             NEW l \in t.asks \cap DOMAIN Markers,
             l \in Criteria(t) \/ l \notin Deprecated
      PROVE  cached'[l] = Tree(l)
  <2>1. l \notin Deprecated
    BY <1>2 DEF generate_runtime_test_matrix
  <2>2. l \in Labels
    BY DEF TypeOK, Markers
  <2>3. l \in Needs(l)
    BY <2>2 DEF Needs
  <2>4. QED
    BY <1>1, <2>1, <2>2, <2>3 DEF Precooked
<1>3. \A l \in Labels : Tree(l)' = Tree(l)
  BY <1>1 DEF Tree, Needs, Markers
<1>4. QED
  BY <1>1, <1>2, <1>3 DEF TestsFindPrebuilt, Markers, TypeOK

\* What a test builds is built as the run configuration says.
LEMMA BuiltByTests ==
    ASSUME TypeOK, TestsFindPrebuilt, NEW t \in Tests, TestGets(t)
    PROVE  TestsFindPrebuilt'
<1>1. PICK labels \in SUBSET Labels : cached' = Precooked(labels)
  BY DEF TestGets, Needs
<1>2. file' = file /\ pc = "test"
  BY DEF TestGets
<1>3. ASSUME NEW l \in Labels, cached[l] = Tree(l) PROVE cached'[l] = Tree(l)
  BY <1>1, <1>3 DEF Precooked
<1>4. \A l \in Labels : Tree(l)' = Tree(l)
  BY <1>2 DEF Tree, Needs, Markers
<1>5. QED
  BY <1>2, <1>3, <1>4 DEF TestsFindPrebuilt, Markers, TypeOK

LEMMA TestsStep ==
    ASSUME TypeOK, TestsFindPrebuilt, Next
    PROVE  TestsFindPrebuilt'
<1>1. CASE BuildProjects
  BY <1>1, BuiltForTests
<1>2. CASE UNCHANGED <<file, cached, pc>>
  <2>1. \A l \in Labels : Tree(l)' = Tree(l)
    BY <1>2 DEF Tree, Needs, Markers
  <2>2. QED
    BY <1>2, <2>1 DEF TestsFindPrebuilt, Markers, TypeOK
<1>3. CASE pc' # "test"
  BY <1>3 DEF TestsFindPrebuilt
<1>4. CASE \E t \in Tests : TestGets(t)
  BY <1>4, BuiltByTests
<1>5. QED
  BY <1>1, <1>2, <1>3, <1>4 DEF Next, Environment, Programs, Start, Move, Dies, Fetch,
     PathIsFile, ResolveFails, OpenFile, DumpFile, BuildFails, TestsEnd, Miss, Goto
-----------------------------------------------------------------------------
LEMMA Stuttering == IInv /\ UNCHANGED vars => IInv'
<1> SUFFICES ASSUME IInv, UNCHANGED vars
             PROVE  IInv'
  OBVIOUS
<1>1. UNCHANGED <<remote, moves, place, clone, file, cached, pc, loaded, todo, seen,
                  missed, origin>>
  BY DEF vars, world, git, boot, known
<1>2. Resolvable' = Resolvable /\ \A l \in Labels : Tree(l)' = Tree(l)
  BY <1>1 DEF Resolvable, Sha, Found, Tree, Needs, Markers
<1>3. TypeOK' /\ Sound' /\ FetchedAsSeen' /\ Opened'
  BY <1>1, <1>2 DEF IInv, TypeOK, Sound, Closed, Defined, FetchedAsSeen, Opened,
     known
<1>4. MarkersClosed' /\ AsRemoteSaid' /\ PipelineUsesItsOwn'
  BY <1>1 DEF IInv, MarkersClosed, AsRemoteSaid, PipelineUsesItsOwn, Markers, Defined,
     known
<1>5. TestsFindPrebuilt'
  BY <1>1, <1>2 DEF IInv, TypeOK, TestsFindPrebuilt, Markers
<1>6. QED
  BY <1>3, <1>4, <1>5 DEF IInv

THEOREM Invariance == Spec => []IInv
<1>1. Init => IInv
  BY InitInv
<1>2. IInv /\ [Next]_vars => IInv'
  <2>1. CASE UNCHANGED vars
    BY <2>1, Stuttering
  <2>2. ASSUME IInv, Next
        PROVE  IInv'
    BY <2>2, TypeStep, SoundStep, FetchedStep, OpenedStep, ClosedStep, SaidStep,
       PipelineStep, TestsStep DEF IInv
  <2>3. QED
    BY <2>1, <2>2
<1>3. QED
  BY <1>1, <1>2, PTL DEF Spec

\* The three programs are type correct (RunConfiguration.TypeOK).
THEOREM PipelineTyped == Spec => []TypeOK
<1>1. IInv => TypeOK
  BY DEF IInv
<1>2. QED
  BY <1>1, Invariance, PTL

\* bootstrap.py:71-87 and 150-160: a whole run configuration has every marker
\* of its config.yaml and every dependency of one.
THEOREM ConfigurationClosed == Spec => []MarkersClosed
<1>1. IInv => MarkersClosed
  BY DEF IInv
<1>2. QED
  BY <1>1, Invariance, PTL

\* bootstrap.py:106-142: references stand for what the remote had when this
\* run fetched it.
THEOREM ResolvedAsSaid == Spec => []AsRemoteSaid
<1>1. IInv => AsRemoteSaid
  BY DEF IInv
<1>2. QED
  BY <1>1, Invariance, PTL

\* No project is built and no test run with the run configuration of an
\* earlier bootstrap.py, but for the exit of bootstrap.py:111.
THEOREM OwnConfiguration == Spec => []PipelineUsesItsOwn
<1>1. IInv => PipelineUsesItsOwn
  BY DEF IInv
<1>2. QED
  BY <1>1, Invariance, PTL

\* settings.py:65 and build_projects.py:43 agree: tests find what they ask for
\* in the cache, but a deprecated label that is no criterion of their matrix.
THEOREM Prebuilt == Spec => []TestsFindPrebuilt
<1>1. IInv => TestsFindPrebuilt
  BY DEF IInv
<1>2. QED
  BY <1>1, Invariance, PTL
=============================================================================
