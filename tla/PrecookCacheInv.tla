--------------------------- MODULE PrecookCacheInv ---------------------------
(***************************************************************************)
(* The inductive invariant behind the theorems about the project cache:    *)
(* what the calls in progress and the files of the cache know of each      *)
(* other.                                                                  *)
(***************************************************************************)
EXTENDS PrecookCache

IdleWhenDown == ~running => stack = <<>> /\ answer.how # "returned"

\* A frame that found no valid pickle is at work: nobody else supplies one.
AtWork(f) == f.pc # "lookup"
Constructed(f) == f.pc \notin {"lookup", "construct"}

KnownLabels ==
    \A i \in 1..Len(stack) :
       AtWork(stack[i]) => stack[i].label \in DOMAIN loaded.conf

KnownInv == TypeOK /\ IdleWhenDown /\ KnownLabels

(* A call is as deep in the stack as the rank of its label leaves room.    *)
FrameRanked(f, i) ==
    /\ Constructed(f) => f.todo \subseteq loaded.conf[f.label].deps
    /\ f.label \in DOMAIN loaded.conf =>
          \A r \in Ranks(loaded.conf) : r[f.label] + i <= MaxDepth

FramesRanked == \A i \in 1..Len(stack) : FrameRanked(stack[i], i)

NothingAsked == ~running => answer.how = "none"

RankInv == KnownInv /\ NothingAsked /\ FramesRanked /\ LimitOnlyIfDeep

(* With project.py unchanged while a process runs.                         *)

PyStable == running => loaded.py = files.py

\* A tree with a root, in which no dependency is missing.
Complete(o) ==
    /\ \E n \in o.nodes : n.label = o.label
    /\ \A n \in o.nodes : \A d \in n.deps : \E m \in o.nodes : m.label = d

PicklesComplete ==
    \A l \in Labels : pickle[l] \in Object =>
       pickle[l].label = l /\ Complete(pickle[l])

\* The object under construction lacks only what is still to get.
FrameSound(f) ==
    Constructed(f) =>
       /\ NodeOf(loaded, f.label) \in f.nodes
       /\ \A n \in f.nodes : /\ n.label \in DOMAIN loaded.conf
                             /\ n = NodeOf(loaded, n.label)
       /\ \A n \in f.nodes : \A d \in n.deps :
             \/ \E m \in f.nodes : m.label = d
             \/ n.label = f.label /\ d \in f.todo
       /\ f.pc # "deps" => f.todo = {}

FramesSound == \A i \in 1..Len(stack) : FrameSound(stack[i])

MatchInv == /\ KnownInv /\ PyStable /\ PicklesComplete /\ FramesSound
            /\ ReturnedMatchesMarkers

(* With sources that only go forward.                                      *)

NotAfter(s, t) == s = t \/ <<s, t>> \in Edits

SourcesOrdered == NotAfter(loaded, files)

\* Every pickle was valid for some process until now.
PickleOrigins ==
    \A l \in Labels : pickle[l] \in Object =>
       \E s \in Source : NotAfter(s, loaded) /\ Valid(pickle[l], l, s)

\* Only lttng-modules are skipped.
SkippedPickles ==
    \A l \in Labels : pickle[l] \in Object /\ pickle[l].skip => l \in Modules

SkippedFrames ==
    \A i \in 1..Len(stack) :
       stack[i].skip => /\ stack[i].label \in Modules
                        /\ stack[i].pc \in {"save", "dump"}

\* The projects of the tree have pickles of their own, of parts of the tree.
PartsCached(o) ==
    \A n \in o.nodes : /\ pickle[n.label] \in Object
                       /\ pickle[n.label].nodes \subseteq o.nodes

PicklesHonest ==
    \A l \in Labels :
       ValidPickle(l) => Honest(pickle[l]) /\ PartsCached(pickle[l])

Gotten(f) == loaded.conf[f.label].deps \ f.todo

FrameCached(f) ==
    /\ AtWork(f) => ~ValidPickle(f.label)
    /\ Constructed(f) =>
          /\ f.todo \subseteq loaded.conf[f.label].deps
          /\ \A d \in Gotten(f) : /\ ValidPickle(d)
                                  /\ pickle[d].nodes \subseteq f.nodes
          /\ \A n \in f.nodes : \/ n = NodeOf(loaded, f.label)
                                \/ \E d \in Gotten(f) : n \in pickle[d].nodes
    /\ f.pc \in {"strip", "save", "dump"} /\ ~f.skip =>
          /\ NodeOf(loaded, f.label) \in install[f.label].nodes
          /\ install[f.label].nodes \subseteq f.nodes
          /\ f.pc # "strip" => install[f.label].stripped

FramesCached == \A i \in 1..Len(stack) : FrameCached(stack[i])

\* Every caller waits for a dependency it still lacks.
Calling == \A i \in 1..(Len(stack) - 1) :
              stack[i].pc = "deps" /\ stack[i + 1].label \in stack[i].todo

\* The answer belongs to the outermost call.
Outermost == stack # <<>> => answer.how = "none" /\ answer.label = stack[1].label

CacheInv == /\ MatchInv /\ SourcesOrdered /\ PickleOrigins
            /\ SkippedPickles /\ SkippedFrames
            /\ PicklesHonest /\ FramesCached /\ Calling /\ Outermost
            /\ ReturnedIsCached
=============================================================================
