------------------------- MODULE PrecookCacheHonesty -------------------------
(***************************************************************************)
(* Proof that the project cache can be trusted when the sources only go    *)
(* forward: whatever the calls, failures and restarts, a pickle that a     *)
(* process accepts tells the truth about the directories it vouches for.   *)
(***************************************************************************)
EXTENDS PrecookCacheProofs

(* The history of the sources.                                             *)

LEMMA NotAfterTransitive ==
    ASSUME OnlyForward, NEW s \in Source, NEW t \in Source, NEW u \in Source,
           NotAfter(s, t), NotAfter(t, u)
    PROVE  NotAfter(s, u)
  BY EditsAssumption DEF NeverReturns, NotAfter

\* What is valid before and after is valid in between.
LEMMA Convex ==
    ASSUME OnlyForward, NEW s \in Source, NEW t \in Source, NEW u \in Source,
           NotAfter(s, t), NotAfter(t, u), NEW o, NEW l,
           Valid(o, l, s), Valid(o, l, u)
    PROVE  Valid(o, l, t)
<1>1. CASE s = t \/ t = u
  BY <1>1
<1>2. CASE <<s, t>> \in Edits /\ <<t, u>> \in Edits
  <2>1. \A m \in DOMAIN s.conf \cap DOMAIN u.conf :
           NodeOf(s, m) = NodeOf(u, m) =>
              m \in DOMAIN t.conf /\ NodeOf(t, m) = NodeOf(s, m)
    BY <1>2, EditsAssumption DEF NeverReturns
  <2>2. ASSUME NEW n \in o.nodes
        PROVE  n.label \in DOMAIN t.conf /\ n = NodeOf(t, n.label)
    <3>1. /\ n.label \in DOMAIN s.conf /\ n = NodeOf(s, n.label)
          /\ n.label \in DOMAIN u.conf /\ n = NodeOf(u, n.label)
      BY DEF Valid
    <3> QED
      BY <2>1, <3>1
  <2> QED
    BY <2>2 DEF Valid
<1> QED
  BY <1>1, <1>2 DEF NotAfter

\* A pickle the next process accepts was acceptable to this one.
LEMMA AcceptedBefore ==
    ASSUME OnlyForward, KnownInv, PicklesComplete, SourcesOrdered,
           PickleOrigins, NEW l \in Labels,
           loaded' = files, pickle' = pickle, ValidPickle(l)'
    PROVE  ValidPickle(l)
<1>1. pickle[l] \in Object /\ Valid(pickle[l], l, files)
  BY DEF ValidPickle, Valid, NodeOf
<1>2. PICK s \in Source : NotAfter(s, loaded) /\ Valid(pickle[l], l, s)
  BY <1>1 DEF PickleOrigins
<1>3. loaded \in Source /\ files \in Source /\ NotAfter(loaded, files)
  BY DEF KnownInv, TypeOK, SourcesOrdered
<1>4. Valid(pickle[l], l, loaded)
  BY <1>1, <1>2, <1>3, Convex
<1>5. \E n \in pickle[l].nodes : n.label = l
  BY <1>1 DEF PicklesComplete, Complete
<1>6. l \in DOMAIN loaded.conf
  BY <1>4, <1>5 DEF Valid
<1> QED
  BY <1>1, <1>4, <1>6 DEF ValidPickle
-----------------------------------------------------------------------------
(* A step of get_precook and the valid pickles.                            *)

LEMMA PartsValid ==
    ASSUME PicklesComplete, PicklesHonest, NEW l \in Labels, ValidPickle(l),
           NEW n \in pickle[l].nodes
    PROVE  n.label \in Labels /\ ValidPickle(n.label)
<1>1. pickle[l] \in Object /\ Valid(pickle[l], l, loaded)
  BY DEF ValidPickle
<1>2. n.label \in Labels /\ n.label \in DOMAIN loaded.conf
  BY <1>1 DEF Object, Node, Valid
<1>3. /\ pickle[n.label] \in Object
      /\ pickle[n.label].nodes \subseteq pickle[l].nodes
  BY DEF PicklesHonest, PartsCached
<1>4. pickle[n.label].label = n.label
  BY <1>2, <1>3 DEF PicklesComplete
<1> QED
  BY <1>1, <1>2, <1>3, <1>4 DEF ValidPickle, Valid

\* The step leaves alone what a valid pickle vouches for.
OnlyInvalid ==
    /\ loaded' = loaded
    /\ \A l \in Labels : ValidPickle(l) => /\ pickle'[l] = pickle[l]
                                           /\ install'[l] = install[l]

\* The step writes no new pickle.
NoNewPickle ==
    \A l \in Labels : pickle'[l] \in Object => pickle'[l] = pickle[l]

LEMMA Undisturbed ==
    ASSUME PicklesComplete, PicklesHonest, OnlyInvalid,
           NEW l \in Labels, ValidPickle(l)
    PROVE  /\ pickle'[l] = pickle[l]
           /\ ValidPickle(l)'
           /\ Honest(pickle[l])'
           /\ PartsCached(pickle[l])'
           /\ \A n \in pickle[l].nodes : install'[n.label] = install[n.label]
<1>1. pickle'[l] = pickle[l] /\ loaded' = loaded
  BY DEF OnlyInvalid
<1>2. ValidPickle(l)'
  BY <1>1 DEF ValidPickle, Valid, NodeOf
<1>3. \A n \in pickle[l].nodes : /\ install'[n.label] = install[n.label]
                                 /\ pickle'[n.label] = pickle[n.label]
  BY PartsValid DEF OnlyInvalid
<1>4. Honest(pickle[l])'
  BY <1>1, <1>3 DEF PicklesHonest, Honest
<1>5. PartsCached(pickle[l])'
  BY <1>1, <1>3 DEF PicklesHonest, PartsCached
<1> QED
  BY <1>1, <1>2, <1>3, <1>4, <1>5

LEMMA NoNewValid ==
    ASSUME loaded' = loaded, NoNewPickle, NEW l \in Labels, ValidPickle(l)'
    PROVE  ValidPickle(l)
  BY DEF NoNewPickle, ValidPickle, Valid, NodeOf

LEMMA PicklesStayHonest ==
    ASSUME PicklesComplete, PicklesHonest, PickleOrigins, SkippedPickles,
           OnlyInvalid, NoNewPickle
    PROVE  PickleOrigins' /\ SkippedPickles' /\ PicklesHonest'
<1>1. loaded' = loaded
  BY DEF OnlyInvalid
<1>2. PickleOrigins'
  <2>1. ASSUME NEW l \in Labels, pickle'[l] \in Object
        PROVE  \E s \in Source : NotAfter(s, loaded') /\ Valid(pickle'[l], l, s)
    <3>1. pickle'[l] = pickle[l] /\ pickle[l] \in Object
      BY <2>1 DEF NoNewPickle
    <3>2. PICK s \in Source : NotAfter(s, loaded) /\ Valid(pickle[l], l, s)
      BY <3>1 DEF PickleOrigins
    <3> QED
      BY <1>1, <3>1, <3>2
  <2> QED
    BY <2>1 DEF PickleOrigins, NotAfter, Valid
<1>3. SkippedPickles'
  BY DEF NoNewPickle, SkippedPickles
<1>4. PicklesHonest'
  <2>1. ASSUME NEW l \in Labels, ValidPickle(l)'
        PROVE  Honest(pickle[l])' /\ PartsCached(pickle[l])'
    BY <1>1, <2>1, NoNewValid, Undisturbed
  <2> QED
    BY <2>1 DEF PicklesHonest
<1> QED
  BY <1>2, <1>3, <1>4

\* A frame that has done its part is not disturbed either.
LEMMA FrameUndisturbed ==
    ASSUME TypeOK, PicklesComplete, PicklesHonest, OnlyInvalid, NEW f \in Frame,
           AtWork(f) => f.label \in DOMAIN loaded.conf,
           FrameCached(f), ~ValidPickle(f.label)',
           f.pc \in {"strip", "save", "dump"} =>
              install'[f.label] = install[f.label]
    PROVE  FrameCached(f)'
<1>1. loaded' = loaded
  BY DEF OnlyInvalid
<1>2. ASSUME Constructed(f)
      PROVE  /\ f.todo \subseteq loaded'.conf[f.label].deps
             /\ \A d \in Gotten(f)' : /\ ValidPickle(d)'
                                      /\ pickle'[d].nodes \subseteq f.nodes
             /\ \A n \in f.nodes :
                   \/ n = NodeOf(loaded', f.label)
                   \/ \E d \in Gotten(f)' : n \in pickle'[d].nodes
  <2>1. Gotten(f)' = Gotten(f)
    BY <1>1 DEF Gotten
  <2>2. f.label \in DOMAIN loaded.conf
    BY <1>2 DEF Constructed, AtWork
  <2>3. Gotten(f) \subseteq Labels
    BY <2>2, ConfigsAssumption DEF Gotten, TypeOK, Source
  <2>4. \A d \in Gotten(f) : /\ ValidPickle(d)' /\ pickle'[d] = pickle[d]
    BY <1>2, <2>3, Undisturbed DEF FrameCached
  <2> QED
    BY <1>1, <1>2, <2>1, <2>4 DEF FrameCached
<1>3. ASSUME f.pc \in {"strip", "save", "dump"}, ~f.skip
      PROVE  /\ NodeOf(loaded', f.label) \in install'[f.label].nodes
             /\ install'[f.label].nodes \subseteq f.nodes
             /\ f.pc # "strip" => install'[f.label].stripped
  BY <1>1, <1>3 DEF FrameCached
<1> QED
  BY <1>2, <1>3 DEF FrameCached, NodeOf
-----------------------------------------------------------------------------
(* The frames after a step.                                                *)

CacheParts == /\ KnownInv /\ TypeOK /\ PicklesComplete /\ PicklesHonest
              /\ FramesSound /\ PickleOrigins /\ SkippedPickles
              /\ SkippedFrames /\ FramesCached /\ Calling /\ Outermost

LEMMA PartsOfInv == CacheInv => CacheParts
  BY DEF CacheInv, MatchInv, KnownInv, CacheParts

\* A caller waits at its dependencies, with no valid pickle of its own.
LEMMA CallerFrame ==
    ASSUME CacheParts, NEW i \in 1..(Len(stack) - 1)
    PROVE  /\ i \in 1..Len(stack)
           /\ stack[i] \in Frame
           /\ stack[i].label \in DOMAIN loaded.conf
           /\ stack[i].pc = "deps"
           /\ FrameCached(stack[i])
           /\ ~ValidPickle(stack[i].label)
           /\ ~stack[i].skip
<1>1. Len(stack) \in Nat
  BY DEF CacheParts, TypeOK
<1>2. i \in 1..Len(stack)
  BY <1>1
<1>3. stack[i] \in Frame
  BY <1>2, FrameType DEF CacheParts
<1>4. stack[i].pc = "deps"
  BY DEF CacheParts, Calling
<1>5. AtWork(stack[i])
  BY <1>4 DEF AtWork
<1>6. stack[i].label \in DOMAIN loaded.conf
  BY <1>2, <1>5 DEF CacheParts, KnownInv, KnownLabels
<1>7. FrameCached(stack[i]) /\ ~ValidPickle(stack[i].label)
  BY <1>2, <1>5 DEF CacheParts, FramesCached, FrameCached
<1>8. ~stack[i].skip
  BY <1>2, <1>4 DEF CacheParts, SkippedFrames
<1> QED
  BY <1>2, <1>3, <1>4, <1>6, <1>7, <1>8

\* The callers lose nothing in a step that makes no caller's pickle valid.
LEMMA CallerStays ==
    ASSUME CacheParts, OnlyInvalid, NEW i \in 1..(Len(stack) - 1),
           \A l \in Labels : l = stack[i].label => ~ValidPickle(l)'
    PROVE  \E f \in Frame : f = stack[i] /\ FrameCached(f)'
<1>1. PICK f \in Frame : f = stack[i]
  BY CallerFrame
<1>2. /\ f.label \in DOMAIN loaded.conf
      /\ f.pc = "deps"
      /\ FrameCached(f)
      /\ f.label \in Labels
  BY <1>1, CallerFrame DEF Frame
<1>3. ~ValidPickle(f.label)'
  BY <1>1, <1>2
<1>4. TypeOK /\ PicklesComplete /\ PicklesHonest
  BY DEF CacheParts
<1> QED
  BY <1>1, <1>2, <1>3, <1>4, FrameUndisturbed

\* A frame of the next state that the next disk bears out.
LEMMA FramesCachedNext ==
    ASSUME \A i \in 1..Len(stack') :
              \E f \in Frame : f = stack'[i] /\ FrameCached(f)'
    PROVE  FramesCached'
<1>1. ASSUME NEW i \in 1..Len(stack') PROVE FrameCached(stack[i])'
  <2>1. PICK f \in Frame : f = stack'[i] /\ FrameCached(f)'
    OBVIOUS
  <2> QED
    BY <2>1 DEF FrameCached, AtWork, Constructed, Gotten
<1> QED
  BY <1>1 DEF FramesCached

LEMMA SetTopCached ==
    ASSUME CacheParts, OnlyInvalid, NoNewPickle, stack # <<>>,
           NEW f \in Frame, SetTop(f), f.label = Top.label, FrameCached(f)',
           f.skip => f.label \in Modules /\ f.pc \in {"save", "dump"},
           answer' = answer
    PROVE  FramesCached' /\ SkippedFrames' /\ Calling' /\ Outermost'
           /\ ReturnedIsCached'
<1> DEFINE n == Len(stack)
<1>1. /\ Len(stack') = n /\ stack' # <<>> /\ stack'[n] = f
      /\ \A i \in 1..(n - 1) : stack'[i] = stack[i]
  BY SetTopShape DEF CacheParts
<1>2. n \in Nat /\ n >= 1
  BY TopType DEF CacheParts
<1>3. stack[n].label = f.label
  BY DEF Top
<1>4. TypeOK /\ PicklesComplete /\ PicklesHonest /\ loaded' = loaded
  BY DEF CacheParts, OnlyInvalid
<1>5. ASSUME NEW i \in 1..(n - 1)
      PROVE  \E g \in Frame : g = stack'[i] /\ FrameCached(g)'
  <2>1. ~ValidPickle(stack[i].label) /\ stack[i] \in Frame
    BY CallerFrame
  <2>2. \A l \in Labels : l = stack[i].label => ~ValidPickle(l)'
    BY <1>4, <2>1, NoNewValid
  <2> QED
    BY <1>1, <2>2, CallerStays
<1>6. \A i \in 1..n : i = n \/ i \in 1..(n - 1)
  BY <1>2
<1>7. FramesCached'
  <2>1. ASSUME NEW i \in 1..Len(stack')
        PROVE  \E g \in Frame : g = stack'[i] /\ FrameCached(g)'
    BY <1>1, <1>5, <1>6
  <2> QED
    BY <2>1, FramesCachedNext
<1>8. SkippedFrames'
  <2>1. \A i \in 1..(n - 1) : ~stack[i].skip
    BY CallerFrame
  <2> QED
    BY <1>1, <1>6, <2>1 DEF SkippedFrames
<1>9. \A i \in 1..n : stack'[i].label = stack[i].label
  BY <1>1, <1>3, <1>6
<1>10. Calling'
  <2>1. ASSUME NEW i \in 1..(n - 1)
        PROVE  stack'[i].pc = "deps" /\ stack'[i + 1].label \in stack'[i].todo
    <3>1. i + 1 \in 1..n
      BY <1>2
    <3> QED
      BY <1>1, <1>9, <3>1 DEF CacheParts, Calling
  <2> QED
    BY <1>1, <2>1 DEF Calling
<1>11. Outermost'
  BY <1>1, <1>2, <1>9 DEF CacheParts, Outermost
<1>12. ReturnedIsCached'
  BY DEF CacheParts, Outermost, ReturnedIsCached
<1> QED
  BY <1>7, <1>8, <1>10, <1>11, <1>12

LEMMA RaiseCached ==
    ASSUME NEW why \in Outcome \ {"returned"}, Raise(why), TypeOK
    PROVE  FramesCached' /\ SkippedFrames' /\ Calling' /\ Outermost'
           /\ ReturnedIsCached'
<1>1. stack' = <<>> /\ answer'.how # "returned"
  BY DEF Raise, TypeOK
<1>2. 1..Len(stack') = {} /\ 1..(Len(stack') - 1) = {}
  BY <1>1
<1> QED
  BY <1>1, <1>2 DEF FramesCached, SkippedFrames, Calling, Outermost,
                    ReturnedIsCached

\* The caller takes over what the object it got contains.
LEMMA ResumedCached ==
    ASSUME TypeOK, NEW f \in Frame, f.label \in DOMAIN loaded.conf,
           f.pc = "deps", FrameCached(f)', NEW o \in Object,
           o.label \in f.todo, ValidPickle(o.label)', pickle'[o.label] = o,
           loaded' = loaded
    PROVE  FrameCached(Resumed(f, o))'
<1>1. PICK g : g = Resumed(f, o)
  OBVIOUS
<1>2. /\ g.label = f.label
      /\ g.pc = "deps"
      /\ g.todo = f.todo \ {o.label}
      /\ g.nodes = f.nodes \cup o.nodes
  BY <1>1 DEF Resumed, Frame
<1>3. /\ ~ValidPickle(f.label)'
      /\ f.todo \subseteq loaded'.conf[f.label].deps
      /\ \A d \in Gotten(f)' : /\ ValidPickle(d)'
                               /\ pickle'[d].nodes \subseteq f.nodes
      /\ \A n \in f.nodes : \/ n = NodeOf(loaded', f.label)
                            \/ \E d \in Gotten(f)' : n \in pickle'[d].nodes
  BY DEF FrameCached, AtWork, Constructed, NodeOf
<1>4. Gotten(g)' = Gotten(f)' \cup {o.label}
  BY <1>2, <1>3 DEF Gotten
<1>5. \A d \in Gotten(g)' : ValidPickle(d)' /\ pickle'[d].nodes \subseteq g.nodes
  BY <1>2, <1>3, <1>4
<1>6. \A n \in g.nodes : \/ n = NodeOf(loaded', g.label)
                         \/ \E d \in Gotten(g)' : n \in pickle'[d].nodes
  BY <1>2, <1>3, <1>4
<1>7. FrameCached(g)'
  BY <1>2, <1>3, <1>5, <1>6 DEF FrameCached, NodeOf
<1> QED
  BY <1>1, <1>7

LEMMA ReturnCached ==
    ASSUME CacheParts, OnlyInvalid, stack # <<>>, NEW o \in Object, Return(o),
           o.label = Top.label, ValidPickle(o.label)', pickle'[o.label] = o,
           \A i \in 1..(Len(stack) - 1) : stack[i].label # o.label,
           \A l \in Labels :
              l # o.label /\ ValidPickle(l)' => ValidPickle(l)
    PROVE  FramesCached' /\ SkippedFrames' /\ Calling' /\ Outermost'
           /\ ReturnedIsCached'
<1> DEFINE n == Len(stack) - 1
<1>0. TypeOK /\ Len(stack) = n + 1 /\ n \in Nat
  BY TopType DEF CacheParts
<1>1. CASE Len(stack) = 1
  <2>1. stack' = <<>> /\ answer' = [answer EXCEPT !.how = "returned",
                                                 !.object = o]
    BY <1>0, <1>1, ReturnShape, NotOne
  <2>2. 1..Len(stack') = {} /\ 1..(Len(stack') - 1) = {}
    BY <2>1
  <2>3. answer.label = o.label
    BY <1>1 DEF CacheParts, Outermost, Top
  <2>4. answer'.label = o.label /\ answer'.object = o
    BY <1>0, <2>1, <2>3 DEF TypeOK
  <2>5. ReturnedIsCached'
    BY <2>4 DEF ReturnedIsCached, ValidPickle
  <2> QED
    BY <2>1, <2>2, <2>5 DEF FramesCached, SkippedFrames, Calling, Outermost
<1>2. CASE Len(stack) > 1
  <2>1. /\ Len(stack') = n /\ stack' # <<>>
        /\ stack'[n] = Resumed(stack[n], o)
        /\ \A i \in 1..(n - 1) : stack'[i] = stack[i]
        /\ answer' = answer
    <3>1. Len(stack) # 1 /\ TypeOK
      BY <1>0, <1>2, TopType, NotOne
    <3> QED
      BY <3>1, ReturnShape
  <2>2. n >= 1 /\ n \in 1..n /\ \A i \in 1..n : i = n \/ i \in 1..(n - 1)
    <3> HIDE DEF n
    <3>1. n + 1 > 1
      BY <1>0, <1>2
    <3> QED
      BY <1>0, <3>1
  <2>3. \A i \in 1..n : stack[i] \in Frame /\ stack[i].pc = "deps"
                        /\ stack[i].label \in DOMAIN loaded.conf
                        /\ ~stack[i].skip /\ ~ValidPickle(stack[i].label)
    BY CallerFrame
  <2>4. /\ stack'[n].label = stack[n].label
        /\ stack'[n].pc = stack[n].pc
        /\ stack'[n].skip = stack[n].skip
    BY <2>1, <2>2, <2>3 DEF Resumed, Frame
  <2>5. \A i \in 1..n : stack'[i].label = stack[i].label
                        /\ stack'[i].pc = stack[i].pc
                        /\ stack'[i].skip = stack[i].skip
    BY <2>1, <2>2, <2>4
  <2>6. ASSUME NEW i \in 1..n
        PROVE  \E f \in Frame : f = stack[i] /\ FrameCached(f)'
    <3>1. \A l \in Labels : l = stack[i].label => ~ValidPickle(l)'
      BY <2>3
    <3> QED
      BY <3>1, CallerStays
  <2>7. ASSUME NEW i \in 1..Len(stack')
        PROVE  \E f \in Frame : f = stack'[i] /\ FrameCached(f)'
    <3>1. CASE i # n
      BY <2>1, <2>2, <2>6, <3>1
    <3>2. CASE i = n
      <4>1. PICK f \in Frame : f = stack[n] /\ FrameCached(f)'
        BY <2>2, <2>6
      <4>2. stack[n + 1].label \in stack[n].todo
        BY <2>2 DEF CacheParts, Calling
      <4>3. o.label \in f.todo /\ f.pc = "deps" /\ f.label \in DOMAIN loaded.conf
        BY <1>0, <2>2, <2>3, <4>1, <4>2 DEF Top
      <4>4. loaded' = loaded
        BY DEF OnlyInvalid
      <4>5. FrameCached(Resumed(f, o))'
        BY <1>0, <4>1, <4>3, <4>4, ResumedCached
      <4>6. Resumed(f, o) \in Frame
        BY ResumedType
      <4>7. PICK g \in Frame : g = Resumed(f, o) /\ FrameCached(g)'
        BY <4>5, <4>6
      <4> QED
        BY <2>1, <3>2, <4>1, <4>7
    <3> QED
      BY <3>1, <3>2
  <2>8. FramesCached'
    BY <2>7, FramesCachedNext
  <2>9. SkippedFrames'
    BY <2>1, <2>3, <2>5 DEF SkippedFrames
  <2>10. Calling'
    <3>1. ASSUME NEW i \in 1..(n - 1)
          PROVE  stack'[i].pc = "deps"
                 /\ stack'[i + 1].label \in stack'[i].todo
      <4>1. i \in 1..n /\ i + 1 \in 1..n
        BY <1>0
      <4>2. stack[i].pc = "deps" /\ stack[i + 1].label \in stack[i].todo
        BY <4>1 DEF CacheParts, Calling
      <4> QED
        BY <2>1, <2>5, <4>1, <4>2
    <3> QED
      BY <2>1, <3>1 DEF Calling
  <2>11. Outermost'
    BY <2>1, <2>2, <2>5 DEF CacheParts, Outermost
  <2>12. ReturnedIsCached'
    BY <2>1 DEF CacheParts, Outermost, ReturnedIsCached
  <2> QED
    BY <2>8, <2>9, <2>10, <2>11, <2>12
<1> QED
  BY <1>1, <1>2 DEF Return

-----------------------------------------------------------------------------
(* The steps of get_precook.                                               *)

LEMMA TopCached ==
    ASSUME CacheParts, stack # <<>>
    PROVE  /\ Top \in Frame /\ Top.label \in Labels
           /\ FrameCached(Top)
           /\ FrameSound(Top)
           /\ AtWork(Top) => /\ Top.label \in DOMAIN loaded.conf
                             /\ ~ValidPickle(Top.label)
           /\ Top.skip => /\ Top.label \in Modules
                          /\ Top.pc \in {"save", "dump"}
<1>1. Top \in Frame /\ Top.label \in Labels /\ Len(stack) \in 1..Len(stack)
  BY TopType DEF CacheParts
<1>2. FrameCached(Top) /\ FrameSound(Top)
  BY <1>1 DEF CacheParts, FramesCached, FramesSound, Top
<1>3. AtWork(Top) => /\ Top.label \in DOMAIN loaded.conf
                     /\ ~ValidPickle(Top.label)
  BY <1>1, <1>2 DEF CacheParts, KnownInv, KnownLabels, FrameCached, Top
<1>4. Top.skip => Top.label \in Modules /\ Top.pc \in {"save", "dump"}
  BY <1>1 DEF CacheParts, SkippedFrames, Top
<1> QED
  BY <1>1, <1>2, <1>3, <1>4

LEMMA WritesOnlyInvalid ==
    ASSUME CacheParts, GetPrecook
    PROVE  OnlyInvalid
<1> USE DEF disk
<1>0. TypeOK /\ stack # <<>> /\ loaded' = loaded
  BY DEF CacheParts, GetPrecook, UnknownLabel, LoadFails, CacheHit,
         CacheStale, CacheMiss, Construct, ConstructFails, CallDependency,
         RecursionLimit, Configure, Make, Install, RpathStrip, Building,
         BuildFails, ModulesSkip, OpenPickle, DumpPickle, DumpFails,
         Looking, At
<1>1. CASE UNCHANGED disk
  BY <1>0, <1>1 DEF OnlyInvalid
<1>2. CASE /\ ~ValidPickle(Top.label)
           /\ \E i : install' = [install EXCEPT ![Top.label] = i]
           /\ \E o : pickle' = [pickle EXCEPT ![Top.label] = o]
  BY <1>0, <1>2 DEF OnlyInvalid, TypeOK
<1>3. /\ install' = install => install' = [install EXCEPT ![Top.label] = @]
      /\ pickle' = pickle => pickle' = [pickle EXCEPT ![Top.label] = @]
  BY <1>0, TopType DEF TypeOK
<1>4. At("lookup") \/ ~ValidPickle(Top.label)
  BY <1>0, TopCached DEF AtWork, GetPrecook, UnknownLabel, LoadFails,
         CacheHit, CacheStale, CacheMiss, Construct, ConstructFails,
         CallDependency, RecursionLimit, Configure, Make, Install, RpathStrip,
         Building, BuildFails, ModulesSkip, OpenPickle, DumpPickle, DumpFails,
         Looking, At
<1>5. CASE UnknownLabel \/ LoadFails \/ CacheHit \/ CacheMiss
           \/ (\E d \in Labels : CallDependency(d)) \/ RecursionLimit
           \/ Configure \/ Make \/ BuildFails \/ ModulesSkip \/ DumpFails
  BY <1>1, <1>5 DEF UnknownLabel, LoadFails, CacheHit, CacheMiss,
         CallDependency, RecursionLimit, Configure, Make, BuildFails,
         ModulesSkip, DumpFails
<1>6. CASE CacheStale
  <2>1. ~ValidPickle(Top.label)
    BY <1>6 DEF CacheStale, ValidPickle
  <2> QED
    BY <1>2, <1>3, <1>6, <2>1 DEF CacheStale
<1>7. CASE Construct \/ ConstructFails
  <2>1. ~ValidPickle(Top.label)
    BY <1>4, <1>7 DEF Construct, ConstructFails, At
  <2> QED
    BY <1>2, <1>7, <2>1 DEF Construct, ConstructFails, Wipe
<1>8. CASE Install \/ OpenPickle \/ DumpPickle
  <2>1. ~ValidPickle(Top.label)
    BY <1>4, <1>8 DEF Install, OpenPickle, DumpPickle, At
  <2> QED
    BY <1>2, <1>3, <1>8, <2>1 DEF Install, OpenPickle, DumpPickle
<1>9. CASE RpathStrip
  <2>1. ~ValidPickle(Top.label)
    BY <1>4, <1>9 DEF RpathStrip, At
  <2>2. pickle' = [pickle EXCEPT ![Top.label] = @]
    BY <1>3, <1>9 DEF RpathStrip
  <2>3. \A l \in Labels : l # Top.label => install'[l] = install[l]
    BY <1>0, <1>9 DEF RpathStrip, TypeOK
  <2> QED
    BY <1>0, <1>9, <2>1, <2>3 DEF RpathStrip, OnlyInvalid
<1> QED
  BY <1>5, <1>6, <1>7, <1>8, <1>9 DEF GetPrecook

\* What a complete call has got from its dependencies.
LEMMA DependencyCached ==
    ASSUME CacheParts, stack # <<>>, Constructed(Top), Top.todo = {},
           NEW d \in loaded.conf[Top.label].deps
    PROVE  /\ d \in Labels /\ d \notin Modules
           /\ ValidPickle(d)
           /\ Honest(pickle[d]) /\ PartsCached(pickle[d])
           /\ pickle[d].label = d
           /\ ~pickle[d].skip
           /\ pickle[d].nodes \subseteq Top.nodes
           /\ install[d].nodes # {}
           /\ install[d].nodes \subseteq Top.nodes
<1>1. /\ Top.label \in DOMAIN loaded.conf
      /\ FrameCached(Top)
  BY TopCached DEF Constructed, AtWork
<1>2. d \in Labels /\ d \notin Modules
  BY <1>1, ConfigsAssumption DEF CacheParts, TypeOK, Source
<1>3. d \in Gotten(Top)
  BY DEF Gotten
<1>4. ValidPickle(d) /\ pickle[d].nodes \subseteq Top.nodes
  BY <1>1, <1>3 DEF FrameCached
<1>5. Honest(pickle[d]) /\ PartsCached(pickle[d])
  BY <1>2, <1>4 DEF CacheParts, PicklesHonest
<1>6. ~pickle[d].skip /\ pickle[d].label = d
  BY <1>2, <1>4 DEF CacheParts, SkippedPickles, ValidPickle, Valid
<1>7. PICK n \in pickle[d].nodes : n.label = d
  BY <1>2, <1>4 DEF CacheParts, PicklesComplete, Complete, ValidPickle
<1>8. n \in install[d].nodes /\ install[d].nodes \subseteq pickle[d].nodes
  BY <1>5, <1>6, <1>7 DEF Honest
<1> QED
  BY <1>2, <1>4, <1>5, <1>6, <1>8

\* A call goes from one statement after the constructor to the next.
LEMMA NextStatement ==
    ASSUME CacheParts, OnlyInvalid, NoNewPickle, stack # <<>>,
           Constructed(Top), NEW f \in Frame, SetTop(f), answer' = answer,
           f.label = Top.label, f.todo = Top.todo, f.nodes = Top.nodes,
           Constructed(f),
           f.skip => f.label \in Modules /\ f.pc \in {"save", "dump"},
           f.pc \in {"strip", "save", "dump"} /\ ~f.skip =>
              /\ NodeOf(loaded, f.label) \in install'[f.label].nodes
              /\ install'[f.label].nodes \subseteq f.nodes
              /\ f.pc # "strip" => install'[f.label].stripped
    PROVE  FramesCached' /\ SkippedFrames' /\ Calling' /\ Outermost'
           /\ ReturnedIsCached'
<1>1. PICK g : g = [f EXCEPT !.pc = "deps"]
  OBVIOUS
<1>2. /\ g \in Frame /\ g.label = f.label /\ g.todo = f.todo
      /\ g.nodes = f.nodes /\ g.pc = "deps"
  BY <1>1 DEF Frame
<1>3. /\ Top.label \in DOMAIN loaded.conf /\ Top.label \in Labels
      /\ ~ValidPickle(Top.label)
      /\ FrameCached(Top)
  BY TopCached DEF Constructed, AtWork
<1>4. FrameCached(g)
  BY <1>2, <1>3 DEF FrameCached, Constructed, AtWork, Gotten
<1>5. /\ TypeOK /\ PicklesComplete /\ PicklesHonest /\ loaded' = loaded
  BY DEF CacheParts, OnlyInvalid
<1>6. ~ValidPickle(g.label)'
  BY <1>2, <1>3, <1>5, NoNewValid
<1>7. FrameCached(g)'
  BY <1>2, <1>3, <1>4, <1>5, <1>6, FrameUndisturbed
<1>8. FrameCached(f)'
  BY <1>2, <1>5, <1>7 DEF FrameCached, Constructed, AtWork, Gotten, NodeOf
<1> QED
  BY <1>8, SetTopCached

\* The call starts to work on its label.
LEMMA StartsWork ==
    ASSUME CacheParts, OnlyInvalid, NoNewPickle, stack # <<>>,
           ~ValidPickle(Top.label), ~Top.skip,
           Goto("construct"), answer' = answer
    PROVE  FramesCached' /\ SkippedFrames' /\ Calling' /\ Outermost'
           /\ ReturnedIsCached'
<1>1. PICK f : f = [Top EXCEPT !.pc = "construct"]
  OBVIOUS
<1>2. Top \in Frame /\ Top.label \in Labels
  BY TopCached
<1>3. /\ f \in Frame /\ f.label = Top.label /\ f.pc = "construct"
      /\ ~f.skip
  BY <1>1, <1>2 DEF Frame
<1>4. ~ValidPickle(f.label)'
  BY <1>2, <1>3, NoNewValid DEF OnlyInvalid
<1>5. FrameCached(f)'
  BY <1>3, <1>4 DEF FrameCached, Constructed
<1>6. SetTop(f)
  BY <1>1 DEF Goto
<1> QED
  BY <1>3, <1>5, <1>6, SetTopCached

LEMMA OnlyDumpWrites ==
    ASSUME TypeOK, GetPrecook, ~DumpPickle
    PROVE  NoNewPickle
<1> USE DEF disk
<1>1. \A v \in {Absent, Truncated} :
         pickle' = [pickle EXCEPT ![Top.label] = v] => NoNewPickle
  BY SentinelAssumption DEF TypeOK, NoNewPickle
<1>2. pickle' = pickle => NoNewPickle
  BY DEF NoNewPickle
<1> QED
  BY <1>1, <1>2
  DEF GetPrecook, UnknownLabel, LoadFails, CacheHit, CacheStale,
      CacheMiss, Construct, ConstructFails, CallDependency, RecursionLimit,
      Configure, Make, Install, RpathStrip, BuildFails, ModulesSkip,
      OpenPickle, DumpFails, Wipe

\* The statements at which no pickle is written.
LEMMA CallStepCached ==
    ASSUME CacheParts, PyStable, GetPrecook, ~DumpPickle
    PROVE  /\ PickleOrigins' /\ SkippedPickles' /\ PicklesHonest'
           /\ FramesCached' /\ SkippedFrames' /\ Calling' /\ Outermost'
           /\ ReturnedIsCached'
<1> USE DEF disk
<1>0. /\ TypeOK /\ KnownInv /\ stack # <<>> /\ OnlyInvalid /\ loaded' = loaded
      /\ PicklesComplete /\ PicklesHonest /\ PickleOrigins /\ SkippedPickles
  BY WritesOnlyInvalid
  DEF CacheParts, GetPrecook, UnknownLabel, LoadFails, CacheHit, CacheStale,
      CacheMiss, Construct, ConstructFails, CallDependency, RecursionLimit,
      Configure, Make, Install, RpathStrip, Building, BuildFails, ModulesSkip,
      OpenPickle, DumpPickle, DumpFails, Looking, At, OnlyInvalid
<1>1. NoNewPickle
  BY <1>0, OnlyDumpWrites
<1>2. PickleOrigins' /\ SkippedPickles' /\ PicklesHonest'
  BY <1>0, <1>1, PicklesStayHonest
<1> DEFINE Goal == FramesCached' /\ SkippedFrames' /\ Calling' /\ Outermost'
                   /\ ReturnedIsCached'
<1> SUFFICES Goal
  BY <1>2
<1> HIDE DEF Goal
<1>3. /\ Top \in Frame /\ Top.label \in Labels /\ FrameSound(Top)
      /\ FrameCached(Top)
      /\ Top.skip => /\ Top.label \in Modules
                     /\ Top.pc \in {"save", "dump"}
  BY <1>0, TopCached
<1>4. ASSUME NEW why \in Outcome \ {"returned"}, Raise(why) PROVE Goal
  BY <1>0, <1>4, RaiseCached DEF Goal
<1>5. CASE UnknownLabel \/ LoadFails \/ ConstructFails \/ RecursionLimit
           \/ BuildFails \/ DumpFails
  BY <1>4, <1>5 DEF UnknownLabel, LoadFails, ConstructFails, RecursionLimit,
                    BuildFails, DumpFails, Outcome
<1>6. CASE CacheStale
  <2>1. ~ValidPickle(Top.label) /\ ~Top.skip
    BY <1>3, <1>6 DEF CacheStale, Looking, At, ValidPickle
  <2> QED
    BY <1>0, <1>1, <1>6, <2>1, StartsWork DEF CacheStale, Goal
<1>7. CASE CacheMiss
  <2>1. ~ValidPickle(Top.label) /\ ~Top.skip
    BY <1>3, <1>7, SentinelAssumption DEF CacheMiss, Looking, At, ValidPickle
  <2> QED
    BY <1>0, <1>1, <1>7, <2>1, StartsWork DEF CacheMiss, Goal
<1>8. CASE CacheHit
  <2>1. PICK o : o = pickle[Top.label]
    OBVIOUS
  <2>2. o \in Object /\ Return(o) /\ ValidPickle(Top.label) /\ pickle' = pickle
    BY <1>8, <2>1 DEF CacheHit, Looking, ValidPickle
  <2>3. o.label = Top.label /\ ValidPickle(o.label)'
    <3>1. o.label = Top.label
      BY <2>1, <2>2 DEF ValidPickle, Valid
    <3>2. o.label \in Labels /\ ValidPickle(o.label)
      BY <1>3, <2>2, <3>1
    <3> QED
      BY <1>0, <3>1, <3>2, Undisturbed
  <2>4. \A i \in 1..(Len(stack) - 1) : stack[i].label # o.label
    BY <2>2, <2>3, CallerFrame
  <2>5. \A l \in Labels : ValidPickle(l)' => ValidPickle(l)
    BY <1>0, <1>1, NoNewValid
  <2> QED
    BY <1>0, <2>1, <2>2, <2>3, <2>4, <2>5, ReturnCached DEF Goal
<1>9. ASSUME NEW d \in Labels, CallDependency(d) PROVE Goal
  <2> DEFINE n == Len(stack)
  <2>1. NewFrame(d) \in Frame /\ n \in Nat
    BY <1>0 DEF NewFrame, Frame, TypeOK
  <2>2. PICK f \in Frame : f = NewFrame(d)
    BY <2>1
  <2>3. f.label = d /\ f.pc = "lookup" /\ ~f.skip
    BY <2>2 DEF NewFrame
  <2>4. /\ stack' \in Seq(Frame)
        /\ Len(stack') = n + 1
        /\ stack' # <<>>
        /\ stack'[n + 1] = f
        /\ \A i \in 1..n : stack'[i] = stack[i]
    BY <1>0, <1>9, <2>2, Push DEF CallDependency, TypeOK
  <2>5. answer' = answer /\ install' = install /\ pickle' = pickle
    BY <1>9 DEF CallDependency
  <2>6. stack[n].pc = "deps" /\ d \in stack[n].todo
    BY <1>9 DEF CallDependency, At, Top
  <2>7. FrameCached(f)'
    BY <2>3 DEF FrameCached, AtWork, Constructed
  <2>8. n >= 1
    BY <1>0, TopType
  <2> HIDE DEF n
  <2>9. \A i \in 1..(n + 1) : i = n + 1 \/ i \in 1..n
    BY <2>1
  <2>10. ASSUME NEW i \in 1..n
         PROVE  \E g \in Frame : g = stack[i] /\ FrameCached(g)'
    <3>1. PICK g \in Frame : g = stack[i]
      BY <1>0, FrameType DEF n
    <3>2. FrameCached(g)
      BY <3>1 DEF CacheParts, FramesCached, n
    <3>3. \A l : ValidPickle(l)' <=> ValidPickle(l)
      BY <1>0, <2>5 DEF ValidPickle, Valid, NodeOf
    <3>4. Gotten(g)' = Gotten(g)
      BY <1>0 DEF Gotten
    <3>5. FrameCached(g)'
      BY <1>0, <2>5, <3>2, <3>3, <3>4
      DEF FrameCached, AtWork, Constructed, NodeOf
    <3> QED
      BY <3>1, <3>5
  <2>11. FramesCached'
    <3>1. ASSUME NEW i \in 1..Len(stack')
          PROVE  \E g \in Frame : g = stack'[i] /\ FrameCached(g)'
      BY <2>4, <2>7, <2>9, <2>10
    <3> QED
      BY <3>1, FramesCachedNext
  <2>12. SkippedFrames'
    BY <2>3, <2>4, <2>9 DEF CacheParts, SkippedFrames, n
  <2>13. Calling'
    <3>1. ASSUME NEW i \in 1..n
          PROVE  stack'[i].pc = "deps" /\ stack'[i + 1].label \in stack'[i].todo
      <4>1. CASE i = n
        BY <2>3, <2>4, <2>6, <2>8, <4>1
      <4>2. CASE i # n
        <5>1. i \in 1..(n - 1) /\ i + 1 \in 1..n
          BY <2>1, <4>2
        <5> QED
          BY <2>4, <5>1 DEF CacheParts, Calling, n
      <4> QED
        BY <4>1, <4>2
    <3>2. Len(stack') - 1 = n
      BY <2>1, <2>4
    <3> QED
      BY <3>1, <3>2 DEF Calling
  <2>14. Outermost' /\ ReturnedIsCached'
    <3>1. 1 \in 1..n
      BY <2>1, <2>8
    <3> QED
      BY <1>0, <2>4, <2>5, <3>1 DEF CacheParts, Outermost, ReturnedIsCached
  <2> QED
    BY <2>11, <2>12, <2>13, <2>14 DEF Goal
<1>10. CASE Construct
  <2> DEFINE own == NodeOf([loaded EXCEPT !.py = files.py], Top.label)
  <2>1. PICK f : f = [Top EXCEPT !.pc = "deps", !.todo = own.deps,
                                 !.nodes = {own}]
    OBVIOUS
  <2>2. /\ f \in Frame /\ own.deps = loaded.conf[Top.label].deps
        /\ SetTop(f) /\ answer' = answer
    BY <1>0, <1>10, <2>1, ConstructType DEF Construct
  <2>3. /\ f.label = Top.label /\ f.pc = "deps" /\ f.todo = own.deps
        /\ f.nodes = {own} /\ ~f.skip
    BY <1>3, <1>10, <2>1 DEF Frame, Construct, At
  <2>4. own = NodeOf(loaded, Top.label)
    <3>1. files.py = loaded.py /\ loaded \in Source
      BY <1>0, <1>10 DEF PyStable, Construct, At, TypeOK
    <3>2. [loaded EXCEPT !.py = files.py] = loaded
      BY <3>1 DEF Source
    <3> QED
      BY <3>2 DEF NodeOf
  <2>5. ~ValidPickle(f.label)'
    <3>1. ~ValidPickle(Top.label)
      BY <1>0, <1>10, TopCached DEF Construct, At, AtWork
    <3> QED
      BY <1>0, <1>1, <1>3, <2>3, <3>1, NoNewValid
  <2> HIDE DEF own
  <2>6. Gotten(f)' = {}
    BY <1>0, <2>2, <2>3 DEF Gotten
  <2>7. FrameCached(f)'
    BY <1>0, <2>2, <2>3, <2>4, <2>5, <2>6 DEF FrameCached, NodeOf
  <2> QED
    BY <1>0, <1>1, <2>2, <2>3, <2>7, SetTopCached DEF Goal
<1>11. CASE Configure
  <2>1. PICK f : f = [Top EXCEPT !.pc = "make"]
    OBVIOUS
  <2>2. /\ f \in Frame /\ f.label = Top.label /\ f.todo = Top.todo
        /\ f.nodes = Top.nodes /\ f.pc = "make" /\ ~f.skip
    BY <1>3, <1>11, <2>1 DEF Frame, Configure, At
  <2>3. SetTop(f) /\ answer' = answer /\ Constructed(Top) /\ Constructed(f)
    BY <1>11, <2>1, <2>2 DEF Configure, Goto, At, Constructed
  <2> QED
    BY <1>0, <1>1, <2>2, <2>3, NextStatement DEF Goal
<1>12. CASE Make
  <2>1. PICK f : f = [Top EXCEPT !.pc = "install"]
    OBVIOUS
  <2>2. /\ f \in Frame /\ f.label = Top.label /\ f.todo = Top.todo
        /\ f.nodes = Top.nodes /\ f.pc = "install" /\ ~f.skip
    BY <1>3, <1>12, <2>1 DEF Frame, Make, At
  <2>3. SetTop(f) /\ answer' = answer /\ Constructed(Top) /\ Constructed(f)
    BY <1>12, <2>1, <2>2 DEF Make, Goto, At, Constructed
  <2> QED
    BY <1>0, <1>1, <2>2, <2>3, NextStatement DEF Goal
<1>13. CASE Install
  <2>1. PICK f : f = [Top EXCEPT !.pc = "strip"]
    OBVIOUS
  <2>2. /\ f \in Frame /\ f.label = Top.label /\ f.todo = Top.todo
        /\ f.nodes = Top.nodes /\ f.pc = "strip" /\ ~f.skip
    BY <1>3, <1>13, <2>1 DEF Frame, Install, At
  <2>3. SetTop(f) /\ answer' = answer /\ Constructed(Top) /\ Constructed(f)
        /\ Top.todo = {} /\ NodeOf(loaded, Top.label) \in Top.nodes
    BY <1>3, <1>13, <2>1, <2>2 DEF Install, Goto, At, Constructed, FrameSound
  <2>4. \A d \in loaded.conf[Top.label].deps :
           install[d].nodes \subseteq Top.nodes
    BY <1>0, <2>3, DependencyCached
  <2>5. /\ NodeOf(loaded, f.label) \in install'[f.label].nodes
        /\ install'[f.label].nodes \subseteq f.nodes
    BY <1>0, <1>3, <1>13, <2>2, <2>3, <2>4 DEF Install, TypeOK
  <2> QED
    BY <1>0, <1>1, <2>2, <2>3, <2>5, NextStatement DEF Goal
<1>14. CASE RpathStrip
  <2>1. PICK f : f = [Top EXCEPT !.pc = "save"]
    OBVIOUS
  <2>2. /\ f \in Frame /\ f.label = Top.label /\ f.todo = Top.todo
        /\ f.nodes = Top.nodes /\ f.pc = "save" /\ ~f.skip
    BY <1>3, <1>14, <2>1 DEF Frame, RpathStrip, At
  <2>3. SetTop(f) /\ answer' = answer /\ Constructed(Top) /\ Constructed(f)
    BY <1>14, <2>1, <2>2 DEF RpathStrip, Goto, At, Constructed
  <2>4. /\ NodeOf(loaded, Top.label) \in install[Top.label].nodes
        /\ install[Top.label].nodes \subseteq Top.nodes
    BY <1>3, <1>14 DEF RpathStrip, At, FrameCached
  <2>5. /\ install'[Top.label].nodes = install[Top.label].nodes
        /\ install'[Top.label].stripped
    BY <1>0, <1>3, <1>14 DEF RpathStrip, TypeOK, Installation
  <2> QED
    BY <1>0, <1>1, <2>2, <2>3, <2>4, <2>5, NextStatement DEF Goal
<1>15. CASE ModulesSkip
  <2>1. PICK f : f = [Top EXCEPT !.pc = "save", !.skip = TRUE]
    OBVIOUS
  <2>2. /\ f \in Frame /\ f.label = Top.label /\ f.todo = Top.todo
        /\ f.nodes = Top.nodes /\ f.pc = "save" /\ f.skip
    BY <1>3, <2>1 DEF Frame
  <2>3. SetTop(f) /\ answer' = answer /\ Constructed(Top) /\ Constructed(f)
        /\ Top.label \in Modules
    BY <1>15, <2>1, <2>2 DEF ModulesSkip, At, Constructed
  <2> QED
    BY <1>0, <1>1, <2>2, <2>3, NextStatement DEF Goal
<1>16. CASE OpenPickle
  <2>1. PICK f : f = [Top EXCEPT !.pc = "dump"]
    OBVIOUS
  <2>2. /\ f \in Frame /\ f.label = Top.label /\ f.todo = Top.todo
        /\ f.nodes = Top.nodes /\ f.pc = "dump" /\ f.skip = Top.skip
    BY <1>3, <2>1 DEF Frame
  <2>3. SetTop(f) /\ answer' = answer /\ Constructed(Top) /\ Constructed(f)
        /\ install' = install /\ Top.pc = "save"
    BY <1>16, <2>1, <2>2 DEF OpenPickle, Goto, At, Constructed
  <2>4. ~f.skip => /\ NodeOf(loaded, f.label) \in install'[f.label].nodes
                   /\ install'[f.label].nodes \subseteq f.nodes
                   /\ install'[f.label].stripped
    BY <1>3, <2>2, <2>3 DEF FrameCached
  <2> QED
    BY <1>0, <1>1, <1>3, <2>2, <2>3, <2>4, NextStatement DEF Goal
<1> QED
  BY <1>5, <1>6, <1>7, <1>8, <1>9, <1>10, <1>11, <1>12, <1>13, <1>14, <1>15,
     <1>16 DEF GetPrecook

\* The label of a call that is complete is not that of one of its callers:
\* the caller would wait for a dependency that this call has got.
LEMMA CallersDiffer ==
    ASSUME CacheParts, stack # <<>>, Constructed(Top), Top.todo = {},
           NEW i \in 1..(Len(stack) - 1)
    PROVE  stack[i].label # Top.label
<1> SUFFICES ASSUME stack[i].label = Top.label PROVE FALSE
  OBVIOUS
<1> DEFINE n == Len(stack)
<1>1. n \in Nat /\ i \in 1..(n - 1)
  BY DEF CacheParts, TypeOK
<1>2. stack[i].pc = "deps" /\ FrameCached(stack[i])
  BY CallerFrame
<1>3. stack[i].todo \subseteq loaded.conf[stack[i].label].deps
  BY <1>2 DEF FrameCached, Constructed
<1>4. stack[i + 1].label \in stack[i].todo
  BY DEF CacheParts, Calling
<1>5. ValidPickle(stack[i + 1].label)
  BY <1>3, <1>4, DependencyCached
<1>6. i + 1 = n \/ i + 1 \in 1..(n - 1)
  BY <1>1
<1>7. CASE i + 1 = n
  BY <1>5, <1>7, TopCached DEF Top, AtWork, Constructed
<1>8. CASE i + 1 \in 1..(n - 1)
  BY <1>5, <1>8, CallerFrame
<1> QED
  BY <1>6, <1>7, <1>8

LEMMA DumpCached ==
    ASSUME CacheParts, DumpPickle
    PROVE  /\ PickleOrigins' /\ SkippedPickles' /\ PicklesHonest'
           /\ FramesCached' /\ SkippedFrames' /\ Calling' /\ Outermost'
           /\ ReturnedIsCached'
<1>1. PICK o : o = [label |-> Top.label, nodes |-> Top.nodes,
                    skip |-> Top.skip]
  OBVIOUS
<1>2. /\ KnownInv /\ TypeOK /\ stack # <<>> /\ At("dump") /\ Top.pc = "dump"
      /\ PicklesComplete /\ PicklesHonest /\ FramesSound
      /\ pickle' = [pickle EXCEPT ![Top.label] = o] /\ Return(o)
      /\ install' = install /\ loaded' = loaded
  BY <1>1 DEF DumpPickle, At, CacheParts
<1>3. OnlyInvalid
  BY WritesOnlyInvalid DEF GetPrecook
<1>4. /\ o \in Object /\ o.label = Top.label /\ o.label \in Labels
      /\ o.nodes = Top.nodes /\ o.skip = Top.skip
  BY <1>1, <1>2, ObjectUnderConstruction, TopType
<1>5. /\ Described(o, loaded)
      /\ pickle'[o.label] = o
      /\ \A l \in Labels : l # o.label => pickle'[l] = pickle[l]
  BY <1>1, <1>2, <1>4, BuiltIsDescribed DEF TypeOK
<1>6. /\ FrameCached(Top) /\ FrameSound(Top)
      /\ Top.label \in DOMAIN loaded.conf
      /\ ~ValidPickle(Top.label)
      /\ Top.skip => Top.label \in Modules
  BY <1>2, TopCached DEF AtWork
<1>7. Constructed(Top) /\ Top.todo = {}
  BY <1>2, <1>6 DEF Constructed, FrameSound
<1>8. ValidPickle(o.label)'
  BY <1>2, <1>4, <1>5, <1>6 DEF ValidPickle, Described, Valid, NodeOf
<1>9. \A l \in Labels : l # o.label /\ ValidPickle(l)' => ValidPickle(l)
  BY <1>2, <1>5 DEF ValidPickle, Valid, NodeOf
<1>10. FramesCached' /\ SkippedFrames' /\ Calling' /\ Outermost'
       /\ ReturnedIsCached'
  <2>1. \A i \in 1..(Len(stack) - 1) : stack[i].label # o.label
    BY <1>2, <1>4, <1>7, CallersDiffer
  <2> QED
    BY <1>2, <1>3, <1>4, <1>5, <1>8, <1>9, <2>1, ReturnCached
<1>11. PickleOrigins'
  <2>1. ASSUME NEW l \in Labels, pickle'[l] \in Object
        PROVE  \E s \in Source : NotAfter(s, loaded') /\ Valid(pickle'[l], l, s)
    <3>1. CASE l = o.label
      <4>1. loaded \in Source /\ NotAfter(loaded, loaded')
        BY <1>2 DEF TypeOK, NotAfter
      <4>2. Valid(pickle'[l], l, loaded)
        BY <1>5, <3>1 DEF Described
      <4> QED
        BY <4>1, <4>2
    <3>2. CASE l # o.label
      <4>1. pickle'[l] = pickle[l] /\ pickle[l] \in Object
        BY <1>5, <2>1, <3>2
      <4>2. PICK s \in Source : NotAfter(s, loaded) /\ Valid(pickle[l], l, s)
        BY <4>1 DEF CacheParts, PickleOrigins
      <4> QED
        BY <1>2, <4>1, <4>2
    <3> QED
      BY <3>1, <3>2
  <2> QED
    BY <2>1 DEF PickleOrigins, NotAfter, Valid
<1>12. SkippedPickles'
  BY <1>4, <1>5, <1>6 DEF CacheParts, SkippedPickles
\* Every node is the project itself or part of a dependency.
<1>13. \A m \in o.nodes :
          \/ m = NodeOf(loaded, o.label)
          \/ \E d \in loaded.conf[Top.label].deps : m \in pickle[d].nodes
  BY <1>4, <1>6, <1>7 DEF FrameCached, Gotten
<1>14. ASSUME NEW m \in o.nodes, NEW d \in loaded.conf[Top.label].deps,
              m \in pickle[d].nodes
       PROVE  /\ m.label # o.label
              /\ install[m.label].stripped
              /\ m \in install[m.label].nodes
              /\ install[m.label].nodes \subseteq o.nodes
              /\ pickle[m.label] \in Object
              /\ pickle[m.label].nodes \subseteq o.nodes
              /\ m.label \in Labels
  <2>1. /\ d \in Labels /\ ValidPickle(d) /\ ~pickle[d].skip
        /\ Honest(pickle[d]) /\ PartsCached(pickle[d])
        /\ pickle[d].nodes \subseteq o.nodes
    BY <1>2, <1>4, <1>7, DependencyCached
  <2>2. m.label \in Labels /\ ValidPickle(m.label)
    BY <1>2, <1>14, <2>1, PartsValid
  <2> QED
    BY <1>4, <1>6, <1>14, <2>1, <2>2 DEF Honest, PartsCached
<1>15. Honest(o)'
  <2>1. ASSUME NEW m \in o.nodes
        PROVE  \/ m.label = o.label /\ o.skip
               \/ /\ install'[m.label].stripped
                  /\ m \in install'[m.label].nodes
                  /\ install'[m.label].nodes \subseteq o.nodes
    <3>1. CASE m = NodeOf(loaded, o.label)
      <4>1. m.label = o.label
        BY <3>1 DEF NodeOf
      <4> QED
        BY <1>2, <1>4, <1>6, <3>1, <4>1 DEF FrameCached
    <3>2. CASE m # NodeOf(loaded, o.label)
      BY <1>2, <1>13, <1>14, <3>2
    <3> QED
      BY <3>1, <3>2
  <2> QED
    BY <2>1 DEF Honest
<1>16. PartsCached(o)'
  <2>1. ASSUME NEW m \in o.nodes
        PROVE  /\ pickle'[m.label] \in Object
               /\ pickle'[m.label].nodes \subseteq o.nodes
    <3>1. CASE m = NodeOf(loaded, o.label)
      <4>1. m.label = o.label
        BY <3>1 DEF NodeOf
      <4> QED
        BY <1>4, <1>5, <4>1
    <3>2. CASE m # NodeOf(loaded, o.label)
      BY <1>5, <1>13, <1>14, <3>2
    <3> QED
      BY <3>1, <3>2
  <2> QED
    BY <2>1 DEF PartsCached
<1>17. PicklesHonest'
  <2>1. ASSUME NEW l \in Labels, ValidPickle(l)'
        PROVE  Honest(pickle[l])' /\ PartsCached(pickle[l])'
    <3>1. CASE l = o.label
      BY <1>5, <1>15, <1>16, <3>1 DEF Honest, PartsCached
    <3>2. CASE l # o.label
      BY <1>2, <1>3, <1>9, <2>1, <3>2, Undisturbed
    <3> QED
      BY <3>1, <3>2
  <2> QED
    BY <2>1 DEF PicklesHonest
<1> QED
  BY <1>10, <1>11, <1>12, <1>17

-----------------------------------------------------------------------------
(* The invariant.                                                          *)

DiskParts == PickleOrigins /\ SkippedPickles /\ PicklesHonest

CallParts == /\ FramesCached /\ SkippedFrames /\ Calling /\ Outermost
             /\ ReturnedIsCached

LEMMA DiskStays ==
    ASSUME DiskParts, UNCHANGED <<loaded, install, pickle>>
    PROVE  DiskParts'
<1>1. PickleOrigins'
  BY DEF DiskParts, PickleOrigins, NotAfter, Valid
<1>2. SkippedPickles'
  BY DEF DiskParts, SkippedPickles
<1>3. PicklesHonest'
  BY DEF DiskParts, PicklesHonest, ValidPickle, Valid, NodeOf, Honest,
         PartsCached
<1> QED
  BY <1>1, <1>2, <1>3 DEF DiskParts

LEMMA CallsStay ==
    ASSUME CallParts, UNCHANGED <<loaded, stack, answer, install, pickle>>
    PROVE  CallParts'
<1>1. \A l : ValidPickle(l)' <=> ValidPickle(l)
  BY DEF ValidPickle, Valid, NodeOf
<1>2. FramesCached'
  <2>1. ASSUME NEW i \in 1..Len(stack) PROVE FrameCached(stack[i])'
    <3>1. PICK f : f = stack[i]
      OBVIOUS
    <3>2. FrameCached(f)
      BY <3>1 DEF CallParts, FramesCached
    <3>3. Gotten(f)' = Gotten(f)
      BY DEF Gotten
    <3>4. FrameCached(f)'
      BY <1>1, <3>2, <3>3 DEF FrameCached, AtWork, Constructed, NodeOf
    <3> QED
      BY <3>1, <3>4 DEF FrameCached, AtWork, Constructed, Gotten
  <2> QED
    BY <2>1 DEF FramesCached
<1>3. SkippedFrames' /\ Calling' /\ Outermost'
  BY DEF CallParts, SkippedFrames, Calling, Outermost
<1>4. ReturnedIsCached'
  BY <1>1 DEF CallParts, ReturnedIsCached
<1> QED
  BY <1>2, <1>3, <1>4 DEF CallParts

LEMMA NoCallsParts ==
    ASSUME stack = <<>>, answer.how # "returned"
    PROVE  CallParts
<1>1. 1..Len(stack) = {} /\ 1..(Len(stack) - 1) = {}
  OBVIOUS
<1> QED
  BY <1>1 DEF CallParts, FramesCached, SkippedFrames, Calling, Outermost,
              ReturnedIsCached

LEMMA CacheStep ==
    ASSUME OnlyForward, ~EditedDuringRun, CacheInv, [Next]_vars
    PROVE  CacheInv'
<1> USE DEF disk
<1>1. MatchInv /\ SourcesOrdered /\ DiskParts /\ CallParts /\ CacheParts
      /\ KnownInv /\ TypeOK /\ PyStable /\ PicklesComplete
  BY PartsOfInv DEF CacheInv, MatchInv, KnownInv, DiskParts, CallParts
<1>2. MatchInv'
  BY <1>1, MatchStep
<1> SUFFICES SourcesOrdered' /\ DiskParts' /\ CallParts'
  BY <1>2 DEF CacheInv, DiskParts, CallParts
<1>3. loaded \in Source /\ files \in Source
  BY <1>1 DEF TypeOK
<1>4. UNCHANGED <<files, loaded>> => SourcesOrdered'
  BY <1>1 DEF SourcesOrdered, NotAfter
<1>5. CASE Edit
  <2>1. PICK s \in Source : <<files, s>> \in Edits /\ files' = s
    BY <1>5 DEF Edit
  <2>2. NotAfter(loaded, files) /\ NotAfter(files, s)
    BY <1>1, <2>1 DEF SourcesOrdered, NotAfter
  <2>3. NotAfter(loaded, s) /\ loaded' = loaded
    BY <1>3, <1>5, <2>1, <2>2, NotAfterTransitive DEF Edit
  <2>4. SourcesOrdered'
    BY <2>1, <2>3 DEF SourcesOrdered, NotAfter
  <2> QED
    BY <1>1, <1>5, <2>4, DiskStays, CallsStay DEF Edit
<1>6. CASE Start
  <2>1. /\ ~running /\ loaded' = files /\ files' = files
        /\ install' = install /\ pickle' = pickle
        /\ stack' = stack /\ answer' = answer
    BY <1>6 DEF Start
  <2>2. SourcesOrdered'
    BY <2>1 DEF SourcesOrdered, NotAfter
  <2>3. CallParts'
    <3>1. stack = <<>> /\ answer.how # "returned"
      BY <1>1, <2>1 DEF KnownInv, IdleWhenDown
    <3>2. stack' = <<>> /\ answer'.how # "returned"
      BY <2>1, <3>1
    <3>3. 1..Len(stack') = {} /\ 1..(Len(stack') - 1) = {}
      BY <3>2
    <3> QED
      BY <3>2, <3>3 DEF CallParts, FramesCached, SkippedFrames, Calling,
                        Outermost, ReturnedIsCached
  <2>4. PickleOrigins'
    <3>1. ASSUME NEW l \in Labels, pickle[l] \in Object
          PROVE  \E s \in Source : NotAfter(s, files) /\ Valid(pickle[l], l, s)
      <4>1. PICK s \in Source : NotAfter(s, loaded) /\ Valid(pickle[l], l, s)
        BY <1>1, <3>1 DEF DiskParts, PickleOrigins
      <4>2. NotAfter(s, files)
        BY <1>1, <1>3, <4>1, NotAfterTransitive DEF SourcesOrdered
      <4> QED
        BY <4>1, <4>2
    <3> QED
      BY <2>1, <3>1 DEF PickleOrigins, NotAfter, Valid
  <2>5. SkippedPickles'
    BY <1>1, <2>1 DEF DiskParts, SkippedPickles
  <2>6. PicklesHonest'
    <3>1. ASSUME NEW l \in Labels, ValidPickle(l)'
          PROVE  Honest(pickle[l])' /\ PartsCached(pickle[l])'
      <4>1. ValidPickle(l)
        BY <1>1, <2>1, <3>1, AcceptedBefore DEF DiskParts
      <4>2. Honest(pickle[l]) /\ PartsCached(pickle[l])
        BY <1>1, <4>1 DEF DiskParts, PicklesHonest
      <4> QED
        BY <2>1, <4>2 DEF Honest, PartsCached
    <3> QED
      BY <3>1 DEF PicklesHonest
  <2> QED
    BY <2>2, <2>3, <2>4, <2>5, <2>6 DEF DiskParts
<1>7. CASE Stop
  <2>1. stack' = <<>> /\ answer'.how # "returned"
    BY <1>7 DEF Stop, Asked
  <2>2. 1..Len(stack') = {} /\ 1..(Len(stack') - 1) = {}
    BY <2>1
  <2>3. CallParts'
    BY <2>1, <2>2 DEF CallParts, FramesCached, SkippedFrames, Calling,
                      Outermost, ReturnedIsCached
  <2> QED
    BY <1>1, <1>4, <1>7, <2>3, DiskStays DEF Stop
<1>8. ASSUME NEW l \in Labels, Request(l)
      PROVE  SourcesOrdered' /\ DiskParts' /\ CallParts'
  <2>1. PICK f : f = NewFrame(l)
    OBVIOUS
  <2>2. /\ f.label = l /\ f.pc = "lookup" /\ ~f.skip /\ f \in Frame
        /\ stack' = <<f>> /\ answer' = Asked(l)
    BY <1>8, <2>1 DEF NewFrame, Frame, Request
  <2>3. Len(stack') = 1 /\ stack'[1] = f
    BY <2>2
  <2>4. FrameCached(f)'
    BY <2>2 DEF FrameCached, AtWork, Constructed
  <2>5. FramesCached'
    <3>1. \A i \in 1..Len(stack') :
             \E g \in Frame : g = stack'[i] /\ FrameCached(g)'
      BY <2>2, <2>3, <2>4
    <3> QED
      BY <3>1, FramesCachedNext
  <2>6. SkippedFrames' /\ Calling'
    BY <2>2, <2>3 DEF SkippedFrames, Calling
  <2>7. Outermost' /\ ReturnedIsCached'
    BY <2>2, <2>3 DEF Outermost, ReturnedIsCached, Asked
  <2>8. CallParts'
    BY <2>5, <2>6, <2>7 DEF CallParts
  <2> QED
    BY <1>1, <1>4, <1>8, <2>8, DiskStays DEF Request
<1>9. CASE GetPrecook
  <2>1. UNCHANGED <<files, loaded>>
    BY <1>9 DEF GetPrecook, UnknownLabel, LoadFails, CacheHit, CacheStale,
                CacheMiss, Construct, ConstructFails, CallDependency,
                RecursionLimit, Configure, Make, Install, RpathStrip,
                BuildFails, ModulesSkip, OpenPickle, DumpPickle, DumpFails
  <2>2. CASE DumpPickle
    BY <1>1, <1>4, <2>1, <2>2, DumpCached DEF DiskParts, CallParts
  <2>3. CASE ~DumpPickle
    BY <1>1, <1>4, <1>9, <2>1, <2>3, CallStepCached DEF DiskParts, CallParts
  <2> QED
    BY <2>2, <2>3
<1>10. CASE UNCHANGED vars
  BY <1>1, <1>4, <1>10, DiskStays, CallsStay DEF vars
<1> QED
  BY <1>5, <1>6, <1>7, <1>8, <1>9, <1>10 DEF Next

LEMMA CacheInit == Init => CacheInv
<1> SUFFICES ASSUME Init PROVE CacheInv
  OBVIOUS
<1>1. MatchInv
  BY MatchInit
<1>2. SourcesOrdered
  BY DEF Init, SourcesOrdered, NotAfter
<1>3. \A l \in Labels : pickle[l] \notin Object
  BY SentinelAssumption DEF Init
<1>4. PickleOrigins /\ SkippedPickles /\ PicklesHonest
  BY <1>3 DEF PickleOrigins, SkippedPickles, PicklesHonest, ValidPickle
<1>5. CallParts
  BY NoCallsParts DEF Init, Asked
<1> QED
  BY <1>1, <1>2, <1>4, <1>5 DEF CacheInv, CallParts

\* If the sources only go forward and project.py is not edited under a
\* running process, a pickle that a process accepts is backed by what is in
\* the directories of the project and of all its dependencies.
THEOREM CacheHonest ==
    ASSUME OnlyForward, ~EditedDuringRun
    PROVE  Spec => []ValidCacheIsHonest
<1>1. CacheInv /\ [Next]_vars => CacheInv'
  BY CacheStep
<1>2. CacheInv => ValidCacheIsHonest
  BY DEF CacheInv, PicklesHonest, ValidCacheIsHonest
<1> QED
  BY CacheInit, <1>1, <1>2, PTL DEF Spec

\* Under the same assumptions, what get_precook returned is what the cache
\* holds for the label it was asked for, and the next call will accept it.
THEOREM AnswerCached ==
    ASSUME OnlyForward, ~EditedDuringRun
    PROVE  Spec => []ReturnedIsCached
<1>1. CacheInv /\ [Next]_vars => CacheInv'
  BY CacheStep
<1>2. CacheInv => ReturnedIsCached
  BY DEF CacheInv
<1> QED
  BY CacheInit, <1>1, <1>2, PTL DEF Spec

\* Under the same assumptions, no call runs make before there is something
\* in the installation directory of each of its dependencies.
THEOREM MakeFindsDependencies ==
    ASSUME OnlyForward, ~EditedDuringRun
    PROVE  Spec => []DependenciesInstalled
<1>1. CacheInv /\ [Next]_vars => CacheInv'
  BY CacheStep
<1>2. CacheInv => DependenciesInstalled
  <2> SUFFICES ASSUME CacheInv, At("make"),
                      NEW d \in loaded.conf[Top.label].deps
               PROVE  install[d] # NotInstalled
    BY DEF DependenciesInstalled
  <2>1. CacheParts /\ stack # <<>> /\ Top.pc = "make"
    BY PartsOfInv DEF At
  <2>2. Constructed(Top) /\ Top.todo = {}
    BY <2>1, TopCached DEF Constructed, FrameSound
  <2>3. install[d].nodes # {}
    BY <2>1, <2>2, DependencyCached
  <2> QED
    BY <2>3 DEF NotInstalled
<1> QED
  BY CacheInit, <1>1, <1>2, PTL DEF Spec

\* Under the same assumptions, no step of any process changes a pickle that
\* is valid or an installation it vouches for.
THEOREM CacheImmutable ==
    ASSUME OnlyForward, ~EditedDuringRun
    PROVE  Spec => ImmutableWhileValid
<1> DEFINE A == running =>
                  \A l \in Labels : ValidPickle(l) =>
                    /\ pickle'[l] = pickle[l]
                    /\ \A n \in pickle[l].nodes :
                          install'[n.label] = install[n.label]
<1>1. CacheInv /\ [Next]_vars => CacheInv'
  BY CacheStep
<1>2. CacheInv /\ [Next]_vars => [A]_vars
  <2> SUFFICES ASSUME CacheInv, Next PROVE A
    OBVIOUS
  <2>1. CacheParts /\ PicklesComplete /\ PicklesHonest
    BY PartsOfInv DEF CacheParts
  <2>2. CASE GetPrecook
    <3>1. OnlyInvalid
      BY <2>1, <2>2, WritesOnlyInvalid
    <3> QED
      BY <2>1, <3>1, Undisturbed
  <2>3. CASE UNCHANGED disk
    BY <2>3 DEF disk
  <2> QED
    BY <2>2, <2>3 DEF Next, Edit, Start, Stop, Request
<1> HIDE DEF A
<1>3. Spec => [][A]_vars
  BY CacheInit, <1>1, <1>2, PTL DEF Spec
<1> QED
  BY <1>3 DEF ImmutableWhileValid, A

-----------------------------------------------------------------------------
(* The cache implements its promise.                                       *)

Cooked == {l \in Labels : ValidPickle(l)}
Given == IF answer.how = "returned" THEN answer.object.label ELSE Absent

PromiseVars == <<loaded, running, answer.label, Given, Cooked>>

LEMMA PromiseStutters ==
    ASSUME UNCHANGED PromiseVars
    PROVE  UNCHANGED Promise!vars
  BY DEF PromiseVars, Promise!vars, Given, Cooked

\* A valid pickle vouches for the dependencies.
LEMMA CookedClosed ==
    ASSUME TypeOK, PicklesComplete, PicklesHonest,
           NEW l \in Labels, ValidPickle(l)
    PROVE  /\ l \in DOMAIN loaded.conf
           /\ \A d \in loaded.conf[l].deps : d \in Labels /\ ValidPickle(d)
<1>1. PICK n \in pickle[l].nodes : n.label = l
  BY DEF ValidPickle, PicklesComplete, Complete
<1>2. l \in DOMAIN loaded.conf /\ n = NodeOf(loaded, l)
  BY <1>1 DEF ValidPickle, Valid
<1>3. ASSUME NEW d \in loaded.conf[l].deps
      PROVE  d \in Labels /\ ValidPickle(d)
  <2>1. d \in n.deps
    BY <1>2 DEF NodeOf
  <2>2. PICK m \in pickle[l].nodes : m.label = d
    BY <2>1 DEF ValidPickle, PicklesComplete, Complete
  <2> QED
    BY <2>2, PartsValid
<1> QED
  BY <1>2, <1>3

LEMMA ClosedNow ==
    TypeOK /\ PicklesComplete /\ PicklesHonest => Promise!Closed(Cooked, loaded)
<1> SUFFICES ASSUME TypeOK, PicklesComplete, PicklesHonest
             PROVE  Promise!Closed(Cooked, loaded)
  OBVIOUS
<1>1. loaded \in Source
  BY DEF TypeOK
<1>2. ASSUME NEW l \in Cooked
      PROVE  l \in DOMAIN loaded.conf /\ loaded.conf[l].deps \subseteq Cooked
  BY CookedClosed DEF Cooked
<1> QED
  BY <1>1, <1>2 DEF Promise!Closed

\* The calls in progress keep the answer open.
LEMMA ReturnGives ==
    ASSUME CacheParts, stack # <<>>, NEW o \in Object, Return(o),
           o.label = Top.label
    PROVE  /\ answer'.label = answer.label
           /\ Given = Absent
           /\ \/ Given' = Absent
              \/ Given' = o.label /\ o.label = answer.label
<1>1. answer.how = "none" /\ answer.label = stack[1].label /\ TypeOK
  BY DEF CacheParts, Outermost
<1>2. CASE answer' = answer
  BY <1>1, <1>2 DEF Given
<1>3. CASE answer' # answer
  <2>1. Len(stack) = 1 /\ answer' = [answer EXCEPT !.how = "returned",
                                                  !.object = o]
    BY <1>1, <1>3, ReturnShape
  <2>2. answer'.label = answer.label /\ answer'.how = "returned"
        /\ answer'.object = o
    BY <1>1, <2>1 DEF TypeOK
  <2> QED
    BY <1>1, <2>1, <2>2 DEF Given, Top
<1> QED
  BY <1>2, <1>3

LEMMA PromiseStep ==
    ASSUME OnlyForward, ~EditedDuringRun, CacheInv, [Next]_vars
    PROVE  [Promise!Next]_(Promise!vars)
<1> USE DEF disk
<1>1. CacheParts /\ TypeOK /\ KnownInv /\ PicklesComplete /\ PicklesHonest
  BY PartsOfInv DEF CacheParts
<1>2. CacheInv'
  BY CacheStep
<1>3. (TypeOK /\ PicklesComplete /\ PicklesHonest)'
  BY <1>2 DEF CacheInv, MatchInv, KnownInv
<1>4. Absent \notin Labels
  BY SentinelAssumption
<1>5. ASSUME UNCHANGED <<loaded, pickle>> PROVE Cooked' = Cooked
  BY <1>5 DEF Cooked, ValidPickle, Valid, NodeOf
<1>6. CASE Edit \/ UNCHANGED vars
  <2>1. UNCHANGED <<loaded, running, answer, pickle>>
    BY <1>6 DEF Edit, vars
  <2> QED
    BY <1>5, <2>1, PromiseStutters DEF PromiseVars, Given
<1>7. CASE Start
  <2>1. /\ ~running /\ running' = TRUE /\ loaded' = files
        /\ answer' = answer /\ pickle' = pickle
    BY <1>7 DEF Start
  <2>2. loaded' \in Source /\ Given' = Given
    BY <1>1, <2>1 DEF TypeOK, Given
  <2>3. loaded' = loaded => Cooked' = Cooked
    BY <1>5, <2>1
  <2>4. Promise!Closed(Cooked, loaded)'
    BY <1>3, ClosedNow, PTL
  <2>5. Cooked' \in SUBSET Labels
    BY DEF Cooked
  <2>6. Promise!Start
    BY <2>1, <2>2, <2>3, <2>4, <2>5
    DEF Promise!Start, Promise!Closed, Given, Cooked
  <2> QED
    BY <2>6 DEF Promise!Next
<1>8. CASE Stop
  <2>1. /\ running /\ ~running' /\ answer'.label = Absent /\ Given' = Absent
        /\ loaded' = loaded /\ Cooked' = Cooked /\ running' = FALSE
    BY <1>5, <1>8 DEF Stop, Asked, Given
  <2>2. Promise!Stop
    BY <2>1 DEF Promise!Stop, Given, Cooked
  <2> QED
    BY <2>2 DEF Promise!Next
<1>9. ASSUME NEW l \in Labels, Request(l)
      PROVE  Promise!Next
  <2>1. /\ running /\ running' = running /\ answer'.label = l
        /\ Given' = Absent /\ loaded' = loaded /\ Cooked' = Cooked
    BY <1>5, <1>9 DEF Request, Asked, Given
  <2>2. Promise!Ask
    BY <2>1 DEF Promise!Ask, Given, Cooked
  <2> QED
    BY <2>2 DEF Promise!Next
<1>10. CASE GetPrecook
  <2>1. /\ running /\ running' = running /\ loaded' = loaded /\ stack # <<>>
    BY <1>10 DEF GetPrecook, UnknownLabel, LoadFails, CacheHit, CacheStale,
                 CacheMiss, Construct, ConstructFails, CallDependency,
                 RecursionLimit, Configure, Make, Install, RpathStrip,
                 Building, BuildFails, ModulesSkip, OpenPickle, DumpPickle,
                 DumpFails, Looking, At
  <2>2. OnlyInvalid
    BY <1>1, <1>10, WritesOnlyInvalid
  <2>3. answer.how = "none" /\ answer.label = stack[1].label
    BY <1>1, <2>1 DEF CacheParts, Outermost
  <2>4. answer.label # Absent
    <3>1. Len(stack) \in Nat /\ Len(stack) >= 1
      BY <1>1, <2>1, TopType
    <3>2. stack[1] \in Frame
      BY <1>1, <3>1, FrameType
    <3> QED
      BY <1>4, <2>3, <3>2 DEF Frame
  <2>5. \A l \in Labels : ValidPickle(l) => ValidPickle(l)'
    BY <1>1, <2>2, Undisturbed
  <2>6. CASE DumpPickle
    <3>1. PICK o : o = [label |-> Top.label, nodes |-> Top.nodes,
                        skip |-> Top.skip]
      OBVIOUS
    <3>2. /\ o \in Object /\ o.label = Top.label /\ o.label \in Labels
          /\ Top.pc = "dump"
          /\ Return(o) /\ pickle' = [pickle EXCEPT ![Top.label] = o]
      BY <1>1, <2>1, <2>6, <3>1, ObjectUnderConstruction, TopType
      DEF DumpPickle, At
    <3>3. /\ Constructed(Top) /\ Top.todo = {} /\ ~ValidPickle(Top.label)
          /\ Top.label \in DOMAIN loaded.conf
      BY <1>1, <2>1, <3>2, TopCached DEF Constructed, FrameSound, AtWork
    <3>4. /\ pickle'[o.label] = o
          /\ \A l \in Labels : l # o.label => pickle'[l] = pickle[l]
      BY <1>1, <3>2 DEF TypeOK
    <3>5. Described(o, loaded)
      BY <1>1, <2>6, <3>1, BuiltIsDescribed DEF DumpPickle, CacheParts
    <3>6. ValidPickle(o.label)'
      BY <2>1, <3>2, <3>3, <3>4, <3>5
      DEF ValidPickle, Described, Valid, NodeOf
    <3>7. \A l \in Labels : l # o.label /\ ValidPickle(l)' => ValidPickle(l)
      BY <2>1, <3>4 DEF ValidPickle, Valid, NodeOf
    <3>8. Cooked' = Cooked \cup {o.label} /\ o.label \notin Cooked
      BY <2>5, <3>2, <3>3, <3>6, <3>7 DEF Cooked
    <3>9. loaded.conf[o.label].deps \subseteq Cooked
      BY <1>1, <2>1, <3>2, <3>3, DependencyCached DEF Cooked
    <3>10. Promise!Cook(o.label)
      BY <1>1, <3>2, <3>3, <3>8, <3>9 DEF Promise!Cook, Cooked, TypeOK
    <3>11. /\ answer'.label = answer.label /\ Given = Absent
           /\ \/ Given' = Absent
              \/ Given' = o.label /\ o.label = answer.label
      BY <1>1, <2>1, <3>2, ReturnGives
    <3>12. Promise!Give \/ Given' = Given
      BY <2>4, <3>8, <3>11 DEF Promise!Give, Given, Cooked
    <3>13. Promise!Work
      BY <2>1, <3>2, <3>10, <3>11, <3>12 DEF Promise!Work, Given
    <3> QED
      BY <3>13 DEF Promise!Next
  <2>7. CASE ~DumpPickle
    <3>1. Cooked' = Cooked
      <4>1. NoNewPickle
        BY <1>1, <1>10, <2>7, OnlyDumpWrites
      <4>2. \A l \in Labels : ValidPickle(l)' => ValidPickle(l)
        BY <2>1, <4>1, NoNewValid
      <4> QED
        BY <2>5, <4>2 DEF Cooked
    <3>2. CASE CacheHit
      <4>1. PICK o : o = pickle[Top.label]
        OBVIOUS
      <4>2. o \in Object /\ Return(o) /\ ValidPickle(Top.label)
        BY <3>2, <4>1 DEF CacheHit, Looking, ValidPickle
      <4>3. o.label = Top.label /\ o.label \in Labels
        BY <1>1, <2>1, <4>1, <4>2, TopType DEF ValidPickle, Valid
      <4>4. o.label \in Cooked
        BY <4>2, <4>3 DEF Cooked
      <4>5. /\ answer'.label = answer.label /\ Given = Absent
            /\ \/ Given' = Absent
               \/ Given' = o.label /\ o.label = answer.label
        BY <1>1, <2>1, <4>2, <4>3, ReturnGives
      <4>6. CASE Given' = Absent
        BY <2>1, <3>1, <4>5, <4>6, PromiseStutters DEF PromiseVars
      <4>7. CASE Given' = o.label /\ o.label = answer.label
        <5>1. Promise!Give
          BY <2>4, <3>1, <4>4, <4>5, <4>7 DEF Promise!Give, Given, Cooked
        <5>2. Promise!Work
          BY <2>1, <3>1, <4>5, <5>1 DEF Promise!Work, Cooked
        <5> QED
          BY <5>2 DEF Promise!Next
      <4> QED
        BY <4>5, <4>6, <4>7
    <3>3. CASE ~CacheHit
      <4>1. answer'.label = answer.label /\ answer'.how # "returned"
        BY <1>1, <1>10, <2>3, <2>7, <3>3
        DEF GetPrecook, UnknownLabel, LoadFails, CacheStale, CacheMiss,
            Construct, ConstructFails, CallDependency, RecursionLimit,
            Configure, Make, Install, RpathStrip, BuildFails, ModulesSkip,
            OpenPickle, DumpFails, Raise, TypeOK
      <4>2. Given' = Given
        BY <2>3, <4>1 DEF Given
      <4> QED
        BY <2>1, <3>1, <4>1, <4>2, PromiseStutters DEF PromiseVars
    <3> QED
      BY <3>2, <3>3
  <2> QED
    BY <2>6, <2>7
<1> QED
  BY <1>6, <1>7, <1>8, <1>9, <1>10 DEF Next

LEMMA PromiseInit == Init => Promise!Init
<1> SUFFICES ASSUME Init PROVE Promise!Init
  OBVIOUS
<1>1. \A l \in Labels : ~ValidPickle(l)
  BY SentinelAssumption DEF Init, ValidPickle
<1>2. Cooked = {}
  BY <1>1 DEF Cooked
<1>3. answer.label = Absent /\ Given = Absent
  BY DEF Init, Asked, Given
<1> QED
  BY <1>2, <1>3 DEF Init, Promise!Init, Given, Cooked

\* Under the same assumptions get_precook keeps its promise: dependencies
\* are cached before the projects built on them, the project asked for is
\* the one returned, and nothing cached is lost while the sources stay.
THEOREM CacheKeepsPromise ==
    ASSUME OnlyForward, ~EditedDuringRun
    PROVE  Spec => KeepsPromise
<1>1. CacheInv /\ [Next]_vars => CacheInv'
  BY CacheStep
<1>2. CacheInv /\ [Next]_vars => [Promise!Next]_(Promise!vars)
  BY PromiseStep
<1> QED
  BY CacheInit, PromiseInit, <1>1, <1>2, PTL
  DEF Spec, KeepsPromise, Promise!Spec
=============================================================================
