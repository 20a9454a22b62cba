------------------------- MODULE PrecookCacheProofs -------------------------
(***************************************************************************)
(* Proofs about the project cache, for every set of labels, every history  *)
(* of the sources and every recursion limit.                               *)
(***************************************************************************)
EXTENDS PrecookCacheInv, SequenceTheorems, TLAPS

(* The three ways a step changes the stack of calls.                       *)

LEMMA ReplaceTop ==
    ASSUME NEW S, NEW s \in Seq(S), s # <<>>, NEW f \in S
    PROVE  LET t == [s EXCEPT ![Len(s)] = f]
           IN  /\ t \in Seq(S)
               /\ Len(t) = Len(s)
               /\ t # <<>>
               /\ t[Len(t)] = f
               /\ \A i \in 1..(Len(s) - 1) : t[i] = s[i]
  OBVIOUS

LEMMA Push ==
    ASSUME NEW S, NEW s \in Seq(S), NEW f \in S
    PROVE  LET t == Append(s, f)
           IN  /\ t \in Seq(S)
               /\ Len(t) = Len(s) + 1
               /\ t # <<>>
               /\ t[Len(t)] = f
               /\ \A i \in 1..Len(s) : t[i] = s[i]
  OBVIOUS

LEMMA Pop ==
    ASSUME NEW S, NEW s \in Seq(S), Len(s) > 1
    PROVE  LET t == SubSeq(s, 1, Len(s) - 1)
           IN  /\ t \in Seq(S)
               /\ Len(t) = Len(s) - 1
               /\ t # <<>>
               /\ \A i \in 1..(Len(s) - 1) : t[i] = s[i]
<1> DEFINE n == Len(s) - 1
           t == SubSeq(s, 1, n)
<1>1. n \in Int /\ n \in Nat /\ n >= 1 /\ Len(s) = n + 1
  OBVIOUS
<1>2. \A i \in 1..n : s[i] \in S
  OBVIOUS
<1> HIDE DEF n
<1>3. /\ t \in Seq(S)
      /\ Len(t) = IF 1 <= n THEN n - 1 + 1 ELSE 0
      /\ \A i \in 1..(n - 1 + 1) : t[i] = s[1 + i - 1]
  BY <1>1, <1>2, SubSeqProperties
<1>4. Len(t) = n /\ t # <<>> /\ \A i \in 1..n : t[i] = s[i]
  BY <1>1, <1>3
<1> QED
  BY <1>3, <1>4 DEF n

LEMMA NotOne == \A n \in Nat : n > 1 => n # 1
  OBVIOUS

LEMMA TopFrame ==
    ASSUME NEW S, NEW s \in Seq(S), s # <<>>
    PROVE  Len(s) \in Nat /\ Len(s) >= 1 /\ s[Len(s)] \in S
  OBVIOUS
-----------------------------------------------------------------------------
LEMMA NodeOfType ==
    ASSUME NEW s \in Source, NEW l \in DOMAIN s.conf
    PROVE  NodeOf(s, l) \in Node
  BY ConfigsAssumption DEF NodeOf, Node, Source

LEMMA TopType ==
    ASSUME TypeOK, stack # <<>>
    PROVE  /\ Len(stack) \in Nat /\ Len(stack) >= 1
           /\ Top \in Frame
           /\ Top.label \in Labels
           /\ Top.todo \in SUBSET Labels
           /\ Top.nodes \in SUBSET Node
           /\ Top.skip \in BOOLEAN
<1>1. stack \in Seq(Frame)
  BY DEF TypeOK
<1>2. Len(stack) \in Nat /\ Len(stack) >= 1 /\ Top \in Frame
  BY <1>1, TopFrame DEF Top
<1> QED
  BY <1>2 DEF Frame

LEMMA SetTopShape ==
    ASSUME TypeOK, stack # <<>>, NEW f \in Frame, SetTop(f)
    PROVE  /\ stack' \in Seq(Frame)
           /\ Len(stack') = Len(stack)
           /\ stack' # <<>>
           /\ stack'[Len(stack)] = f
           /\ \A i \in 1..(Len(stack) - 1) : stack'[i] = stack[i]
  BY ReplaceTop DEF TypeOK, SetTop

LEMMA ResumedType ==
    ASSUME NEW f \in Frame, NEW o \in Object
    PROVE  Resumed(f, o) \in Frame
  BY DEF Resumed, Frame, Object

LEMMA ReturnShape ==
    ASSUME TypeOK, stack # <<>>, NEW o \in Object, Return(o)
    PROVE  \/ /\ Len(stack) = 1
              /\ stack' = <<>>
              /\ answer' = [answer EXCEPT !.how = "returned", !.object = o]
           \/ /\ Len(stack) > 1
              /\ stack' \in Seq(Frame)
              /\ Len(stack') = Len(stack) - 1
              /\ stack' # <<>>
              /\ stack[Len(stack) - 1] \in Frame
              /\ stack'[Len(stack) - 1] = Resumed(stack[Len(stack) - 1], o)
              /\ \A i \in 1..(Len(stack) - 1 - 1) : stack'[i] = stack[i]
              /\ answer' = answer
<1>1. CASE Len(stack) = 1
  BY <1>1 DEF Return
<1>2. CASE Len(stack) > 1
  <2> DEFINE rest == SubSeq(stack, 1, Len(stack) - 1)
  <2>1. Len(stack) > 1 /\ Len(stack) \in Nat
    BY <1>2, TopType
  <2>2. /\ rest \in Seq(Frame)
        /\ Len(rest) = Len(stack) - 1
        /\ rest # <<>>
        /\ \A i \in 1..(Len(stack) - 1) : rest[i] = stack[i]
    BY <2>1, Pop DEF TypeOK
  <2>3. rest[Len(rest)] = stack[Len(stack) - 1] /\ rest[Len(rest)] \in Frame
    BY <2>1, <2>2
  <2>4. /\ stack' = [rest EXCEPT ![Len(rest)] = Resumed(rest[Len(rest)], o)]
        /\ answer' = answer
    <3>1. Len(stack) # 1
      BY <2>1, NotOne
    <3> QED
      BY <3>1 DEF Return
  <2>5. Resumed(rest[Len(rest)], o) \in Frame
    BY <2>3, ResumedType
  <2> HIDE DEF rest
  <2>6. /\ stack' \in Seq(Frame)
        /\ Len(stack') = Len(rest)
        /\ stack' # <<>>
        /\ stack'[Len(rest)] = Resumed(rest[Len(rest)], o)
        /\ \A i \in 1..(Len(rest) - 1) : stack'[i] = rest[i]
    BY <2>2, <2>4, <2>5, ReplaceTop
  <2> QED
    BY <2>1, <2>2, <2>3, <2>4, <2>6
<1> QED
  BY <1>1, <1>2 DEF Return
-----------------------------------------------------------------------------
(* Type correctness, with what the calls know of their labels.             *)

AnswerType == [label : Labels \cup {Absent}, how : Outcome,
               object : Object \cup {Absent}]

CallsOK == stack \in Seq(Frame) /\ KnownLabels /\ answer \in AnswerType

LEMMA KnownTop ==
    ASSUME KnownInv, NEW pc, At(pc), pc # "lookup"
    PROVE  Top.label \in DOMAIN loaded.conf
<1>1. stack # <<>> /\ Top.pc = pc
  BY DEF At
<1>2. Len(stack) \in 1..Len(stack)
  BY <1>1, TopType DEF KnownInv
<1> QED
  BY <1>1, <1>2 DEF KnownInv, KnownLabels, AtWork, Top

LEMMA SetTopCalls ==
    ASSUME KnownInv, stack # <<>>, NEW f \in Frame, SetTop(f),
           f.label \in DOMAIN loaded.conf, loaded' = loaded, answer' = answer
    PROVE  CallsOK'
<1>1. /\ stack' \in Seq(Frame)
      /\ Len(stack') = Len(stack)
      /\ stack'[Len(stack)] = f
      /\ \A i \in 1..(Len(stack) - 1) : stack'[i] = stack[i]
  BY SetTopShape DEF KnownInv
<1>2. Len(stack) \in Nat /\ Len(stack) >= 1
  BY TopType DEF KnownInv
<1>3. ASSUME NEW i \in 1..Len(stack')
      PROVE  AtWork(stack'[i]) => stack'[i].label \in DOMAIN loaded'.conf
  <2>1. CASE i = Len(stack)
    BY <1>1, <2>1
  <2>2. CASE i # Len(stack)
    <3>1. i \in 1..(Len(stack) - 1) /\ i \in 1..Len(stack)
      BY <1>1, <1>2, <2>2
    <3> QED
      BY <1>1, <3>1 DEF KnownInv, KnownLabels, AtWork
  <2> QED
    BY <2>1, <2>2
<1> QED
  BY <1>1, <1>3 DEF CallsOK, KnownLabels, KnownInv, TypeOK, AnswerType

LEMMA ReturnCalls ==
    ASSUME KnownInv, stack # <<>>, NEW o \in Object, Return(o),
           loaded' = loaded
    PROVE  CallsOK'
<1>1. CASE Len(stack) = 1
  <2>1. stack' = <<>> /\ answer' = [answer EXCEPT !.how = "returned",
                                                 !.object = o]
    BY <1>1, ReturnShape, NotOne DEF KnownInv
  <2>2. answer' \in AnswerType
    BY <2>1 DEF KnownInv, TypeOK, AnswerType, Outcome
  <2> QED
    BY <2>1, <2>2 DEF CallsOK, KnownLabels
<1>2. CASE Len(stack) > 1
  <2>0. Len(stack) \in Nat /\ Len(stack) # 1
    BY <1>2, TopType, NotOne DEF KnownInv
  <2> DEFINE n == Len(stack) - 1
  <2>1. /\ stack' \in Seq(Frame)
        /\ Len(stack') = n
        /\ stack[n] \in Frame
        /\ stack'[n] = Resumed(stack[n], o)
        /\ \A i \in 1..(n - 1) : stack'[i] = stack[i]
        /\ answer' = answer
    BY <2>0, ReturnShape DEF KnownInv
  <2>2. n \in Nat /\ n >= 1 /\ \A i \in 1..n : i \in 1..Len(stack)
    BY <1>2, <2>0
  <2>3. stack'[n].label = stack[n].label /\ stack'[n].pc = stack[n].pc
    BY <2>1 DEF Resumed, Frame
  <2> HIDE DEF n
  <2>4. ASSUME NEW i \in 1..Len(stack')
        PROVE  AtWork(stack'[i]) => stack'[i].label \in DOMAIN loaded'.conf
    <3>1. i \in 1..Len(stack) /\ (i = n \/ i \in 1..(n - 1))
      BY <2>1, <2>2
    <3>2. stack'[i].label = stack[i].label /\ stack'[i].pc = stack[i].pc
      BY <2>1, <2>3, <3>1
    <3> QED
      BY <3>1, <3>2 DEF KnownInv, KnownLabels, AtWork
  <2> QED
    BY <2>1, <2>4 DEF CallsOK, KnownLabels, KnownInv, TypeOK, AnswerType
<1> QED
  BY <1>1, <1>2 DEF Return

LEMMA RaiseCalls ==
    ASSUME KnownInv, NEW why \in Outcome, Raise(why)
    PROVE  CallsOK'
  BY DEF KnownInv, TypeOK, Raise, CallsOK, KnownLabels, AnswerType
\* What is left to show for a step of get_precook.
LEMMA CallStepKnown ==
    ASSUME KnownInv, running, running' = running, loaded' = loaded,
           files' = files, CallsOK',
           install' \in [Labels -> Installation],
           pickle' \in [Labels -> Object \cup {Absent, Truncated}]
    PROVE  KnownInv'
  BY DEF KnownInv, TypeOK, IdleWhenDown, CallsOK, AnswerType

LEMMA GotoCalls ==
    ASSUME KnownInv, NEW pc, At(pc), Top.label \in DOMAIN loaded.conf,
           NEW next \in {"construct", "make", "install", "strip", "save", "dump"},
           Goto(next), loaded' = loaded, answer' = answer
    PROVE  CallsOK'
<1>1. Top \in Frame /\ stack # <<>>
  BY TopType DEF KnownInv, At
<1>2. [Top EXCEPT !.pc = next] \in Frame
  BY <1>1 DEF Frame
<1>3. [Top EXCEPT !.pc = next].label = Top.label
  BY <1>1 DEF Frame
<1> QED
  BY <1>1, <1>2, <1>3, SetTopCalls DEF Goto

LEMMA ObjectUnderConstruction ==
    ASSUME TypeOK, stack # <<>>
    PROVE  [label |-> Top.label, nodes |-> Top.nodes, skip |-> Top.skip]
             \in Object
  BY TopType DEF Object

LEMMA InstallType ==
    ASSUME TypeOK, NEW l \in Labels, NEW i \in Installation
    PROVE  [install EXCEPT ![l] = i] \in [Labels -> Installation]
  BY DEF TypeOK

LEMMA PickleType ==
    ASSUME TypeOK, NEW l \in Labels,
           NEW o \in Object \cup {Absent, Truncated}
    PROVE  [pickle EXCEPT ![l] = o]
             \in [Labels -> Object \cup {Absent, Truncated}]
  BY DEF TypeOK

LEMMA NotInstalledType == NotInstalled \in Installation
  BY DEF NotInstalled, Installation

LEMMA ConstructType ==
    ASSUME KnownInv, At("construct")
    PROVE  LET own == NodeOf([loaded EXCEPT !.py = files.py], Top.label)
           IN  /\ own \in Node
               /\ own.deps = loaded.conf[Top.label].deps
               /\ [Top EXCEPT !.pc = "deps", !.todo = own.deps,
                              !.nodes = {own}] \in Frame
<1> DEFINE src == [loaded EXCEPT !.py = files.py]
           own == NodeOf(src, Top.label)
<1>1. Top.label \in DOMAIN loaded.conf
  BY KnownTop
<1>2. src \in Source /\ src.conf = loaded.conf
  BY DEF KnownInv, TypeOK, Source
<1>3. own \in Node
  BY <1>1, <1>2, NodeOfType
<1>4. own.deps = loaded.conf[Top.label].deps
  BY <1>2 DEF NodeOf
<1>5. Top \in Frame
  BY TopType DEF KnownInv, At
<1>6. own.deps \in SUBSET Labels /\ {own} \in SUBSET Node
  BY <1>3 DEF Node
<1> HIDE DEF own
<1>7. [Top EXCEPT !.pc = "deps", !.todo = own.deps, !.nodes = {own}] \in Frame
  BY <1>5, <1>6 DEF Frame
<1> QED
  BY <1>3, <1>4, <1>7 DEF own

LEMMA InstalledType ==
    ASSUME KnownInv, At("install")
    PROVE  [nodes    |-> {NodeOf(loaded, Top.label)}
                           \cup UNION {install[d].nodes :
                                         d \in loaded.conf[Top.label].deps},
            stripped |-> FALSE] \in Installation
<1>1. Top.label \in DOMAIN loaded.conf
  BY KnownTop
<1>2. loaded \in Source /\ install \in [Labels -> Installation]
  BY DEF KnownInv, TypeOK
<1>3. NodeOf(loaded, Top.label) \in Node
  BY <1>1, <1>2, NodeOfType
<1>4. loaded.conf[Top.label].deps \subseteq Labels
  BY <1>1, <1>2, ConfigsAssumption DEF Source
<1>5. \A d \in loaded.conf[Top.label].deps : install[d].nodes \subseteq Node
  BY <1>2, <1>4 DEF Installation
<1> QED
  BY <1>3, <1>5 DEF Installation

LEMMA AskedType ==
    ASSUME NEW l \in Labels \cup {Absent}
    PROVE  Asked(l) \in AnswerType /\ Asked(l).how # "returned"
  BY DEF Asked, AnswerType, Outcome

LEMMA KnownStep == KnownInv /\ [Next]_vars => KnownInv'
<1> SUFFICES ASSUME KnownInv, [Next]_vars PROVE KnownInv'
  OBVIOUS
<1> USE DEF disk
<1>0. TypeOK
  BY DEF KnownInv
<1>1. CASE Edit
  BY <1>1 DEF Edit, KnownInv, TypeOK, IdleWhenDown, KnownLabels
<1>2. CASE Start
  BY <1>2 DEF Start, KnownInv, TypeOK, IdleWhenDown, KnownLabels
<1>3. CASE Stop
  <2>1. answer' \in AnswerType /\ answer'.how # "returned"
    BY <1>3, AskedType DEF Stop
  <2>2. stack' = <<>> /\ stack' \in Seq(Frame)
    BY <1>3 DEF Stop
  <2>3. TypeOK'
    BY <1>3, <2>1, <2>2 DEF Stop, KnownInv, TypeOK, AnswerType
  <2>4. IdleWhenDown' /\ KnownLabels'
    BY <2>1, <2>2 DEF IdleWhenDown, KnownLabels
  <2> QED
    BY <2>3, <2>4 DEF KnownInv
<1>4. ASSUME NEW l \in Labels, Request(l) PROVE KnownInv'
  <2>1. NewFrame(l) \in Frame
    BY DEF NewFrame, Frame
  <2>2. stack' = <<NewFrame(l)>> /\ Asked(l) \in AnswerType
    BY <1>4 DEF Request, Asked, AnswerType, Outcome
  <2>3. ~AtWork(NewFrame(l))
    BY DEF AtWork, NewFrame
  <2>4. CallsOK'
    BY <1>4, <2>1, <2>2, <2>3 DEF CallsOK, KnownLabels, Request
  <2> QED
    BY <1>4, <2>4, CallStepKnown DEF Request, KnownInv, TypeOK
<1>5. CASE GetPrecook
  <2>0. running /\ stack # <<>>
    BY <1>5 DEF GetPrecook, UnknownLabel, LoadFails, CacheHit, CacheStale,
                CacheMiss, Construct, ConstructFails, CallDependency,
                RecursionLimit, Configure, Make, Install, RpathStrip, Building,
                BuildFails, ModulesSkip, OpenPickle, DumpPickle, DumpFails,
                Looking, At
  <2>1. Top.label \in Labels /\ Top \in Frame
    BY <1>0, <2>0, TopType
  <2>2. /\ install \in [Labels -> Installation]
        /\ pickle \in [Labels -> Object \cup {Absent, Truncated}]
    BY <1>0 DEF TypeOK
  <2>3. /\ [install EXCEPT ![Top.label] = NotInstalled]
              \in [Labels -> Installation]
        /\ [pickle EXCEPT ![Top.label] = Absent]
              \in [Labels -> Object \cup {Absent, Truncated}]
    BY <1>0, <2>1, InstallType, PickleType, NotInstalledType
  <2>4. CASE UnknownLabel
    BY <2>0, <2>2, <2>4, RaiseCalls, CallStepKnown DEF UnknownLabel, Outcome
  <2>5. CASE LoadFails
    BY <2>0, <2>2, <2>5, RaiseCalls, CallStepKnown DEF LoadFails, Outcome
  <2>6. CASE CacheHit
    BY <2>0, <2>2, <2>6, ReturnCalls, CallStepKnown DEF CacheHit
  <2>7. CASE CacheStale
    <3>1. CallsOK'
      BY <2>7, GotoCalls DEF CacheStale, Looking
    <3> QED
      BY <2>0, <2>2, <2>3, <2>7, <3>1, CallStepKnown DEF CacheStale
  <2>8. CASE CacheMiss
    <3>1. CallsOK'
      BY <2>8, GotoCalls DEF CacheMiss, Looking
    <3> QED
      BY <2>0, <2>2, <2>8, <3>1, CallStepKnown DEF CacheMiss
  <2>9. CASE Construct
    <3>1. CallsOK'
      <4> DEFINE own == NodeOf([loaded EXCEPT !.py = files.py], Top.label)
                 f == [Top EXCEPT !.pc = "deps", !.todo = own.deps,
                                  !.nodes = {own}]
      <4>1. f \in Frame /\ Top.label \in DOMAIN loaded.conf
        BY <2>9, ConstructType, KnownTop DEF Construct
      <4>2. SetTop(f) /\ loaded' = loaded /\ answer' = answer
        BY <2>9 DEF Construct
      <4>3. f.label = Top.label
        BY <2>1 DEF Frame
      <4> HIDE DEF f
      <4> QED
        BY <2>0, <4>1, <4>2, <4>3, SetTopCalls
    <3> QED
      BY <2>0, <2>3, <2>9, <3>1, CallStepKnown DEF Construct, Wipe
  <2>10. CASE ConstructFails
    BY <2>0, <2>3, <2>10, RaiseCalls, CallStepKnown
    DEF ConstructFails, Wipe, Outcome
  <2>11. ASSUME NEW d \in Labels, CallDependency(d) PROVE KnownInv'
    <3>1. NewFrame(d) \in Frame /\ ~AtWork(NewFrame(d))
      BY DEF NewFrame, Frame, AtWork
    <3>2. /\ stack' \in Seq(Frame)
          /\ Len(stack') = Len(stack) + 1
          /\ stack'[Len(stack')] = NewFrame(d)
          /\ \A i \in 1..Len(stack) : stack'[i] = stack[i]
      BY <1>0, <2>11, <3>1, Push DEF CallDependency, TypeOK
    <3>3. Len(stack) \in Nat
      BY <1>0, <2>0, TopType
    <3>4. ASSUME NEW i \in 1..Len(stack')
          PROVE  AtWork(stack'[i]) => stack'[i].label \in DOMAIN loaded'.conf
      <4>1. i = Len(stack') \/ i \in 1..Len(stack)
        BY <3>2, <3>3
      <4>2. CASE i = Len(stack')
        BY <3>1, <3>2, <4>2
      <4>3. CASE i \in 1..Len(stack)
        BY <2>11, <3>2, <4>3 DEF KnownInv, KnownLabels, CallDependency
      <4> QED
        BY <4>1, <4>2, <4>3
    <3>5. CallsOK'
      BY <2>11, <3>2, <3>4
      DEF CallsOK, KnownLabels, CallDependency, KnownInv, TypeOK, AnswerType
    <3> QED
      BY <2>0, <2>2, <2>11, <3>5, CallStepKnown DEF CallDependency
  <2>12. CASE RecursionLimit
    BY <2>0, <2>2, <2>12, RaiseCalls, CallStepKnown DEF RecursionLimit, Outcome
  <2>13. CASE Configure
    <3>1. CallsOK'
      BY <2>13, KnownTop, GotoCalls DEF Configure
    <3> QED
      BY <2>0, <2>2, <2>13, <3>1, CallStepKnown DEF Configure
  <2>14. CASE Make
    <3>1. CallsOK'
      BY <2>14, KnownTop, GotoCalls DEF Make
    <3> QED
      BY <2>0, <2>2, <2>14, <3>1, CallStepKnown DEF Make
  <2>15. CASE Install
    <3>1. CallsOK'
      BY <2>15, KnownTop, GotoCalls DEF Install
    <3>2. install' \in [Labels -> Installation]
      BY <1>0, <2>1, <2>15, InstalledType, InstallType DEF Install
    <3> QED
      BY <2>0, <2>2, <2>15, <3>1, <3>2, CallStepKnown DEF Install
  <2>16. CASE RpathStrip
    <3>1. CallsOK'
      BY <2>16, KnownTop, GotoCalls DEF RpathStrip
    <3>2. install' \in [Labels -> Installation]
      BY <2>1, <2>2, <2>16 DEF RpathStrip, Installation
    <3> QED
      BY <2>0, <2>2, <2>16, <3>1, <3>2, CallStepKnown DEF RpathStrip
  <2>17. CASE BuildFails
    BY <2>0, <2>2, <2>17, RaiseCalls, CallStepKnown DEF BuildFails, Outcome
  <2>18. CASE ModulesSkip
    <3> DEFINE f == [Top EXCEPT !.pc = "save", !.skip = TRUE]
    <3>1. f \in Frame /\ f.label = Top.label
      BY <2>1 DEF Frame
    <3>2. Top.label \in DOMAIN loaded.conf
      BY <2>18, KnownTop DEF ModulesSkip
    <3>3. SetTop(f) /\ loaded' = loaded /\ answer' = answer
      BY <2>18 DEF ModulesSkip
    <3> HIDE DEF f
    <3>4. CallsOK'
      BY <2>0, <3>1, <3>2, <3>3, SetTopCalls
    <3> QED
      BY <2>0, <2>2, <2>18, <3>4, CallStepKnown DEF ModulesSkip
  <2>19. CASE OpenPickle
    <3>1. CallsOK'
      BY <2>19, KnownTop, GotoCalls DEF OpenPickle
    <3>2. pickle' \in [Labels -> Object \cup {Absent, Truncated}]
      BY <1>0, <2>1, <2>19, PickleType DEF OpenPickle
    <3> QED
      BY <2>0, <2>2, <2>19, <3>1, <3>2, CallStepKnown DEF OpenPickle
  <2>20. CASE DumpPickle
    <3> DEFINE o == [label |-> Top.label, nodes |-> Top.nodes, skip |-> Top.skip]
    <3>1. o \in Object
      BY <1>0, <2>0, ObjectUnderConstruction
    <3>2. Return(o) /\ pickle' = [pickle EXCEPT ![Top.label] = o]
      BY <2>20 DEF DumpPickle
    <3> HIDE DEF o
    <3>3. CallsOK'
      BY <2>0, <2>20, <3>1, <3>2, ReturnCalls DEF DumpPickle
    <3>4. pickle' \in [Labels -> Object \cup {Absent, Truncated}]
      BY <1>0, <2>1, <3>1, <3>2, PickleType
    <3> QED
      BY <2>0, <2>2, <2>20, <3>3, <3>4, CallStepKnown DEF DumpPickle
  <2>21. CASE DumpFails
    BY <2>0, <2>2, <2>21, RaiseCalls, CallStepKnown DEF DumpFails, Outcome
  <2> QED
    BY <1>5, <2>4, <2>5, <2>6, <2>7, <2>8, <2>9, <2>10, <2>11, <2>12, <2>13,
       <2>14, <2>15, <2>16, <2>17, <2>18, <2>19, <2>20, <2>21 DEF GetPrecook
<1>6. CASE UNCHANGED vars
  BY <1>6 DEF vars, KnownInv, TypeOK, IdleWhenDown, KnownLabels
<1> QED
  BY <1>1, <1>2, <1>3, <1>4, <1>5, <1>6 DEF Next

LEMMA KnownInit == Init => KnownInv
<1> SUFFICES ASSUME Init PROVE KnownInv
  OBVIOUS
<1>1. install \in [Labels -> Installation]
  BY NotInstalledType DEF Init
<1>2. stack = <<>> /\ stack \in Seq(Frame)
  BY DEF Init
<1>3. answer \in AnswerType /\ answer.how # "returned"
  BY AskedType DEF Init
<1>4. TypeOK
  BY <1>1, <1>2, <1>3 DEF Init, TypeOK, AnswerType
<1> QED
  BY <1>2, <1>3, <1>4 DEF KnownInv, IdleWhenDown, KnownLabels

\* Type correctness of the cache, whatever the sources and their edits: no
\* call asks the run configuration for a label it does not define.
THEOREM TypeCorrect == Spec => []TypeOK
<1>1. KnownInv => TypeOK
  BY DEF KnownInv
<1> QED
  BY KnownInit, KnownStep, <1>1, PTL DEF Spec
-----------------------------------------------------------------------------

\* Where the frames of the next state come from.
LEMMA SetTopFrames ==
    ASSUME TypeOK, stack # <<>>, NEW f \in Frame, SetTop(f)
    PROVE  \A i \in 1..Len(stack') :
              /\ i \in 1..Len(stack)
              /\ \/ i = Len(stack) /\ stack'[i] = f
                 \/ i # Len(stack) /\ stack'[i] = stack[i]
<1>1. /\ Len(stack') = Len(stack)
      /\ stack'[Len(stack)] = f
      /\ \A i \in 1..(Len(stack) - 1) : stack'[i] = stack[i]
  BY SetTopShape
<1>2. Len(stack) \in Nat
  BY TopType
<1>3. \A i \in 1..Len(stack) : i # Len(stack) => i \in 1..(Len(stack) - 1)
  BY <1>2
<1> QED
  BY <1>1, <1>3

LEMMA PushFrames ==
    ASSUME TypeOK, NEW f \in Frame, stack' = Append(stack, f)
    PROVE  \A i \in 1..Len(stack') :
              \/ i = Len(stack) + 1 /\ stack'[i] = f
              \/ i \in 1..Len(stack) /\ stack'[i] = stack[i]
<1>1. stack \in Seq(Frame) /\ Len(stack) \in Nat
  BY DEF TypeOK
<1> QED
  BY <1>1, Push

LEMMA ReturnFrames ==
    ASSUME TypeOK, stack # <<>>, NEW o \in Object, Return(o)
    PROVE  \A i \in 1..Len(stack') :
              /\ i \in 1..Len(stack)
              /\ \/ i = Len(stack) - 1 /\ stack'[i] = Resumed(stack[i], o)
                 \/ i # Len(stack) - 1 /\ stack'[i] = stack[i]
<1>1. CASE stack' = <<>>
  BY <1>1
<1>2. CASE stack' # <<>>
  <2> DEFINE n == Len(stack) - 1
  <2>1. /\ Len(stack') = n
        /\ stack'[n] = Resumed(stack[n], o)
        /\ \A i \in 1..(n - 1) : stack'[i] = stack[i]
    BY <1>2, ReturnShape
  <2>2. n \in Nat /\ Len(stack) = n + 1
    BY TopType
  <2> HIDE DEF n
  <2>3. ASSUME NEW i \in 1..Len(stack')
        PROVE  /\ i \in 1..Len(stack)
               /\ \/ i = n /\ stack'[i] = Resumed(stack[i], o)
                  \/ i # n /\ stack'[i] = stack[i]
    <3>1. i \in 1..(n + 1) /\ (i = n \/ i \in 1..(n - 1))
      BY <2>1, <2>2
    <3> QED
      BY <2>1, <2>2, <3>1
  <2> QED
    BY <2>3 DEF n
<1> QED
  BY <1>1, <1>2

LEMMA FrameType ==
    ASSUME TypeOK, NEW i \in 1..Len(stack)
    PROVE  stack[i] \in Frame
<1>1. stack \in Seq(Frame)
  BY DEF TypeOK
<1> QED
  BY <1>1

(* The recursion limit.                                                    *)

\* What a step may do to a frame without taking it deeper.
NoDeeper(f, g) == /\ g.label = f.label
                  /\ Constructed(g) => g.todo \subseteq loaded.conf[f.label].deps

LEMMA RankKept ==
    ASSUME NEW f, NEW g, NEW i, FrameRanked(f, i), NoDeeper(f, g),
           loaded' = loaded
    PROVE  FrameRanked(g, i)'
  BY DEF FrameRanked, NoDeeper, Constructed, Ranks

\* Asking for less does not take a call deeper.
LEMMA AskingLess ==
    ASSUME NEW f, NEW g, NEW i, FrameRanked(f, i), g.label = f.label,
           Constructed(g) => Constructed(f) /\ g.todo \subseteq f.todo
    PROVE  NoDeeper(f, g)
  BY DEF NoDeeper, FrameRanked

\* The frames of the next state, one by one.
LEMMA RankedNext ==
    ASSUME \A i \in 1..Len(stack') :
              \E g : g = stack'[i] /\ FrameRanked(g, i)'
    PROVE  FramesRanked'
<1>1. ASSUME NEW i \in 1..Len(stack') PROVE FrameRanked(stack[i], i)'
  <2>1. PICK g : g = stack'[i] /\ FrameRanked(g, i)'
    OBVIOUS
  <2> QED
    BY <2>1 DEF FrameRanked, Constructed, Ranks
<1> QED
  BY <1>1 DEF FramesRanked

LEMMA RankedNow ==
    ASSUME RankInv, NEW i \in 1..Len(stack)
    PROVE  FrameRanked(stack[i], i)
  BY DEF RankInv, FramesRanked

LEMMA StaysRanked ==
    ASSUME RankInv, NEW i \in 1..Len(stack), loaded' = loaded
    PROVE  \E g : g = stack[i] /\ FrameRanked(g, i)'
<1>1. PICK g : g = stack[i]
  OBVIOUS
<1>2. FrameRanked(g, i)
  BY <1>1, RankedNow
<1>3. NoDeeper(g, g)
  BY <1>2, AskingLess
<1> QED
  BY <1>1, <1>2, <1>3, RankKept

LEMMA SetTopRanked ==
    ASSUME RankInv, stack # <<>>, NEW f \in Frame, SetTop(f),
           NoDeeper(Top, f), loaded' = loaded
    PROVE  FramesRanked'
<1>1. TypeOK
  BY DEF RankInv, KnownInv
<1>2. ASSUME NEW i \in 1..Len(stack')
      PROVE  \E g : g = stack'[i] /\ FrameRanked(g, i)'
  <2>1. /\ i \in 1..Len(stack)
        /\ \/ i = Len(stack) /\ stack'[i] = f
           \/ i # Len(stack) /\ stack'[i] = stack[i]
    BY <1>1, SetTopFrames
  <2>2. PICK g : g = stack[i] /\ FrameRanked(g, i)
    BY <2>1, RankedNow
  <2>3. CASE i = Len(stack) /\ stack'[i] = f
    <3>1. NoDeeper(g, f)
      BY <2>2, <2>3 DEF Top
    <3> QED
      BY <2>2, <2>3, <3>1, RankKept
  <2>4. CASE i # Len(stack) /\ stack'[i] = stack[i]
    BY <2>1, <2>4, StaysRanked
  <2> QED
    BY <2>1, <2>3, <2>4
<1> QED
  BY <1>2, RankedNext

LEMMA GotoRanked ==
    ASSUME RankInv, stack # <<>>,
           NEW pc \in {"construct", "make", "install", "strip", "save", "dump"},
           pc = "construct" \/ Constructed(Top), Goto(pc), loaded' = loaded
    PROVE  FramesRanked'
<1>1. TypeOK /\ Top \in Frame
  BY TopType DEF RankInv, KnownInv
<1>2. Len(stack) \in 1..Len(stack)
  BY <1>1, TopType
<1>3. FrameRanked(Top, Len(stack))
  BY <1>2, RankedNow DEF Top
<1>4. PICK f : f = [Top EXCEPT !.pc = pc]
  OBVIOUS
<1>5. /\ f \in Frame /\ f.label = Top.label /\ f.todo = Top.todo /\ f.pc = pc
      /\ SetTop(f)
  BY <1>1, <1>4 DEF Frame, Goto
<1>6. NoDeeper(Top, f)
  BY <1>3, <1>5, AskingLess DEF Constructed
<1> QED
  BY <1>5, <1>6, SetTopRanked

LEMMA ReturnRanked ==
    ASSUME RankInv, stack # <<>>, NEW o \in Object, Return(o),
           loaded' = loaded
    PROVE  FramesRanked'
<1>1. TypeOK
  BY DEF RankInv, KnownInv
<1>2. ASSUME NEW i \in 1..Len(stack')
      PROVE  \E g : g = stack'[i] /\ FrameRanked(g, i)'
  <2>1. /\ i \in 1..Len(stack)
        /\ \/ stack'[i] = Resumed(stack[i], o)
           \/ stack'[i] = stack[i]
    BY <1>1, ReturnFrames
  <2>2. CASE stack'[i] = Resumed(stack[i], o)
    <3>1. PICK f : f = stack[i] /\ FrameRanked(f, i)
      BY <2>1, RankedNow
    <3>2. f \in Frame
      BY <1>1, <2>1, <3>1, FrameType
    <3>3. PICK g : g = Resumed(f, o)
      OBVIOUS
    <3>4. /\ g.label = f.label /\ g.pc = f.pc /\ g.todo \subseteq f.todo
      BY <3>2, <3>3 DEF Resumed, Frame
    <3>5. NoDeeper(f, g)
      BY <3>1, <3>4, AskingLess DEF Constructed
    <3> QED
      BY <2>2, <3>1, <3>3, <3>5, RankKept
  <2> QED
    BY <2>1, <2>2, StaysRanked
<1> QED
  BY <1>2, RankedNext

\* The call of a dependency has a smaller rank, and one place deeper to go.
LEMMA PushRanked ==
    ASSUME RankInv, At("deps"), NEW d \in Top.todo,
           stack' = Append(stack, NewFrame(d)), loaded' = loaded
    PROVE  FramesRanked'
<1>1. TypeOK /\ KnownInv /\ stack # <<>> /\ loaded \in Source
  BY DEF RankInv, KnownInv, TypeOK, At
<1>2. Len(stack) \in Nat /\ Len(stack) \in 1..Len(stack) /\ d \in Labels
  BY <1>1, TopType
<1>3. FrameRanked(Top, Len(stack))
  BY <1>2, RankedNow DEF Top
<1>4. Top.label \in DOMAIN loaded.conf /\ Constructed(Top)
  BY <1>1, KnownTop DEF At, Constructed
<1>5. d \in loaded.conf[Top.label].deps
  BY <1>3, <1>4 DEF FrameRanked
<1>6. d \in DOMAIN loaded.conf
  BY <1>1, <1>4, <1>5, ConfigsAssumption DEF Source
<1>7. PICK n \in Nat : n = Len(stack) + 1
  BY <1>2
<1>8. ASSUME NEW r \in Ranks(loaded.conf)
      PROVE  r[d] + n <= MaxDepth
  <2>1. r[Top.label] \in Int /\ r[d] \in Int /\ r[d] < r[Top.label]
    BY <1>4, <1>5, <1>6, DepthAssumption DEF Ranks
  <2>2. r[Top.label] + Len(stack) <= MaxDepth
    BY <1>3, <1>4 DEF FrameRanked
  <2> QED
    BY <1>7, <1>2, <2>1, <2>2, DepthAssumption
<1>9. PICK f : f = NewFrame(d)
  OBVIOUS
<1>10. f \in Frame /\ f.label = d /\ ~Constructed(f)
  BY <1>2, <1>9 DEF NewFrame, Frame, Constructed
<1>11. FrameRanked(f, n)'
  <2>1. FrameRanked(f, n) /\ NoDeeper(f, f)
    BY <1>8, <1>10 DEF FrameRanked, NoDeeper
  <2> QED
    BY <2>1, RankKept
<1>12. ASSUME NEW i \in 1..Len(stack')
       PROVE  \E g : g = stack'[i] /\ FrameRanked(g, i)'
  <2>1. \/ i = n /\ stack'[i] = f
        \/ i \in 1..Len(stack) /\ stack'[i] = stack[i]
    BY <1>7, <1>1, <1>9, <1>10, PushFrames
  <2>2. CASE i = n /\ stack'[i] = f
    BY <1>11, <2>2
  <2>3. CASE i \in 1..Len(stack) /\ stack'[i] = stack[i]
    BY <2>3, StaysRanked
  <2> QED
    BY <2>1, <2>2, <2>3
<1> QED
  BY <1>12, RankedNext

\* At the limit the innermost call still lacks a dependency, for which no
\* rank is left.
LEMMA LimitIsDeep ==
    ASSUME RankInv, RecursionLimit
    PROVE  ~Shallow(loaded.conf)
<1>1. TypeOK /\ KnownInv /\ stack # <<>> /\ loaded \in Source
  BY DEF RankInv, KnownInv, TypeOK, RecursionLimit, At
<1>2. Len(stack) \in 1..Len(stack) /\ Len(stack) = MaxDepth
  <2>1. Len(stack) = MaxDepth
    BY DEF RecursionLimit
  <2> QED
    BY <1>1, <2>1, TopType
<1>3. FrameRanked(Top, Len(stack))
  BY <1>2, RankedNow DEF Top
<1>4. Top.label \in DOMAIN loaded.conf /\ Constructed(Top)
  BY <1>1, KnownTop DEF RecursionLimit, At, Constructed
<1>5. PICK d \in Top.todo : TRUE
  BY DEF RecursionLimit
<1>6. d \in loaded.conf[Top.label].deps
  BY <1>3, <1>4, <1>5 DEF FrameRanked
<1>7. d \in DOMAIN loaded.conf
  BY <1>1, <1>4, <1>6, ConfigsAssumption DEF Source
<1>8. ASSUME NEW r \in Ranks(loaded.conf) PROVE FALSE
  <2>1. /\ r[d] \in Int /\ r[d] >= 0
        /\ r[Top.label] \in Int /\ r[d] < r[Top.label]
    BY <1>4, <1>6, <1>7, DepthAssumption DEF Ranks
  <2>2. r[Top.label] + MaxDepth <= MaxDepth
    BY <1>2, <1>3, <1>4 DEF FrameRanked
  <2> QED
    BY <2>1, <2>2, DepthAssumption
<1> QED
  BY <1>8 DEF Shallow

LEMMA NoFrames ==
    ASSUME stack' = <<>>
    PROVE  FramesRanked'
<1>1. 1..Len(stack') = {}
  OBVIOUS
<1> QED
  BY <1>1 DEF FramesRanked

LEMMA RankStep == RankInv /\ [Next]_vars => RankInv'
<1> SUFFICES ASSUME RankInv, [Next]_vars PROVE RankInv'
  OBVIOUS
<1> USE DEF disk
<1>1. KnownInv /\ TypeOK /\ FramesRanked /\ LimitOnlyIfDeep /\ NothingAsked
  BY DEF RankInv, KnownInv
<1>2. KnownInv'
  BY <1>1, KnownStep
<1>3. CASE UNCHANGED <<loaded, running, stack, answer>>
  BY <1>1, <1>2, <1>3
  DEF RankInv, FramesRanked, FrameRanked, LimitOnlyIfDeep, NothingAsked,
      Constructed, Ranks, Shallow
<1>4. CASE Start
  <2>1. stack' = <<>> /\ answer'.how = "none"
    BY <1>1, <1>4 DEF Start, KnownInv, IdleWhenDown, NothingAsked
  <2> QED
    BY <1>2, <2>1, NoFrames DEF RankInv, LimitOnlyIfDeep, NothingAsked
<1>5. CASE Stop
  <2>1. stack' = <<>> /\ answer'.how = "none"
    BY <1>5 DEF Stop, Asked
  <2> QED
    BY <1>2, <2>1, NoFrames DEF RankInv, LimitOnlyIfDeep, NothingAsked
<1>6. ASSUME NEW l \in Labels, Request(l) PROVE RankInv'
  <2>1. PICK f : f = NewFrame(l)
    OBVIOUS
  <2>2. f.label = l /\ ~Constructed(f) /\ loaded' = loaded
    BY <1>6, <2>1 DEF NewFrame, Constructed, Request
  <2>3. FrameRanked(f, 1)
    <3>1. ASSUME l \in DOMAIN loaded.conf, NEW r \in Ranks(loaded.conf)
          PROVE  r[l] + 1 <= MaxDepth
      BY <3>1, DepthAssumption DEF Ranks
    <3> QED
      BY <2>2, <3>1 DEF FrameRanked
  <2>4. FrameRanked(f, 1)'
    BY <2>2, <2>3, RankKept DEF NoDeeper
  <2>5. stack' = <<f>> /\ answer'.how = "none"
    BY <1>6, <2>1 DEF Request, Asked
  <2>6. \A i \in 1..Len(stack') : i = 1 /\ stack'[i] = f
    BY <2>5
  <2>7. FramesRanked'
    BY <2>4, <2>6, RankedNext
  <2> QED
    BY <1>2, <2>5, <2>7 DEF RankInv, LimitOnlyIfDeep, NothingAsked
<1>7. CASE GetPrecook
  <2>1. running' = running /\ running /\ loaded' = loaded /\ stack # <<>>
    BY <1>7 DEF GetPrecook, UnknownLabel, LoadFails, CacheHit, CacheStale,
                CacheMiss, Construct, ConstructFails, CallDependency,
                RecursionLimit, Configure, Make, Install, RpathStrip, Building,
                BuildFails, ModulesSkip, OpenPickle, DumpPickle, DumpFails,
                Looking, At
  <2>2. NothingAsked'
    BY <2>1 DEF NothingAsked
  <2>3. LimitOnlyIfDeep'
    <3>1. CASE RecursionLimit
      BY <2>1, <3>1, LimitIsDeep DEF LimitOnlyIfDeep, Shallow, Ranks
    <3>2. CASE ~RecursionLimit
      <4>1. answer'.how # "recursion limit" \/ answer' = answer
        BY <1>1, <1>7, <3>2
        DEF GetPrecook, UnknownLabel, LoadFails, CacheHit, CacheStale,
            CacheMiss, Construct, ConstructFails, CallDependency, Configure,
            Make, Install, RpathStrip, BuildFails, ModulesSkip, OpenPickle,
            DumpPickle, DumpFails, Raise, Return, TypeOK
      <4> QED
        BY <1>1, <2>1, <4>1 DEF LimitOnlyIfDeep, Shallow, Ranks
    <3> QED
      BY <3>1, <3>2
  <2>4. Top \in Frame /\ Len(stack) \in 1..Len(stack)
    BY <1>1, <2>1, TopType
  <2>5. CASE UnknownLabel \/ LoadFails \/ ConstructFails \/ RecursionLimit
               \/ BuildFails \/ DumpFails
    <3>1. FramesRanked'
      BY <2>5, NoFrames
      DEF UnknownLabel, LoadFails, ConstructFails, RecursionLimit, BuildFails,
          DumpFails, Raise
    <3> QED
      BY <1>2, <2>2, <2>3, <3>1 DEF RankInv
  <2>6. CASE CacheHit
    <3>1. FramesRanked'
      BY <2>1, <2>6, ReturnRanked DEF CacheHit
    <3> QED
      BY <1>2, <2>2, <2>3, <3>1 DEF RankInv
  <2>7. CASE DumpPickle
    <3>1. FramesRanked'
      BY <1>1, <2>1, <2>7, ObjectUnderConstruction, ReturnRanked DEF DumpPickle
    <3> QED
      BY <1>2, <2>2, <2>3, <3>1 DEF RankInv
  <2>8. CASE CacheStale \/ CacheMiss
    <3>1. FramesRanked'
      BY <2>1, <2>8, GotoRanked DEF CacheStale, CacheMiss
    <3> QED
      BY <1>2, <2>2, <2>3, <3>1 DEF RankInv
  <2>9. CASE Configure \/ Make \/ Install \/ RpathStrip \/ OpenPickle
    <3>1. Constructed(Top)
      BY <2>9 DEF Configure, Make, Install, RpathStrip, OpenPickle, At,
                  Constructed
    <3>2. PICK pc \in {"make", "install", "strip", "save", "dump"} : Goto(pc)
      BY <2>9 DEF Configure, Make, Install, RpathStrip, OpenPickle
    <3>3. FramesRanked'
      BY <2>1, <3>1, <3>2, GotoRanked
    <3> QED
      BY <1>2, <2>2, <2>3, <3>3 DEF RankInv
  <2>10. CASE Construct
    <3>1. PICK own : own = NodeOf([loaded EXCEPT !.py = files.py], Top.label)
      OBVIOUS
    <3>2. PICK f : f = [Top EXCEPT !.pc = "deps", !.todo = own.deps,
                                   !.nodes = {own}]
      OBVIOUS
    <3>3. f \in Frame /\ own.deps = loaded.conf[Top.label].deps
      BY <1>1, <2>10, <3>1, <3>2, ConstructType DEF Construct
    <3>4. SetTop(f)
      BY <2>10, <3>1, <3>2 DEF Construct
    <3>5. NoDeeper(Top, f)
      BY <2>4, <3>2, <3>3 DEF NoDeeper, Frame
    <3>6. FramesRanked'
      BY <2>1, <3>3, <3>4, <3>5, SetTopRanked
    <3> QED
      BY <1>2, <2>2, <2>3, <3>6 DEF RankInv
  <2>11. ASSUME NEW d \in Labels, CallDependency(d) PROVE RankInv'
    <3>1. FramesRanked'
      BY <2>1, <2>11, PushRanked DEF CallDependency
    <3> QED
      BY <1>2, <2>2, <2>3, <3>1 DEF RankInv
  <2>12. CASE ModulesSkip
    <3>1. PICK f : f = [Top EXCEPT !.pc = "save", !.skip = TRUE]
      OBVIOUS
    <3>2. /\ f \in Frame /\ f.label = Top.label /\ f.todo = Top.todo
          /\ SetTop(f) /\ Constructed(Top)
      BY <2>4, <2>12, <3>1 DEF Frame, ModulesSkip, At, Constructed
    <3>3. NoDeeper(Top, f)
      <4>1. FrameRanked(Top, Len(stack))
        BY <2>4, RankedNow DEF Top
      <4> QED
        BY <3>2, <4>1, AskingLess
    <3>4. FramesRanked'
      BY <2>1, <3>2, <3>3, SetTopRanked
    <3> QED
      BY <1>2, <2>2, <2>3, <3>4 DEF RankInv
  <2> QED
    BY <1>7, <2>5, <2>6, <2>7, <2>8, <2>9, <2>10, <2>11, <2>12 DEF GetPrecook
<1> QED
  BY <1>3, <1>4, <1>5, <1>6, <1>7 DEF Next, Edit, vars

LEMMA RankInit == Init => RankInv
<1> SUFFICES ASSUME Init PROVE RankInv
  OBVIOUS
<1>1. stack = <<>> /\ answer.how = "none"
  BY DEF Init, Asked
<1> QED
  BY <1>1, KnownInit DEF RankInv, FramesRanked, LimitOnlyIfDeep, NothingAsked

\* Whatever happens to the files and whenever the process is killed, a run
\* configuration whose projects can be numbered below the recursion limit,
\* each after its dependencies, never makes a call reach it.
THEOREM LimitNeedsDepth == Spec => []LimitOnlyIfDeep
<1>1. RankInv => LimitOnlyIfDeep
  BY DEF RankInv
<1> QED
  BY RankInit, RankStep, <1>1, PTL DEF Spec
-----------------------------------------------------------------------------
(* What get_precook returns is what the sources describe.                  *)

LEMMA TopSound ==
    ASSUME KnownInv, stack # <<>>, FramesSound
    PROVE  FrameSound(Top)
<1>1. Len(stack) \in 1..Len(stack)
  BY TopType DEF KnownInv
<1> QED
  BY <1>1 DEF FramesSound, Top

LEMMA ResumedSound ==
    ASSUME NEW f \in Frame, NEW o \in Object, FrameSound(f),
           Described(o, loaded)
    PROVE  FrameSound(Resumed(f, o))
<1> DEFINE g == Resumed(f, o)
<1>1. /\ g.label = f.label
      /\ g.pc = f.pc
      /\ g.todo = f.todo \ {o.label}
      /\ g.nodes = f.nodes \cup o.nodes
  BY DEF Resumed, Frame
<1> HIDE DEF g
<1>2. \E m \in o.nodes : m.label = o.label
  BY DEF Described, NodeOf
<1> SUFFICES ASSUME Constructed(g) PROVE FrameSound(g)
  BY DEF FrameSound, g
<1>3. Constructed(f)
  BY <1>1 DEF Constructed
<1>4. NodeOf(loaded, g.label) \in g.nodes
  BY <1>1, <1>3 DEF FrameSound
<1>5. \A n \in g.nodes : n.label \in DOMAIN loaded.conf
                         /\ n = NodeOf(loaded, n.label)
  BY <1>1, <1>3 DEF FrameSound, Described, Valid
<1>6. ASSUME NEW n \in g.nodes, NEW d \in n.deps
      PROVE  \/ \E m \in g.nodes : m.label = d
             \/ n.label = g.label /\ d \in g.todo
  <2>1. CASE n \in o.nodes
    BY <1>1, <2>1 DEF Described
  <2>2. CASE n \in f.nodes
    BY <1>1, <1>2, <1>3, <2>2 DEF FrameSound
  <2> QED
    BY <1>1, <2>1, <2>2
<1>7. g.pc # "deps" => g.todo = {}
  BY <1>1, <1>3 DEF FrameSound
<1> QED
  BY <1>4, <1>5, <1>6, <1>7 DEF FrameSound

LEMMA CachedIsDescribed ==
    ASSUME PicklesComplete, NEW l \in Labels, ValidPickle(l)
    PROVE  Described(pickle[l], loaded)
  BY DEF PicklesComplete, ValidPickle, Complete, Described, Valid

LEMMA BuiltIsDescribed ==
    ASSUME KnownInv, FramesSound, At("dump")
    PROVE  Described([label |-> Top.label, nodes |-> Top.nodes,
                      skip |-> Top.skip], loaded)
<1>1. FrameSound(Top) /\ Top.pc = "dump"
  BY TopSound DEF At
<1>2. Top.label \in DOMAIN loaded.conf
  BY KnownTop
<1> QED
  BY <1>1, <1>2 DEF FrameSound, Constructed, Described, Valid

LEMMA DescribedIsComplete ==
    ASSUME NEW o \in Object, Described(o, loaded)
    PROVE  Complete(o)
  BY DEF Described, Complete, NodeOf
LEMMA SetTopSound ==
    ASSUME TypeOK, FramesSound, stack # <<>>, NEW f \in Frame, SetTop(f),
           FrameSound(f), loaded' = loaded
    PROVE  FramesSound'
<1>1. ASSUME NEW g, FrameSound(g) PROVE FrameSound(g)'
  BY <1>1 DEF FrameSound, Constructed
<1>2. ASSUME NEW i \in 1..Len(stack') PROVE FrameSound(stack'[i])
  BY SetTopFrames DEF FramesSound
<1> QED
  BY <1>2 DEF FramesSound, FrameSound, Constructed

LEMMA ReturnSound ==
    ASSUME TypeOK, FramesSound, stack # <<>>, NEW o \in Object, Return(o),
           Described(o, loaded), loaded' = loaded
    PROVE  FramesSound'
<1>1. ASSUME NEW i \in 1..Len(stack') PROVE FrameSound(stack'[i])
  <2>1. /\ i \in 1..Len(stack)
        /\ \/ stack'[i] = Resumed(stack[i], o)
           \/ stack'[i] = stack[i]
    BY ReturnFrames
  <2>2. stack[i] \in Frame /\ FrameSound(stack[i])
    BY <2>1, FrameType DEF FramesSound
  <2> QED
    BY <2>1, <2>2, ResumedSound
<1> QED
  BY <1>1 DEF FramesSound, FrameSound, Constructed

LEMMA ConstructSound ==
    ASSUME KnownInv, PyStable, At("construct")
    PROVE  LET own == NodeOf([loaded EXCEPT !.py = files.py], Top.label)
           IN  FrameSound([Top EXCEPT !.pc = "deps", !.todo = own.deps,
                                      !.nodes = {own}])
<1> DEFINE own == NodeOf([loaded EXCEPT !.py = files.py], Top.label)
           f == [Top EXCEPT !.pc = "deps", !.todo = own.deps, !.nodes = {own}]
<1>1. Top \in Frame /\ Top.label \in DOMAIN loaded.conf
  BY TopType, KnownTop DEF KnownInv, At
<1>2. own = NodeOf(loaded, Top.label) /\ own.label = Top.label
  <2>1. files.py = loaded.py /\ loaded \in Source
    BY DEF PyStable, At, KnownInv, TypeOK
  <2>2. [loaded EXCEPT !.py = files.py] = loaded
    BY <2>1 DEF Source
  <2> QED
    BY <2>2 DEF NodeOf
<1> HIDE DEF own
<1>3. /\ f.label = Top.label
      /\ f.pc = "deps"
      /\ f.todo = own.deps
      /\ f.nodes = {own}
  BY <1>1 DEF Frame
<1> HIDE DEF f
<1>4. FrameSound(f)
  BY <1>1, <1>2, <1>3 DEF FrameSound
<1> QED
  BY <1>4 DEF f, own

\* A frame that goes on to the next statement after the dependencies.
LEMMA GotoSound ==
    ASSUME TypeOK, FramesSound, NEW pc, At(pc), loaded' = loaded,
           NEW f \in Frame, SetTop(f),
           f.label = Top.label, f.todo = Top.todo, f.nodes = Top.nodes,
           \/ f.pc = "construct"
           \/ Constructed(Top) /\ Top.todo = {}
    PROVE  FramesSound'
<1>1. stack # <<>> /\ FrameSound(Top)
  <2>1. stack # <<>>
    BY DEF At
  <2>2. Len(stack) \in 1..Len(stack)
    BY <2>1, TopType
  <2> QED
    BY <2>1, <2>2 DEF FramesSound, Top
<1>2. FrameSound(f)
  BY <1>1 DEF FrameSound, Constructed
<1> QED
  BY <1>1, <1>2, SetTopSound

LEMMA RaiseMatch ==
    ASSUME TypeOK, NEW why \in Outcome \ {"returned"}, Raise(why)
    PROVE  FramesSound' /\ ReturnedMatchesMarkers'
  BY DEF TypeOK, Raise, FramesSound, ReturnedMatchesMarkers

LEMMA ReturnMatch ==
    ASSUME TypeOK, FramesSound, ReturnedMatchesMarkers, stack # <<>>,
           NEW o \in Object, Return(o), Described(o, loaded), loaded' = loaded
    PROVE  FramesSound' /\ ReturnedMatchesMarkers'
<1>1. FramesSound'
  BY ReturnSound
<1>2. answer' = answer \/ answer'.object = o
  BY ReturnShape DEF TypeOK
<1>3. ReturnedMatchesMarkers'
  BY <1>2 DEF ReturnedMatchesMarkers, Described, Valid, NodeOf
<1> QED
  BY <1>1, <1>3

LEMMA PicklesKept ==
    ASSUME TypeOK, PicklesComplete, NEW l \in Labels, NEW v,
           pickle' = [pickle EXCEPT ![l] = v],
           v \in Object => v.label = l /\ Complete(v)
    PROVE  PicklesComplete'
  BY DEF TypeOK, PicklesComplete, Complete

\* The steps of get_precook, with the files of the process unchanged.
LEMMA CallStepMatch ==
    ASSUME MatchInv, GetPrecook
    PROVE  PicklesComplete' /\ FramesSound' /\ ReturnedMatchesMarkers'
<1> USE DEF disk
<1>0. /\ KnownInv /\ TypeOK /\ PyStable /\ PicklesComplete /\ FramesSound
      /\ ReturnedMatchesMarkers
  BY DEF MatchInv, KnownInv
<1>1. running /\ stack # <<>> /\ loaded' = loaded
  BY DEF GetPrecook, UnknownLabel, LoadFails, CacheHit, CacheStale,
         CacheMiss, Construct, ConstructFails, CallDependency,
         RecursionLimit, Configure, Make, Install, RpathStrip, Building,
         BuildFails, ModulesSkip, OpenPickle, DumpPickle, DumpFails,
         Looking, At
<1>2. Top.label \in Labels /\ Top \in Frame
  BY <1>0, <1>1, TopType
<1>3. Absent \notin Object /\ Truncated \notin Object
  BY SentinelAssumption
<1>4. /\ pickle' = pickle => PicklesComplete'
      /\ answer' = answer => ReturnedMatchesMarkers'
  BY <1>0, <1>1 DEF PicklesComplete, Complete, ReturnedMatchesMarkers,
                    Described, Valid, NodeOf
\* The frame after goto: only the statement changes.
<1>5. ASSUME NEW pc \in {"construct", "make", "install", "strip", "save",
                         "dump"}
      PROVE  LET f == [Top EXCEPT !.pc = pc]
             IN  f \in Frame /\ f.pc = pc /\ f.label = Top.label
                 /\ f.todo = Top.todo /\ f.nodes = Top.nodes
  BY <1>2 DEF Frame
<1>6. FrameSound(Top)
  BY <1>0, <1>1, TopSound
<1>7. ASSUME NEW pc, At(pc), pc \in {"make", "install", "strip", "save", "dump"}
      PROVE  Constructed(Top) /\ Top.todo = {}
  BY <1>6, <1>7 DEF At, FrameSound, Constructed
<1>8. CASE UnknownLabel
  BY <1>0, <1>4, <1>8, RaiseMatch DEF UnknownLabel, Outcome
<1>9. CASE LoadFails
  BY <1>0, <1>4, <1>9, RaiseMatch DEF LoadFails, Outcome
<1>10. CASE CacheHit
  <2>1. pickle[Top.label] \in Object /\ ValidPickle(Top.label)
    BY <1>10 DEF CacheHit, Looking, ValidPickle
  <2>2. Described(pickle[Top.label], loaded)
    BY <1>0, <1>2, <2>1, CachedIsDescribed
  <2> QED
    BY <1>0, <1>1, <1>4, <1>10, <2>1, <2>2, ReturnMatch DEF CacheHit
<1>11. CASE CacheStale
  <2>1. FramesSound'
    BY <1>0, <1>1, <1>5, <1>11, GotoSound DEF CacheStale, Looking, Goto
  <2> QED
    BY <1>4, <1>11, <2>1 DEF CacheStale
<1>12. CASE CacheMiss
  <2>1. FramesSound'
    BY <1>0, <1>1, <1>5, <1>12, GotoSound DEF CacheMiss, Looking, Goto
  <2> QED
    BY <1>4, <1>12, <2>1 DEF CacheMiss
<1>13. CASE Construct
  <2> DEFINE own == NodeOf([loaded EXCEPT !.py = files.py], Top.label)
             f == [Top EXCEPT !.pc = "deps", !.todo = own.deps, !.nodes = {own}]
  <2>1. f \in Frame /\ FrameSound(f)
    BY <1>0, <1>13, ConstructType, ConstructSound DEF Construct
  <2>2. SetTop(f) /\ answer' = answer
    BY <1>13 DEF Construct
  <2> HIDE DEF f
  <2>3. FramesSound'
    BY <1>0, <1>1, <2>1, <2>2, SetTopSound
  <2>4. PicklesComplete'
    BY <1>0, <1>2, <1>3, <1>13, PicklesKept DEF Construct, Wipe
  <2> QED
    BY <1>4, <2>2, <2>3, <2>4
<1>14. CASE ConstructFails
  <2>1. PicklesComplete'
    BY <1>0, <1>2, <1>3, <1>14, PicklesKept DEF ConstructFails, Wipe
  <2> QED
    BY <1>0, <1>14, <2>1, RaiseMatch DEF ConstructFails, Outcome
<1>15. ASSUME NEW d \in Labels, CallDependency(d)
       PROVE  PicklesComplete' /\ FramesSound' /\ ReturnedMatchesMarkers'
  <2>1. NewFrame(d) \in Frame /\ FrameSound(NewFrame(d))
    BY DEF NewFrame, Frame, FrameSound, Constructed
  <2>2. \A i \in 1..Len(stack') : FrameSound(stack'[i])
    BY <1>0, <1>15, <2>1, PushFrames DEF CallDependency, FramesSound
  <2>3. FramesSound'
    BY <1>1, <2>2 DEF FramesSound, FrameSound, Constructed
  <2> QED
    BY <1>4, <1>15, <2>3 DEF CallDependency
<1>16. CASE RecursionLimit
  BY <1>0, <1>4, <1>16, RaiseMatch DEF RecursionLimit, Outcome
<1>17. CASE Configure
  <2>1. Constructed(Top) /\ Top.todo = {}
    BY <1>17 DEF Configure, At, Constructed
  <2>2. FramesSound'
    BY <1>0, <1>1, <1>5, <1>17, <2>1, GotoSound DEF Configure, Goto
  <2> QED
    BY <1>4, <1>17, <2>2 DEF Configure
<1>18. CASE Make
  <2>1. FramesSound'
    BY <1>0, <1>1, <1>5, <1>7, <1>18, GotoSound DEF Make, Goto
  <2> QED
    BY <1>4, <1>18, <2>1 DEF Make
<1>19. CASE Install
  <2>1. FramesSound'
    BY <1>0, <1>1, <1>5, <1>7, <1>19, GotoSound DEF Install, Goto
  <2> QED
    BY <1>4, <1>19, <2>1 DEF Install
<1>20. CASE RpathStrip
  <2>1. FramesSound'
    BY <1>0, <1>1, <1>5, <1>7, <1>20, GotoSound DEF RpathStrip, Goto
  <2> QED
    BY <1>4, <1>20, <2>1 DEF RpathStrip
<1>21. CASE BuildFails
  BY <1>0, <1>4, <1>21, RaiseMatch DEF BuildFails, Outcome
<1>22. CASE ModulesSkip
  <2> DEFINE f == [Top EXCEPT !.pc = "save", !.skip = TRUE]
  <2>1. f \in Frame /\ f.label = Top.label /\ f.todo = Top.todo
        /\ f.nodes = Top.nodes
    BY <1>2 DEF Frame
  <2>2. SetTop(f)
    BY <1>22 DEF ModulesSkip
  <2>3. Constructed(Top) /\ Top.todo = {}
    BY <1>7, <1>22 DEF ModulesSkip
  <2>4. \E pc : At(pc)
    BY <1>22 DEF ModulesSkip
  <2> HIDE DEF f
  <2>5. FramesSound'
    BY <1>0, <1>1, <2>1, <2>2, <2>3, <2>4, GotoSound
  <2> QED
    BY <1>4, <1>22, <2>5 DEF ModulesSkip
<1>23. CASE OpenPickle
  <2>1. FramesSound'
    BY <1>0, <1>1, <1>5, <1>7, <1>23, GotoSound DEF OpenPickle, Goto
  <2>2. PicklesComplete'
    BY <1>0, <1>2, <1>3, <1>23, PicklesKept DEF OpenPickle
  <2> QED
    BY <1>4, <1>23, <2>1, <2>2 DEF OpenPickle
<1>24. CASE DumpPickle
  <2> DEFINE o == [label |-> Top.label, nodes |-> Top.nodes, skip |-> Top.skip]
  <2>1. o \in Object /\ o.label = Top.label
    BY <1>0, <1>1, ObjectUnderConstruction
  <2>2. Described(o, loaded)
    BY <1>0, <1>24, BuiltIsDescribed DEF DumpPickle
  <2>3. pickle' = [pickle EXCEPT ![Top.label] = o] /\ Return(o)
    BY <1>24 DEF DumpPickle
  <2> HIDE DEF o
  <2>4. PicklesComplete'
    BY <1>0, <1>2, <2>1, <2>2, <2>3, DescribedIsComplete, PicklesKept
  <2> QED
    BY <1>0, <1>1, <2>1, <2>2, <2>3, <2>4, ReturnMatch
<1>25. CASE DumpFails
  BY <1>0, <1>4, <1>25, RaiseMatch DEF DumpFails, Outcome
<1> QED
  BY <1>8, <1>9, <1>10, <1>11, <1>12, <1>13, <1>14, <1>15, <1>16, <1>17,
     <1>18, <1>19, <1>20, <1>21, <1>22, <1>23, <1>24, <1>25 DEF GetPrecook

LEMMA MatchStep ==
    ASSUME ~EditedDuringRun, MatchInv, [Next]_vars
    PROVE  MatchInv'
<1> USE DEF disk
<1>0. /\ KnownInv /\ TypeOK /\ IdleWhenDown /\ PyStable /\ PicklesComplete
      /\ FramesSound /\ ReturnedMatchesMarkers
  BY DEF MatchInv, KnownInv
<1>1. KnownInv'
  BY <1>0, KnownStep
<1>2. PyStable'
  <2>1. CASE Edit
    BY <1>0, <2>1 DEF Edit, PyStable
  <2>2. CASE Start
    BY <2>2 DEF Start, PyStable
  <2>3. CASE Stop
    BY <2>3 DEF Stop, PyStable
  <2>4. ASSUME NEW l \in Labels, Request(l) PROVE PyStable'
    BY <1>0, <2>4 DEF Request, PyStable
  <2>5. CASE GetPrecook
    <3>1. UNCHANGED <<files, loaded, running>>
      BY <2>5 DEF GetPrecook, UnknownLabel, LoadFails, CacheHit, CacheStale,
                  CacheMiss, Construct, ConstructFails, CallDependency,
                  RecursionLimit, Configure, Make, Install, RpathStrip,
                  BuildFails, ModulesSkip, OpenPickle, DumpPickle, DumpFails
    <3> QED
      BY <1>0, <3>1 DEF PyStable
  <2>6. CASE UNCHANGED vars
    BY <1>0, <2>6 DEF vars, PyStable
  <2> QED
    BY <2>1, <2>2, <2>3, <2>4, <2>5, <2>6 DEF Next
<1>3. ASSUME UNCHANGED <<loaded, stack, answer, pickle>>
      PROVE  PicklesComplete' /\ FramesSound' /\ ReturnedMatchesMarkers'
  BY <1>0, <1>3 DEF PicklesComplete, Complete, FramesSound, FrameSound,
                    Constructed, ReturnedMatchesMarkers, Described, Valid, NodeOf
<1>4. ASSUME pickle' = pickle PROVE PicklesComplete'
  BY <1>0, <1>4 DEF PicklesComplete, Complete
<1>5. CASE Start
  <2>1. stack' = <<>> /\ answer'.how # "returned" /\ pickle' = pickle
    BY <1>0, <1>5 DEF Start, IdleWhenDown
  <2> QED
    BY <1>1, <1>2, <1>4, <2>1 DEF MatchInv, FramesSound, ReturnedMatchesMarkers
<1>6. CASE Stop
  <2>1. stack' = <<>> /\ answer'.how # "returned" /\ pickle' = pickle
    BY <1>6 DEF Stop, Asked
  <2> QED
    BY <1>1, <1>2, <1>4, <2>1 DEF MatchInv, FramesSound, ReturnedMatchesMarkers
<1>7. ASSUME NEW l \in Labels, Request(l) PROVE MatchInv'
  <2>1. stack' = <<NewFrame(l)>> /\ answer'.how # "returned" /\ pickle' = pickle
    BY <1>7 DEF Request, Asked
  <2>2. FramesSound'
    BY <2>1 DEF FramesSound, FrameSound, Constructed, NewFrame
  <2> QED
    BY <1>1, <1>2, <1>4, <2>1, <2>2 DEF MatchInv, ReturnedMatchesMarkers
<1>8. CASE Edit
  BY <1>1, <1>2, <1>3, <1>8 DEF Edit, MatchInv
<1>9. CASE GetPrecook
  BY <1>1, <1>2, <1>9, CallStepMatch DEF MatchInv
<1>10. CASE UNCHANGED vars
  BY <1>1, <1>2, <1>3, <1>10 DEF vars, MatchInv
<1> QED
  BY <1>5, <1>6, <1>7, <1>8, <1>9, <1>10 DEF Next

LEMMA MatchInit == Init => MatchInv
<1> SUFFICES ASSUME Init PROVE MatchInv
  OBVIOUS
<1>1. KnownInv
  BY KnownInit
<1>2. PyStable
  BY DEF Init, PyStable
<1>3. \A l \in Labels : pickle[l] = Absent
  BY DEF Init
<1>4. PicklesComplete
  BY <1>3, SentinelAssumption DEF PicklesComplete
<1>5. FramesSound /\ ReturnedMatchesMarkers
  BY DEF Init, Asked, FramesSound, ReturnedMatchesMarkers
<1> QED
  BY <1>1, <1>2, <1>4, <1>5 DEF MatchInv

\* If project.py does not change under a running process, get_precook only
\* returns the project that the run configuration and project.py of the
\* process describe, whatever earlier processes left in the cache.
THEOREM ReturnedMatches ==
    ASSUME ~EditedDuringRun
    PROVE  Spec => []ReturnedMatchesMarkers
<1>1. MatchInv /\ [Next]_vars => MatchInv'
  BY MatchStep
<1>2. MatchInv => ReturnedMatchesMarkers
  BY DEF MatchInv
<1> QED
  BY MatchInit, <1>1, <1>2, PTL DEF Spec
=============================================================================
