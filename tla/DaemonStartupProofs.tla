------------------------- MODULE DaemonStartupProofs -------------------------
(***************************************************************************)
(* Proofs about DaemonStartup for any number of daemons and ports, first   *)
(* whether or not session daemons answer within the minute, then when they *)
(* do.                                                                     *)
(***************************************************************************)
EXTENDS DaemonStartup, FiniteSetTheorems, TLAPS

Typed ==
    /\ pc \in Statement
    /\ target \in SUBSET Daemons
    /\ status \in [Daemons -> {"unborn", "starting", "ready", "ended"}]
    /\ handler \in {"default", "dummy"}
    /\ previous \in {"default", "dummy"}
    /\ cue \in {"none", "ready_cue", "synchro_text"}
    /\ log \in [Relayds -> SUBSET {"other", "ready_cue", "synchro_text"}]

(* In a call of sessiond_spawn the driver has its handler, and the target  *)
(* is what the call has made of it so far.                                 *)
InSpawn ==
    /\ pc \in {"handler", "spawned", "sigtimedwait", "restore"} =>
          handler = "dummy"
    /\ At("handler") => \A d \in target : status[d] = "unborn"
    /\ pc \in {"spawned", "sigtimedwait", "restore"} =>
          \A d \in target : status[d] # "unborn"
    /\ At("poll") =>
          /\ cue # "none"
          /\ \A r \in target : r \in Relayds /\ status[r] # "unborn"

(* A daemon that is starting is waited for, or was given up.               *)
Awaited ==
    /\ \A d \in Sessionds : status[d] = "starting" =>
          \/ d \in early
          \/ target = {d} /\ pc \in {"spawned", "sigtimedwait", "restore"}
    /\ \A r \in Relayds : status[r] = "starting" =>
          \/ r \in early
          \/ At("poll") /\ target = {r} /\ cue = "ready_cue"
          \/ At("close") \/ At("killed")
    /\ \A r \in Relayds : "ready_cue" \in log[r] =>
          status[r] \in {"ready", "ended"}
    /\ \A d \in returned : d \in Daemons /\ status[d] # "unborn"

(* When session daemons answer within a minute, none is given up.          *)
Prompt ==
    /\ \A d \in Sessionds : d \notin early
    /\ At("restore") => \A d \in target : status[d] \in {"ready", "ended"}
    /\ SessiondAnswered

(* Ports are claimed by daemons that were spawned, or are about to be.     *)
Spawning(d) == At("handler") /\ target = {d}
Using(d) == Alive(d) \/ Spawning(d)

Claimed ==
    /\ \A c \in claims : c[1] \in Daemons
    /\ \A c \in claims : status[c[1]] = "unborn" => Spawning(c[1])
    /\ \A b, c \in claims :
          b # c /\ b[3] = c[3] /\ Using(b[1]) /\ Using(c[1]) =>
             {b[1], c[1]} \cap early # {}

Inv == Typed /\ InSpawn /\ Awaited /\ OnlyLateKills /\ Claimed

LEMMA TypedStep ==
    ASSUME Typed, Next PROVE Typed'
<1> USE DEF Typed, Statement, At, Alive, Daemons, call, signals, daemons, history
<1>1. ASSUME NEW d \in Sessionds, SessiondReady(d) PROVE Typed'
  BY <1>1 DEF SessiondReady, PortsOf, Sigusr1
<1>2. ASSUME NEW r \in Relayds, RelaydReady(r) PROVE Typed'
  BY <1>2 DEF RelaydReady
<1>3. ASSUME NEW r \in Relayds, RelaydWrites(r) PROVE Typed'
  BY <1>3 DEF RelaydWrites
<1>4. ASSUME NEW r \in Relayds, ViewerConnects(r) PROVE Typed'
  BY <1>4 DEF ViewerConnects
<1>5. ASSUME NEW d \in Daemons, DaemonFails(d) PROVE Typed'
  BY <1>5 DEF DaemonFails
<1>6. ASSUME NEW d \in Sessionds, sessiond_spawn(d) PROVE Typed'
  BY <1>6 DEF sessiond_spawn, InstallHandler
<1>7. ASSUME NEW d \in Sessionds, SpawnSubprocess(d) PROVE Typed'
  BY <1>7 DEF SpawnSubprocess
<1>8. CASE SpawnRaises
  BY <1>8 DEF SpawnRaises, NoCall
<1>9. CASE EnterSigtimedwait
  BY <1>9 DEF EnterSigtimedwait
<1>10. CASE SigtimedwaitExpires
  BY <1>10 DEF SigtimedwaitExpires
<1>11. CASE RestoreHandler
  BY <1>11 DEF RestoreHandler, NoCall
<1>12. ASSUME NEW r \in Relayds, relayd_spawn(r) PROVE Typed'
  BY <1>12 DEF relayd_spawn
<1>13. ASSUME NEW r \in Relayds, StartViewer(r) PROVE Typed'
  BY <1>13 DEF StartViewer
<1>14. ASSUME NEW r \in Relayds, PollFinds(r) PROVE Typed'
  BY <1>14 DEF PollFinds, NoCall
<1>15. ASSUME NEW r \in Relayds, PollMisses(r) PROVE Typed'
  BY <1>15 DEF PollMisses
<1>16. CASE PollExpires
  BY <1>16 DEF PollExpires, NoCall
<1>17. ASSUME NEW d \in Daemons, Terminate(d) PROVE Typed'
  BY <1>17 DEF Terminate
<1>18. CASE TestEnds
  BY <1>18 DEF TestEnds
<1>19. CASE NextTest
  BY <1>19 DEF NextTest
<1> QED
  BY <1>1, <1>2, <1>3, <1>4, <1>5, <1>6, <1>7, <1>8, <1>9, <1>10, <1>11, <1>12, <1>13, <1>14, <1>15, <1>16, <1>17, <1>18, <1>19 DEF Next, Waits, Test, Environment


LEMMA InSpawnStep ==
    ASSUME Typed, InSpawn, Awaited, DaemonsAssumption, Next PROVE InSpawn'
<1> USE DEF Typed, InSpawn, Awaited, Statement, At, Alive, Daemons, call, signals, daemons, history, DaemonsAssumption
<1>1. ASSUME NEW d \in Sessionds, SessiondReady(d) PROVE InSpawn'
  BY <1>1 DEF SessiondReady, PortsOf, Sigusr1
<1>2. ASSUME NEW r \in Relayds, RelaydReady(r) PROVE InSpawn'
  BY <1>2 DEF RelaydReady
<1>3. ASSUME NEW r \in Relayds, RelaydWrites(r) PROVE InSpawn'
  BY <1>3 DEF RelaydWrites
<1>4. ASSUME NEW r \in Relayds, ViewerConnects(r) PROVE InSpawn'
  BY <1>4 DEF ViewerConnects
<1>5. ASSUME NEW d \in Daemons, DaemonFails(d) PROVE InSpawn'
  BY <1>5 DEF DaemonFails
<1>6. ASSUME NEW d \in Sessionds, sessiond_spawn(d) PROVE InSpawn'
  BY <1>6 DEF sessiond_spawn, InstallHandler
<1>7. ASSUME NEW d \in Sessionds, SpawnSubprocess(d) PROVE InSpawn'
  BY <1>7 DEF SpawnSubprocess
<1>8. CASE SpawnRaises
  BY <1>8 DEF SpawnRaises, NoCall
<1>9. CASE EnterSigtimedwait
  BY <1>9 DEF EnterSigtimedwait
<1>10. CASE SigtimedwaitExpires
  BY <1>10 DEF SigtimedwaitExpires
<1>11. CASE RestoreHandler
  BY <1>11 DEF RestoreHandler, NoCall
<1>12. ASSUME NEW r \in Relayds, relayd_spawn(r) PROVE InSpawn'
  BY <1>12 DEF relayd_spawn
<1>13. ASSUME NEW r \in Relayds, StartViewer(r) PROVE InSpawn'
  BY <1>13 DEF StartViewer
<1>14. ASSUME NEW r \in Relayds, PollFinds(r) PROVE InSpawn'
  BY <1>14 DEF PollFinds, NoCall
<1>15. ASSUME NEW r \in Relayds, PollMisses(r) PROVE InSpawn'
  BY <1>15 DEF PollMisses
<1>16. CASE PollExpires
  BY <1>16 DEF PollExpires, NoCall
<1>17. ASSUME NEW d \in Daemons, Terminate(d) PROVE InSpawn'
  BY <1>17 DEF Terminate
<1>18. CASE TestEnds
  BY <1>18 DEF TestEnds
<1>19. CASE NextTest
  BY <1>19 DEF NextTest
<1> QED
  BY <1>1, <1>2, <1>3, <1>4, <1>5, <1>6, <1>7, <1>8, <1>9, <1>10, <1>11, <1>12, <1>13, <1>14, <1>15, <1>16, <1>17, <1>18, <1>19 DEF Next, Waits, Test, Environment


LEMMA AwaitedStep ==
    ASSUME Typed, InSpawn, Awaited, DaemonsAssumption, Next PROVE Awaited'
<1> USE DEF Typed, InSpawn, Awaited, Statement, At, Alive, Daemons, call, signals, daemons, history, DaemonsAssumption
<1>1. ASSUME NEW d \in Sessionds, SessiondReady(d) PROVE Awaited'
  BY <1>1 DEF SessiondReady, PortsOf, Sigusr1
<1>2. ASSUME NEW r \in Relayds, RelaydReady(r) PROVE Awaited'
  BY <1>2 DEF RelaydReady
<1>3. ASSUME NEW r \in Relayds, RelaydWrites(r) PROVE Awaited'
  BY <1>3 DEF RelaydWrites
<1>4. ASSUME NEW r \in Relayds, ViewerConnects(r) PROVE Awaited'
  BY <1>4 DEF ViewerConnects
<1>5. ASSUME NEW d \in Daemons, DaemonFails(d) PROVE Awaited'
  BY <1>5 DEF DaemonFails
<1>6. ASSUME NEW d \in Sessionds, sessiond_spawn(d) PROVE Awaited'
  BY <1>6 DEF sessiond_spawn, InstallHandler
<1>7. ASSUME NEW d \in Sessionds, SpawnSubprocess(d) PROVE Awaited'
  BY <1>7 DEF SpawnSubprocess
<1>8. CASE SpawnRaises
  BY <1>8 DEF SpawnRaises, NoCall
<1>9. CASE EnterSigtimedwait
  BY <1>9 DEF EnterSigtimedwait
<1>10. CASE SigtimedwaitExpires
  BY <1>10 DEF SigtimedwaitExpires
<1>11. CASE RestoreHandler
  BY <1>11 DEF RestoreHandler, NoCall
<1>12. ASSUME NEW r \in Relayds, relayd_spawn(r) PROVE Awaited'
  BY <1>12 DEF relayd_spawn
<1>13. ASSUME NEW r \in Relayds, StartViewer(r) PROVE Awaited'
  BY <1>13 DEF StartViewer
<1>14. ASSUME NEW r \in Relayds, PollFinds(r) PROVE Awaited'
  BY <1>14 DEF PollFinds, NoCall
<1>15. ASSUME NEW r \in Relayds, PollMisses(r) PROVE Awaited'
  BY <1>15 DEF PollMisses
<1>16. CASE PollExpires
  BY <1>16 DEF PollExpires, NoCall
<1>17. ASSUME NEW d \in Daemons, Terminate(d) PROVE Awaited'
  BY <1>17 DEF Terminate
<1>18. CASE TestEnds
  BY <1>18 DEF TestEnds
<1>19. CASE NextTest
  BY <1>19 DEF NextTest
<1> QED
  BY <1>1, <1>2, <1>3, <1>4, <1>5, <1>6, <1>7, <1>8, <1>9, <1>10, <1>11, <1>12, <1>13, <1>14, <1>15, <1>16, <1>17, <1>18, <1>19 DEF Next, Waits, Test, Environment


LEMMA KillsStep ==
    ASSUME Typed, InSpawn, Awaited, OnlyLateKills, Next PROVE OnlyLateKills'
<1> USE DEF Typed, At, Alive, Daemons, call, signals, daemons, history, OnlyLateKills
<1>1. ASSUME NEW d \in Sessionds, SessiondReady(d) PROVE OnlyLateKills'
  <2>1. /\ status[d] = "starting" /\ status'[d] = "ready" /\ early' = early
        /\ \A e \in Daemons : e # d => status'[e] = status[e]
    BY <1>1 DEF SessiondReady
  <2>2. CASE At("killed")
    BY <2>1, <2>2
  <2>3. CASE ~At("killed") /\ pc' = "killed"
    <3>1. handler = "default"
      BY <1>1, <2>3 DEF SessiondReady, Sigusr1
    <3>2. d \in early
      BY <2>1, <3>1 DEF InSpawn, Awaited
    <3> QED
      BY <2>1, <3>2
  <2> QED
    BY <2>2, <2>3
<1>2. ASSUME At("killed"), UNCHANGED <<pc, early>>,
             \A d \in Daemons : status[d] \in {"ready", "ended"} =>
                               status'[d] \in {"ready", "ended"}
      PROVE  OnlyLateKills'
  BY <1>2
<1>3. ASSUME NEW r \in Relayds, RelaydReady(r) \/ RelaydWrites(r) \/ ViewerConnects(r)
      PROVE  OnlyLateKills'
  BY <1>2, <1>3 DEF RelaydReady, RelaydWrites, ViewerConnects
<1>4. ASSUME NEW d \in Daemons, DaemonFails(d) PROVE OnlyLateKills'
  BY <1>2, <1>4 DEF DaemonFails
<1>5. CASE Waits \/ Test
  <2>1. pc' # "killed"
    BY <1>5 DEF Waits, SpawnSubprocess, SpawnRaises, EnterSigtimedwait,
       SigtimedwaitExpires, RestoreHandler, PollFinds, PollMisses, PollExpires,
       Test, sessiond_spawn, relayd_spawn, StartViewer, Terminate, TestEnds,
       NextTest
  <2> QED
    BY <2>1
<1> QED
  BY <1>1, <1>3, <1>4, <1>5 DEF Next, Environment

LEMMA PromptStep ==
    ASSUME Typed, InSpawn, Awaited, Prompt, ~Late, DaemonsAssumption, Next PROVE Prompt'
<1> USE DEF DaemonsAssumption, Typed, InSpawn, Awaited, Prompt, SessiondAnswered, Statement, At, Alive, Daemons, call, signals, daemons, history
<1>1. ASSUME NEW d \in Sessionds, SessiondReady(d) PROVE Prompt'
  BY <1>1 DEF SessiondReady, PortsOf, Sigusr1
<1>2. ASSUME NEW r \in Relayds, RelaydReady(r) PROVE Prompt'
  BY <1>2 DEF RelaydReady
<1>3. ASSUME NEW r \in Relayds, RelaydWrites(r) PROVE Prompt'
  BY <1>3 DEF RelaydWrites
<1>4. ASSUME NEW r \in Relayds, ViewerConnects(r) PROVE Prompt'
  BY <1>4 DEF ViewerConnects
<1>5. ASSUME NEW d \in Daemons, DaemonFails(d) PROVE Prompt'
  BY <1>5 DEF DaemonFails
<1>6. ASSUME NEW d \in Sessionds, sessiond_spawn(d) PROVE Prompt'
  BY <1>6 DEF sessiond_spawn, InstallHandler
<1>7. ASSUME NEW d \in Sessionds, SpawnSubprocess(d) PROVE Prompt'
  BY <1>7 DEF SpawnSubprocess
<1>8. CASE SpawnRaises
  BY <1>8 DEF SpawnRaises, NoCall
<1>9. CASE EnterSigtimedwait
  BY <1>9 DEF EnterSigtimedwait
<1>10. CASE SigtimedwaitExpires
  BY <1>10 DEF SigtimedwaitExpires
<1>11. CASE RestoreHandler
  BY <1>11 DEF RestoreHandler, NoCall
<1>12. ASSUME NEW r \in Relayds, relayd_spawn(r) PROVE Prompt'
  BY <1>12 DEF relayd_spawn
<1>13. ASSUME NEW r \in Relayds, StartViewer(r) PROVE Prompt'
  BY <1>13 DEF StartViewer
<1>14. ASSUME NEW r \in Relayds, PollFinds(r) PROVE Prompt'
  BY <1>14 DEF PollFinds, NoCall
<1>15. ASSUME NEW r \in Relayds, PollMisses(r) PROVE Prompt'
  BY <1>15 DEF PollMisses
<1>16. CASE PollExpires
  BY <1>16 DEF PollExpires, NoCall
<1>17. ASSUME NEW d \in Daemons, Terminate(d) PROVE Prompt'
  BY <1>17 DEF Terminate
<1>18. CASE TestEnds
  BY <1>18 DEF TestEnds
<1>19. CASE NextTest
  BY <1>19 DEF NextTest
<1> QED
  BY <1>1, <1>2, <1>3, <1>4, <1>5, <1>6, <1>7, <1>8, <1>9, <1>10, <1>11, <1>12, <1>13, <1>14, <1>15, <1>16, <1>17, <1>18, <1>19 DEF Next, Waits, Test, Environment

-----------------------------------------------------------------------------
(* Ports: what is found free is nobody's who could still be using it.      *)

LEMMA FreeIsUnclaimed ==
    ASSUME Typed, Awaited, Claimed, At("test"), NEW c \in claims, Using(c[1]),
           c[1] \notin early
    PROVE  c[3] \notin find_free_port
<1>1. c[1] \in Daemons /\ Alive(c[1])
  BY DEF Claimed, Using, Spawning, At
<1>2. status[c[1]] = "ready"
  BY <1>1 DEF Awaited, At, Alive, Daemons
<1>3. c[3] \in PortsOf(c[1])
  BY DEF PortsOf
<1> QED
  BY <1>1, <1>2, <1>3 DEF find_free_port, Bound

LEMMA ClaimedShrinks ==
    ASSUME Claimed, claims' \subseteq claims, early \subseteq early',
           \A d \in Daemons : Using(d)' => Using(d),
           \A c \in claims' : status'[c[1]] = "unborn" =>
              /\ status[c[1]] = "unborn"
              /\ Spawning(c[1]) => Spawning(c[1])'
    PROVE  Claimed'
BY DEF Claimed

LEMMA ClaimedGrows ==
    ASSUME Typed, Awaited, Claimed, At("test"), NEW d \in Daemons,
           status[d] = "unborn", Using(d)', status'[d] = "unborn" => Spawning(d)',
           \A e \in Daemons \ {d} : Using(e)' => Using(e),
           \A e \in Daemons \ {d} : status'[e] = status[e],
           NEW new, claims' = claims \cup new, early' = early,
           \A c \in new : c[1] = d /\ c[3] \in find_free_port,
           \A b, c \in new : b # c => b[3] # c[3]
    PROVE  Claimed'
<1>1. \A c \in claims : c[1] \in Daemons \ {d}
  BY DEF Claimed, Spawning, At
<1>2. \A c \in claims : Using(c[1])' => c[1] \in early \/ c[3] \notin find_free_port
  BY <1>1, FreeIsUnclaimed
<1>3. \A b, c \in claims' :
         b # c /\ b[3] = c[3] /\ Using(b[1])' /\ Using(c[1])' =>
            {b[1], c[1]} \cap early # {}
  BY <1>1, <1>2 DEF Claimed
<1>4. \A c \in claims' : c[1] \in Daemons
  BY <1>1
<1>5. \A c \in claims : status[c[1]] # "unborn"
  BY DEF Claimed, Spawning, At
<1> QED
  BY <1>1, <1>3, <1>4, <1>5 DEF Claimed

LEMMA ClaimedStep ==
    ASSUME Typed, InSpawn, Awaited, Claimed, Next, DaemonsAssumption
    PROVE  Claimed'
<1> USE DEF Statement, At, Alive, call, signals, daemons, history
<1>1. ASSUME NEW d \in Sessionds, sessiond_spawn(d) PROVE Claimed'
  <2>1. PICK port \in find_free_port : claims' = claims \cup {<<d, "agent", port>>}
    BY <1>1 DEF sessiond_spawn
  <2>2. At("test") /\ status[d] = "unborn" /\ d \in Daemons /\ early' = early
    BY <1>1 DEF sessiond_spawn, Daemons
  <2>3. /\ Spawning(d)' /\ Using(d)' /\ status' = status
        /\ \A e \in Daemons \ {d} : Using(e)' => Using(e)
    BY <1>1 DEF sessiond_spawn, Spawning, Using
  <2> DEFINE new == {<<d, "agent", port>>}
  <2>4. /\ claims' = claims \cup new
        /\ \A c \in new : c[1] = d /\ c[3] \in find_free_port
        /\ \A b, c \in new : b = c
    BY <2>1
  <2>5. \A e \in Daemons \ {d} : status'[e] = status[e]
    BY <2>3
  <2> HIDE DEF new
  <2> QED
    BY <2>2, <2>3, <2>4, <2>5, ClaimedGrows
<1>2. ASSUME NEW r \in Relayds, relayd_spawn(r) PROVE Claimed'
  <2>0. PICK ports \in find_multiple_free_port(3) :
           \E p, q \in ports : p # q /\
              claims' = claims \cup {<<r, "data", p>>, <<r, "ctrl", q>>}
                               \cup {<<r, "live", s>> : s \in ports \ {p, q}}
    BY <1>2 DEF relayd_spawn
  <2>1. PICK p \in ports, q \in ports :
           /\ p # q
           /\ claims' = claims \cup {<<r, "data", p>>, <<r, "ctrl", q>>}
                               \cup {<<r, "live", s>> : s \in ports \ {p, q}}
    BY <2>0
  <2> DEFINE new == {<<r, "data", p>>, <<r, "ctrl", q>>}
                       \cup {<<r, "live", s>> : s \in ports \ {p, q}}
  <2>2. ports \subseteq find_free_port
    BY <2>1 DEF find_multiple_free_port, kSubset
  <2>3. claims' = claims \cup new
    BY <2>1
  <2>4. \A c \in new : c[1] = r /\ c[3] \in find_free_port
    BY <2>1, <2>2
  <2>5. \A b, c \in new : b # c => b[3] # c[3]
    BY <2>1
  <2>6. At("test") /\ status[r] = "unborn" /\ r \in Daemons /\ early' = early
    BY <1>2 DEF relayd_spawn, Daemons
  <2>7. /\ Using(r)' /\ status'[r] = "starting"
        /\ \A e \in Daemons \ {r} : Using(e)' => Using(e)
        /\ \A e \in Daemons \ {r} : status'[e] = status[e]
    BY <1>2, <2>6 DEF relayd_spawn, Spawning, Using, Typed
  <2> HIDE DEF new
  <2> QED
    BY <2>3, <2>4, <2>5, <2>6, <2>7, ClaimedGrows
<1>3. ASSUME NEW d \in Sessionds, SpawnSubprocess(d) PROVE Claimed'
  <2>1. \A c \in claims : status'[c[1]] = "unborn" =>
           status[c[1]] = "unborn" /\ ~Spawning(c[1])
    BY <1>3 DEF SpawnSubprocess, Typed, Spawning, Daemons, Claimed
  <2>2. \A e \in Daemons : Using(e)' => Using(e)
    BY <1>3 DEF SpawnSubprocess, Typed, Spawning, Using, Daemons
  <2> QED
    BY <1>3, <2>1, <2>2, ClaimedShrinks DEF SpawnSubprocess
<1>4. CASE SpawnRaises
  <2>1. \A c \in claims' : status[c[1]] # "unborn"
    BY <1>4 DEF SpawnRaises, Claimed, Spawning
  <2> QED
    BY <1>4, <2>1, ClaimedShrinks DEF SpawnRaises, Using, Spawning
<1>5. ASSUME NEW d \in Daemons, DaemonFails(d) \/ Terminate(d) PROVE Claimed'
  <2>1. /\ \A e \in Daemons : Using(e)' => Using(e)
        /\ \A c \in claims : status'[c[1]] = "unborn" => status[c[1]] = "unborn"
    BY <1>5 DEF DaemonFails, Terminate, Using, Spawning, Typed, Claimed
  <2> QED
    BY <1>5, <2>1, ClaimedShrinks DEF DaemonFails, Terminate, Spawning
<1>6. ASSUME NEW d \in Daemons, SessiondReady(d) \/ RelaydReady(d) PROVE Claimed'
  <2>1. /\ \A e \in Daemons : Using(e)' => Using(e)
        /\ \A c \in claims : status'[c[1]] = "unborn" => status[c[1]] = "unborn"
    BY <1>6 DEF SessiondReady, RelaydReady, Sigusr1, Using, Spawning, Typed,
                Claimed
  <2>2. \A c \in claims : status'[c[1]] = "unborn" /\ Spawning(c[1]) =>
           Spawning(c[1])'
    BY <1>6 DEF SessiondReady, RelaydReady, Sigusr1, Spawning, InSpawn
  <2> QED
    BY <1>6, <2>1, <2>2, ClaimedShrinks DEF SessiondReady, RelaydReady
<1>7. ASSUME UNCHANGED <<claims, status>>, early \subseteq early',
             ~At("handler"), ~At("handler")'
      PROVE  Claimed'
  BY <1>7, ClaimedShrinks DEF Claimed, Using, Spawning
<1>8. CASE EnterSigtimedwait \/ SigtimedwaitExpires \/ RestoreHandler
  BY <1>7, <1>8 DEF EnterSigtimedwait, SigtimedwaitExpires, RestoreHandler
<1>9. ASSUME NEW r \in Relayds, PollFinds(r) \/ PollMisses(r) \/ StartViewer(r)
      PROVE  Claimed'
  BY <1>7, <1>9 DEF PollFinds, PollMisses, StartViewer
<1>10. CASE PollExpires \/ TestEnds \/ NextTest
  BY <1>7, <1>10 DEF PollExpires, TestEnds, NextTest
<1>11. ASSUME NEW r \in Relayds, RelaydWrites(r) \/ ViewerConnects(r)
       PROVE  Claimed'
  BY <1>11, ClaimedShrinks DEF RelaydWrites, ViewerConnects, Using, Spawning
<1> QED
  BY <1>1, <1>2, <1>3, <1>4, <1>5, <1>6, <1>8, <1>9, <1>10, <1>11
     DEF Next, Waits, Test, Environment, Daemons
-----------------------------------------------------------------------------
LEMMA InvInit == ASSUME Init PROVE Inv /\ Prompt
BY DEF Init, Inv, Typed, InSpawn, Awaited, OnlyLateKills, Prompt,
       SessiondAnswered, Claimed, At, Statement, Daemons

LEMMA InvStep == ASSUME Inv, [Next]_vars PROVE Inv'
<1>1. CASE Next
  BY <1>1, TypedStep, InSpawnStep, AwaitedStep, KillsStep, ClaimedStep,
     DaemonsAssumption DEF Inv
<1>2. CASE UNCHANGED vars
  BY <1>2 DEF Inv, vars, call, signals, daemons, history, Typed, InSpawn,
     Awaited, OnlyLateKills, Claimed, At, Using, Spawning, Alive
<1> QED
  BY <1>1, <1>2

LEMMA InvAlways == Spec => []Inv
<1>1. Init => Inv
  BY InvInit
<1>2. Inv /\ [Next]_vars => Inv'
  BY InvStep
<1> QED
  BY <1>1, <1>2, PTL DEF Spec

LEMMA PromptAlways == ASSUME ~Late PROVE Spec => []Prompt
<1>1. Init => Prompt
  BY InvInit
<1>2. Inv /\ Prompt /\ [Next]_vars => Prompt'
  <2>1. CASE Next
    BY <2>1, PromptStep, DaemonsAssumption DEF Inv
  <2>2. CASE UNCHANGED vars
    BY <2>2 DEF vars, call, signals, daemons, history, Prompt, SessiondAnswered, At
  <2> QED
    BY <2>1, <2>2
<1> QED
  BY <1>1, <1>2, InvAlways, PTL DEF Spec

\* Only a session daemon whose sessiond_spawn has given up can end the
\* driver with its signal (utils.py:73-81).
THEOREM OnlyTheLateKill == Spec => []OnlyLateKills
<1>1. Inv => OnlyLateKills
  BY DEF Inv
<1> QED
  BY <1>1, InvAlways, PTL

\* Two live daemons share a port only because the function that spawned one
\* of them returned before it was ready (utils.py:69-120).
THEOREM PortsClash == Spec => []PortsClashOnlyIfEarly
<1>1. Inv => PortsClashOnlyIfEarly
  BY DEF Inv, Claimed, PortsClashOnlyIfEarly, Using
<1> QED
  BY <1>1, InvAlways, PTL

\* When session daemons answer within a minute, none of their signals ends
\* the driver, however it is placed with respect to the wait.
THEOREM SignalsAreSurvived == ASSUME ~Late PROVE Spec => []DriverSurvives
<1>1. Inv /\ Prompt => DriverSurvives
  BY DEF Inv, Prompt, OnlyLateKills, DriverSurvives
<1> QED
  BY <1>1, InvAlways, PromptAlways, PTL

\* When session daemons answer within a minute, they are ready or dead when
\* sessiond_spawn returns.
THEOREM SessiondAnswers == ASSUME ~Late PROVE Spec => []SessiondAnswered
<1>1. Prompt => SessiondAnswered
  BY DEF Prompt
<1> QED
  BY <1>1, PromptAlways, PTL
-----------------------------------------------------------------------------
(* Types, whether or not session daemons are late.                         *)

Ranges ==
    /\ \A d, e \in target : d = e
    /\ polls \in 0 .. Timeout
    /\ claims \subseteq Daemons \X {"agent", "data", "ctrl", "live"} \X Ports
    /\ viewers \subseteq Relayds
    /\ returned \subseteq Daemons
    /\ early \subseteq Daemons

LEMMA RangesStep ==
    ASSUME Typed, Ranges, Next PROVE Ranges'
<1> USE DEF Typed, Ranges, At, Daemons, call, signals, daemons, history
<1>1. CASE Environment
  BY <1>1 DEF Environment, SessiondReady, RelaydReady, RelaydWrites,
     ViewerConnects, DaemonFails
<1>2. ASSUME NEW d \in Sessionds, sessiond_spawn(d) PROVE Ranges'
  BY <1>2 DEF sessiond_spawn, find_free_port
<1>3. ASSUME NEW r \in Relayds, relayd_spawn(r) PROVE Ranges'
  <2>1. PICK ports \in find_multiple_free_port(3) :
           \E p, q \in ports : p # q /\
              claims' = claims \cup {<<r, "data", p>>, <<r, "ctrl", q>>}
                               \cup {<<r, "live", s>> : s \in ports \ {p, q}}
    BY <1>3 DEF relayd_spawn
  <2>2. ports \subseteq Ports
    BY <2>1 DEF find_multiple_free_port, kSubset, find_free_port
  <2>3. claims' \subseteq Daemons \X {"agent", "data", "ctrl", "live"} \X Ports
    BY <2>1, <2>2
  <2>4. polls' \in 0 .. Timeout
    BY <1>3, TimeoutAssumption DEF relayd_spawn
  <2> QED
    BY <1>3, <2>3, <2>4 DEF relayd_spawn
<1>4. ASSUME NEW r \in Relayds, StartViewer(r) PROVE Ranges'
  <2>1. polls' \in 0 .. Timeout
    BY <1>4, TimeoutAssumption DEF StartViewer
  <2> QED
    BY <1>4, <2>1 DEF StartViewer
<1>5. ASSUME NEW r \in Relayds, PollMisses(r) PROVE Ranges'
  <2>1. polls' \in 0 .. Timeout
    BY <1>5, TimeoutAssumption DEF PollMisses
  <2> QED
    BY <1>5, <2>1 DEF PollMisses
<1>6. CASE SpawnRaises \/ RestoreHandler \/ PollExpires
           \/ \E r \in Relayds : PollFinds(r)
  <2>1. NoCall
    BY <1>6 DEF SpawnRaises, RestoreHandler, PollExpires, PollFinds
  <2>2. target' = {} /\ polls' \in 0 .. Timeout
    BY <2>1, TimeoutAssumption DEF NoCall
  <2>3. /\ claims' \subseteq claims
        /\ viewers' = viewers
        /\ returned' \subseteq Daemons
        /\ early' \subseteq Daemons
    BY <1>6 DEF SpawnRaises, RestoreHandler, PollExpires, PollFinds
  <2> QED
    BY <2>2, <2>3
<1>7. CASE \/ EnterSigtimedwait \/ SigtimedwaitExpires
           \/ \E d \in Sessionds : SpawnSubprocess(d)
           \/ \E d \in Daemons : Terminate(d)
           \/ TestEnds \/ NextTest
  BY <1>7 DEF EnterSigtimedwait, SigtimedwaitExpires, SpawnSubprocess,
     Terminate, TestEnds, NextTest
<1> QED
  BY <1>1, <1>2, <1>3, <1>4, <1>5, <1>6, <1>7 DEF Next, Waits, Test

LEMMA SmallCalls ==
    ASSUME Ranges PROVE Cardinality(target) <= 1
<1>1. CASE target = {}
  BY <1>1, FS_EmptySet
<1>2. ASSUME NEW d \in target PROVE Cardinality(target) <= 1
  <2>1. target = {d}
    BY <1>2 DEF Ranges
  <2> QED
    BY <2>1, FS_Singleton
<1> QED
  BY <1>1, <1>2

(* One call is at work at a time, it polls at most Timeout times, and      *)
(* command lines hold ports of the machine (utils.py:69-120).              *)
THEOREM StartupTypeCorrect == Spec => []TypeOK
<1>1. Init => Typed /\ Ranges
  BY TimeoutAssumption DEF Init, Typed, Ranges, Statement, Daemons
<1>2. Typed /\ Ranges /\ [Next]_vars => (Typed /\ Ranges)'
  <2>1. CASE Next
    BY <2>1, TypedStep, RangesStep
  <2>2. CASE UNCHANGED vars
    BY <2>2 DEF vars, call, signals, daemons, history, Typed, Ranges, Statement,
       Daemons
  <2> QED
    BY <2>1, <2>2
<1>3. Typed /\ Ranges => TypeOK
  BY SmallCalls DEF Typed, Ranges, TypeOK
<1> QED
  BY <1>1, <1>2, <1>3, PTL DEF Spec
=============================================================================
