------------------------- MODULE SystemUpdateProofs -------------------------
(***************************************************************************)
(* Proofs about SystemUpdate, for any number of releases, updates asked    *)
(* for and processes killed; and about UpdateWalk, for any repository.     *)
(***************************************************************************)
EXTENDS SystemUpdate, UpdateWalk, FiniteSetTheorems, WellFoundedInduction, TLAPS

Complete == host = tree /\ env = tree /\ (tree = Releases \/ blind)

\* What each point of the walk has established: there is a next release to check
\* out; the migrations are applied; the dependencies are installed; and at the
\* end the destination is reached, unless the walk was told so. A router that is about to append "done" has
\* read "restarting".
Established ==
    /\ walk = "checkout" => tree < Releases
    /\ walk \in {"install", "next"} => host = tree
    /\ walk = "next" => env = tree
    /\ walk \in {"restarting", "start"} \/ router = "done" => Complete

IInv == TypeOK /\ Quiesced /\ DoneIsComplete /\ Established

USE ReleasesAssumption, SwitchesAssumption, UpdateBoundsAssumption

-----------------------------------------------------------------------------

LEMMA InitEstablishes == Init => IInv
  <1> SUFFICES ASSUME Init PROVE IInv
    OBVIOUS
  <1>1. TypeOK
    <2>1. agent \in [Callers -> {"idle", "check", "reset", "detach", "wait"}]
      BY DEF Init
    <2>2. LostOK
      <3>1. lost \subseteq {"walk", "ports"}
        BY DEF Init
      <3> QED
        BY <3>1, Zenon DEF Init, LostOK
    <2> QED
      BY <2>1, <2>2 DEF Init, TypeOK, RouterStates, Booting, WalkStates, Changing
  <1>2. Quiesced /\ DoneIsComplete /\ Established
    BY DEF Init, Quiesced, DoneIsComplete, Established, Changing
  <1> QED
    BY <1>1, <1>2 DEF IInv

\* The history variable by itself: a set among scalars slows the solver down.
LEMMA LostPreserved == LostOK /\ [Next]_vars => LostOK'
  <1> SUFFICES ASSUME LostOK, [Next]_vars PROVE LostOK'
    OBVIOUS
  <1>1. lost' \subseteq {"walk", "ports"}
    <2>1. CASE Cover \/ StopOpenhost \/ ReleasePorts
      BY <2>1 DEF Cover, StopOpenhost, ReleasePorts, StopUpdater, LostOK
    <2>2. CASE WalkDies
      BY <2>2 DEF WalkDies, LostOK
    <2>3. CASE UNCHANGED lost
      BY <2>3 DEF LostOK
    <2> QED
      BY <2>1, <2>2, <2>3
         DEF Next, AgentStep, WalkStep, BootStep, UpdaterStep, Check, Reset, Detach, Wait,
             CallCli, Click, Schedule, Status, Token, Monitor, Fetch, Checkout, Migrate,
             Install, Advance, Restarting, StartOpenhost, ExecStopPost, SeeDowntime, Bind,
             GiveUp, StartCaddy, ReadLog, MarkBoot, Listen, AutoRestart, RouterDies,
             CaddyDies, UpdaterDies, Reboot, agentElse, jobElse, walkElse, updElse, bootElse,
             ghosts, vars
  <1>2. blind' \in {blind, TRUE, FALSE, tree # Releases} /\ bare' \in {bare, TRUE, FALSE}
    BY DEF Next, AgentStep, WalkStep, BootStep, UpdaterStep, Check, Reset, Detach, Wait,
           CallCli, Click, Schedule, Status, Token, Monitor, Fetch, Cover, StopOpenhost, Checkout,
           Migrate, Install, Advance, Restarting, StartOpenhost, ExecStopPost, SeeDowntime, Bind,
           GiveUp, ReleasePorts, StartCaddy, ReadLog, MarkBoot, Listen, AutoRestart, RouterDies,
           CaddyDies, WalkDies, UpdaterDies, Reboot, agentElse, jobElse, walkElse, updElse,
           bootElse, ghosts, vars
  <1>3. (tree # Releases) \in BOOLEAN
    OBVIOUS
  <1>4. blind' \in BOOLEAN /\ bare' \in BOOLEAN
    BY <1>2, <1>3, Zenon DEF LostOK
  <1> QED
    BY <1>1, <1>4 DEF LostOK

LEMMA NextPreserves == IInv /\ [Next]_vars => IInv'
  <1> SUFFICES ASSUME IInv, [Next]_vars PROVE IInv'
    OBVIOUS
  <1>0. LostOK'
    BY LostPreserved DEF IInv, TypeOK
  <1> USE <1>0 DEF IInv, TypeOK, Quiesced, DoneIsComplete, Established, Complete,
              RouterStates, Booting, WalkStates, Changing, Callers, code, page, bounds, ghosts
  <1>1. ASSUME NEW c \in Callers, Check(c) PROVE IInv'
    BY <1>1 DEF Check, Running, agentElse
  <1>2. ASSUME NEW c \in Callers, Reset(c) PROVE IInv'
    BY <1>2 DEF Reset, agentElse
  <1>3. ASSUME NEW c \in Callers, Detach(c) PROVE IInv'
    BY <1>3 DEF Detach, Running, agentElse
  <1>4. CASE Wait
    BY <1>4 DEF Wait, Running, agentElse
  <1>5. CASE CallCli
    BY <1>5 DEF CallCli, agentElse
  <1>6. CASE Click \/ Schedule \/ Status \/ Token \/ Monitor
    BY <1>6 DEF Click, Schedule, Status, Token, Monitor, jobElse
  <1>7. CASE Fetch
    BY <1>7 DEF Fetch, Fail, walkElse
  <1>8. CASE Cover
    BY <1>8 DEF Cover, StopUpdater
  <1>9. CASE StopOpenhost
    BY <1>9 DEF StopOpenhost, StopRouter, StopUpdater, Fail
  <1>10. CASE Checkout
    BY <1>10 DEF Checkout, Fail, walkElse
  <1>11. CASE Migrate
    BY <1>11 DEF Migrate, Fail, walkElse
  <1>12. CASE Install
    BY <1>12 DEF Install, Fail, walkElse
  <1>13. CASE Advance
    <2>1. CASE walk' = (IF tree = Releases THEN "restarting" ELSE "checkout") /\ UNCHANGED blind
      BY <1>13, <2>1 DEF Advance
    <2>2. CASE walk' = "restarting" /\ blind' = (tree # Releases)
      BY <1>13, <2>2 DEF Advance
    <2>3. CASE walk' = "astray" /\ UNCHANGED blind
      BY <1>13, <2>3 DEF Advance
    <2> QED
      BY <1>13, <2>1, <2>2, <2>3 DEF Advance
  <1>13a. CASE Restarting
    BY <1>13a DEF Restarting, walkElse
  <1>14. CASE StartOpenhost \/ ExecStopPost
    BY <1>14 DEF StartOpenhost, ExecStopPost, Fail, walkElse
  <1>15. CASE UpdaterStep
    BY <1>15 DEF UpdaterStep, SeeDowntime, Bind, GiveUp, updElse
  <1>16. CASE ReleasePorts \/ StartCaddy
    BY <1>16 DEF ReleasePorts, StartCaddy, StopUpdater, bootElse
  <1>17. CASE ReadLog \/ MarkBoot \/ Listen \/ AutoRestart
    BY <1>17 DEF ReadLog, MarkBoot, Listen, AutoRestart, bootElse
  <1>18. CASE RouterDies
    BY <1>18 DEF RouterDies
  <1>19. CASE WalkDies \/ CaddyDies
    BY <1>19 DEF WalkDies, CaddyDies
  <1>20. CASE UpdaterDies
    BY <1>20 DEF UpdaterDies
  <1>20a. CASE Reboot
    BY <1>20a DEF Reboot
  <1>21. CASE UNCHANGED vars
    BY <1>21 DEF vars
  <1> QED
    BY <1>1, <1>2, <1>3, <1>4, <1>5, <1>6, <1>7, <1>8, <1>9, <1>10, <1>11, <1>12, <1>13,
       <1>13a, <1>14, <1>15, <1>16, <1>17, <1>18, <1>19, <1>20, <1>20a, <1>21
       DEF Next, AgentStep, WalkStep, BootStep

LEMMA Inductive == Spec => []IInv
  BY InitEstablishes, NextPreserves, PTL DEF Spec

-----------------------------------------------------------------------------

\* Every reachable state of a host that is being updated is well typed.
THEOREM UpdateTypeCorrect == Spec => []TypeOK
  <1>1. IInv => TypeOK
    BY DEF IInv
  <1> QED
    BY <1>1, Inductive, PTL

\* However many updates are asked for at once and whatever is killed, the router
\* is never up while the walk changes the tree, the host or the environment.
THEOREM RouterIsQuiesced == Spec => []Quiesced
  <1>1. IInv => Quiesced
    BY DEF IInv
  <1> QED
    BY <1>1, Inductive, PTL

\* The progress log says "restarting" or "done" only on a host whose migrations
\* and dependencies are those of its code, and whose code is the newest release
\* unless a failed git command hid the next one from the walk.
THEOREM DoneMeansComplete == Spec => []DoneIsComplete
  <1>1. IInv => DoneIsComplete
    BY DEF IInv
  <1> QED
    BY <1>1, Inductive, PTL

-----------------------------------------------------------------------------
(* What keeps the host serving.  BackInService and PageLeavesUnlessLost say that   *)
(* something happens in the end; here is what stands behind each of the states    *)
(* they promise to leave.                                                          *)

\* A router that was stopped has the walk that stopped it, whose every end goes
\* through ExecStopPost; nobody else starts it.
DownIsOwned ==
    /\ router = "off" => walk \in Changing \cup {"restarting", "start", "post"}
    /\ walk \in {"restarting", "start"} => router = "off"

\* From StartCaddy on, a router has its ports, unless the stop of an updater failed,
\* a walk was killed beside a booting router, or Caddy ended by itself. Until then an updater that was
\* started after the boot released the ports belongs to a walk about to stop it.
DoorHeld ==
    /\ updater = "serving" <=> front = "updater"
    /\ lost = {} =>
         /\ router = "caddy" /\ updater # "off" => walk = "stop"
         /\ router \in {"read", "done", "failed", "listen", "up"} => front = "caddy" \/ bare

\* A log under way without a walk has a router before it that will read it, or has
\* read it and is about to append to it. A walk that starts the router has written
\* "restarting".
LogIsFollowed ==
    "walk" \notin lost =>
        /\ walk = "start" => log # "walking"
        /\ log = "walking" /\ walk = "post" => router = "off"
        /\ log = "walking" /\ walk = "none" =>
               router \in {"wait", "release", "caddy", "read", "failed"}
        /\ log = "restarting" /\ walk \in {"none", "post"} =>
               router \in {"off", "wait", "release", "caddy", "read", "done"}

\* A history variable never forgets.
LEMMA LostGrows ==
    ASSUME [Next]_vars
    PROVE  lost' = {} => lost = {} /\ UNCHANGED lost
  <1>1. CASE Cover \/ StopOpenhost \/ ReleasePorts
    BY <1>1 DEF Cover, StopOpenhost, ReleasePorts, StopUpdater
  <1>2. CASE WalkDies
    BY <1>2 DEF WalkDies
  <1>3. CASE UNCHANGED lost
    BY <1>3
  <1> QED
    BY <1>1, <1>2, <1>3
       DEF Next, AgentStep, WalkStep, BootStep, UpdaterStep, Check, Reset, Detach, Wait,
           CallCli, Click, Schedule, Status, Token, Monitor, Fetch, Checkout, Migrate,
           Install, Advance, Restarting, StartOpenhost, ExecStopPost, SeeDowntime, Bind,
           GiveUp, StartCaddy, ReadLog, MarkBoot, Listen, AutoRestart, RouterDies,
           CaddyDies, UpdaterDies, Reboot, agentElse, jobElse, walkElse, updElse, bootElse,
           ghosts, vars

LEMMA DownPreserved == IInv /\ DownIsOwned /\ [Next]_vars => DownIsOwned'
  <1> SUFFICES ASSUME IInv, DownIsOwned, [Next]_vars PROVE DownIsOwned'
    OBVIOUS
  <1> USE DEF DownIsOwned, Changing
  <1>1. CASE UNCHANGED <<router, walk>>
    BY <1>1
  <1>2. ASSUME NEW c \in Callers, Detach(c) PROVE DownIsOwned'
    BY <1>2 DEF Detach, Running, agentElse
  <1>3. CASE Fetch \/ Cover
    BY <1>3 DEF Fetch, Cover, Fail
  <1>4. CASE StopOpenhost
    BY <1>4 DEF StopOpenhost, StopRouter, Fail
  <1>5. CASE Checkout \/ Migrate \/ Install
    BY <1>5 DEF Checkout, Migrate, Install, Fail
  <1>6. CASE Advance \/ Restarting
    BY <1>6 DEF Advance, Restarting, IInv, Quiesced
  <1>7. CASE StartOpenhost \/ ExecStopPost
    BY <1>7 DEF StartOpenhost, ExecStopPost, Fail
  <1>8. CASE ReleasePorts \/ StartCaddy \/ ReadLog \/ MarkBoot \/ Listen \/ AutoRestart
    BY <1>8 DEF ReleasePorts, StartCaddy, ReadLog, MarkBoot, Listen, AutoRestart, bootElse
  <1>9. CASE RouterDies \/ CaddyDies \/ WalkDies \/ Reboot
    BY <1>9 DEF RouterDies, CaddyDies, WalkDies, Reboot
  <1> QED
    BY <1>1, <1>2, <1>3, <1>4, <1>5, <1>6, <1>7, <1>8, <1>9
       DEF Next, AgentStep, WalkStep, BootStep, UpdaterStep, Check, Reset, Wait, CallCli,
           Click, Schedule, Status, Token, Monitor, SeeDowntime, Bind, GiveUp, UpdaterDies,
           agentElse, jobElse, updElse, vars

LEMMA DoorPreserved == IInv /\ DownIsOwned /\ DoorHeld /\ [Next]_vars => DoorHeld'
  <1> SUFFICES ASSUME IInv, DownIsOwned, DoorHeld, [Next]_vars PROVE DoorHeld'
    OBVIOUS
  <1>0. lost' = {} => lost = {} /\ UNCHANGED lost
    BY LostGrows
  <1> USE <1>0 DEF DoorHeld, page, ghosts
  <1>1. CASE UNCHANGED <<router, page, walk, bare>>
    BY <1>1
  <1>2. ASSUME NEW c \in Callers, Detach(c) PROVE DoorHeld'
    BY <1>2 DEF Detach, Running, agentElse
  <1>3. CASE Fetch \/ Checkout \/ Migrate \/ Install \/ Advance \/ Restarting
    BY <1>3 DEF Fetch, Checkout, Migrate, Install, Advance, Restarting, Fail, walkElse
  <1>4. CASE Cover
    <2>1. /\ walk' = "stop" /\ UNCHANGED <<router, bare>>
          /\ \/ updater' = "off" /\ front' = IF front = "updater" THEN "free" ELSE front
             \/ UNCHANGED page
             \/ updater' = "idle" /\ front' = IF front = "updater" THEN "free" ELSE front
      BY <1>4 DEF Cover, StopUpdater
    <2> QED
      BY <2>1
  <1>5. CASE StopOpenhost
    <2>1. CASE StopRouter /\ UNCHANGED <<updater, bare>>
      BY <2>1 DEF StopRouter
    <2>2. CASE StopUpdater /\ UNCHANGED <<router, bare>>
      BY <2>2 DEF StopUpdater
    <2> QED
      BY <1>5, <2>1, <2>2 DEF StopOpenhost
  <1>6. CASE StartOpenhost \/ ExecStopPost
    BY <1>6 DEF StartOpenhost, ExecStopPost, Fail, walkElse, DownIsOwned
  <1>7. CASE UpdaterStep
    BY <1>7 DEF UpdaterStep, SeeDowntime, Bind, GiveUp, updElse, IInv, TypeOK
  <1>8. CASE ReleasePorts
    BY <1>8 DEF ReleasePorts, StopUpdater
  <1>9. CASE StartCaddy
    BY <1>9 DEF StartCaddy, bootElse
  <1>10. CASE ReadLog \/ MarkBoot \/ Listen \/ AutoRestart
    BY <1>10 DEF ReadLog, MarkBoot, Listen, AutoRestart, bootElse
  <1>11. CASE RouterDies \/ CaddyDies \/ Reboot
    BY <1>11 DEF RouterDies, CaddyDies, Reboot
  <1>12. CASE WalkDies
    BY <1>12 DEF WalkDies
  <1>13. CASE UpdaterDies
    BY <1>13 DEF UpdaterDies
  <1> QED
    BY <1>1, <1>2, <1>3, <1>4, <1>5, <1>6, <1>7, <1>8, <1>9, <1>10, <1>11, <1>12, <1>13
       DEF Next, AgentStep, WalkStep, BootStep, Check, Reset, Wait, CallCli, Click, Schedule,
           Status, Token, Monitor, agentElse, jobElse, vars

LEMMA LogPreserved == IInv /\ DownIsOwned /\ LogIsFollowed /\ [Next]_vars => LogIsFollowed'
  <1> SUFFICES ASSUME IInv, DownIsOwned, LogIsFollowed, [Next]_vars, "walk" \notin lost'
               PROVE  /\ walk' = "start" => log' # "walking"
                      /\ log' = "walking" /\ walk' = "post" => router' = "off"
                      /\ log' = "walking" /\ walk' = "none" =>
                             router' \in {"wait", "release", "caddy", "read", "failed"}
                      /\ log' = "restarting" /\ walk' \in {"none", "post"} =>
                             router' \in {"off", "wait", "release", "caddy", "read", "done"}
    BY DEF LogIsFollowed
  <1>0. "walk" \notin lost
    <2>1. CASE Cover \/ StopOpenhost \/ ReleasePorts
      BY <2>1 DEF Cover, StopOpenhost, ReleasePorts, StopUpdater
    <2>2. CASE WalkDies
      BY <2>2 DEF WalkDies
    <2>3. CASE UNCHANGED lost
      BY <2>3
    <2> QED
      BY <2>1, <2>2, <2>3
         DEF Next, AgentStep, WalkStep, BootStep, UpdaterStep, Check, Reset, Detach, Wait,
             CallCli, Click, Schedule, Status, Token, Monitor, Fetch, Checkout, Migrate,
             Install, Advance, Restarting, StartOpenhost, ExecStopPost, SeeDowntime, Bind,
             GiveUp, StartCaddy, ReadLog, MarkBoot, Listen, AutoRestart, RouterDies,
             CaddyDies, UpdaterDies, Reboot, agentElse, jobElse, walkElse, updElse, bootElse,
             ghosts, vars
  <1> USE <1>0 DEF LogIsFollowed
  <1>1. CASE UNCHANGED <<router, walk, log>>
    BY <1>1
  <1>2. CASE \E c \in Callers : Reset(c)
    BY <1>2 DEF Reset, agentElse
  <1>3. CASE Token
    BY <1>3 DEF Token, jobElse
  <1>4. CASE \E c \in Callers : Detach(c)
    BY <1>4 DEF Detach, Running, agentElse
  <1>5. CASE Fetch \/ Cover
    BY <1>5 DEF Fetch, Cover, Fail
  <1>6. CASE StopOpenhost \/ Checkout \/ Migrate \/ Install
    BY <1>6 DEF StopOpenhost, Checkout, Migrate, Install, Fail
  <1>7. CASE Advance \/ Restarting
    BY <1>7 DEF Advance, Restarting
  <1>8. CASE StartOpenhost
    BY <1>8 DEF StartOpenhost, Fail
  <1>9. CASE ExecStopPost
    BY <1>9 DEF ExecStopPost
  <1>10. CASE BootStep
    BY <1>10 DEF BootStep, ReleasePorts, StartCaddy, ReadLog, MarkBoot, Listen, AutoRestart,
                 Running, bootElse
  <1>11. CASE RouterDies \/ CaddyDies \/ Reboot
    BY <1>11 DEF RouterDies, CaddyDies, Reboot
  <1>12. CASE WalkDies
    <2>1. router = "off"
      BY <1>12 DEF WalkDies
    <2> QED
      BY <1>12, <2>1 DEF WalkDies
  <1> QED
    BY <1>1, <1>2, <1>3, <1>4, <1>5, <1>6, <1>7, <1>8, <1>9, <1>10, <1>11, <1>12
       DEF Next, AgentStep, WalkStep, UpdaterStep, Check, Wait, CallCli, Click, Schedule,
           Status, Monitor, SeeDowntime, Bind, GiveUp, UpdaterDies, agentElse, jobElse,
           updElse, vars

LEMMA KeepsServing == Spec => [](DownIsOwned /\ DoorHeld /\ LogIsFollowed)
  <1>1. Init => DownIsOwned /\ DoorHeld /\ LogIsFollowed
    BY DEF Init, DownIsOwned, DoorHeld, LogIsFollowed
  <1> QED
    BY <1>1, Inductive, DownPreserved, DoorPreserved, LogPreserved, PTL DEF Spec

\* "However the walk ends, systemd still starts openhost": the safety half of
\* BackInService. A router that is down is being booted, is about to be restarted by
\* systemd, or has a walk before its ExecStopPost, whatever was killed.
THEOREM StoppedRouterHasAWalk == Spec => [](router = "off" => Running)
  <1>1. DownIsOwned => (router = "off" => Running)
    BY DEF DownIsOwned, Running, Changing
  <1> QED
    BY <1>1, KeepsServing, PTL

\* "So Caddy can't lose the handoff race": a router that is up has its ports served
\* by Caddy, but for a failed stop of the updater, a walk killed beside a booting
\* router, or a Caddy that ended by itself. No fairness is needed: it is up no sooner than Caddy has the ports.
THEOREM PortsHandedOver == Spec => FrontDoor
  <1>1. DoorHeld => (router = "up" => front = "caddy" \/ lost # {} \/ bare)
    BY DEF DoorHeld
  <1> QED
    BY <1>1, KeepsServing, PTL DEF FrontDoor

\* "So the /updating page can never hang": the safety half of PageLeavesUnlessLost.
\* A router that is up, with no walk about, has no log under way: it finalised it on
\* its boot, unless a walk was killed while the router was up.
THEOREM NothingUnderWayIsLeft ==
    Spec => [](/\ Ready /\ ~Running /\ log \in {"walking", "restarting"}
               => "walk" \in lost)
  <1>1. LogIsFollowed =>
            (Ready /\ ~Running /\ log \in {"walking", "restarting"} => "walk" \in lost)
    BY DEF LogIsFollowed, Ready, Running
  <1> QED
    BY <1>1, KeepsServing, PTL

-----------------------------------------------------------------------------
(* UpdateWalk, for every history, every tagging and every change of the settings. *)

\* What holds of the repository, which a walk only reads.
RepositoryOK ==
    /\ history \in Histories
    /\ WellTagged
    /\ rcs \subseteq Present

WalkInv == WalkTypeOK /\ RepositoryOK

\* A walk makes no hop but towards a higher tag, or onto the pinned target itself:
\* with the settings left alone it makes at most one hop for every tag, and one more.
WalkAdvances == [][hop => Base < Base' \/ head' = target]_walkVars

\* SystemUpdate counts the releases: the host is at one of 0..Releases, a checkout
\* takes it to the next, and the walk is over at the last. Here they are the commits
\* with a release tag: how many of them the base has reached, and how many there are.
ReleasesUpTo(b) == {at[t] : t \in {u \in ReleaseTags : u <= b}}
Position == Cardinality(ReleasesUpTo(Base))
Destination == Cardinality(ReleasesUpTo(K))

WalksTheLine ==
    [][walker = "walking" /\ target = 0 =>
         /\ hop => Position' = IF Position < Destination THEN Position + 1 ELSE Position
         /\ walker' = "idle" => Position = Destination]_walkVars

LEMMA MinIsThere ==
    ASSUME NEW S \in SUBSET Nat, S # {}
    PROVE  Min(S) \in S /\ \A t \in S : Min(S) <= t
  <1> DEFINE R == OpToRel(<, Nat)
  <1>1. \A m, n \in Nat : m < n => <<m, n>> \in R
    BY DEF OpToRel
  <1>2. IsWellFoundedOn(R, Nat)
    BY NatLessThanWellFounded
  <1> HIDE DEF R
  <1>3. \E n \in S : \A m \in S : <<m, n>> \notin R
    BY <1>2, WFMin
  <1>4. PICK n \in S : \A m \in S : <<m, n>> \notin R
    BY <1>3
  <1>5. ASSUME NEW m \in S PROVE n <= m
    <2>1. m \in Nat /\ n \in Nat /\ ~(m < n)
      BY <1>1, <1>4
    <2> QED
      BY <2>1
  <1> QED
    BY <1>5 DEF Min

LEMMA MaxIsThere ==
    ASSUME NEW S \in SUBSET (0..K), S # {}
    PROVE  Max(S) \in S /\ \A t \in S : t <= Max(S)
  <1> DEFINE D == {K - t : t \in S}
  <1>0. ASSUME NEW t \in S PROVE K - t \in Nat
    BY WalkBoundsAssumption
  <1>1. D \in SUBSET Nat /\ D # {}
    BY <1>0
  <1>2. Min(D) \in D /\ \A d \in D : Min(D) <= d
    BY <1>1, MinIsThere
  <1>3. PICK s \in S : Min(D) = K - s
    BY <1>2
  <1>4. \A t \in S : K - s <= K - t
    BY <1>2, <1>3
  <1>5. \A t \in S : s >= t
    BY <1>4, WalkBoundsAssumption
  <1>6. Max(S) \in S /\ \A t \in S : Max(S) >= t
    BY <1>5 DEF Max
  <1> QED
    BY <1>6

\* The highest of some tags: 0 if there is none.
LEMMA HighestOf ==
    ASSUME NEW ts \in SUBSET (0..K)
    PROVE  /\ Highest(ts) \in 0..K
           /\ ts # {} => Highest(ts) \in ts
           /\ \A t \in ts : t <= Highest(ts)
  <1>1. CASE ts = {}
    BY <1>1, WalkBoundsAssumption DEF Highest
  <1>2. CASE ts # {}
    BY <1>2, MaxIsThere DEF Highest
  <1> QED
    BY <1>1, <1>2

LEMMA PresentTags == Present \subseteq Tags /\ ReleaseTags \subseteq Present /\ Tags \subseteq 0..K
  BY WalkBoundsAssumption DEF Present, ReleaseTags, Tags

LEMMA CurrentIs ==
    /\ CurrentTag \in 0..K
    /\ CurrentTag # 0 => CurrentTag \in Present /\ at[CurrentTag] = head
    /\ \A t \in Present : at[t] = head => t <= CurrentTag
  <1> DEFINE here == {t \in Present : at[t] = head}
  <1>1. here \in SUBSET (0..K)
    BY PresentTags
  <1>2. CurrentTag = Highest(here)
    BY DEF CurrentTag
  <1>3. here = {} => CurrentTag = 0
    BY <1>2 DEF Highest
  <1>4. /\ CurrentTag \in 0..K
        /\ here # {} => CurrentTag \in here
        /\ \A t \in here : t <= CurrentTag
    BY <1>1, <1>2, HighestOf
  <1> QED
    BY <1>3, <1>4

LEMMA LatestAncestorIs ==
    /\ LatestAncestorTag \in 0..K
    /\ LatestAncestorTag # 0 =>
           LatestAncestorTag \in Present /\ at[LatestAncestorTag] \in Ancestors(head)
    /\ \A t \in Present : at[t] \in Ancestors(head) => t <= LatestAncestorTag
  <1> DEFINE below == {t \in Present : at[t] \in Ancestors(head)}
  <1>1. below \in SUBSET (0..K)
    BY PresentTags
  <1>2. LatestAncestorTag = Highest(below)
    BY DEF LatestAncestorTag
  <1>3. below = {} => LatestAncestorTag = 0
    BY <1>2 DEF Highest
  <1>4. /\ LatestAncestorTag \in 0..K
        /\ below # {} => LatestAncestorTag \in below
        /\ \A t \in below : t <= LatestAncestorTag
    BY <1>1, <1>2, HighestOf
  <1> QED
    BY <1>3, <1>4

LEMMA CandidateIs ==
    /\ NewestCandidate \in 0..K
    /\ NewestCandidate # 0 => NewestCandidate \in Present
  <1>1. Present \cap rcs \in SUBSET (0..K)
    BY PresentTags
  <1>2. Present \cap rcs = {} => NewestCandidate = 0
    BY DEF NewestCandidate, Highest
  <1> QED
    BY <1>1, <1>2, HighestOf DEF NewestCandidate

LEMMA BaseIs == Base \in 0..K
  BY CurrentIs, LatestAncestorIs DEF Base

\* The host contains no tag above its base.
LEMMA BaseIsHighest ==
    ASSUME WalkInv, NEW t \in Present, at[t] \in Ancestors(head)
    PROVE  t <= Base
  <1>1. CASE CurrentTag = 0
    BY <1>1, LatestAncestorIs DEF Base
  <1>2. CASE CurrentTag # 0
    <2> SUFFICES ASSUME CurrentTag < t PROVE FALSE
      BY <1>2, CurrentIs, PresentTags DEF Base
    <2>1. CurrentTag \in Present /\ at[CurrentTag] = head
      BY <1>2, CurrentIs
    <2>2. at[CurrentTag] = at[t]
      BY <2>1 DEF WalkInv, RepositoryOK, WellTagged
    <2>3. t <= CurrentTag
      BY <2>1, <2>2, CurrentIs
    <2> QED
      BY <2>3, CurrentIs, PresentTags
  <1> QED
    BY <1>1, <1>2

\* The base is a tag that the host contains.
LEMMA BaseIsContained ==
    ASSUME WalkInv, Base # 0
    PROVE  Base \in Present /\ at[Base] \in Ancestors(head)
  <1>1. head \in Ancestors(head)
    BY DEF WalkInv, WalkTypeOK, RepositoryOK, Histories, Ancestors
  <1>2. CASE CurrentTag = 0
    BY <1>2, LatestAncestorIs DEF Base
  <1>3. CASE CurrentTag # 0
    BY <1>1, <1>3, CurrentIs DEF Base
  <1> QED
    BY <1>2, <1>3

\* The first of the stepping stones.
LEMMA FirstLater ==
    ASSUME Later # {}
    PROVE  /\ Min(Later) \in Later /\ \A t \in Later : Min(Later) <= t
           /\ Min(Later) \in Present /\ Min(Later) > Base
  <1>0. Later \subseteq ReleaseTags /\ \A t \in Later : t > Base
    BY DEF Later
  <1>1. Later \in SUBSET Nat
    BY <1>0, PresentTags, WalkBoundsAssumption
  <1>2. Min(Later) \in Later /\ \A t \in Later : Min(Later) <= t
    BY <1>1, MinIsThere
  <1> QED
    BY <1>0, <1>2, PresentTags

\* The three ways on: the first stepping stone, the pin, and the newest candidate.
LEMMA WaysOn ==
    ASSUME NextStep # 0
    PROVE  /\ target # head
           /\ \/ Later # {} /\ NextStep = at[Min(Later)]
              \/ Later = {} /\ target # 0 /\ NextStep = target
              \/ /\ Later = {} /\ target = 0 /\ NextStep = at[NewestCandidate]
                 /\ NewestCandidate > Base /\ NewestCandidate \in Present
  <1>1. NewestCandidate > Base => NewestCandidate \in Present
    BY CandidateIs, BaseIs
  <1> QED
    BY <1>1 DEF NextStep

LEMMA StepLandsOnCommit ==
    ASSUME WalkInv, Step
    PROVE  head' \in Commits
  <1>1. \A t \in Present : at[t] \in Commits
    BY WalkBoundsAssumption DEF WalkInv, WalkTypeOK, Present, Commits
  <1>2. target # Gone => target \in 0..N
    BY WalkBoundsAssumption DEF WalkInv, WalkTypeOK, Gone
  <1>3. CASE NextStep = 0
    BY <1>3 DEF WalkInv, WalkTypeOK, Step
  <1>4. CASE NextStep # 0
    <2>1. head' = NextStep /\ target # Gone
      BY <1>4 DEF Step
    <2>2. NextStep \in Commits
      BY <1>1, <1>2, <1>4, <2>1, WaysOn, FirstLater, WalkBoundsAssumption DEF Commits
    <2> QED
      BY <2>1, <2>2
  <1> QED
    BY <1>3, <1>4

\* The invariant: a walk only moves HEAD, and the owner only the settings.
LEMMA WalkInductive == WalkSpec => []WalkInv
  <1>1. WalkInit => WalkInv
    <2> SUFFICES ASSUME WalkInit PROVE WalkInv
      OBVIOUS
    <2>1. WalkTypeOK
      BY WalkBoundsAssumption DEF WalkInit, WalkTypeOK, Histories
    <2>2. RepositoryOK
      BY DEF WalkInit, RepositoryOK, Present
    <2> QED
      BY <2>1, <2>2 DEF WalkInv
  <1>2. WalkInv /\ [WalkNext]_walkVars => WalkInv'
    <2> SUFFICES ASSUME WalkInv, [WalkNext]_walkVars PROVE WalkInv'
      OBVIOUS
    <2>1. UNCHANGED repo
      BY DEF WalkNext, walkVars, Start, Step, Lost, SetRemote, SetPrereleases
    <2>2. RepositoryOK'
      BY <2>1 DEF WalkInv, RepositoryOK, repo, WellTagged, Present, Ancestors
    <2>3. head' \in Commits
      <3>1. CASE Step
        BY <3>1, StepLandsOnCommit
      <3>2. CASE UNCHANGED head
        BY <3>2 DEF WalkInv, WalkTypeOK
      <3> QED
        BY <3>1, <3>2 DEF WalkNext, walkVars, Start, Lost, SetRemote, SetPrereleases
    <2>4. WalkTypeOK'
      <3>1. target' \in 0..Gone /\ pre' \in BOOLEAN
        BY WalkBoundsAssumption
           DEF WalkInv, WalkTypeOK, WalkNext, walkVars, Start, Step, Lost, SetRemote,
               SetPrereleases, Gone
      <3>2. walker' \in {"idle", "walking", "failed"} /\ nset' \in 0..MaxSet
        BY WalkBoundsAssumption
           DEF WalkInv, WalkTypeOK, WalkNext, walkVars, Start, Step, Lost, SetRemote,
               SetPrereleases
      <3> QED
        BY <2>1, <2>3, <3>1, <3>2 DEF WalkInv, WalkTypeOK, repo
    <2> QED
      BY <2>2, <2>4 DEF WalkInv
  <1> QED
    BY <1>1, <1>2, PTL DEF WalkSpec

\* A hop is a step of the walk, and leaves everything but HEAD alone.
LEMMA HopIsStep ==
    ASSUME WalkInv, [WalkNext]_walkVars, hop
    PROVE  /\ Step /\ target # Gone /\ NextStep # 0 /\ head' = NextStep
           /\ UNCHANGED <<repo, target, pre>>
  <1>1. Step
    BY DEF hop, WalkNext, walkVars, Start, Lost, SetRemote, SetPrereleases
  <1> QED
    BY <1>1 DEF hop, Step, repo

\* Landing on a tag above the base makes a base at least that high.
LEMMA BaseRises ==
    ASSUME UNCHANGED repo, NEW m \in Present, m > Base, head' = at[m]
    PROVE  /\ m <= Base' /\ Base < Base'
           /\ Base' \in Present /\ at[Base'] = head'
  <1>1. Present' = Present /\ at' = at
    BY DEF repo, Present
  <1>2. /\ CurrentTag' \in 0..K
        /\ CurrentTag' # 0 => CurrentTag' \in Present /\ at[CurrentTag'] = head'
        /\ \A t \in Present : at[t] = head' => t <= CurrentTag'
    <2>1. (/\ CurrentTag \in 0..K
           /\ CurrentTag # 0 => CurrentTag \in Present /\ at[CurrentTag] = head
           /\ \A t \in Present : at[t] = head => t <= CurrentTag)'
      BY CurrentIs, PTL
    <2> QED
      BY <1>1, <2>1
  <1>3. m <= CurrentTag' /\ CurrentTag' # 0
    BY <1>2, PresentTags DEF Tags
  <1>4. Base' = CurrentTag'
    BY <1>3 DEF Base
  <1> QED
    BY <1>2, <1>3, <1>4, BaseIs, PresentTags

-----------------------------------------------------------------------------

\* Every state of a walk is well typed.
THEOREM WalkTypeCorrect == WalkSpec => []WalkTypeOK
  <1>1. WalkInv => WalkTypeOK
    BY DEF WalkInv
  <1> QED
    BY <1>1, WalkInductive, PTL

LEMMA InvAgrees == WalkInv => CheckAgrees
  <1> SUFFICES ASSUME WalkInv, target # Gone
               PROVE  FetchUpdates = "BEHIND_REMOTE" <=> NextStep # 0
    BY DEF CheckAgrees
  <1>1. \A t \in Present : at[t] # 0
    BY DEF Present
  <1>2. head # 0
    BY DEF WalkInv, WalkTypeOK, Commits
  <1>3. CASE target # 0
    <2>1. FetchUpdates = "BEHIND_REMOTE" <=> head # target
      BY <1>3 DEF FetchUpdates
    <2>2. NextStep # 0 <=> head # target
      BY <1>1, <1>3, FirstLater DEF NextStep
    <2> QED
      BY <2>1, <2>2
  <1>4. CASE target = 0
    <2> DEFINE Ways == ReleaseTags \cup (IF pre THEN {NewestCandidate} ELSE {})
    <2>1. FetchUpdates = "BEHIND_REMOTE" <=> Base < TagsDestination
      BY <1>4 DEF FetchUpdates, Gone
    <2>2. Ways \in SUBSET (0..K)
      BY PresentTags, CandidateIs
    <2>3. TagsDestination = Highest(Ways)
      BY DEF TagsDestination
    <2>4. TagsDestination \in 0..K /\ (Ways = {} => TagsDestination = 0)
      BY <2>2, <2>3, HighestOf DEF Highest
    <2>5. /\ Ways # {} => TagsDestination \in Ways
          /\ \A t \in Ways : t <= TagsDestination
      BY <2>2, <2>3, HighestOf
    <2>6. Base < TagsDestination <=> \E t \in Ways : t > Base
      <3>1. ASSUME Base < TagsDestination PROVE \E t \in Ways : t > Base
        BY <2>4, <2>5, <3>1, BaseIs
      <3>2. ASSUME NEW t \in Ways, t > Base PROVE Base < TagsDestination
        <4>1. t \in 0..K /\ t <= TagsDestination
          BY <2>2, <2>5
        <4> QED
          BY <2>4, <3>2, <4>1, BaseIs
      <3> QED
        BY <3>1, <3>2
    <2>7. (\E t \in Ways : t > Base) <=> Later # {} \/ (pre /\ NewestCandidate > Base)
      BY <1>4 DEF Later
    <2>8. NextStep # 0 <=> Later # {} \/ (pre /\ NewestCandidate > Base)
      <3>1. Later # {} => at[Min(Later)] # 0
        BY <1>1, FirstLater
      <3>2. NewestCandidate > Base => at[NewestCandidate] # 0
        BY <1>1, CandidateIs, BaseIs
      <3> QED
        BY <1>2, <1>4, <3>1, <3>2 DEF NextStep
    <2> QED
      BY <2>1, <2>6, <2>7, <2>8
  <1> QED
    BY <1>3, <1>4

\* The dashboard's check and the walk, two functions of the code, agree on whether
\* there is an update.
THEOREM CheckAgreesWithWalk == WalkSpec => []CheckAgrees
  BY InvAgrees, WalkInductive, PTL

\* A walk stays in the history of the pinned target, and without one reaches a tag
\* above every tag the host contains.
THEOREM WalkGoesForward == WalkSpec => GoesForward
  <1> DEFINE Forward ==
        IF target # 0 THEN head' \in Ancestors(target)
        ELSE \A t \in Present : at[t] \in Ancestors(head) =>
                 \E u \in Present : t < u /\ at[u] \in Ancestors(head')
  <1>1. ASSUME WalkInv, [WalkNext]_walkVars, hop PROVE Forward
    <2>1. /\ target # Gone /\ NextStep # 0 /\ head' = NextStep
          /\ UNCHANGED <<repo, target, pre>>
      BY <1>1, HopIsStep
    <2>2. \A c \in Commits : c \in Ancestors(c)
      BY <1>1 DEF WalkInv, RepositoryOK, Histories, Ancestors
    <2>3. CASE target # 0
      <3>1. target \in Commits
        BY <1>1, <2>1, <2>3, WalkBoundsAssumption DEF WalkInv, WalkTypeOK, Gone, Commits
      <3>2. Later # {} => at[Min(Later)] \in Ancestors(target)
        BY <2>3, FirstLater DEF Later
      <3> QED
        BY <2>1, <2>2, <2>3, <3>1, <3>2, WaysOn
    <2>4. CASE target = 0
      <3>1. PICK m \in Present : m > Base /\ head' = at[m]
        BY <2>1, <2>4, WaysOn, FirstLater
      <3>2. head' \in Commits
        BY <1>1, <2>1, HopIsStep, StepLandsOnCommit
      <3>3. ASSUME NEW t \in Present, at[t] \in Ancestors(head)
            PROVE  t < m /\ at[m] \in Ancestors(head')
        <4>1. t <= Base
          BY <1>1, <3>3, BaseIsHighest
        <4> QED
          BY <2>2, <3>1, <3>2, <4>1, BaseIs, PresentTags
      <3> QED
        BY <2>4, <3>3
    <2> QED
      BY <2>3, <2>4
  <1>2. WalkInv /\ [WalkNext]_walkVars => (hop => Forward)
    BY <1>1
  <1> HIDE DEF Forward
  <1>3. WalkSpec => [][hop => Forward]_walkVars
    BY <1>2, WalkInductive, PTL DEF WalkSpec
  <1> QED
    BY <1>3 DEF GoesForward, Forward

\* A hop passes over no release on the way to the destination.
THEOREM WalkSkipsNoStone == WalkSpec => NoStoneSkipped
  <1> DEFINE OnTheWay(t) ==
        Base < t /\ t < Base' /\ (target # 0 => at[t] \in Ancestors(target))
  <1>1. ASSUME WalkInv, [WalkNext]_walkVars, hop, NEW t \in ReleaseTags, OnTheWay(t)
        PROVE  at[t] = head'
    <2>1. /\ NextStep # 0 /\ head' = NextStep
          /\ UNCHANGED <<repo, target, pre>>
      BY <1>1, HopIsStep
    <2>2. t \in Later
      BY <1>1, BaseIs, PresentTags DEF Later
    <2> DEFINE m == Min(Later)
    <2>3. head' = at[m]
      BY <2>1, <2>2, WaysOn
    <2>4. m \in Present /\ m > Base /\ m <= t
      BY <2>2, FirstLater
    <2> HIDE DEF m
    <2>5. Base' \in Present /\ at[Base'] = at[m]
      BY <2>1, <2>3, <2>4, BaseRises
    <2>6. CASE m = t
      BY <2>3, <2>6
    <2>7. CASE m # t
      <3>1. m < t /\ t < Base' /\ m < Base' /\ t \in Present
        BY <1>1, <2>4, <2>5, <2>7, PresentTags DEF Tags
      <3>2. at[t] = at[m]
        BY <1>1, <2>4, <2>5, <3>1 DEF WalkInv, RepositoryOK, WellTagged
      <3> QED
        BY <2>3, <3>2
    <2> QED
      BY <2>6, <2>7
  <1> DEFINE Stones == \A t \in ReleaseTags : OnTheWay(t) => at[t] = head'
  <1>2. WalkInv /\ [WalkNext]_walkVars => (hop => Stones)
    BY <1>1
  <1> HIDE DEF Stones
  <1>3. WalkSpec => [][hop => Stones]_walkVars
    BY <1>2, WalkInductive, PTL DEF WalkSpec
  <1> QED
    BY <1>3 DEF NoStoneSkipped, Stones

\* A walk cannot go round in circles: each hop lands above the base, or is the last.
THEOREM WalkAlwaysAdvances == WalkSpec => WalkAdvances
  <1>1. ASSUME WalkInv, [WalkNext]_walkVars, hop PROVE Base < Base' \/ head' = target
    <2>1. /\ NextStep # 0 /\ head' = NextStep
          /\ UNCHANGED <<repo, target, pre>>
      BY <1>1, HopIsStep
    <2>2. CASE head' = target
      BY <2>2
    <2>3. CASE head' # target
      <3>1. PICK m \in Present : m > Base /\ head' = at[m]
        BY <2>1, <2>3, WaysOn, FirstLater
      <3> QED
        BY <2>1, <3>1, BaseRises
    <2> QED
      BY <2>2, <2>3
  <1>2. WalkInv /\ [WalkNext]_walkVars => (hop => Base < Base' \/ head' = target)
    BY <1>1
  <1> QED
    BY <1>2, WalkInductive, PTL DEF WalkSpec, WalkAdvances

-----------------------------------------------------------------------------
(* SystemUpdate's line of releases is what a walk without a pin goes through. *)

LEMMA ReleasesAreFinite ==
    ASSUME WalkInv, NEW b
    PROVE  ReleasesUpTo(b) \subseteq Commits /\ IsFiniteSet(ReleasesUpTo(b))
  <1>1. \A t \in Present : at[t] \in Commits
    BY WalkBoundsAssumption DEF WalkInv, WalkTypeOK, Present, Commits
  <1>2. ReleasesUpTo(b) \in SUBSET Commits
    BY <1>1, PresentTags DEF ReleasesUpTo
  <1>3. IsFiniteSet(Commits)
    BY FS_Interval, WalkBoundsAssumption DEF Commits
  <1> QED
    BY <1>2, <1>3, FS_Subset

\* A release above the base is on a commit of its own.
LEMMA NewRelease ==
    ASSUME WalkInv, NEW m \in ReleaseTags, m > Base
    PROVE  at[m] \notin ReleasesUpTo(Base)
  <1> SUFFICES ASSUME NEW t \in ReleaseTags, t <= Base, at[t] = at[m]
               PROVE  FALSE
    BY DEF ReleasesUpTo
  <1>1. t \in Tags /\ m \in Tags /\ t \in Present /\ m \in Present /\ Base \in Nat
    BY PresentTags, BaseIs
  <1>2. Base \in Present /\ at[Base] \in Ancestors(head)
    BY <1>1, BaseIsContained DEF Tags
  <1>3. at[Base] = at[m]
    <2>1. CASE t = Base
      BY <2>1
    <2>2. CASE t # Base
      <3>1. t < Base /\ Base < m /\ t < m
        BY <1>1, <2>2 DEF Tags
      <3> QED
        BY <1>1, <1>2, <3>1 DEF WalkInv, RepositoryOK, WellTagged
    <2> QED
      BY <2>1, <2>2
  <1>4. m <= Base
    BY <1>1, <1>2, <1>3, BaseIsHighest
  <1> QED
    BY <1>1, <1>4 DEF Tags

\* The walk has releases before it exactly when it is not at the end of the line.
LEMMA LaterIsBeforeTheEnd ==
    ASSUME WalkInv, target = 0
    PROVE  /\ Later # {} <=> Position < Destination
           /\ Later = {} => Position = Destination
  <1> DEFINE P == ReleasesUpTo(Base)
  <1> DEFINE D == ReleasesUpTo(K)
  <1>1. IsFiniteSet(P) /\ IsFiniteSet(D) /\ Cardinality(P) \in Nat /\ Cardinality(D) \in Nat
    BY ReleasesAreFinite, FS_CardinalityType
  <1>2. P \subseteq D
    BY BaseIs, PresentTags DEF ReleasesUpTo, Tags
  <1>3. CASE Later = {}
    <2>1. \A t \in ReleaseTags : t <= Base
      BY <1>3, BaseIs, PresentTags DEF Later, Tags
    <2>2. P = D
      BY <1>2, <2>1 DEF ReleasesUpTo
    <2> QED
      BY <1>1, <1>3, <2>2 DEF Position, Destination
  <1>4. CASE Later # {}
    <2>1. PICK m \in ReleaseTags : m > Base
      BY <1>4 DEF Later
    <2>2. m \in Tags
      BY <2>1, PresentTags
    <2>3. at[m] \in D
      BY <2>1, <2>2 DEF ReleasesUpTo, Tags
    <2>4. at[m] \notin P
      BY <2>1, NewRelease
    <2>5. Cardinality(P) <= Cardinality(D) /\ Cardinality(P) # Cardinality(D)
      BY <1>1, <1>2, <2>3, <2>4, FS_Subset
    <2> QED
      BY <1>1, <1>4, <2>5 DEF Position, Destination
  <1> QED
    BY <1>3, <1>4

LEMMA HopMovesPosition ==
    ASSUME WalkInv, [WalkNext]_walkVars, hop, target = 0
    PROVE  Position' = IF Later # {} THEN Position + 1 ELSE Position
  <1>1. /\ NextStep # 0 /\ head' = NextStep
        /\ UNCHANGED <<repo, target, pre>>
    BY HopIsStep
  <1>2. PICK m \in Present : /\ m > Base /\ head' = at[m]
                             /\ Later # {} => m = Min(Later)
    BY <1>1, WaysOn, FirstLater
  <1>3. /\ m <= Base' /\ Base < Base'
        /\ Base' \in Present /\ at[Base'] = at[m]
    BY <1>1, <1>2, BaseRises
  <1>4. Position' = Cardinality(ReleasesUpTo(Base'))
    BY <1>1 DEF Position, ReleasesUpTo, ReleaseTags, Present, repo
  <1>5. Base \in Nat /\ Base' \in Nat /\ m \in Nat /\ ReleaseTags \subseteq Nat
    BY <1>3, BaseIs, PresentTags DEF Tags
  <1>6. CASE Later = {}
    <2>1. \A t \in ReleaseTags : t <= Base
      BY <1>5, <1>6 DEF Later
    <2>2. ReleasesUpTo(Base') = ReleasesUpTo(Base)
      <3>1. \A t \in ReleaseTags : t <= Base /\ t <= Base'
        BY <1>3, <1>5, <2>1
      <3> QED
        BY <3>1 DEF ReleasesUpTo
    <2> QED
      BY <1>4, <1>6, <2>2 DEF Position
  <1>7. CASE Later # {}
    <2>1. m \in ReleaseTags /\ \A t \in ReleaseTags : t > Base => m <= t
      BY <1>2, <1>7, FirstLater DEF Later
    <2>2. ASSUME NEW t \in ReleaseTags, t > Base, t <= Base' PROVE at[t] = at[m]
      <3>1. m <= t /\ t \in Present
        BY <2>1, <2>2, PresentTags
      <3>2. CASE m = t \/ t = Base'
        BY <1>3, <3>2
      <3>3. CASE m # t /\ t # Base'
        <4>1. m < t /\ t < Base' /\ m < Base'
          BY <1>5, <2>2, <3>1, <3>3
        <4> QED
          BY <1>3, <3>1, <4>1 DEF WalkInv, RepositoryOK, WellTagged
      <3> QED
        BY <3>2, <3>3
    <2>3. ReleasesUpTo(Base') = ReleasesUpTo(Base) \cup {at[m]}
      <3>1. \A t \in ReleaseTags : t <= Base => t <= Base'
        BY <1>3, <1>5
      <3>2. \A t \in ReleaseTags : t <= Base' => t <= Base \/ at[t] = at[m]
        BY <1>5, <2>2
      <3> QED
        BY <1>3, <2>1, <3>1, <3>2 DEF ReleasesUpTo
    <2>4. at[m] \notin ReleasesUpTo(Base)
      BY <1>2, <2>1, NewRelease
    <2>5. Cardinality(ReleasesUpTo(Base) \cup {at[m]}) = Cardinality(ReleasesUpTo(Base)) + 1
      BY <2>4, ReleasesAreFinite, FS_AddElement
    <2> QED
      BY <1>4, <1>7, <2>3, <2>5 DEF Position
  <1> QED
    BY <1>6, <1>7

\* Without a pin, each hop of a walk is SystemUpdate's: to the next release while
\* there is one, and the walk ends only past the last. The one hop more, onto the
\* newest candidate, passes no release.
THEOREM WalkRefinesLine == WalkSpec => WalksTheLine
  <1> DEFINE OnLine ==
        /\ hop => Position' = IF Position < Destination THEN Position + 1 ELSE Position
        /\ walker' = "idle" => Position = Destination
  <1>1. ASSUME WalkInv, [WalkNext]_walkVars, walker = "walking", target = 0 PROVE OnLine
    <2>1. ASSUME hop PROVE Position' = IF Position < Destination THEN Position + 1 ELSE Position
      BY <1>1, <2>1, HopMovesPosition, LaterIsBeforeTheEnd
    <2>2. ASSUME walker' = "idle" PROVE Position = Destination
      <3>1. Step /\ NextStep = 0
        BY <1>1, <2>2 DEF WalkNext, walkVars, Start, Step, Lost, SetRemote, SetPrereleases
      <3>2. \A t \in Present : at[t] # 0
        BY DEF Present
      <3>3. target # head
        BY <1>1 DEF WalkInv, WalkTypeOK, Commits
      <3>4. Later = {}
        BY <3>1, <3>2, <3>3, FirstLater DEF NextStep
      <3> QED
        BY <1>1, <3>4, LaterIsBeforeTheEnd
    <2> QED
      BY <2>1, <2>2
  <1>2. WalkInv /\ [WalkNext]_walkVars => (walker = "walking" /\ target = 0 => OnLine)
    BY <1>1
  <1> HIDE DEF OnLine
  <1>3. WalkSpec => [][walker = "walking" /\ target = 0 => OnLine]_walkVars
    BY <1>2, WalkInductive, PTL DEF WalkSpec
  <1> QED
    BY <1>3 DEF WalksTheLine, OnLine
=============================================================================
