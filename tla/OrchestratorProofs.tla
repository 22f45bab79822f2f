------------------------- MODULE OrchestratorProofs -------------------------
(***************************************************************************)
(* For any containers, services and number of starts: which panics can     *)
(* bring the program down, that containers are up for the services, and    *)
(* what is left running in the end.                                        *)
(***************************************************************************)
EXTENDS Orchestrator, TLAPS

LaunchStates == {"none", "new", "pulling", "pulled", "created", "done", "abandoned"}

\* The types of what panics depend on.
TypeInv ==
    /\ refusals \in Nat /\ starts \in Nat
    /\ launch \in [Generations -> [Containers -> LaunchStates]]
    /\ ContainerID \in [Generations -> SUBSET Containers]
    /\ ContainerNames \in [Generations -> Seq(Containers)]
    /\ cleaner \in [Generations -> [Containers -> {"none", "waiting", "done"}]]
    /\ proc \in [Generations -> [Services -> {"none", "starting", "running",
                                  "ended", "failed", "overrun", "gone"}]]
    /\ stopped \in [Generations -> [Services -> Nat]]

\* Only generations that were started do anything, a container that has been
\* launched has an ID, and a process is missing only because it was refused.
LaunchInv ==
    /\ \A g \in Generations, c \in Containers :
          /\ launch[g][c] # "none" => g <= starts
          /\ launch[g][c] \in {"created", "done"} => c \in ContainerID[g]
          /\ cleaner[g][c] # "none" => g <= starts
    /\ \A g \in Generations, s \in Services :
          /\ proc[g][s] # "none" => g <= starts
          /\ proc[g][s] = "failed" => refusals > 0
    /\ cli = "starting" => current <= starts

Blameless ==
    /\ refusals = 0 /\ current # 0
    /\ \A g \in 1..starts, c \in Containers : launch[g][c] = "done"
    /\ \A g \in 1..starts, s \in Services : proc[g][s] # "overrun"

PanicInv == TypeInv /\ LaunchInv /\ (program = "crashed" => ~Blameless)

----------------------------------------------------------------------------

LEMMA InitPanic == Init => PanicInv
<1> SUFFICES ASSUME Init PROVE PanicInv  OBVIOUS
<1> USE DEF Init
<1>1. NoNames \in Seq(Containers)  BY DEF NoNames
<1>2. TypeInv  BY <1>1 DEF TypeInv, LaunchStates
<1>3. LaunchInv  BY DEF LaunchInv
<1> QED BY <1>2, <1>3 DEF PanicInv

\* A panic that one of the three reasons explains.
LEMMA PanicExplained ==
    ASSUME PanicInv, Panic, ~Blameless \/ refusals' > 0,
           Granted \/ Refused
    PROVE  PanicInv'
<1> USE DEF Panic, user, manager, services
<1>1. refusals' \in Nat /\ refusals' >= refusals
  BY DEF PanicInv, TypeInv, Granted, Refused
<1>2. TypeInv'  BY <1>1 DEF PanicInv, TypeInv, Generations
<1>3. LaunchInv'  BY <1>1 DEF PanicInv, TypeInv, LaunchInv, Generations
<1>4. ~Blameless'  BY <1>1 DEF PanicInv, TypeInv, Blameless
<1> QED BY <1>2, <1>3, <1>4 DEF PanicInv

\* A step that is not a panic, and changes neither generations nor processes.
LEMMA OthersOnly ==
    ASSUME PanicInv, program # "crashed", program' # "crashed",
           UNCHANGED <<starts, manager, services>>,
           cli' = "starting" => cli = "starting" /\ current' = current,
           Granted \/ Refused
    PROVE  PanicInv'
<1> USE DEF manager, services
<1>1. refusals' \in Nat /\ refusals' >= refusals
  BY DEF PanicInv, TypeInv, Granted, Refused
<1>2. TypeInv'  BY <1>1 DEF PanicInv, TypeInv, Generations
<1>3. LaunchInv'  BY <1>1 DEF PanicInv, TypeInv, LaunchInv, Generations
<1> QED BY <1>2, <1>3 DEF PanicInv

LEMMA StartStep == ASSUME PanicInv, Start PROVE PanicInv'
<1> DEFINE g == starts + 1
<1>1. CASE Refused /\ Panic
  BY <1>1, PanicExplained DEF Refused, PanicInv, TypeInv
<1>2. CASE ~(Refused /\ Panic)
  <2>1. /\ program = "running" /\ Granted /\ g \in Generations
        /\ starts' = g /\ current' = g
        /\ launch' = [launch EXCEPT ![g] = [c \in Containers |-> "new"]]
        /\ UNCHANGED <<program, ContainerNames, ContainerID, cleaner, services>>
    BY <1>2, OrchestratorAssumption DEF Start, PanicInv, TypeInv, Generations
  <2>2. TypeInv'
    BY <2>1 DEF PanicInv, TypeInv, LaunchStates, services, Granted, Generations
  <2>3. LaunchInv'
    BY <2>1, OrchestratorAssumption
    DEF PanicInv, TypeInv, LaunchInv, services, Granted, Generations
  <2> QED BY <2>1, <2>2, <2>3 DEF PanicInv
<1> QED BY <1>1, <1>2

LEMMA UserSteps ==
    ASSUME PanicInv, Stop \/ Exit \/ Interrupt \/ RunCommands \/ CommandEnds \/ End
    PROVE  PanicInv'
<1>1. CASE Stop  BY <1>1, OthersOnly DEF Stop, user, Alive
<1>2. CASE Exit
  <2>1. CASE current = 0 /\ Panic
    BY <1>2, <2>1, PanicExplained DEF Exit, Blameless
  <2>2. CASE current # 0
    BY <1>2, <2>2, OthersOnly DEF Exit, Alive
  <2> QED BY <1>2, <2>1, <2>2 DEF Exit
<1>3. CASE Interrupt
  <2>1. CASE current = 0 /\ Panic
    BY <1>3, <2>1, PanicExplained DEF Interrupt, Blameless
  <2>2. CASE program' = "interrupted"
    BY <1>3, <2>2, OthersOnly DEF Interrupt, user, Panic
  <2> QED BY <1>3, <2>1, <2>2 DEF Interrupt
<1>4. CASE RunCommands  BY <1>4, OthersOnly DEF RunCommands, Alive
<1>5. CASE CommandEnds
  <2>1. CASE Refused /\ Panic
    BY <2>1, PanicExplained DEF Refused, PanicInv, TypeInv
  <2>2. CASE cli' = "prompt" /\ Granted
    BY <1>5, <2>2, OthersOnly DEF CommandEnds, Alive, Panic, user
  <2> QED BY <1>5, <2>1, <2>2 DEF CommandEnds
<1>6. CASE End  BY <1>6, OthersOnly DEF End, user
<1> QED BY <1>1, <1>2, <1>3, <1>4, <1>5, <1>6

----------------------------------------------------------------------------
(* Launching *)

\* A step of the launch of c in generation g that was begun: whatever state it
\* enters, the ID is recorded when it has one.
LEMMA LaunchOnly ==
    ASSUME PanicInv, Alive, program' # "crashed",
           NEW g \in Generations, NEW c \in Containers, launch[g][c] # "none",
           NEW state \in LaunchStates \ {"none"},
           launch' = [launch EXCEPT ![g][c] = state],
           ContainerNames' \in [Generations -> Seq(Containers)],
           ContainerID' \in [Generations -> SUBSET Containers],
           \A h \in Generations : ContainerID[h] \subseteq ContainerID'[h],
           state \in {"created", "done"} => c \in ContainerID'[g],
           cleaner' \in {cleaner, [cleaner EXCEPT ![g][c] = "waiting"]},
           UNCHANGED <<starts, cli, current, services>>, Granted
    PROVE  PanicInv'
<1> USE DEF services, Granted
<1>1. TypeInv'
  <2>1. launch' \in [Generations -> [Containers -> LaunchStates]]
    BY DEF PanicInv, TypeInv
  <2>2. cleaner' \in [Generations -> [Containers -> {"none", "waiting", "done"}]]
    <3>1. cleaner \in [Generations -> [Containers -> {"none", "waiting", "done"}]]
      BY DEF PanicInv, TypeInv
    <3>2. CASE cleaner' = cleaner  BY <3>1, <3>2
    <3>3. CASE cleaner' = [cleaner EXCEPT ![g][c] = "waiting"]  BY <3>1, <3>3
    <3> QED BY <3>2, <3>3
  <2> QED BY <2>1, <2>2 DEF PanicInv, TypeInv, Generations
<1>2. LaunchInv'
  <2>1. ASSUME NEW h \in Generations, NEW d \in Containers
        PROVE  /\ launch'[h][d] # "none" => h <= starts'
               /\ launch'[h][d] \in {"created", "done"} => d \in ContainerID'[h]
               /\ cleaner'[h][d] # "none" => h <= starts'
    <3>1. CASE h = g /\ d = c  BY <3>1 DEF PanicInv, TypeInv, LaunchInv
    <3>2. CASE ~(h = g /\ d = c)
      <4>1. launch'[h][d] = launch[h][d]
        BY <3>2 DEF PanicInv, TypeInv
      <4>2. cleaner'[h][d] = cleaner[h][d]
        BY <3>2 DEF PanicInv, TypeInv
      <4>3. ContainerID[h] \subseteq ContainerID'[h]  OBVIOUS
      <4> QED BY <4>1, <4>2, <4>3 DEF PanicInv, LaunchInv
    <3> QED BY <3>1, <3>2
  <2> QED BY <2>1 DEF PanicInv, LaunchInv, Generations
<1> QED BY <1>1, <1>2 DEF PanicInv

\* The reason why no panic here is without blame: some launch is not done.
LEMMA Launching ==
    ASSUME PanicInv, NEW g \in Generations, NEW c \in Containers,
           launch[g][c] \notin {"none", "done"}
    PROVE  ~Blameless
  BY DEF PanicInv, TypeInv, LaunchInv, Blameless, Generations

LEMMA RunFailsStep ==
    ASSUME PanicInv, Alive, NEW g \in Generations, NEW c \in Containers,
           launch[g][c] \in {"pulled", "created"}, RunFails(g, c)
    PROVE  PanicInv'
<1>1. CASE Panic
  <2>1. Granted \/ Refused  BY <1>1 DEF RunFails
  <2> QED BY <1>1, <2>1, Launching, PanicExplained
<1>2. CASE ~Panic
  <2>1. /\ launch' = [launch EXCEPT ![g][c] = "abandoned"] /\ Granted
        /\ UNCHANGED <<program, user, ctx, ContainerNames, ContainerID, cleaner,
                       box, services>>
    BY <1>2 DEF RunFails
  <2>2. /\ ContainerNames \in [Generations -> Seq(Containers)]
        /\ ContainerID \in [Generations -> SUBSET Containers]
    BY DEF PanicInv, TypeInv
  <2> QED BY <2>1, <2>2, LaunchOnly DEF LaunchStates, Alive, user
<1> QED BY <1>1, <1>2

LEMMA LaunchSteps ==
    ASSUME PanicInv, NEW g \in Generations, NEW c \in Containers,
           \/ NewDockerContainer(g, c) \/ PullImage(g, c) \/ Create(g, c)
           \/ ContainerStart(g, c)
    PROVE  PanicInv'
<1> USE DEF user
<1>1. /\ ContainerNames \in [Generations -> Seq(Containers)]
      /\ ContainerID \in [Generations -> SUBSET Containers]
  BY DEF PanicInv, TypeInv
<1>2. CASE NewDockerContainer(g, c)
  <2>1. ContainerNames' \in [Generations -> Seq(Containers)]
    BY <1>1, <1>2 DEF NewDockerContainer
  <2> QED BY <1>1, <1>2, <2>1, LaunchOnly DEF NewDockerContainer, LaunchStates, Alive
<1>3. CASE PullImage(g, c)
  <2>1. CASE Panic
    <3>1. Granted \/ Refused  BY <1>3 DEF PullImage, Granted, Refused
    <3> QED BY <1>3, <2>1, <3>1, Launching, PanicExplained DEF PullImage
  <2>2. CASE ~Panic
    <3>1. /\ launch' = [launch EXCEPT ![g][c] = "pulled"] /\ Granted
          /\ cleaner' = [cleaner EXCEPT ![g][c] = "waiting"]
          /\ UNCHANGED <<program, user, ctx, ContainerNames, ContainerID, box,
                         services>>
      BY <1>3, <2>2 DEF PullImage
    <3>2. launch[g][c] # "none" /\ Alive  BY <1>3 DEF PullImage
    <3> QED BY <1>1, <3>1, <3>2, LaunchOnly DEF LaunchStates, Alive
  <2> QED BY <2>1, <2>2
<1>4. CASE Create(g, c)
  <2>1. CASE Granted /\ Panic
    BY <1>4, <2>1, Launching, PanicExplained DEF Create
  <2>2. CASE RunFails(g, c)
    BY <1>4, <2>2, RunFailsStep DEF Create
  <2>3. CASE ~(Granted /\ Panic) /\ ~RunFails(g, c)
    <3>1. /\ launch' = [launch EXCEPT ![g][c] = "created"] /\ Granted
          /\ ContainerID' = [ContainerID EXCEPT ![g] = @ \cup {c}]
          /\ UNCHANGED <<program, user, ctx, ContainerNames, cleaner, services>>
      BY <1>4, <2>3 DEF Create
    <3>2. /\ ContainerID' \in [Generations -> SUBSET Containers]
          /\ \A h \in Generations : ContainerID[h] \subseteq ContainerID'[h]
          /\ c \in ContainerID'[g]
      BY <1>1, <3>1
    <3>3. launch[g][c] # "none" /\ Alive  BY <1>4 DEF Create
    <3> QED BY <1>1, <3>1, <3>2, <3>3, LaunchOnly DEF LaunchStates, Alive
  <2> QED BY <2>1, <2>2, <2>3
<1>5. CASE ContainerStart(g, c)
  <2>1. CASE RunFails(g, c)
    BY <1>5, <2>1, RunFailsStep DEF ContainerStart
  <2>2. CASE ~RunFails(g, c)
    <3>1. c \in ContainerID[g]
      BY <1>5 DEF ContainerStart, PanicInv, LaunchInv
    <3>2. /\ launch' = [launch EXCEPT ![g][c] = "done"] /\ Granted
          /\ UNCHANGED <<program, user, ctx, ContainerNames, ContainerID, cleaner,
                         services>>
      BY <1>5, <2>2 DEF ContainerStart
    <3>3. launch[g][c] # "none" /\ Alive  BY <1>5 DEF ContainerStart
    <3> QED BY <1>1, <3>1, <3>2, <3>3, LaunchOnly DEF LaunchStates, Alive
  <2> QED BY <2>1, <2>2
<1> QED BY <1>2, <1>3, <1>4, <1>5

\* Of a launched container the ID is known: the cleanup panics only while some
\* container of its generation is being launched.
LEMMA CleanupStep ==
    ASSUME PanicInv, NEW g \in Generations, NEW c \in Containers, Cleanup(g, c)
    PROVE  PanicInv'
<1>1. g <= starts  BY DEF Cleanup, PanicInv, LaunchInv
<1>2. CASE Panic
  <2>1. Granted \/ Refused  BY DEF Cleanup
  <2>2. ~Blameless \/ refusals' > 0
    <3>1. CASE Refused
      BY <3>1 DEF Refused, PanicInv, TypeInv
    <3>2. CASE MapIsWritten(g)
      BY <3>2, Launching DEF MapIsWritten
    <3>3. CASE c \notin ContainerID[g]
      <4>1. launch[g][c] # "done"  BY <3>3 DEF PanicInv, LaunchInv
      <4> QED BY <1>1, <4>1 DEF Blameless, Generations
    <3>4. cleaner' # [cleaner EXCEPT ![g][c] = "done"]
      BY <1>2 DEF Panic, manager, Cleanup, PanicInv, TypeInv
    <3> QED BY <3>1, <3>2, <3>3, <3>4 DEF Cleanup
  <2> QED BY <1>2, <2>1, <2>2, PanicExplained
<1>3. CASE ~Panic
  <2>1. /\ cleaner' = [cleaner EXCEPT ![g][c] = "done"] /\ (Granted \/ Refused)
        /\ UNCHANGED <<program, user, launch, ContainerNames, ContainerID, services>>
    BY <1>3 DEF Cleanup
  <2>2. refusals' \in Nat /\ refusals' >= refusals
    BY <2>1 DEF PanicInv, TypeInv, Granted, Refused
  <2>3. TypeInv'
    BY <2>1, <2>2 DEF PanicInv, TypeInv, user, services, Generations
  <2>4. LaunchInv'
    BY <1>1, <2>1, <2>2 DEF PanicInv, TypeInv, LaunchInv, user, services, Generations
  <2> QED BY <2>1, <2>3, <2>4 DEF PanicInv, Cleanup, Alive
<1> QED BY <1>2, <1>3

----------------------------------------------------------------------------
(* The services *)

\* The process of s in generation g enters a state that it may.
LEMMA ProcessOnly ==
    ASSUME PanicInv, Alive, program' # "crashed",
           NEW g \in Generations, NEW s \in Services, proc[g][s] # "none",
           NEW state \in {"running", "ended", "failed", "gone"},
           proc' = [proc EXCEPT ![g][s] = state],
           state = "failed" => refusals' > 0,
           stopped' \in {stopped, [stopped EXCEPT ![g][s] = 0]},
           UNCHANGED <<starts, cli, current, manager>>, Granted \/ Refused
    PROVE  PanicInv'
<1> USE DEF manager
<1>1. refusals' \in Nat /\ refusals' >= refusals
  BY DEF PanicInv, TypeInv, Granted, Refused
<1>2. TypeInv'
  <2>1. proc' \in [Generations -> [Services -> {"none", "starting", "running",
                                    "ended", "failed", "overrun", "gone"}]]
    BY DEF PanicInv, TypeInv
  <2>2. stopped' \in [Generations -> [Services -> Nat]]
    <3>1. stopped \in [Generations -> [Services -> Nat]]
      BY DEF PanicInv, TypeInv
    <3>2. CASE stopped' = stopped  BY <3>1, <3>2
    <3>3. CASE stopped' = [stopped EXCEPT ![g][s] = 0]  BY <3>1, <3>3
    <3> QED BY <3>2, <3>3
  <2> QED BY <1>1, <2>1, <2>2 DEF PanicInv, TypeInv, Generations
<1>3. LaunchInv'
  <2>1. ASSUME NEW h \in Generations, NEW t \in Services
        PROVE  /\ proc'[h][t] # "none" => h <= starts'
               /\ proc'[h][t] = "failed" => refusals' > 0
    <3>1. CASE h = g /\ t = s  BY <3>1 DEF PanicInv, TypeInv, LaunchInv
    <3>2. CASE ~(h = g /\ t = s)
      <4>1. proc'[h][t] = proc[h][t]  BY <3>2 DEF PanicInv, TypeInv
      <4> QED BY <1>1, <4>1 DEF PanicInv, TypeInv, LaunchInv
    <3> QED BY <3>1, <3>2
  <2> QED BY <1>1, <2>1 DEF PanicInv, LaunchInv, Generations
<1> QED BY <1>2, <1>3 DEF PanicInv

LEMMA StartServicesStep ==
    ASSUME PanicInv, NEW g \in Generations, StartServices(g)
    PROVE  PanicInv'
<1> USE DEF StartServices, Spawning, manager, Granted, Generations
<1>1. TypeInv'  BY DEF PanicInv, TypeInv
<1>2. LaunchInv'  BY DEF PanicInv, TypeInv, LaunchInv
<1> QED BY <1>1, <1>2 DEF PanicInv, Alive

LEMMA ProcessSteps ==
    ASSUME PanicInv, NEW g \in Generations, NEW s \in Services,
           StartProcess(g, s) \/ Terminate(g, s) \/ ServiceEnds(g, s)
    PROVE  PanicInv'
<1> USE DEF SetProc, Alive, user
<1>1. CASE StartProcess(g, s)
  <2>1. CASE Granted /\ SetProc(g, s, "running")
    BY <1>1, <2>1, ProcessOnly DEF StartProcess
  <2>2. CASE Refused /\ SetProc(g, s, "failed")
    <3>1. refusals' > 0  BY <2>2 DEF Refused, PanicInv, TypeInv
    <3> QED BY <1>1, <2>2, <3>1, ProcessOnly DEF StartProcess
  <2> QED BY <1>1, <2>1, <2>2 DEF StartProcess
<1>2. CASE Terminate(g, s)  BY <1>2, ProcessOnly DEF Terminate
<1>3. CASE ServiceEnds(g, s)  BY <1>3, ProcessOnly DEF ServiceEnds
<1> QED BY <1>1, <1>2, <1>3

LEMMA OverrunStep ==
    ASSUME PanicInv, NEW g \in Generations, NEW s \in Services, ReadStdErr(g, s)
    PROVE  PanicInv'
<1> USE DEF ReadStdErr, user, manager, Granted, Generations
<1>1. g \in 1..starts  BY DEF PanicInv, TypeInv, LaunchInv
<1>2. proc'[g][s] = "overrun"  BY DEF PanicInv, TypeInv
<1>3. TypeInv'  BY DEF PanicInv, TypeInv
<1>4. LaunchInv'  BY DEF PanicInv, TypeInv, LaunchInv
<1> QED BY <1>1, <1>2, <1>3, <1>4 DEF PanicInv, Blameless

LEMMA ReturnsStep ==
    ASSUME PanicInv, Alive, NEW g \in Generations, NEW s \in Services,
           Returns(g, s), Granted \/ Refused
    PROVE  PanicInv'
<1>1. CASE proc[g][s] = "failed" /\ Panic
  <2>1. ~Blameless  BY <1>1 DEF PanicInv, TypeInv, LaunchInv, Blameless
  <2> QED BY <1>1, <2>1, PanicExplained
<1>2. CASE /\ proc[g][s] = "ended"
           /\ proc' = [proc EXCEPT ![g][s] = "gone"]
           /\ stopped' = [stopped EXCEPT ![g][s] = 0]
           /\ UNCHANGED <<program, user, ctx, manager, box>>
  BY <1>2, ProcessOnly DEF Alive, user
<1> QED BY <1>1, <1>2 DEF Returns

\* The deferred StopAll meets a container without an ID only when its launch was
\* abandoned.
LEMMA StopAllStep ==
    ASSUME PanicInv, NEW g \in Generations, NEW s \in Services, StopAll(g, s)
    PROVE  PanicInv'
<1> DEFINE k == stopped[g][s] + 1
           c == ContainerNames[g][k]
<1>1. k \in Nat \ {0} /\ g <= starts
  BY DEF StopAll, PanicInv, TypeInv, LaunchInv
<1>2. CASE k > Len(ContainerNames[g]) /\ Granted /\ Returns(g, s)
  BY <1>2, ReturnsStep DEF StopAll
<1>3. CASE /\ k <= Len(ContainerNames[g])
           /\ IF ctx[g] = "cancelled" THEN Granted ELSE Refused
           /\ IF c \in ContainerID[g] THEN Returns(g, s) ELSE Panic
  <2>1. Granted \/ Refused  BY <1>3
  <2>2. c \in Containers
    BY <1>1, <1>3 DEF PanicInv, TypeInv
  <2>3. CASE c \in ContainerID[g]
    BY <1>3, <2>1, <2>3, ReturnsStep DEF StopAll
  <2>4. CASE c \notin ContainerID[g]
    <3>1. launch[g][c] # "done"  BY <2>2, <2>4 DEF PanicInv, LaunchInv
    <3>2. ~Blameless  BY <1>1, <2>2, <3>1 DEF Blameless, Generations
    <3> QED BY <1>3, <2>1, <2>4, <3>2, PanicExplained
  <2> QED BY <2>3, <2>4
<1>4. CASE /\ stopped' = [stopped EXCEPT ![g][s] = k]
           /\ UNCHANGED <<program, user, ctx, manager, proc>> /\ Granted
  <2>1. TypeInv'
    BY <1>1, <1>4 DEF PanicInv, TypeInv, user, manager, Granted, Generations
  <2>2. LaunchInv'
    BY <1>4 DEF PanicInv, LaunchInv, user, manager, Granted, Generations
  <2> QED BY <1>4, <2>1, <2>2 DEF PanicInv, StopAll, Alive
<1> QED BY <1>2, <1>3, <1>4 DEF StopAll

----------------------------------------------------------------------------

LEMMA NextPanic == PanicInv /\ [Next]_vars => PanicInv'
<1> SUFFICES ASSUME PanicInv, [Next]_vars PROVE PanicInv'  OBVIOUS
<1>1. CASE UserStep \/ CommandEnds \/ End
  BY <1>1, StartStep, UserSteps DEF UserStep
<1>2. ASSUME NEW g \in Generations, StartServices(g) PROVE PanicInv'
  BY <1>2, StartServicesStep
<1>3. ASSUME NEW g \in Generations, NEW c \in Containers, LaunchStep(g, c)
      PROVE  PanicInv'
  BY <1>3, LaunchSteps, CleanupStep DEF LaunchStep
<1>4. ASSUME NEW g \in Generations, NEW s \in Services,
             ServiceStep(g, s) \/ ServiceEnds(g, s) \/ ReadStdErr(g, s)
      PROVE  PanicInv'
  BY <1>4, ProcessSteps, StopAllStep, OverrunStep DEF ServiceStep
<1>5. CASE UNCHANGED vars
  BY <1>5 DEF vars, user, manager, services, PanicInv, TypeInv, LaunchInv, Blameless,
              Generations
<1> QED BY <1>1, <1>2, <1>3, <1>4, <1>5 DEF Next, ProgramStep

\* For every number of containers, services and starts: after the first "start"
\* the program panics only when something was refused, while some container is
\* being launched or its launch was cut short, or when a service has written more
\* to its standard error than one read takes (docker.go:222, services.go:119, :168).
THEOREM PanicsOnlyThen == Spec => []PanicsOnlyWhileStarting
<1>1. PanicInv => PanicsOnlyWhileStarting
  BY DEF PanicInv, TypeInv, Blameless, PanicsOnlyWhileStarting
<1> QED BY <1>1, InitPanic, NextPanic, PTL DEF Spec

----------------------------------------------------------------------------
(* What runs when the services start and when the program returns *)

Begun == {"pulled", "created", "done", "abandoned"}

\* How far a container is: only the latest generation launches, while the command
\* loop waits for it; the cleanup goroutine exists once the image is there, and
\* acts, as a launch is abandoned, only when the generation is cancelled.
LaunchStage(g, c) ==
    /\ launch[g][c] = "none" <=> g > starts
    /\ launch[g][c] \in {"new", "pulling", "pulled", "created"} =>
          g = starts /\ cli = "starting"
    /\ cleaner[g][c] = "none" <=> launch[g][c] \notin Begun
    /\ cleaner[g][c] = "done" => ctx[g] = "cancelled"
    /\ launch[g][c] = "abandoned" => ctx[g] = "cancelled"

StageInv ==
    /\ starts \in 0..MaxStarts /\ current = starts /\ alone \subseteq 1..starts
    /\ ctx \in [Generations -> {"none", "live", "cancelled"}]
    /\ box \in [Containers -> {"absent", "stopped", "running"}]
    /\ \A g \in Generations : ctx[g] = "none" <=> g > starts
    /\ \A g \in Generations, c \in Containers : LaunchStage(g, c)

\* Whoever has launched a container that runs, it or a later generation has a
\* goroutine that will stop it.
BoxInv ==
    refusals = 0 =>
       \A g \in Generations, c \in Containers :
          box[c] = "running" /\ launch[g][c] \in Begun =>
             \E h \in g..starts : cleaner[h][c] = "waiting"

\* While a generation that began alone is launched, nothing of an earlier one
\* acts, and none of its own processes.
AloneInv ==
    starts \in alone /\ cli = "starting" =>
       /\ \A e \in 1..(starts - 1) : AtRest(e)
       /\ \A s \in Services : proc[starts][s] = "none"
       /\ \A c \in Containers :
             launch[starts][c] = "done" /\ ctx[starts] = "live" => box[c] = "running"

RunningInv == PanicInv /\ StageInv /\ BoxInv /\ AloneInv

----------------------------------------------------------------------------

LEMMA InitRunning == Init => RunningInv
<1> SUFFICES ASSUME Init PROVE RunningInv  OBVIOUS
<1> USE OrchestratorAssumption DEF Init
<1>1. StageInv  BY DEF StageInv, LaunchStage, Begun, Generations
<1>2. BoxInv  BY DEF BoxInv
<1>3. AloneInv  BY DEF AloneInv
<1> QED BY <1>1, <1>2, <1>3, InitPanic DEF RunningInv

\* A step that neither launches nor cancels anything nor ends a launch early.
LEMMA StageFrame ==
    ASSUME StageInv, UNCHANGED <<starts, current, alone, ctx, launch, cleaner>>,
           box' \in [Containers -> {"absent", "stopped", "running"}],
           \/ cli' = cli \/ cli # "starting"
           \/ \A c \in Containers : launch[starts][c] \in {"done", "abandoned"}
    PROVE  StageInv'
<1>1. ASSUME NEW g \in Generations, NEW c \in Containers PROVE LaunchStage(g, c)'
  BY DEF StageInv, LaunchStage
<1> QED BY <1>1 DEF StageInv, Generations

\* A step that launches nothing and whose only effect on containers is to stop them.
LEMMA BoxFrame ==
    ASSUME PanicInv, BoxInv, UNCHANGED <<starts, launch, cleaner>>, Granted \/ Refused,
           \A c \in Containers : box'[c] = "running" => box[c] = "running"
    PROVE  BoxInv'
<1>1. refusals' = 0 => refusals = 0
  BY DEF PanicInv, TypeInv, Granted, Refused
<1> QED BY <1>1 DEF BoxInv, Generations

\* Nothing but the launch goes on while a generation that began alone is launched.
LEMMA NoProcess ==
    ASSUME RunningInv, starts \in alone, cli = "starting",
           NEW g \in Generations, NEW s \in Services
    PROVE  proc[g][s] \in {"none", "gone"}
<1>1. g <= starts \/ proc[g][s] = "none"
  BY DEF RunningInv, PanicInv, LaunchInv
<1>2. g \in 1..(starts - 1) \/ g = starts \/ g > starts
  BY DEF RunningInv, StageInv, Generations
<1>3. g \in 1..(starts - 1) => AtRest(g)  BY DEF RunningInv, AloneInv
<1>4. proc[starts][s] = "none"  BY DEF RunningInv, AloneInv
<1>5. starts \in Nat /\ g \in Nat
  BY DEF RunningInv, StageInv, Generations
<1> QED BY <1>1, <1>2, <1>3, <1>4, <1>5 DEF AtRest

----------------------------------------------------------------------------
(* Launching *)

\* The launch of c enters a state, with a cleanup goroutine from "pulled" on, and
\* the container runs when it is done.
MovesTo(g, c, state) ==
    /\ launch[g][c] \in {"new", "pulling", "pulled", "created"}
    /\ state \in LaunchStates \ {"none"}
    /\ launch' = [launch EXCEPT ![g][c] = state]
    /\ cleaner' \in {cleaner, [cleaner EXCEPT ![g][c] = "waiting"]}
    /\ cleaner'[g][c] # "none" <=> state \in Begun
    /\ state \in Begun => cleaner'[g][c] = "waiting" \/ launch[g][c] \in Begun
    /\ state = "abandoned" => ctx[g] = "cancelled"
    /\ box' \in [Containers -> {"absent", "stopped", "running"}]
    /\ \A d \in Containers : box[d] = "running" => box'[d] = "running"
    /\ \A d \in Containers : box'[d] = "running" /\ box[d] # "running" =>
          d = c /\ cleaner'[g][c] = "waiting"
    /\ state = "done" => box'[c] = "running"
    /\ UNCHANGED <<starts, current, alone, ctx, cli, proc>> /\ Granted

LEMMA LaunchMove ==
    ASSUME RunningInv, NEW g \in Generations, NEW c \in Containers, NEW state,
           MovesTo(g, c, state)
    PROVE  StageInv' /\ BoxInv' /\ AloneInv'
<1> USE DEF MovesTo
<1>0. /\ launch \in [Generations -> [Containers -> LaunchStates]]
      /\ cleaner \in [Generations -> [Containers -> {"none", "waiting", "done"}]]
  BY DEF RunningInv, PanicInv, TypeInv
<1>1. /\ g = starts /\ cli = "starting" /\ g \in 1..starts
      /\ launch'[g][c] = state
  BY <1>0 DEF RunningInv, StageInv, LaunchStage, Generations
<1>2. ASSUME NEW h \in Generations, NEW d \in Containers, h # g \/ d # c
      PROVE  launch'[h][d] = launch[h][d] /\ cleaner'[h][d] = cleaner[h][d]
  <2>1. launch'[h][d] = launch[h][d]  BY <1>0, <1>2
  <2>2. CASE cleaner' = cleaner  BY <2>1, <2>2
  <2>3. CASE cleaner' = [cleaner EXCEPT ![g][c] = "waiting"]
    BY <1>0, <1>2, <2>1, <2>3
  <2> QED BY <2>2, <2>3
<1>3. cleaner'[g][c] = cleaner[g][c] \/ cleaner'[g][c] = "waiting"
  BY <1>0
<1>4. StageInv'
  <2>1. ASSUME NEW h \in Generations, NEW d \in Containers PROVE LaunchStage(h, d)'
    <3>1. CASE h # g \/ d # c
      BY <3>1, <1>2 DEF RunningInv, StageInv, LaunchStage
    <3>2. CASE h = g /\ d = c
      BY <3>2, <1>1, <1>3 DEF RunningInv, StageInv, LaunchStage, Generations
    <3> QED BY <3>1, <3>2
  <2> QED BY <2>1 DEF RunningInv, StageInv, Generations
<1>5. BoxInv'
  <2> SUFFICES ASSUME refusals = 0, NEW h \in Generations, NEW d \in Containers,
                      box'[d] = "running", launch'[h][d] \in Begun
               PROVE  \E e \in h..starts : cleaner'[e][d] = "waiting"
    BY DEF BoxInv, Granted, Generations
  <2>1. h \in 1..starts
    BY <1>4 DEF StageInv, LaunchStage, Begun, Generations
  <2>2. CASE d = c /\ cleaner'[g][c] = "waiting"
    BY <1>1, <2>1, <2>2
  <2>3. CASE ~(d = c /\ cleaner'[g][c] = "waiting")
    <3>1. box[d] = "running"  BY <2>3
    <3>2. launch[h][d] \in Begun
      <4>1. CASE h = g /\ d = c  BY <4>1, <1>1, <2>3
      <4>2. CASE h # g \/ d # c  BY <4>2, <1>2
      <4> QED BY <4>1, <4>2
    <3>3. PICK e \in h..starts : cleaner[e][d] = "waiting"
      BY <3>1, <3>2 DEF RunningInv, BoxInv
    <3>4. e \in Generations
      BY <2>1, OrchestratorAssumption DEF RunningInv, StageInv, Generations
    <3>5. cleaner'[e][d] = "waiting"
      <4>1. CASE e = g /\ d = c  BY <4>1, <1>3, <3>3
      <4>2. CASE e # g \/ d # c  BY <4>2, <1>2, <3>3, <3>4
      <4> QED BY <4>1, <4>2
    <3> QED BY <3>5
  <2> QED BY <2>2, <2>3
<1>6. AloneInv'
  <2> SUFFICES ASSUME starts \in alone
               PROVE  /\ \A e \in 1..(starts - 1) : AtRest(e)'
                      /\ \A s \in Services : proc[starts][s] = "none"
                      /\ \A d \in Containers :
                            launch'[starts][d] = "done" /\ ctx[starts] = "live" =>
                               box'[d] = "running"
    BY DEF AloneInv
  <2>1. ASSUME NEW e \in 1..(starts - 1) PROVE AtRest(e)'
    <3>1. e \in Generations /\ e # g
      BY <1>1, OrchestratorAssumption DEF RunningInv, StageInv, Generations
    <3>2. AtRest(e)  BY <1>1 DEF RunningInv, AloneInv
    <3> QED BY <1>2, <3>1, <3>2 DEF AtRest
  <2>2. ASSUME NEW d \in Containers, launch'[starts][d] = "done", ctx[starts] = "live"
        PROVE  box'[d] = "running"
    <3>1. CASE d = c  BY <3>1, <2>2, <1>1
    <3>2. CASE d # c
      BY <3>2, <2>2, <1>1, <1>2 DEF RunningInv, AloneInv
    <3> QED BY <3>1, <3>2
  <2> QED BY <1>1, <2>1, <2>2 DEF RunningInv, AloneInv
<1> QED BY <1>4, <1>5, <1>6

LEMMA RunFailsRunning ==
    ASSUME RunningInv, NEW g \in Generations, NEW c \in Containers,
           launch[g][c] \in {"pulled", "created"}, RunFails(g, c), ~Panic
    PROVE  StageInv' /\ BoxInv' /\ AloneInv'
<1>1. /\ launch' = [launch EXCEPT ![g][c] = "abandoned"]
      /\ ctx[g] = "cancelled" /\ Granted
      /\ UNCHANGED <<user, ctx, cleaner, box, services>>
  BY DEF RunFails
<1>2. cleaner'[g][c] # "none"
  BY <1>1 DEF RunningInv, StageInv, LaunchStage, Begun
<1>3. box \in [Containers -> {"absent", "stopped", "running"}]
  BY DEF RunningInv, StageInv
<1>4. MovesTo(g, c, "abandoned")
  BY <1>1, <1>2, <1>3 DEF MovesTo, LaunchStates, Begun, user, services
<1> QED BY <1>4, LaunchMove

LEMMA LaunchRunning ==
    ASSUME RunningInv, NEW g \in Generations, NEW c \in Containers,
           \/ NewDockerContainer(g, c) \/ PullImage(g, c) \/ Create(g, c)
           \/ ContainerStart(g, c),
           ~Panic
    PROVE  StageInv' /\ BoxInv' /\ AloneInv'
<1> USE DEF user, services
<1>1. /\ box \in [Containers -> {"absent", "stopped", "running"}]
      /\ cleaner \in [Generations -> [Containers -> {"none", "waiting", "done"}]]
      /\ LaunchStage(g, c)
      /\ ctx[g] \in {"none", "live", "cancelled"}
  BY DEF RunningInv, StageInv, PanicInv, TypeInv
<1>2. CASE NewDockerContainer(g, c)
  <2>1. /\ launch[g][c] = "new" /\ Granted
        /\ launch' = [launch EXCEPT ![g][c] = "pulling"]
        /\ UNCHANGED <<user, ctx, cleaner, box, services>>
    BY <1>2 DEF NewDockerContainer
  <2>2. cleaner[g][c] = "none"
    BY <1>1, <2>1 DEF LaunchStage, Begun
  <2>3. MovesTo(g, c, "pulling")
    BY <1>1, <2>1, <2>2 DEF MovesTo, LaunchStates, Begun
  <2> QED BY <2>3, LaunchMove
<1>3. CASE PullImage(g, c)
  <2>1. /\ launch[g][c] = "pulling" /\ Granted
        /\ launch' = [launch EXCEPT ![g][c] = "pulled"]
        /\ cleaner' = [cleaner EXCEPT ![g][c] = "waiting"]
        /\ UNCHANGED <<user, ctx, box, services>>
    BY <1>3 DEF PullImage
  <2>2. cleaner'[g][c] = "waiting"  BY <1>1, <2>1
  <2>3. MovesTo(g, c, "pulled")
    BY <1>1, <2>1, <2>2 DEF MovesTo, LaunchStates, Begun
  <2> QED BY <2>3, LaunchMove
<1>4. CASE Create(g, c)
  <2>1. CASE RunFails(g, c)
    BY <1>4, <2>1, RunFailsRunning DEF Create
  <2>2. CASE ~RunFails(g, c)
    <3>1. /\ launch[g][c] = "pulled" /\ Granted
          /\ launch' = [launch EXCEPT ![g][c] = "created"]
          /\ box' = [box EXCEPT ![c] = IF @ = "absent" THEN "stopped" ELSE @]
          /\ UNCHANGED <<user, ctx, cleaner, services>>
      BY <1>4, <2>2 DEF Create
    <3>2. cleaner[g][c] # "none"  BY <1>1, <3>1 DEF LaunchStage, Begun
    <3>3. /\ box' \in [Containers -> {"absent", "stopped", "running"}]
          /\ \A d \in Containers : box'[d] = "running" <=> box[d] = "running"
      BY <1>1, <3>1
    <3>4. MovesTo(g, c, "created")
      BY <1>1, <3>1, <3>2, <3>3 DEF MovesTo, LaunchStates, Begun
    <3> QED BY <3>4, LaunchMove
  <2> QED BY <2>1, <2>2
<1>5. CASE ContainerStart(g, c)
  <2>1. CASE RunFails(g, c)
    BY <1>5, <2>1, RunFailsRunning DEF ContainerStart
  <2>2. CASE ~RunFails(g, c)
    <3>1. /\ launch[g][c] = "created" /\ Granted /\ ctx[g] = "live"
          /\ launch' = [launch EXCEPT ![g][c] = "done"]
          /\ box' = [box EXCEPT ![c] = "running"]
          /\ UNCHANGED <<user, ctx, cleaner, services>>
      BY <1>5, <2>2 DEF ContainerStart
    <3>2. cleaner[g][c] = "waiting"
      BY <1>1, <3>1 DEF LaunchStage, Begun
    <3>3. /\ box' \in [Containers -> {"absent", "stopped", "running"}]
          /\ box'[c] = "running"
          /\ \A d \in Containers : d # c => box'[d] = box[d]
      BY <1>1, <3>1
    <3>4. MovesTo(g, c, "done")
      BY <1>1, <3>1, <3>2, <3>3 DEF MovesTo, LaunchStates, Begun
    <3> QED BY <3>4, LaunchMove
  <2> QED BY <2>1, <2>2
<1> QED BY <1>2, <1>3, <1>4, <1>5

\* The goroutine of an earlier generation has nothing to do when the latest one
\* began alone, and that of the latest acts only when it is cancelled.
LEMMA CleanupRunning ==
    ASSUME RunningInv, NEW g \in Generations, NEW c \in Containers, Cleanup(g, c),
           ~Panic
    PROVE  StageInv' /\ BoxInv' /\ AloneInv'
<1> USE DEF user, services
<1>0. /\ box \in [Containers -> {"absent", "stopped", "running"}]
      /\ cleaner \in [Generations -> [Containers -> {"none", "waiting", "done"}]]
      /\ starts \in Nat /\ MaxStarts \in Nat /\ starts <= MaxStarts
  BY OrchestratorAssumption DEF RunningInv, StageInv, PanicInv, TypeInv
<1>1. /\ cleaner[g][c] = "waiting" /\ ctx[g] = "cancelled"
      /\ cleaner' = [cleaner EXCEPT ![g][c] = "done"]
      /\ UNCHANGED <<user, ctx, launch, services>>
      /\ \/ Refused /\ box' = box
         \/ Granted /\ box' = [box EXCEPT ![c] = "stopped"]
  BY DEF Cleanup
<1>2. /\ box' \in [Containers -> {"absent", "stopped", "running"}]
      /\ \A d \in Containers : box'[d] = "running" => box[d] = "running"
      /\ \A d \in Containers : d # c => box'[d] = box[d]
  BY <1>0, <1>1
<1>3. ASSUME NEW h \in Generations, NEW d \in Containers, h # g \/ d # c
      PROVE  cleaner'[h][d] = cleaner[h][d]
  BY <1>0, <1>1, <1>3
<1>4. StageInv'
  <2>1. ASSUME NEW h \in Generations, NEW d \in Containers PROVE LaunchStage(h, d)'
    <3>1. CASE h # g \/ d # c
      BY <3>1, <1>1, <1>3 DEF RunningInv, StageInv, LaunchStage
    <3>2. CASE h = g /\ d = c
      <4>1. cleaner'[h][d] = "done"  BY <3>2, <1>0, <1>1
      <4> QED BY <3>2, <4>1, <1>1 DEF RunningInv, StageInv, LaunchStage
    <3> QED BY <3>1, <3>2
  <2> QED BY <2>1, <1>1, <1>2 DEF RunningInv, StageInv, Generations
<1>5. BoxInv'
  <2> SUFFICES ASSUME refusals' = 0, NEW h \in Generations, NEW d \in Containers,
                      box'[d] = "running", launch[h][d] \in Begun
               PROVE  \E e \in h..starts : cleaner'[e][d] = "waiting"
    BY <1>1 DEF BoxInv, Generations
  <2>1. refusals = 0 /\ box'[c] # "running"
    BY <1>0, <1>1 DEF Refused, Granted, RunningInv, PanicInv, TypeInv
  <2>2. d # c  BY <2>1
  <2>3. PICK e \in h..starts : cleaner[e][d] = "waiting"
    BY <1>2, <2>1 DEF RunningInv, BoxInv
  <2>4. e \in Generations  BY <1>0 DEF Generations
  <2>5. cleaner'[e][d] = "waiting"  BY <1>3, <2>2, <2>3, <2>4
  <2> QED BY <2>5
<1>6. AloneInv'
  <2> SUFFICES ASSUME starts \in alone, cli = "starting"
               PROVE  /\ \A e \in 1..(starts - 1) : AtRest(e)'
                      /\ \A s \in Services : proc[starts][s] = "none"
                      /\ \A d \in Containers :
                            launch[starts][d] = "done" /\ ctx[starts] = "live" =>
                               box'[d] = "running"
    BY <1>1 DEF AloneInv
  <2>1. /\ \A e \in 1..(starts - 1) : AtRest(e)
        /\ \A s \in Services : proc[starts][s] = "none"
    BY DEF RunningInv, AloneInv
  <2>2. g \notin 1..(starts - 1)  BY <1>1, <2>1 DEF AtRest
  <2>3. g <= starts
    BY <1>1, <1>0 DEF RunningInv, PanicInv, LaunchInv, Generations
  <2>4. g = starts  BY <1>0, <2>2, <2>3 DEF Generations
  <2>5. ASSUME NEW e \in 1..(starts - 1) PROVE AtRest(e)'
    <3>1. e \in Generations /\ e # g  BY <1>0, <2>4 DEF Generations
    <3>2. AtRest(e)  BY <2>1
    <3> QED BY <1>1, <1>3, <3>1, <3>2 DEF AtRest
  <2> QED BY <1>1, <2>1, <2>4, <2>5
<1> QED BY <1>4, <1>5, <1>6

----------------------------------------------------------------------------
(* Commands and services *)

\* A step of which the containers, generations and processes see nothing.
LEMMA UnseenRunning ==
    ASSUME RunningInv, UNCHANGED <<starts, current, alone, ctx, manager, box, services>>,
           Granted \/ Refused, cli' = cli \/ (cli # "starting" /\ cli' # "starting")
    PROVE  StageInv' /\ BoxInv' /\ AloneInv'
<1> USE DEF manager, services
<1>1. StageInv'  BY StageFrame DEF RunningInv, StageInv
<1>2. BoxInv'  BY BoxFrame DEF RunningInv
<1>3. ASSUME NEW e PROVE AtRest(e)' = AtRest(e)  BY DEF AtRest
<1>4. AloneInv'  BY <1>3 DEF RunningInv, AloneInv
<1> QED BY <1>1, <1>2, <1>4

LEMMA StartRunning ==
    ASSUME RunningInv, Start, ~Panic
    PROVE  StageInv' /\ BoxInv' /\ AloneInv'
<1> DEFINE g == starts + 1
<1> USE DEF services
<1>0. /\ starts \in Nat /\ MaxStarts \in Nat /\ g \in Generations /\ cli = "prompt"
  BY OrchestratorAssumption DEF Start, RunningInv, StageInv, Generations
<1>1. /\ starts' = g /\ current' = g /\ cli' = "starting" /\ Granted
      /\ alone' = alone \cup {h \in {g} : \A e \in 1..starts : AtRest(e)}
      /\ ctx' = [ctx EXCEPT ![g] = "live"]
      /\ launch' = [launch EXCEPT ![g] = [c \in Containers |-> "new"]]
      /\ UNCHANGED <<cleaner, box, services>>
  BY DEF Start
<1>2. /\ launch \in [Generations -> [Containers -> LaunchStates]]
      /\ ctx \in [Generations -> {"none", "live", "cancelled"}]
  BY DEF RunningInv, PanicInv, TypeInv, StageInv
<1>3. /\ ctx'[g] = "live" /\ \A c \in Containers : launch'[g][c] = "new"
      /\ \A h \in Generations : h # g => ctx'[h] = ctx[h] /\ launch'[h] = launch[h]
  BY <1>0, <1>1, <1>2
<1>4. StageInv'
  <2>1. ASSUME NEW h \in Generations, NEW c \in Containers PROVE LaunchStage(h, c)'
    <3>1. LaunchStage(h, c) /\ LaunchStage(g, c)
      BY <1>0 DEF RunningInv, StageInv
    <3>2. CASE h = g
      <4>1. launch[g][c] = "none" /\ cleaner[g][c] = "none"
        BY <1>0, <3>1 DEF LaunchStage, Begun
      <4> QED BY <3>2, <4>1, <1>0, <1>1, <1>3 DEF LaunchStage, Begun
    <3>3. CASE h # g
      BY <3>1, <3>3, <1>0, <1>1, <1>3 DEF LaunchStage, Generations
    <3> QED BY <3>2, <3>3
  <2>2. \A h \in Generations : ctx'[h] = "none" <=> h > g
    BY <1>0, <1>3 DEF RunningInv, StageInv, Generations
  <2>3. alone' \subseteq 1..g
    <3>1. alone \subseteq 1..starts  BY DEF RunningInv, StageInv
    <3>2. \A h \in 1..starts : h \in 1..g  BY <1>0
    <3>3. g \in 1..g  BY <1>0
    <3> QED BY <1>1, <3>1, <3>2, <3>3
  <2>4. ctx' \in [Generations -> {"none", "live", "cancelled"}] /\ g \in 0..MaxStarts
    BY <1>0, <1>1, <1>2 DEF Generations
  <2> QED BY <2>1, <2>2, <2>3, <2>4, <1>1 DEF RunningInv, StageInv
<1>5. BoxInv'
  <2> SUFFICES ASSUME refusals = 0, NEW h \in Generations, NEW c \in Containers,
                      box[c] = "running", launch'[h][c] \in Begun
               PROVE  \E e \in h..g : cleaner[e][c] = "waiting"
    BY <1>1 DEF BoxInv, Granted, Generations
  <2>1. h # g /\ launch[h][c] \in Begun  BY <1>3 DEF Begun
  <2>2. PICK e \in h..starts : cleaner[e][c] = "waiting"
    BY <2>1 DEF RunningInv, BoxInv
  <2>3. e \in h..g  BY <1>0 DEF Generations
  <2> QED BY <2>2, <2>3
<1>6. AloneInv'
  <2>1. ASSUME g \in alone', NEW e \in 1..starts PROVE AtRest(e)'
    <3>1. g \notin alone  BY <1>0 DEF RunningInv, StageInv
    <3>2. AtRest(e)  BY <1>1, <2>1, <3>1
    <3>3. e \in Generations /\ e # g
      BY <1>0 DEF RunningInv, StageInv, Generations
    <3> QED BY <1>1, <1>3, <3>2, <3>3 DEF AtRest
  <2>2. \A s \in Services : proc[g][s] = "none"
    BY <1>0 DEF RunningInv, PanicInv, LaunchInv
  <2>3. (g - 1) = starts  BY <1>0
  <2> QED BY <1>1, <1>3, <2>1, <2>2, <2>3 DEF AloneInv
<1> QED BY <1>4, <1>5, <1>6

\* The latest generation is cancelled, and no other: the earlier ones have lost
\* their cancel function.
LEMMA CancelRunning ==
    ASSUME RunningInv, current # 0, Cancel(current), Granted,
           UNCHANGED <<starts, current, alone, manager, box, services>>,
           cli' = cli \/ (cli # "starting" /\ cli' # "starting")
    PROVE  StageInv' /\ BoxInv' /\ AloneInv'
<1> USE DEF manager, services
<1>0. /\ starts \in Nat /\ MaxStarts \in Nat /\ starts <= MaxStarts /\ current = starts
      /\ starts \in Generations
  BY OrchestratorAssumption DEF RunningInv, StageInv, Generations
<1>1. /\ ctx'[starts] = "cancelled"
      /\ \A h \in Generations : h # starts => ctx'[h] = ctx[h]
      /\ ctx' \in [Generations -> {"none", "live", "cancelled"}]
  BY <1>0 DEF Cancel, RunningInv, StageInv
<1>2. StageInv'
  <2>1. ASSUME NEW h \in Generations, NEW c \in Containers PROVE LaunchStage(h, c)'
    <3>1. LaunchStage(h, c)  BY DEF RunningInv, StageInv
    <3> QED BY <3>1, <1>1 DEF LaunchStage
  <2>2. \A h \in Generations : ctx'[h] = "none" <=> h > starts
    BY <1>0, <1>1 DEF RunningInv, StageInv, Generations
  <2> QED BY <2>1, <2>2, <1>1 DEF RunningInv, StageInv
<1>3. BoxInv'  BY BoxFrame DEF RunningInv
<1>4. AloneInv'
  <2>1. ASSUME NEW e \in 1..(starts - 1), AtRest(e) PROVE AtRest(e)'
    <3>1. e \in Generations /\ e # starts  BY <1>0 DEF Generations
    <3> QED BY <2>1, <3>1, <1>1 DEF AtRest
  <2> QED BY <1>1, <2>1 DEF RunningInv, AloneInv
<1> QED BY <1>2, <1>3, <1>4

\* A step of a service's process, which may stop a container.
LEMMA ProcessRunning ==
    ASSUME RunningInv, NEW g \in Generations, NEW s \in Services,
           proc[g][s] \notin {"none", "gone"},
           UNCHANGED <<user, ctx, manager>>, Granted \/ Refused,
           box' = box \/ \E c \in Containers : box' = [box EXCEPT ![c] = "stopped"]
    PROVE  StageInv' /\ BoxInv' /\ AloneInv'
<1> USE DEF user, manager
<1>1. /\ box' \in [Containers -> {"absent", "stopped", "running"}]
      /\ \A c \in Containers : box'[c] = "running" => box[c] = "running"
  BY DEF RunningInv, StageInv
<1>2. StageInv'  BY <1>1, StageFrame DEF RunningInv
<1>3. BoxInv'  BY <1>1, BoxFrame DEF RunningInv
<1>4. AloneInv'  BY NoProcess DEF AloneInv
<1> QED BY <1>2, <1>3, <1>4

LEMMA StartServicesRunning ==
    ASSUME RunningInv, NEW g \in Generations, StartServices(g)
    PROVE  StageInv' /\ BoxInv' /\ AloneInv'
<1> USE DEF StartServices, Spawning, manager
<1>1. g = starts  BY DEF RunningInv, StageInv
<1>2. StageInv'  BY <1>1, StageFrame DEF RunningInv, StageInv
<1>3. BoxInv'  BY BoxFrame DEF RunningInv
<1>4. AloneInv'  BY DEF AloneInv
<1> QED BY <1>2, <1>3, <1>4

LEMMA CommandsRunning ==
    ASSUME RunningInv, Stop \/ Exit \/ Interrupt \/ RunCommands \/ CommandEnds \/ End,
           ~Panic
    PROVE  StageInv' /\ BoxInv' /\ AloneInv'
<1>1. CASE Stop  BY <1>1, CancelRunning DEF Stop, user
<1>2. CASE Exit  BY <1>2, CancelRunning DEF Exit
<1>3. CASE Interrupt  BY <1>3, CancelRunning DEF Interrupt, user
<1>4. CASE RunCommands  BY <1>4, UnseenRunning DEF RunCommands
<1>5. CASE CommandEnds  BY <1>5, UnseenRunning DEF CommandEnds
<1>6. CASE End  BY <1>6, UnseenRunning DEF End, user
<1> QED BY <1>1, <1>2, <1>3, <1>4, <1>5, <1>6

LEMMA ServicesRunning ==
    ASSUME RunningInv, NEW g \in Generations, NEW s \in Services,
           \/ StartProcess(g, s) \/ Terminate(g, s) \/ ServiceEnds(g, s)
           \/ ReadStdErr(g, s) \/ StopAll(g, s),
           ~Panic
    PROVE  StageInv' /\ BoxInv' /\ AloneInv'
<1>1. CASE StartProcess(g, s) \/ Terminate(g, s) \/ ServiceEnds(g, s)
  BY <1>1, ProcessRunning DEF StartProcess, Terminate, ServiceEnds, SetProc
<1>2. CASE ReadStdErr(g, s)
  BY <1>2, ProcessRunning DEF ReadStdErr
<1>3. CASE StopAll(g, s)
  <2> DEFINE c == ContainerNames[g][stopped[g][s] + 1]
  <2>1. proc[g][s] \in {"ended", "failed"} /\ (Granted \/ Refused)
        /\ UNCHANGED <<user, ctx, manager>>
        /\ (box' = box \/ box' = [box EXCEPT ![c] = "stopped"])
    BY <1>3 DEF StopAll, Returns
  <2>2. box' = box \/ c \in Containers
    <3>1. CASE /\ stopped[g][s] + 1 <= Len(ContainerNames[g])
      BY <3>1 DEF RunningInv, PanicInv, TypeInv
    <3>2. CASE ~(stopped[g][s] + 1 <= Len(ContainerNames[g]))
      BY <3>2, <1>3 DEF StopAll, Returns
    <3> QED BY <3>1, <3>2
  <2> HIDE DEF c
  <2> QED BY <2>1, <2>2, ProcessRunning
<1> QED BY <1>1, <1>2, <1>3

LEMMA NextRunning == RunningInv /\ [Next]_vars => RunningInv'
<1> SUFFICES ASSUME RunningInv, [Next]_vars
             PROVE  StageInv' /\ BoxInv' /\ AloneInv'
  BY NextPanic DEF RunningInv
<1>1. CASE Panic
  <2>1. Granted \/ Refused \/ UNCHANGED refusals
    BY DEF Next, UserStep, ProgramStep, LaunchStep, ServiceStep, vars, Granted,
           Start, Stop, Exit, Interrupt, RunCommands, CommandEnds, End, StartServices,
           Spawning, NewDockerContainer, PullImage, Create, RunFails, ContainerStart,
           Cleanup, StartProcess, Terminate, StopAll, ServiceEnds, ReadStdErr
  <2> QED BY <1>1, <2>1, UnseenRunning DEF Panic, user, Granted
<1>2. CASE ~Panic
  <2>1. CASE UserStep \/ CommandEnds \/ End
    BY <1>2, <2>1, StartRunning, CommandsRunning DEF UserStep
  <2>2. ASSUME NEW g \in Generations, StartServices(g)
        PROVE  StageInv' /\ BoxInv' /\ AloneInv'
    BY <2>2, StartServicesRunning
  <2>3. ASSUME NEW g \in Generations, NEW c \in Containers, LaunchStep(g, c)
        PROVE  StageInv' /\ BoxInv' /\ AloneInv'
    BY <1>2, <2>3, LaunchRunning, CleanupRunning DEF LaunchStep
  <2>4. ASSUME NEW g \in Generations, NEW s \in Services,
               ServiceStep(g, s) \/ ServiceEnds(g, s) \/ ReadStdErr(g, s)
        PROVE  StageInv' /\ BoxInv' /\ AloneInv'
    BY <1>2, <2>4, ServicesRunning DEF ServiceStep
  <2>5. CASE UNCHANGED vars
    BY <2>5, UnseenRunning DEF vars, user, Granted
  <2> QED BY <2>1, <2>2, <2>3, <2>4, <2>5 DEF Next, ProgramStep
<1> QED BY <1>1, <1>2

\* At the end whatever runs belongs to a generation that is live, and is not an
\* earlier one than any that was cancelled.
LEMMA NoneLeft == ASSUME RunningInv, End PROVE NoContainerLeft'
<1> USE DEF End, user, Granted
<1> SUFFICES ASSUME SleepSuffices, refusals = 0,
                    NEW g \in Generations, NEW c \in Containers,
                    ctx[g] = "cancelled", box[c] = "running"
             PROVE  \E h \in g..starts : ctx[h] = "live"
  BY DEF NoContainerLeft, Generations
<1>1. Cleared  OBVIOUS
<1>2. LaunchStage(g, c) /\ ~(g > starts) /\ launch[g][c] \in LaunchStates
  BY DEF RunningInv, StageInv, PanicInv, TypeInv
<1>3. launch[g][c] \in Begun
  BY <1>1, <1>2 DEF Cleared, LaunchStage, LaunchStates, Begun
<1>4. PICK h \in g..starts : cleaner[h][c] = "waiting"
  BY <1>3 DEF RunningInv, BoxInv
<1>5. h \in Generations /\ ~(h > starts)
  BY OrchestratorAssumption DEF RunningInv, StageInv, Generations
<1>6. ctx[h] # "cancelled"
  BY <1>1, <1>4, <1>5 DEF Cleared, AtRest
<1>7. ctx[h] = "live"
  BY <1>5, <1>6 DEF RunningInv, StageInv
<1> QED BY <1>7

LEMMA OnlyEndEnds ==
    ASSUME [Next]_vars, program' = "ended"
    PROVE  End \/ UNCHANGED vars
<1>1. \A g \in Generations : ~StartServices(g)
  BY DEF StartServices, Spawning, Alive
<1>2. \A g \in Generations, c \in Containers : ~LaunchStep(g, c)
  BY DEF LaunchStep, NewDockerContainer, PullImage, Create, RunFails, ContainerStart,
         Cleanup, Panic, Alive
<1>3. \A g \in Generations, s \in Services :
         ~ServiceStep(g, s) /\ ~ServiceEnds(g, s) /\ ~ReadStdErr(g, s)
  BY DEF ServiceStep, StartProcess, Terminate, StopAll, ServiceEnds, ReadStdErr,
         Returns, SetProc, Panic, Alive
<1>4. ~UserStep /\ ~CommandEnds
  BY DEF UserStep, Start, Stop, Exit, Interrupt, RunCommands, CommandEnds, Panic, Alive
<1> QED BY <1>1, <1>2, <1>3, <1>4 DEF Next, ProgramStep

LEMMA NextNoneLeft ==
    RunningInv /\ NoContainerLeft /\ [Next]_vars => NoContainerLeft'
<1> SUFFICES ASSUME RunningInv, NoContainerLeft, [Next]_vars PROVE NoContainerLeft'
  OBVIOUS
<1>1. CASE program' # "ended"  BY <1>1 DEF NoContainerLeft
<1>2. CASE End  BY <1>2, NoneLeft
<1>3. CASE UNCHANGED vars
  BY <1>3 DEF vars, user, services, manager, NoContainerLeft, Generations
<1> QED BY <1>1, <1>2, <1>3, OnlyEndEnds

\* For all containers, services and starts, in whatever order commands, signals
\* and ends of services come: if the three seconds are enough for the goroutines
\* that were cancelled, main returns with no container of a cancelled generation
\* running, unless the engine refused or a live generation shares it (main.go:68).
THEOREM NothingLeftRunning == Spec => []NoContainerLeft
<1>1. Init => NoContainerLeft  BY DEF Init, NoContainerLeft
<1> QED BY <1>1, InitRunning, NextRunning, NextNoneLeft, PTL DEF Spec

\* For all containers, services and starts: a generation that began with every
\* other at rest and is not cancelled while it launches starts its services when
\* all its containers run, although goroutines of earlier ones stop containers by
\* name (services.go:54).
THEOREM ContainersAreUp == Spec => ServicesFindTheirContainers
<1>1. ASSUME RunningInv, NEW g \in alone, StartServices(g), ctx[g] = "live",
             NEW c \in Containers
      PROVE  box[c] = "running"
  <2>1. g = starts /\ cli = "starting" /\ launch[g][c] \in {"done", "abandoned"}
    BY <1>1 DEF StartServices, Spawning, RunningInv, StageInv
  <2>2. g \in Generations
    BY <1>1, OrchestratorAssumption DEF RunningInv, StageInv, Generations
  <2>3. launch[g][c] = "done"
    BY <1>1, <2>1, <2>2 DEF RunningInv, StageInv, LaunchStage
  <2> QED BY <1>1, <2>1, <2>3 DEF RunningInv, AloneInv
<1>2. RunningInv =>
         [\A g \in alone : StartServices(g) /\ ctx[g] = "live" =>
             \A c \in Containers : box[c] = "running"]_vars
  BY <1>1
<1> QED BY <1>2, InitRunning, NextRunning, PTL DEF Spec, ServicesFindTheirContainers
=============================================================================
