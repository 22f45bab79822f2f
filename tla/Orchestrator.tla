---------------------------- MODULE Orchestrator ----------------------------
(***************************************************************************)
(* The command line program that runs zensearch (main.go, services.go,     *)
(* docker.go): one goroutine reads commands, main waits for a signal, and  *)
(* each "start" opens a generation with its own context, Docker manager,   *)
(* launch and cleanup goroutines and service processes.  The generations   *)
(* share the containers, which are found by name, and the one variable     *)
(* that holds the cancel function of the latest.                           *)
(*                                                                         *)
(* Services do not handle SIGTERM, so that a signalled one ends.  Whether  *)
(* one that loses the broker ends is left open: a service may end at any   *)
(* time.                                                                   *)
(***************************************************************************)
EXTENDS Integers, Sequences, FiniteSets

CONSTANTS
    Containers,     \* dockerContainerConf
    Services,       \* runCmds
    MaxStarts,      \* bound on the number of "start" commands
    MaxRefusals,    \* bound on what the Docker engine or the system refuses
    SleepSuffices   \* are three seconds enough for what is cancelled to end?

ASSUME OrchestratorAssumption ==
    /\ IsFiniteSet(Containers) /\ Containers # {}
    /\ MaxStarts \in Nat /\ MaxRefusals \in Nat
    /\ SleepSuffices \in BOOLEAN

VARIABLES
    program,        \* main: "running", "interrupted", "ended" or "crashed"
    cli,            \* CLILoop: "prompt", "starting", "building", "left"
    starts,         \* number of generations so far
    current,        \* the generation contextCancel cancels, 0 for nil
    refusals,       \* number of refusals so far
    alone,          \* history: generations started when all others were at rest
    ctx,            \* ctx[g]: "none", "live" or "cancelled"
    launch,         \* launch[g][c]: how far runningDockerService is
    ContainerNames, \* ContainerNames[g]: in the order of registration
    ContainerID,    \* ContainerID[g]: the containers whose ID is recorded
    cleaner,        \* cleaner[g][c]: the goroutine that waits for ctx.Done
    box,            \* box[c]: the container, "absent", "stopped" or "running"
    proc,           \* proc[g][s]: the process and its runningService
    stopped         \* stopped[g][s]: containers its StopAll has stopped

user     == <<cli, starts, current, alone>>
manager  == <<launch, ContainerNames, ContainerID, cleaner>>
services == <<proc, stopped>>
vars     == <<program, refusals, user, ctx, manager, box, services>>

Generations == 1..MaxStarts
Alive == program \in {"running", "interrupted"}

\* The engine does not do what it is asked to, or a command cannot be run.
Refused == refusals < MaxRefusals /\ refusals' = refusals + 1
Granted == UNCHANGED refusals

\* A panic in any goroutine ends the program.
Panic == program' = "crashed" /\ UNCHANGED <<user, ctx, manager, box, services>>

\* make([]ContainerName, 0, 2)
NoNames == <<>>

Init ==
    /\ program = "running" /\ cli = "prompt"
    /\ refusals = 0
    /\ starts = 0 /\ current = 0 /\ alone = {}
    /\ ctx = [g \in Generations |-> "none"]
    /\ launch = [g \in Generations |-> [c \in Containers |-> "none"]]
    /\ ContainerNames = [g \in Generations |-> NoNames]
    /\ ContainerID = [g \in Generations |-> {}]
    /\ cleaner = [g \in Generations |-> [c \in Containers |-> "none"]]
    /\ \E state \in {"absent", "stopped"} : box = [c \in Containers |-> state]
    /\ proc = [g \in Generations |-> [s \in Services |-> "none"]]
    /\ stopped = [g \in Generations |-> [s \in Services |-> 0]]

\* Nothing of generation g will act any more, unless it is cancelled.
AtRest(g) ==
    /\ \A s \in Services : proc[g][s] \in {"none", "gone"}
    /\ \A c \in Containers : ctx[g] = "cancelled" => cleaner[g][c] # "waiting"

----------------------------------------------------------------------------
(* The commands, and the signal *)

\* "start", with a new Docker manager: a second one overwrites the cancel function
\* of the first.  Nobody types it in the three seconds between the signal and the
\* end.
Start ==
    LET g == starts + 1 IN
    /\ program = "running" /\ cli = "prompt"
    /\ starts < MaxStarts
    /\ \/ Refused /\ Panic
       \/ /\ Granted
          /\ starts' = g
          /\ current' = g
          /\ alone' = alone \cup {h \in {g} : \A e \in 1..starts : AtRest(e)}
          /\ ctx' = [ctx EXCEPT ![g] = "live"]
          /\ launch' = [launch EXCEPT ![g] = [c \in Containers |-> "new"]]
          /\ cli' = "starting"
          /\ UNCHANGED <<program, ContainerNames, ContainerID, cleaner, box, services>>

Cancel(g) == ctx' = [ctx EXCEPT ![g] = "cancelled"]

Stop ==
    /\ Alive /\ cli = "prompt" /\ Granted
    /\ current # 0
    /\ Cancel(current)
    /\ UNCHANGED <<program, user, manager, box, services>>

\* "exit" tests the pointer to the variable and not the variable, calls it, and
\* leaves the loop: main waits on for a signal.
Exit ==
    /\ Alive /\ cli = "prompt" /\ Granted
    /\ \/ current = 0 /\ Panic
       \/ /\ current # 0
          /\ Cancel(current)
          /\ cli' = "left"
          /\ UNCHANGED <<program, starts, current, alone, manager, box, services>>

\* SIGINT or SIGTERM reaches main.
Interrupt ==
    /\ program = "running" /\ Granted
    /\ \/ current = 0 /\ Panic
       \/ /\ current # 0
          /\ Cancel(current)
          /\ program' = "interrupted"
          /\ UNCHANGED <<user, manager, box, services>>

Cleared ==
    /\ cli # "starting"
    /\ \A g \in Generations : ctx[g] = "cancelled" => AtRest(g)

\* main returns after it has slept.
End ==
    /\ program = "interrupted" /\ Granted
    /\ SleepSuffices => Cleared
    /\ program' = "ended"
    /\ UNCHANGED <<user, ctx, manager, box, services>>

\* "build" and "node-install", the commands of which need not end: their standard
\* error is a pipe nobody reads, and one that fills it never closes its standard
\* output, which runCommands copies to the end.
RunCommands ==
    /\ Alive /\ cli = "prompt" /\ Granted
    /\ cli' = "building"
    /\ UNCHANGED <<program, starts, current, alone, ctx, manager, box, services>>

CommandEnds ==
    /\ Alive /\ cli = "building"
    /\ \/ Refused /\ Panic
       \/ /\ cli' = "prompt" /\ Granted
          /\ UNCHANGED <<program, starts, current, alone, ctx, manager, box,
                         services>>

----------------------------------------------------------------------------
(* runningDockerService for container c of generation g *)

\* The maps are read without the mutex: when another goroutine has yet to write
\* one, it may do so at that moment, and the runtime ends the program.
MapIsWritten(g) == \E d \in Containers : launch[g][d] = "new"

\* NewDockerContainer, under the mutex.
NewDockerContainer(g, c) ==
    /\ Alive /\ launch[g][c] = "new" /\ Granted
    /\ launch' = [launch EXCEPT ![g][c] = "pulling"]
    /\ ContainerNames' = [ContainerNames EXCEPT ![g] = Append(@, c)]
    /\ UNCHANGED <<program, user, ctx, ContainerID, cleaner, box, services>>

\* PullImage, then the cleanup goroutine.
PullImage(g, c) ==
    /\ Alive /\ launch[g][c] = "pulling"
    /\ \/ (IF ctx[g] = "cancelled" THEN Granted ELSE Refused) /\ Panic
       \/ /\ ctx[g] = "live" /\ Granted
          /\ launch' = [launch EXCEPT ![g][c] = "pulled"]
          /\ cleaner' = [cleaner EXCEPT ![g][c] = "waiting"]
          /\ UNCHANGED <<program, user, ctx, ContainerNames, ContainerID, box,
                         services>>

\* Run ends with an error, or the 120 seconds have passed when it ends: the
\* select panics.  Once the context is cancelled both its cases are ready, and
\* the second ignores the cancellation.
RunFails(g, c) ==
    \/ (IF ctx[g] = "cancelled" THEN Granted ELSE Refused) /\ Panic
    \/ /\ ctx[g] = "cancelled" /\ Granted
       /\ launch' = [launch EXCEPT ![g][c] = "abandoned"]
       /\ UNCHANGED <<program, user, ctx, ContainerNames, ContainerID, cleaner,
                      box, services>>

\* Mutated form of Create: the ID of a container that exists is not recorded.
CreateForgetful(g, c) ==
    /\ Alive /\ launch[g][c] = "pulled" /\ Granted
    /\ launch' = [launch EXCEPT ![g][c] = "created"]
    /\ ContainerID' = [ContainerID EXCEPT ![g] =
                          IF box[c] = "absent" THEN @ \cup {c} ELSE @]
    /\ box' = [box EXCEPT ![c] = IF @ = "absent" THEN "stopped" ELSE @]
    /\ UNCHANGED <<program, user, ctx, ContainerNames, cleaner, services>>

\* Create: a container that exists under the name is taken over.
Create(g, c) ==
    /\ Alive /\ launch[g][c] = "pulled"
    /\ \/ MapIsWritten(g) /\ Granted /\ Panic
       \/ RunFails(g, c)
       \/ /\ ctx[g] = "live" /\ Granted
          /\ launch' = [launch EXCEPT ![g][c] = "created"]
          /\ ContainerID' = [ContainerID EXCEPT ![g] = @ \cup {c}]
          /\ box' = [box EXCEPT ![c] = IF @ = "absent" THEN "stopped" ELSE @]
          /\ UNCHANGED <<program, user, ctx, ContainerNames, cleaner, services>>

\* ContainerStart, which does nothing to a container that runs.
ContainerStart(g, c) ==
    /\ Alive /\ launch[g][c] = "created"
    /\ \/ RunFails(g, c)
       \/ /\ ctx[g] = "live" /\ Granted
          /\ launch' = [launch EXCEPT ![g][c] = "done"]
          /\ box' = [box EXCEPT ![c] = "running"]
          /\ UNCHANGED <<program, user, ctx, ContainerNames, ContainerID, cleaner,
                         services>>

\* Mutated form of Cleanup: Stop is called with the context that was cancelled.
CleanupCancelled(g, c) ==
    /\ Alive /\ Granted
    /\ cleaner[g][c] = "waiting" /\ ctx[g] = "cancelled"
    /\ cleaner' = [cleaner EXCEPT ![g][c] = "done"]
    /\ UNCHANGED <<program, user, ctx, launch, ContainerNames, ContainerID, box,
                   services>>

\* The goroutine that waits for the context to be cancelled, then calls
\* Stop(context.Background()).  Without an ID the call fails, and the message of
\* the error takes the first eight characters of the ID.
Cleanup(g, c) ==
    /\ Alive
    /\ cleaner[g][c] = "waiting" /\ ctx[g] = "cancelled"
    /\ \/ (MapIsWritten(g) \/ c \notin ContainerID[g]) /\ Granted /\ Panic
       \/ /\ c \in ContainerID[g] /\ Refused
          /\ cleaner' = [cleaner EXCEPT ![g][c] = "done"]
          /\ UNCHANGED <<program, user, ctx, launch, ContainerNames, ContainerID,
                         box, services>>
       \/ /\ c \in ContainerID[g] /\ Granted
          /\ cleaner' = [cleaner EXCEPT ![g][c] = "done"]
          /\ box' = [box EXCEPT ![c] = "stopped"]
          /\ UNCHANGED <<program, user, ctx, launch, ContainerNames, ContainerID,
                         services>>

----------------------------------------------------------------------------
(* startServices after wg.Wait, and runningService *)

Spawning(g) ==
    /\ Alive /\ cli = "starting" /\ Granted
    /\ g = current
    /\ proc' = [proc EXCEPT ![g] = [s \in Services |-> "starting"]]
    /\ cli' = "prompt"
    /\ UNCHANGED <<program, starts, current, alone, ctx, manager, box, stopped>>

\* Mutated form of StartServices: wg.Wait is missing.
StartServicesEarly(g) == Spawning(g)

StartServices(g) ==
    /\ \A c \in Containers : launch[g][c] \in {"done", "abandoned"}
    /\ Spawning(g)

SetProc(g, s, state) ==
    /\ proc' = [proc EXCEPT ![g][s] = state]
    /\ UNCHANGED <<program, user, ctx, manager, box, stopped>>

\* cmd.Start.  Without the process there is a panic, after the deferred StopAll.
StartProcess(g, s) ==
    /\ Alive /\ proc[g][s] = "starting"
    /\ \/ Granted /\ SetProc(g, s, "running")
       \/ Refused /\ SetProc(g, s, "failed")

\* Mutated form of Terminate: it waits for the process before the context.
TerminateAfterWait(g, s) ==
    /\ Alive
    /\ proc[g][s] = "ended" /\ ctx[g] = "cancelled" /\ Granted
    /\ SetProc(g, s, "gone")

\* The goroutine that signals SIGTERM when the context is cancelled.
Terminate(g, s) ==
    /\ Alive
    /\ proc[g][s] = "running" /\ ctx[g] = "cancelled" /\ Granted
    /\ SetProc(g, s, "ended")

\* A service ends by itself.  One that outlives the program is not followed.
ServiceEnds(g, s) ==
    /\ Alive
    /\ proc[g][s] = "running" /\ Granted
    /\ SetProc(g, s, "ended")

\* The goroutine that reads standard error looks at the byte behind those it has
\* read: when they fill its buffer there is none, and it panics.
ReadStdErr(g, s) ==
    /\ Alive
    /\ proc[g][s] \in {"running", "ended"} /\ Granted
    /\ proc' = [proc EXCEPT ![g][s] = "overrun"]
    /\ program' = "crashed"
    /\ UNCHANGED <<user, ctx, manager, box, stopped>>

\* runningService returns from its deferred StopAll, or goes on panicking.
Returns(g, s) ==
    \/ proc[g][s] = "failed" /\ Panic
    \/ /\ proc[g][s] = "ended"
       /\ proc' = [proc EXCEPT ![g][s] = "gone"]
       /\ stopped' = [stopped EXCEPT ![g][s] = 0]
       /\ UNCHANGED <<program, user, ctx, manager, box>>

\* Mutated form of StopAll: it stops the first container only.
StopAllReturns(g, s) ==
    /\ Alive /\ proc[g][s] \in {"ended", "failed"} /\ Granted
    /\ \/ stopped[g][s] = 1 /\ Returns(g, s)
       \/ /\ stopped[g][s] = 0
          /\ box' = [box EXCEPT ![ContainerNames[g][1]] = "stopped"]
          /\ stopped' = [stopped EXCEPT ![g][s] = 1]
          /\ UNCHANGED <<program, user, ctx, manager, proc>>

\* One container after the other, in the order of ContainerNames, until the
\* first that cannot be stopped: with a cancelled context that is the first.
StopAll(g, s) ==
    LET k == stopped[g][s] + 1
        c == ContainerNames[g][k]
    IN
    /\ Alive /\ proc[g][s] \in {"ended", "failed"}
    /\ \/ k > Len(ContainerNames[g]) /\ Granted /\ Returns(g, s)
       \/ /\ k <= Len(ContainerNames[g])
          /\ IF ctx[g] = "cancelled" THEN Granted ELSE Refused
          /\ IF c \in ContainerID[g] THEN Returns(g, s) ELSE Panic
       \/ /\ k <= Len(ContainerNames[g])
          /\ ctx[g] = "live" /\ Granted
          /\ box' = [box EXCEPT ![c] = "stopped"]
          /\ stopped' = [stopped EXCEPT ![g][s] = k]
          /\ UNCHANGED <<program, user, ctx, manager, proc>>

----------------------------------------------------------------------------

UserStep == Start \/ Stop \/ Exit \/ Interrupt \/ RunCommands

LaunchStep(g, c) ==
    \/ NewDockerContainer(g, c) \/ PullImage(g, c) \/ Create(g, c)
    \/ ContainerStart(g, c) \/ Cleanup(g, c)

ServiceStep(g, s) == StartProcess(g, s) \/ Terminate(g, s) \/ StopAll(g, s)

ProgramStep ==
    \/ End
    \/ \E g \in Generations :
          \/ StartServices(g)
          \/ \E c \in Containers : LaunchStep(g, c)
          \/ \E s \in Services : ServiceStep(g, s)

Next ==
    \/ UserStep \/ CommandEnds \/ ProgramStep
    \/ \E g \in Generations, s \in Services : ServiceEnds(g, s) \/ ReadStdErr(g, s)

Spec == Init /\ [][Next]_vars

\* The program's goroutines and processes go on; nobody need type a command, and
\* a service need not end by itself.
FairSpec == Spec /\ WF_vars(ProgramStep)

----------------------------------------------------------------------------
(* Properties *)

\* The services are started when the broker and the browsers run (main.go's
\* dockerContainerConf, services.go:54), if every earlier generation was at rest
\* at the "start" and this one was not cancelled meanwhile.  Without the first
\* condition a cleanup goroutine of the generation stopped before may stop the
\* container again that this one has just started.
ServicesFindTheirContainers ==
    [][\A g \in alone :
          StartServices(g) /\ ctx[g] = "live" =>
             \A c \in Containers : box[c] = "running"]_vars

\* The program panics only before the first "start", while containers are being
\* launched or after a signal stopped their launch, or because a command or the
\* engine refused, or because a service wrote more to its standard error than one
\* read takes: once the services have been started, stopping, interrupting and
\* crashes of services in any order do not bring it down (docker.go:222,
\* services.go:119, :168).
PanicsOnlyWhileStarting ==
    program = "crashed" =>
       \/ refusals > 0 \/ current = 0
       \/ \E g \in 1..starts, c \in Containers : launch[g][c] # "done"
       \/ \E g \in 1..starts, s \in Services : proc[g][s] = "overrun"

\* A cancelled generation comes down: all its processes end and their
\* runningServices return, and its containers are stopped unless the engine
\* refuses or a later "start" uses them.
CancelledGenerationEnds ==
    \A g \in Generations :
       ctx[g] = "cancelled" ~>
          \/ ~Alive
          \/ /\ \A s \in Services : proc[g][s] \in {"none", "gone"}
             /\ \/ starts > g \/ refusals > 0
                \/ \A c \in Containers : box[c] # "running"

\* "if one of the service crashes, docker stops all containers"
\* (services.go:110), unless the engine refuses one, or a "stop" or another
\* "start" comes in between.
ServiceCrashStopsContainers ==
    (\E g \in Generations, s \in Services : g = starts /\ proc[g][s] = "ended") ~>
       \/ ~Alive \/ cli = "starting" \/ refusals > 0
       \/ \E g \in Generations : g = starts /\ ctx[g] = "cancelled"
       \/ \A c \in Containers : box[c] # "running"

\* If the three seconds are enough for the cleanup goroutines, the program leaves
\* no container of a generation it has cancelled running when it returns
\* (main.go:68), unless the engine refused, or a later generation that was not
\* cancelled shares it.
NoContainerLeft ==
    program = "ended" /\ SleepSuffices /\ refusals = 0 =>
       \A g \in Generations, c \in Containers :
          \/ ctx[g] # "cancelled" \/ box[c] # "running"
          \/ \E h \in g..starts : ctx[h] = "live"
=============================================================================
