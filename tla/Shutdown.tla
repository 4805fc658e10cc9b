------------------------------ MODULE Shutdown ------------------------------
(***************************************************************************)
(* Ending the gateway: agents/emergency_shutdown.py, coreai/drain.py, the  *)
(* /admin/shutdown handler of api/routes.py, the signal handlers of        *)
(* coreai/kernel.py, the lifespan of api/server.py and the engine of       *)
(* database/db.py.                                                         *)
(*                                                                         *)
(*   accepting  DrainController._accepting                                 *)
(*   visit      HTTP requests; those "in" or "posted" are in flight        *)
(*   bg         background agent tasks: "stopping" ones are cancelled and  *)
(*              have not ended                                             *)
(*   agentsUp, kernelUp, dbOpen                                            *)
(*              the agents, the kernel and the engine not torn down        *)
(*   closer     what tears down: an EmergencyShutdown and its trigger()    *)
(*              coroutine, or the lifespan; todo holds the branches it     *)
(*              awaits, each the sequence of its remaining stages; left    *)
(*              the workers TaskRunner.shutdown() has still to drop, and   *)
(*              reaps the one it has popped, cancelled and waits for       *)
(*   shared     app_state["shutdown"]                                      *)
(*   owner      who handles SIGTERM: the kernel, which takes the signal    *)
(*              over from the server when it may (the main thread), or the *)
(*              server                                                     *)
(*   sigterm    a SIGTERM is pending                                       *)
(*   proc       the process: "up", "closing" (no longer listening), "gone" *)
(*   hurried    history: something was not waited for                      *)
(*                                                                         *)
(* Taken as one: a worker and the task it runs.  A worker with nothing to  *)
(* do ends as soon as it is cancelled, and is left out.                    *)
(***************************************************************************)
EXTENDS Integers, Sequences

CONSTANTS
    PlainReqs, AdminReqs,   \* requests: /v1/admin/ is served while draining
    Jobs,                   \* bound: background tasks
    Shutdowns,              \* bound: EmergencyShutdown objects
    PostedModes,            \* the modes asked for
    Lifespan,
    NoShutdown

Reqs == PlainReqs \cup AdminReqs
Closers == Shutdowns \cup {Lifespan}

ASSUME ShutdownAssumption ==
    PlainReqs \cap AdminReqs = {} /\ Lifespan \notin Shutdowns /\ NoShutdown \notin Closers

VARIABLES accepting, visit, bg, agentsUp, kernelUp, dbOpen, closer, shared, owner,
          sigterm, proc, hurried

downVars == <<accepting, visit, bg, agentsUp, kernelUp, dbOpen, closer, shared, owner,
              sigterm, proc, hurried>>
parts == <<agentsUp, kernelUp, dbOpen>>

Modes == {"graceful", "immediate", "forced"}

ASSUME PostedModesAssumption == PostedModes \subseteq Modes

Closing(at, mode, todo) == [at |-> at, mode |-> mode, todo |-> todo, left |-> {}, reaps |-> {}]

ShutdownInit ==
    /\ accepting = TRUE
    /\ visit = [r \in Reqs |-> "out"]
    /\ bg = [j \in Jobs |-> "none"]
    /\ agentsUp = TRUE /\ kernelUp = TRUE /\ dbOpen = TRUE
    /\ closer = [c \in Closers |-> Closing("none", "none", {})]
    /\ shared = NoShutdown
    /\ owner \in {"kernel", "server"}
    /\ sigterm = FALSE /\ proc = "up" /\ hurried = FALSE

InFlight == {r \in Reqs : visit[r] \in {"in", "posted"}}

-----------------------------------------------------------------------------
\* DrainMiddleware

\* Mutant: a draining gateway still serves everybody.
ServedAlways(r) == proc = "up"

Served(r) == proc = "up" /\ (accepting \/ r \in AdminReqs)

Enter(r) ==
    /\ visit[r] = "out" /\ proc = "up"
    /\ visit' = [visit EXCEPT ![r] = IF Served(r) THEN "in" ELSE "done"]
    /\ UNCHANGED <<accepting, bg, parts, closer, shared, owner, sigterm, proc, hurried>>

Leave(r) ==
    /\ r \in InFlight
    /\ visit' = [visit EXCEPT ![r] = "done"]
    /\ UNCHANGED <<accepting, bg, parts, closer, shared, owner, sigterm, proc, hurried>>

\* A request in flight gives an agent something to do; the work ends by itself.
StartJob(j) ==
    /\ bg[j] = "none" /\ agentsUp /\ InFlight \cap PlainReqs # {}
    /\ bg' = [bg EXCEPT ![j] = "running"]
    /\ UNCHANGED <<accepting, visit, parts, closer, shared, owner, sigterm, proc, hurried>>

JobEnds(j) ==
    /\ bg[j] \in {"running", "stopping"}
    /\ bg' = [bg EXCEPT ![j] = "done"]
    /\ UNCHANGED <<accepting, visit, parts, closer, shared, owner, sigterm, proc, hurried>>

-----------------------------------------------------------------------------
\* trigger_shutdown(): refused only once the shared trigger() has begun.
InProgress(c) == closer[c].at \in {"work", "over"}

PostShutdown(r, s, mode) ==
    /\ r \in AdminReqs /\ visit[r] = "in" /\ closer[s].at = "none"
    /\ IF shared = NoShutdown THEN TRUE ELSE ~InProgress(shared)
    /\ shared' = s
    /\ visit' = [visit EXCEPT ![r] = "posted"]
    /\ closer' = [closer EXCEPT ![s] = Closing("new", mode, {})]
    /\ UNCHANGED <<accepting, bg, parts, owner, sigterm, proc, hurried>>

\* The stages of each mode.
Branches(mode) ==
    CASE mode = "graceful"  -> {<<"idle", "tasks", "agents", "flush", "hooks", "db">>}
      [] mode = "immediate" -> {<<"idle", "tasks", "agents", "flush", "db">>}
      [] mode = "forced"    -> {<<"tasks", "agents">>, <<"kernel">>, <<"db">>}
      [] mode = "lifespan"  -> {<<"tasks", "agents", "kernel", "db">>}

\* The first step of trigger(): the intake is closed before anything else.
TriggerBegins(s) ==
    /\ closer[s].at = "new"
    /\ closer' = [closer EXCEPT ![s] =
                     Closing("work", @.mode, Branches(@.mode))]
    /\ accepting' = FALSE
    /\ hurried' = (hurried \/ closer[s].mode = "forced")
    /\ UNCHANGED <<visit, bg, parts, shared, owner, sigterm, proc>>

\* Branch b goes on to its next stage.
Onward(todo, b) == (todo \ {b}) \cup IF Len(b) = 1 THEN {} ELSE {Tail(b)}

\* What the stages wait for: the drain controller and, in Kernel.flush(), the
\* running tasks.
Flushed == \A j \in Jobs : bg[j] # "running"
Ready(stage) ==
    CASE stage = "idle"  -> InFlight = {}
      [] stage = "flush" -> Flushed
      [] OTHER -> TRUE

\* What they do: shutdown_all() of the agents, the kernel's terminate() and close_db().
TornDown(stage) ==
    /\ agentsUp' = (agentsUp /\ stage # "agents")
    /\ kernelUp' = (kernelUp /\ stage # "kernel")
    /\ dbOpen' = (dbOpen /\ stage # "db")

Stopping == {"tasks", "drop"}

StageDone(c) ==
    /\ closer[c].at = "work"
    /\ \E b \in closer[c].todo :
          /\ Head(b) \notin Stopping /\ Ready(Head(b))
          /\ TornDown(Head(b))
          /\ closer' = [closer EXCEPT ![c].todo = Onward(@, b)]
    /\ UNCHANGED <<accepting, visit, bg, shared, owner, sigterm, proc, hurried>>

\* A coroutine that waits for a cancelled worker.  No timeout makes it go on before
\* the worker ends: wait_for() cancels the gather, and waits for it.
Awaiting(c) == \E j \in closer[c].reaps : bg[j] = "stopping"

\* What the runner's shutdown() of closer c has before it next.
RunnerAt(c, todo, left, reaps) == [closer[c] EXCEPT !.todo = todo, !.left = left, !.reaps = reaps]

\* drop_agent(): the worker is popped from the runner, cancelled and waited for.
Drop(c, b, j, left) ==
    LET todo == (closer[c].todo \ {b}) \cup {<<"drop">> \o Tail(b)}
    IN  /\ bg' = [bg EXCEPT ![j] = "stopping"]
        /\ closer' = [closer EXCEPT ![c] = RunnerAt(c, todo, left \ {j}, {j})]

\* The stage of the tasks is over.
Leaves(c, b) == closer' = [closer EXCEPT ![c] = RunnerAt(c, Onward(closer[c].todo, b), {}, {})]

\* TaskRunner.shutdown(): one worker after the other, of those there were when it
\* began.  One that another shutdown has popped is not waited for.
DropsTasks(c) ==
    /\ closer[c].at = "work" /\ ~Awaiting(c)
    /\ \E b \in closer[c].todo :
          LET of == IF Head(b) = "tasks" THEN Jobs ELSE closer[c].left
              left == {j \in of : bg[j] = "running"}
          IN  /\ Head(b) \in Stopping
              /\ \/ \E j \in left : Drop(c, b, j, left)
                 \/ left = {} /\ Leaves(c, b) /\ UNCHANGED bg
    /\ UNCHANGED <<accepting, visit, parts, shared, owner, sigterm, proc, hurried>>

\* A wait that has a timeout of its own goes on without what it waited for:
\* wait_idle(), flush(), and in a forced shutdown the tasks, the agents and the kernel.
OwnTimeout(mode, stage) ==
    \/ mode \in {"graceful", "immediate"} /\ stage \in {"idle", "flush"}
    \/ mode = "forced" /\ stage \in {"drop", "agents", "kernel"}

StageGivesUp(c) ==
    /\ closer[c].at = "work"
    /\ \E b \in closer[c].todo :
          /\ OwnTimeout(closer[c].mode, Head(b))
          /\ \/ Head(b) = "drop" /\ ~Awaiting(c) /\ Leaves(c, b)
             \/ Head(b) # "drop" /\ closer' = [closer EXCEPT ![c].todo = Onward(@, b)]
    /\ hurried' = TRUE
    /\ UNCHANGED <<accepting, visit, bg, parts, shared, owner, sigterm, proc>>

\* The timeout of the whole mode: the next one starts over.
FallsBack(s) ==
    /\ closer[s].at = "work" /\ closer[s].todo # {} /\ ~Awaiting(s)
    /\ closer[s].mode \in {"graceful", "immediate"}
    /\ LET next == IF closer[s].mode = "graceful" THEN "immediate" ELSE "forced"
       IN  closer' = [closer EXCEPT ![s] = Closing("work", next, Branches(next))]
    /\ hurried' = TRUE
    /\ UNCHANGED <<accepting, visit, bg, parts, shared, owner, sigterm, proc>>

\* "Shutdown handler raised - forcing exit".
TriggerRaises(s) ==
    /\ closer[s].at = "work" /\ closer[s].mode = "graceful"
    /\ \E b \in closer[s].todo : closer[s].todo = {b} /\ Head(b) \in {"agents", "flush"}
    /\ closer' = [closer EXCEPT ![s] = Closing("over", @.mode, {})]
    /\ sigterm' = TRUE
    /\ UNCHANGED <<accepting, visit, bg, parts, shared, owner, proc, hurried>>

\* Mutant: only an exception makes the process exit.
TriggerExitsNot(s) ==
    /\ closer[s].at = "work" /\ closer[s].todo = {} /\ sigterm
    /\ UNCHANGED downVars

\* exit_fn: the process sends itself a SIGTERM.
TriggerExits(s) ==
    /\ closer[s].at = "work" /\ closer[s].todo = {}
    /\ closer' = [closer EXCEPT ![s].at = "over"]
    /\ sigterm' = TRUE
    /\ UNCHANGED <<accepting, visit, bg, parts, shared, owner, proc, hurried>>

-----------------------------------------------------------------------------
\* A SIGTERM from outside; who handles the signal decides what it does.
OsSignal ==
    /\ ~sigterm /\ proc = "up"
    /\ sigterm' = TRUE
    /\ UNCHANGED <<accepting, visit, bg, parts, closer, shared, owner, proc, hurried>>

KernelHandles ==
    /\ sigterm /\ owner = "kernel"
    /\ sigterm' = FALSE
    /\ kernelUp' = FALSE
    /\ UNCHANGED <<accepting, visit, bg, agentsUp, dbOpen, closer, shared, owner, proc, hurried>>

ServerHandles ==
    /\ sigterm /\ owner = "server"
    /\ sigterm' = FALSE
    /\ proc' = "closing"
    /\ UNCHANGED <<accepting, visit, bg, parts, closer, shared, owner, hurried>>

\* The server waits for its responses and runs the end of lifespan().
LifespanEnds ==
    /\ proc = "closing" /\ InFlight = {} /\ closer[Lifespan].at = "none"
    /\ closer' = [closer EXCEPT ![Lifespan] = Closing("work", "lifespan", Branches("lifespan"))]
    /\ UNCHANGED <<accepting, visit, bg, parts, shared, owner, sigterm, proc, hurried>>

ProcessEnds ==
    /\ closer[Lifespan].at = "work" /\ closer[Lifespan].todo = {}
    /\ closer' = [closer EXCEPT ![Lifespan].at = "over"]
    /\ proc' = "gone"
    /\ UNCHANGED <<accepting, visit, bg, parts, shared, owner, sigterm, hurried>>

\* What the loop does next for a closer, and for the process.
CloserStep(c) ==
    \/ StageDone(c) \/ DropsTasks(c) \/ StageGivesUp(c)
    \/ c \in Shutdowns /\ (TriggerBegins(c) \/ FallsBack(c) \/ TriggerExits(c))

ProcessStep == KernelHandles \/ ServerHandles \/ LifespanEnds \/ ProcessEnds

ShutdownNext ==
    /\ proc # "gone"
    /\ \/ \E r \in Reqs : Enter(r) \/ Leave(r)
       \/ \E j \in Jobs : StartJob(j) \/ JobEnds(j)
       \/ \E r \in AdminReqs, s \in Shutdowns, mode \in PostedModes : PostShutdown(r, s, mode)
       \/ \E s \in Shutdowns : TriggerRaises(s)
       \/ \E c \in Closers : CloserStep(c)
       \/ OsSignal \/ ProcessStep

ShutdownSpec == ShutdownInit /\ [][ShutdownNext]_downVars

-----------------------------------------------------------------------------
\* Unless a shutdown was forced or a wait timed out, the engine is disposed of
\* when no ordinary request is being served and no agent task is running, however
\* the intake, two shutdowns and a signal are ordered: "stop accepting requests and
\* wait for in-flight ones before tearing subsystems down".  A task that is cancelled
\* and has not ended is then one that another shutdown waits for: TaskRunner.shutdown()
\* knows only the workers that nobody has popped.
QuietClose ==
    ~dbOpen /\ ~hurried =>
        /\ InFlight \cap PlainReqs = {}
        /\ \A j \in Jobs :
              /\ bg[j] # "running"
              /\ bg[j] = "stopping" => \E c \in Closers : closer[c].at = "work" /\ j \in closer[c].reaps

\* A shutdown that was accepted asks the process to exit, even when requests or
\* background tasks never end, unless the process is gone before; as long as a task
\* that is cancelled ends.
ExitRequested ==
    \A s \in Shutdowns : closer[s].at # "none" ~> closer[s].at = "over" \/ proc = "gone"

\* api/routes.py, of the SIGTERM that ends a shutdown: "Ask the server to exit cleanly
\* (uvicorn finishes its own shutdown)".  After a shutdown has asked for it, the
\* process ends.
ShutdownEnds == \A s \in Shutdowns : closer[s].at = "over" ~> proc = "gone"
=============================================================================
