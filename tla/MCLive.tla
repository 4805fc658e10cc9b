------------------------------ MODULE MCLive ------------------------------
(***************************************************************************)
(* What must come to an end: the requests of the router, and the gateway   *)
(* itself.  The two share no variable, so a behaviour is about one of      *)
(* them, chosen in the initial state; fairness is that of the one.         *)
(***************************************************************************)
EXTENDS Routing, Shutdown

CONSTANT Foci    \* the components to check

VARIABLE focus

LiveInit ==
    /\ focus \in Foci /\ Init /\ ShutdownInit
    /\ focus = "routing" => owner = "server"

LiveNext ==
    \/ focus = "routing" /\ Next /\ UNCHANGED <<downVars, focus>>
    \/ focus = "shutdown" /\ ShutdownNext /\ UNCHANGED <<vars, focus>>

\* As in Routing!FairSpec.
RoutingFair ==
    /\ WF_vars(focus = "routing" /\ Tick)
    /\ \A r \in Requests :
        /\ WF_vars(focus = "routing" /\ ReqStep(r))
        /\ \A i \in 1..2 : WF_vars(focus = "routing" /\ LegStep(r, i))

\* The loop goes on scheduling the coroutines, timers fire, the engine's dispose
\* returns, and a task that is cancelled ends.  Nothing is assumed of requests, nor of
\* background work that is not cancelled.
ClosingFair ==
    /\ \A c \in Closers : WF_downVars(focus = "shutdown" /\ proc # "gone" /\ CloserStep(c))
    /\ WF_downVars(focus = "shutdown" /\ proc # "gone" /\ ProcessStep)
    /\ \A j \in Jobs : WF_downVars(focus = "shutdown" /\ proc # "gone"
                                   /\ bg[j] = "stopping" /\ JobEnds(j))

LiveSpec ==
    /\ LiveInit
    /\ [][LiveNext]_<<vars, downVars, focus>>
    /\ RoutingFair /\ ClosingFair

\* Requests and background tasks that end as well.
ExitSpec ==
    /\ LiveSpec
    /\ \A r \in Reqs : WF_downVars(focus = "shutdown" /\ proc # "gone" /\ Leave(r))
    /\ \A j \in Jobs : WF_downVars(focus = "shutdown" /\ proc # "gone" /\ JobEnds(j))
=============================================================================
