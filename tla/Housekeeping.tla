---------------------------- MODULE Housekeeping ----------------------------
(***************************************************************************)
(* Two helpers of the kernel: the scheduler of background jobs             *)
(* (coreai/scheduler.py) and the context windows of the agents             *)
(* (coreai/memory_manager.py).  They share nothing.                        *)
(*                                                                         *)
(*   jobsOn    _running: whether the loop goes round                       *)
(*   jobs      _jobs: [enabled, next, ran, made], by name                  *)
(*   tasks     the tasks of _run_job(): the name and the make of their job *)
(*   totals    _total_runs and _total_errors together                      *)
(*   started   how many times a job was started                            *)
(*   broken    how many of those were cancelled, which nothing counts      *)
(*   looped    when the loop last started each job                         *)
(*   jobNow    the time                                                    *)
(*                                                                         *)
(*   windows   _windows: the messages of each agent, [no, size]            *)
(*   prompts   the agents whose window has a system prompt                 *)
(*   added     _total_messages_added                                       *)
(*   trims     _total_trims                                                *)
(*   taken     how many messages clear() and drop() took                   *)
(***************************************************************************)
EXTENDS Integers, Sequences, FiniteSets, SequencesExt

CONSTANTS
    JobNames, JobInterval, MaxJobNow, MaxStarted, MaxMade,   \* the last three are bounds
    WindowOwners, Sizes, WINDOW_TOKENS, MIN_KEEP, PROMPT_TOKENS,
    MaxAdded                                          \* bound: messages added

ASSUME HousekeepingAssumption ==
    /\ JobInterval \in Nat \ {0} /\ MIN_KEEP \in Nat \ {0}
    /\ Sizes \subseteq Nat \ {0} /\ WINDOW_TOKENS \in Nat /\ PROMPT_TOKENS \in Nat

VARIABLES jobsOn, jobs, tasks, totals, started, broken, looped, jobNow,
          windows, prompts, added, trims, taken

jobVars == <<jobsOn, jobs, tasks, totals, started, broken, looped, jobNow>>
windowVars == <<windows, prompts, added, trims, taken>>

-----------------------------------------------------------------------------
JobsInit ==
    /\ jobsOn = FALSE /\ jobs = << >> /\ tasks = << >> /\ totals = 0 /\ started = 0 /\ broken = 0
    /\ looped = [n \in JobNames |-> -JobInterval] /\ jobNow = 0

\* How many Jobs were made, as far as any is still known
Made == Max({0} \cup {jobs[n].made : n \in DOMAIN jobs} \cup {tasks[i].made : i \in DOMAIN tasks})

StartJobs ==
    jobsOn' = TRUE /\ UNCHANGED <<jobs, tasks, totals, started, broken, looped, jobNow>>

\* stop() cancels the loop; the tasks it started go on.
StopJobs ==
    jobsOn /\ jobsOn' = FALSE
    /\ UNCHANGED <<jobs, tasks, totals, started, broken, looped, jobNow>>

\* register(): a job of that name is replaced by a new one.
Register(n, atOnce) ==
    /\ Made < MaxMade
    /\ jobs' = [m \in DOMAIN jobs \cup {n} |->
           IF m = n THEN [enabled |-> TRUE, next |-> IF atOnce THEN jobNow ELSE jobNow + JobInterval,
                          ran |-> 0, made |-> Made + 1]
           ELSE jobs[m]]
    /\ looped' = [looped EXCEPT ![n] = -JobInterval]
    /\ UNCHANGED <<jobsOn, tasks, totals, started, broken, jobNow>>

Unregister(n) ==
    /\ n \in DOMAIN jobs
    /\ jobs' = [m \in DOMAIN jobs \ {n} |-> jobs[m]]
    /\ UNCHANGED <<jobsOn, tasks, totals, started, broken, looped, jobNow>>

SetEnabled(n, on) ==
    /\ n \in DOMAIN jobs /\ jobs[n].enabled # on
    /\ jobs' = [jobs EXCEPT ![n].enabled = on]
    /\ UNCHANGED <<jobsOn, tasks, totals, started, broken, looped, jobNow>>

\* Mutant: a job is scheduled when it has ended, not when it starts.
ScheduledLate(n) == jobs
Scheduled(n) == [jobs EXCEPT ![n].next = jobNow + JobInterval]

StartTask(n) ==
    /\ started < MaxStarted
    /\ started' = started + 1
    /\ jobs' = Scheduled(n)
    /\ tasks' = Append(tasks, [name |-> n, made |-> jobs[n].made])

\* is_due(), on a round of the loop; the task begins before the next round.
LoopStarts(n) ==
    /\ jobsOn /\ n \in DOMAIN jobs /\ jobs[n].enabled /\ jobNow >= jobs[n].next
    /\ StartTask(n)
    /\ looped' = [looped EXCEPT ![n] = jobNow]
    /\ UNCHANGED <<jobsOn, totals, broken, jobNow>>

RunNow(n) ==
    /\ n \in DOMAIN jobs
    /\ StartTask(n)
    /\ UNCHANGED <<jobsOn, totals, broken, looped, jobNow>>

\* A job ends, in either way: the counts of its own Job and the totals.
TaskEnds(i) ==
    LET t == tasks[i]
        own == t.name \in DOMAIN jobs /\ jobs[t.name].made = t.made
    IN  /\ tasks' = RemoveAt(tasks, i)
        /\ totals' = totals + 1
        /\ jobs' = IF own THEN [jobs EXCEPT ![t.name].ran = @ + 1] ELSE jobs
        /\ UNCHANGED <<jobsOn, started, broken, looped, jobNow>>

\* A job is cancelled, with the caller of run_now() or by what it awaits:
\* CancelledError is no Exception, so _run_job() counts neither a run nor an error.
TaskCancelled(i) ==
    /\ tasks' = RemoveAt(tasks, i)
    /\ broken' = broken + 1
    /\ UNCHANGED <<jobsOn, jobs, totals, started, looped, jobNow>>

JobTick == jobNow < MaxJobNow /\ jobNow' = jobNow + 1
           /\ UNCHANGED <<jobsOn, jobs, tasks, totals, started, broken, looped>>

JobsNext ==
    \/ StartJobs \/ StopJobs \/ JobTick
    \/ \E n \in JobNames :
          \/ \E atOnce \in BOOLEAN : Register(n, atOnce)
          \/ Unregister(n)
          \/ \E on \in BOOLEAN : SetEnabled(n, on)
          \/ LoopStarts(n) \/ RunNow(n)
    \/ \E i \in DOMAIN tasks : TaskEnds(i) \/ TaskCancelled(i)

JobsSpec == JobsInit /\ [][JobsNext]_jobVars

-----------------------------------------------------------------------------
WindowsInit ==
    /\ windows = << >> /\ prompts = {} /\ added = 0 /\ trims = 0 /\ taken = 0

\* token_count(): the messages and the system prompt
Sized(ms, prompt) == FoldSeq(LAMBDA m, n : n + m.size, prompt, ms)
Tokens(a, ms) == Sized(ms, IF a \in prompts THEN PROMPT_TOKENS ELSE 0)
Fits(a, ms) == Tokens(a, ms) <= WINDOW_TOKENS \/ Len(ms) <= MIN_KEEP

\* _trim(): from the oldest, while it is over the limit and longer than that
Trimmed(a, ms) ==
    LET n == CHOOSE k \in 0..Len(ms) :
                /\ Fits(a, SubSeq(ms, k + 1, Len(ms)))
                /\ \A j \in 0..(k - 1) : ~Fits(a, SubSeq(ms, j + 1, Len(ms)))
    IN  SubSeq(ms, n + 1, Len(ms))

WindowOf(a) == IF a \in DOMAIN windows THEN windows[a] ELSE << >>
WithWindow(a, ms) == [o \in DOMAIN windows \cup {a} |-> IF o = a THEN ms ELSE windows[o]]

\* add_message() and store(); get_or_create()
AddMessage(a, size) ==
    LET longer == Append(WindowOf(a), [no |-> added + 1, size |-> size])
        kept == Trimmed(a, longer)
    IN  /\ added < MaxAdded /\ added' = added + 1
        /\ windows' = WithWindow(a, kept)
        /\ trims' = trims + Len(longer) - Len(kept)
        /\ UNCHANGED <<prompts, taken>>

\* set_system_prompt() does not trim.
SetSystemPrompt(a) ==
    /\ a \notin prompts
    /\ prompts' = prompts \cup {a} /\ windows' = WithWindow(a, WindowOf(a))
    /\ UNCHANGED <<added, trims, taken>>

ClearWindow(a) ==
    /\ a \in DOMAIN windows
    /\ windows' = WithWindow(a, << >>) /\ taken' = taken + Len(windows[a])
    /\ UNCHANGED <<prompts, added, trims>>

DropWindow(a) ==
    /\ a \in DOMAIN windows
    /\ windows' = [o \in DOMAIN windows \ {a} |-> windows[o]]
    /\ prompts' = prompts \ {a} /\ taken' = taken + Len(windows[a])
    /\ UNCHANGED <<added, trims>>

WindowsNext ==
    \E a \in WindowOwners :
        \/ \E size \in Sizes : AddMessage(a, size)
        \/ SetSystemPrompt(a) \/ ClearWindow(a) \/ DropWindow(a)

WindowsSpec == WindowsInit /\ [][WindowsNext]_windowVars

-----------------------------------------------------------------------------
\* The runs that jobs have counted, and the messages in windows, one by one.
RunsCounted == UNION {{n} \X (1..jobs[n].ran) : n \in DOMAIN jobs}
MessagesKept == UNION {{a} \X (1..Len(windows[a])) : a \in DOMAIN windows}

\* Whatever is registered, replaced or stopped meanwhile, every start of a job
\* is running, was counted or was cancelled, no job counts another's runs, and
\* the loop starts one job no sooner than an interval after it last did
\* (_loop(), _run_job()).
JobsSound ==
    /\ started = totals + broken + Len(tasks)
    /\ Cardinality(RunsCounted) <= totals
    /\ \A n \in DOMAIN jobs : jobs[n].next >= looped[n] + JobInterval

\* A window keeps the latest messages of its agent in order, is over its limit
\* only while it has MIN_KEEP messages or fewer or a prompt was set since,
\* and no message leaves uncounted (add_message(), _trim()).
WindowsSound ==
    /\ \A a \in DOMAIN windows :
          /\ \A i, j \in DOMAIN windows[a] : i < j => windows[a][i].no < windows[a][j].no
          /\ Fits(a, windows[a]) \/ a \in prompts
    /\ added = trims + taken + Cardinality(MessagesKept)

\* The kernel's helpers lose nothing but cancelled jobs: neither a run of a
\* scheduled job that ended nor a message of an agent's window.
HousekeepingSound == JobsSound /\ WindowsSound
=============================================================================
