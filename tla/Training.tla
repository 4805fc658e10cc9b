------------------------------ MODULE Training ------------------------------
(***************************************************************************)
(* Fine-tuning jobs: TrainingManager of neural/training.py with the        *)
(* JobStore of neural/finetune.py and the /finetune handlers of            *)
(* api/routes.py.  The job itself runs at the provider (external): it goes *)
(* through OpenAI's states by itself, and the client learns of it only by  *)
(* asking.  A poll is two steps, the question and what is made of the      *)
(* answer; other polls, a cancellation or a restart come between them.     *)
(***************************************************************************)
EXTENDS Integers, FiniteSets

CONSTANTS
    JobIds,        \* bound: jobs submitted
    Pollers,       \* bound: requests that ask for, or cancel, a job
    Datasets,      \* what may be submitted: valid, supported, small, cheap
    MaxRestartsT   \* bound: restarts

VARIABLES
    job,       \* _jobs
    row,       \* ft_jobs, the durable record
    vendor,    \* the state of the provider's job
    poller,    \* the requests under way
    handed,    \* history: how often this process gave a job to on_succeeded,
               \* one for a job that it found succeeded when it started
    overlapped, \* history: jobs that two requests polled at one time, in this
               \* process
    restarts

trainVars == <<job, row, vendor, poller, handed, overlapped, restarts>>

TERMINAL == {"succeeded", "failed", "cancelled"}

NoJob == [there |-> FALSE, status |-> "queued", sent |-> FALSE]

NoPoll == [at |-> "idle", job |-> "", raw |-> ""]

TrainingInit ==
    /\ job = [j \in JobIds |-> NoJob]
    /\ row = [j \in JobIds |-> NoJob]
    /\ vendor = [j \in JobIds |-> "none"]
    /\ poller = [p \in Pollers |-> NoPoll]
    /\ handed = [j \in JobIds |-> 0]
    /\ overlapped = {}
    /\ restarts = 0

-----------------------------------------------------------------------------
\* What submit() and submit_finetune_job refuse before anything is uploaded:
\* TrainingDataset.validate, DatasetFormatter.format, the limits of size and
\* of estimate_cost, and a provider without fine_tuning_client.
Acceptable(d) == d.valid /\ d.supported /\ d.small /\ d.cheap

\* submit() up to its await: the job is listed, and not yet stored.
SubmitJob(p, j, d) ==
    /\ poller[p].at = "idle" /\ ~job[j].there /\ ~row[j].there /\ vendor[j] = "none"
    /\ Acceptable(d)
    /\ job' = [job EXCEPT ![j] = [there |-> TRUE, status |-> "queued", sent |-> FALSE]]
    /\ poller' = [poller EXCEPT ![p] = [at |-> "submitting", job |-> j, raw |-> ""]]
    /\ UNCHANGED <<row, vendor, handed, overlapped, restarts>>

Saved(j, entry) == row' = [row EXCEPT ![j] = entry]

Answer(p) == poller' = [poller EXCEPT ![p] = NoPoll]

\* create_fine_tune returns: the provider has the job, and it is saved.
Submitted(p) ==
    /\ poller[p].at = "submitting"
    /\ LET j == poller[p].job
           e == [there |-> TRUE, status |-> "queued", sent |-> TRUE]
       IN  /\ vendor' = [vendor EXCEPT ![j] = "validating_files"]
           /\ job' = [job EXCEPT ![j] = e]
           /\ Saved(j, e)
    /\ Answer(p)
    /\ UNCHANGED <<handed, overlapped, restarts>>

\* It raises: the job is kept as failed, whether or not the provider has it.
SubmitFails(p, got) ==
    /\ poller[p].at = "submitting"
    /\ LET j == poller[p].job
           e == [job[j] EXCEPT !.status = "failed"]
       IN  /\ vendor' = [vendor EXCEPT ![j] = IF got THEN "validating_files" ELSE "none"]
           /\ job' = [job EXCEPT ![j] = e]
           /\ Saved(j, e)
    /\ Answer(p)
    /\ UNCHANGED <<handed, overlapped, restarts>>

-----------------------------------------------------------------------------
\* OpenAIFineTuningClient.get_fine_tune: a state it does not know is running.
Mapped(s) ==
    CASE s = "validating_files" -> "validating"
      [] s \in {"queued", "running"} \union TERMINAL -> s
      [] OTHER -> "running"

Polling(p, j) == poller[p].job = j /\ poller[p].at \in {"asking", "told"}

\* get_finetune_job: a job not known to be over is asked about; poll() raises
\* for one that has no provider_job_id.
PollJob(p, j) ==
    /\ poller[p].at = "idle"
    /\ job[j].there /\ job[j].sent /\ job[j].status \notin TERMINAL
    /\ poller' = [poller EXCEPT ![p] = [at |-> "asking", job |-> j, raw |-> ""]]
    /\ overlapped' = IF \E q \in Pollers : Polling(q, j) THEN overlapped \union {j} ELSE overlapped
    /\ UNCHANGED <<job, row, vendor, handed, restarts>>

VendorAnswers(p) ==
    /\ poller[p].at = "asking"
    /\ LET j == poller[p].job
       IN  poller' = [poller EXCEPT ![p] =
                         [at |-> "told", job |-> j, raw |-> Mapped(vendor[j])]]
    /\ UNCHANGED <<job, row, vendor, handed, overlapped, restarts>>

\* Mutant: was_done is worked out from the status already assigned.
TellsHookLate(j, raw) == raw = "succeeded" /\ raw \notin TERMINAL

\* poll(): on_succeeded is called when the job was not done before this answer.
TellsHook(j, raw) == raw = "succeeded" /\ job[j].status \notin TERMINAL

\* The rest of poll(), with get_training_manager's hook: the status is what the
\* provider said when it was asked.
PollReturns(p) ==
    /\ poller[p].at = "told"
    /\ LET j == poller[p].job
           e == [job[j] EXCEPT !.status = poller[p].raw]
       IN  /\ job' = [job EXCEPT ![j] = e]
           /\ Saved(j, e)
           /\ handed' = [handed EXCEPT ![j] = @ + (IF TellsHook(j, poller[p].raw) THEN 1 ELSE 0)]
    /\ Answer(p)
    /\ UNCHANGED <<vendor, overlapped, restarts>>

\* cancel_finetune_job and cancel(), up to the provider's answer.
CancelJob(p, j) ==
    /\ poller[p].at = "idle"
    /\ job[j].there /\ job[j].sent /\ job[j].status \in {"queued", "running"}
    /\ poller' = [poller EXCEPT ![p] = [at |-> "cancelling", job |-> j, raw |-> ""]]
    /\ UNCHANGED <<job, row, vendor, handed, overlapped, restarts>>

\* cancel_fine_tune: the provider cancels what is not over, and refuses the rest.
CancelTaken(j) == vendor[j] \notin TERMINAL

VendorCancels(p) ==
    /\ poller[p].at = "cancelling"
    /\ IF CancelTaken(poller[p].job)
       THEN /\ vendor' = [vendor EXCEPT ![poller[p].job] =
                             IF @ \in TERMINAL THEN @ ELSE "cancelled"]
            /\ poller' = [poller EXCEPT ![p] =
                             [at |-> "cancelled", job |-> poller[p].job, raw |-> ""]]
       ELSE /\ Answer(p)
            /\ UNCHANGED vendor
    /\ UNCHANGED <<job, row, handed, overlapped, restarts>>

CancelReturns(p) ==
    /\ poller[p].at = "cancelled"
    /\ LET j == poller[p].job
           e == [job[j] EXCEPT !.status = "cancelled"]
       IN  job' = [job EXCEPT ![j] = e] /\ Saved(j, e)
    /\ Answer(p)
    /\ UNCHANGED <<vendor, handed, overlapped, restarts>>

-----------------------------------------------------------------------------
\* The provider's job moves on by itself (external).
VendorMoves(j) ==
    /\ \/ vendor[j] = "validating_files" /\ vendor' = [vendor EXCEPT ![j] = "queued"]
       \/ vendor[j] \in {"queued", "paused"} /\ vendor' = [vendor EXCEPT ![j] = "running"]
       \/ /\ vendor[j] = "running"
          /\ \E s \in {"paused", "succeeded", "failed"} : vendor' = [vendor EXCEPT ![j] = s]
    /\ UNCHANGED <<job, row, poller, handed, overlapped, restarts>>

\* The process is killed and started again: TrainingManager restores the rows;
\* requests under way, and jobs that were never saved, are gone.
RestartTraining ==
    /\ restarts < MaxRestartsT
    /\ restarts' = restarts + 1
    /\ job' = row
    /\ poller' = [p \in Pollers |-> NoPoll]
    /\ handed' = [j \in JobIds |-> IF row[j].there /\ row[j].status = "succeeded" THEN 1 ELSE 0]
    /\ overlapped' = {}
    /\ UNCHANGED <<row, vendor>>

TrainingNext ==
    \/ RestartTraining
    \/ \E j \in JobIds : VendorMoves(j)
    \/ \E p \in Pollers :
          \/ Submitted(p) \/ VendorAnswers(p) \/ PollReturns(p)
          \/ VendorCancels(p) \/ CancelReturns(p)
          \/ \E got \in BOOLEAN : SubmitFails(p, got)
          \/ \E j \in JobIds : \/ PollJob(p, j) \/ CancelJob(p, j)
                               \/ \E d \in Datasets : SubmitJob(p, j, d)

TrainingSpec == TrainingInit /\ [][TrainingNext]_trainVars

-----------------------------------------------------------------------------
\* What a job is reported and stored as, once it is over, is what became of it
\* at the provider, although answers are applied in any order, cancellations
\* cross them and the process is restarted between any two steps.  A job that
\* this process saw succeed has been handed to on_succeeded, which is what
\* makes its model routable, and it was handed over once, as the comment of
\* on_succeeded says, unless two polls of the job overlapped: the late answer of
\* one, "running", makes a job that the other saw succeed look unfinished, and
\* the next poll hands it over again.
TrainingSound ==
    \A j \in JobIds :
        /\ \A e \in {job[j], row[j]} :
              (e.there /\ e.sent /\ e.status \in TERMINAL) => e.status = vendor[j]
        /\ job[j].status = "succeeded" => handed[j] >= 1
        /\ j \notin overlapped => handed[j] <= 1

=============================================================================
