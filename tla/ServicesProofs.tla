--------------------------- MODULE ServicesProofs ---------------------------
(***************************************************************************)
(* The services beside the gateway, for any number of jobs and items.      *)
(*                                                                         *)
(* Fine-tuning.  A job that is over at the provider stays as it is, so an  *)
(* answer that says a job is over stays true however late it is applied;   *)
(* and requests are only ever about jobs that the provider has, or about   *)
(* one that a single request is submitting.                                *)
(*                                                                         *)
(* The agent queue.  An item is in one place, the call that submits it,    *)
(* the queue or its coroutine; every action moves one item and leaves the  *)
(* others where they are; and an item that is somewhere has a try left.    *)
(*                                                                         *)
(* Local models.  A child keeps its model for good, so that whoever holds  *)
(* on to one, dead or alive, holds on to one of the right model.  Threads  *)
(* that somebody awaits run under the lock, so one of them at most has a   *)
(* place left to fill, beside those that were cancelled.  As long as no    *)
(* two pulls overlap, all pulls but one are idle and the file renamed is   *)
(* the one verified.                                                       *)
(*                                                                         *)
(* A run's history.  Compacting keeps the task, a note and the messages    *)
(* from where a turn starts, so that every result stays behind its call;   *)
(* what it keeps fits the window, or is one turn that cannot be cut.       *)
(***************************************************************************)
EXTENDS Training, AgentQueue, LocalRuntime, Context, FiniteSetTheorems, SequenceTheorems,
        WellFoundedInduction, TLAPS

JobStates == {"queued", "validating", "running"} \cup TERMINAL
VendorStates == {"none", "validating_files", "queued", "running", "paused"} \cup TERMINAL

Entries == [there: BOOLEAN, status: JobStates, sent: BOOLEAN]

Places == {"idle", "submitting", "asking", "told", "cancelling", "cancelled"}
Polls == [at: Places, job: JobIds \cup {""}, raw: JobStates \cup {""}]

TrainingTypes ==
    /\ job \in [JobIds -> Entries] /\ row \in [JobIds -> Entries]
    /\ vendor \in [JobIds -> VendorStates]
    /\ poller \in [Pollers -> Polls]
    /\ handed \in [JobIds -> Nat]

\* The jobs that were handed over.
Hooked == {j \in JobIds : handed[j] >= 1}

\* An entry e, in memory or stored, of a job in state v at the provider.
EntryOK(e, v) ==
    /\ e.sent => e.there
    /\ e.sent /\ e.status \in TERMINAL => e.status = v
    /\ e.status = "succeeded" => e.sent

\* A request q about a job with entry e, stored as w, in state v.
PollOK(q, e, w, v) ==
    /\ q.job \in JobIds
    /\ IF q.at = "submitting" THEN e.there /\ ~e.sent /\ ~w.sent ELSE e.sent
    /\ q.at = "told" /\ q.raw \in TERMINAL => v = q.raw
    /\ q.at = "told" => q.raw \in JobStates
    /\ q.at = "cancelled" => v = "cancelled"

PollerOK(p) ==
    LET q == poller[p]
    IN  q.at # "idle" => PollOK(q, job[q.job], row[q.job], vendor[q.job])

SubmittedOnce ==
    \A p, q \in Pollers :
        /\ poller[p].at = "submitting" /\ poller[q].at = "submitting"
        /\ poller[p].job = poller[q].job
        => p = q

JobOK(j) ==
    /\ EntryOK(job[j], vendor[j]) /\ EntryOK(row[j], vendor[j])
    /\ job[j].status = "succeeded" => j \in Hooked

\* The inductive invariant.
TrainingInv ==
    /\ TrainingTypes
    /\ \A j \in JobIds : JobOK(j)
    /\ \A p \in Pollers : PollerOK(p)
    /\ SubmittedOnce

LEMMA TrainingStart == TrainingInit => TrainingInv
<1> SUFFICES ASSUME TrainingInit PROVE TrainingInv
  OBVIOUS
<1>1. NoJob \in Entries /\ NoPoll \in Polls /\ NoPoll.at = "idle"
  BY DEF NoJob, NoPoll, Entries, Polls, Places, JobStates, TERMINAL
<1>2. EntryOK(NoJob, "none") /\ NoJob.status = "queued"
  BY DEF NoJob, EntryOK, TERMINAL
<1>3. TrainingTypes
  BY <1>1 DEF TrainingInit, TrainingTypes, VendorStates
<1>4. \A j \in JobIds : JobOK(j)
  BY <1>2 DEF TrainingInit, JobOK
<1>5. \A p \in Pollers : poller[p].at = "idle"
  BY <1>1 DEF TrainingInit
<1> QED
  BY <1>3, <1>4, <1>5 DEF TrainingInv, PollerOK, SubmittedOnce

\* Steps about one job: what is to be shown of them.
LEMMA OneJob ==
    ASSUME TrainingInv, NEW j \in JobIds,
           NEW e \in Entries, NEW w \in Entries, NEW v \in VendorStates,
           job' = [job EXCEPT ![j] = e], row' = [row EXCEPT ![j] = w],
           vendor' = [vendor EXCEPT ![j] = v],
           handed' \in [JobIds -> Nat], Hooked \subseteq Hooked',
           EntryOK(e, v), EntryOK(w, v), e.status = "succeeded" => j \in Hooked',
           poller' \in [Pollers -> Polls], SubmittedOnce',
           \A p \in Pollers :
              \/ poller'[p].at = "idle"
              \/ poller'[p].job = j /\ PollOK(poller'[p], e, w, v)
              \/ poller'[p].job # j /\ poller'[p] = poller[p]
    PROVE  TrainingInv'
<1>1. TrainingTypes'
  BY DEF TrainingInv, TrainingTypes
<1>2. \A i \in JobIds : /\ job'[i] = IF i = j THEN e ELSE job[i]
                        /\ row'[i] = IF i = j THEN w ELSE row[i]
                        /\ vendor'[i] = IF i = j THEN v ELSE vendor[i]
  BY DEF TrainingInv, TrainingTypes
<1>3. ASSUME NEW i \in JobIds PROVE JobOK(i)'
  <2>1. JobOK(i)
    BY DEF TrainingInv
  <2> QED
    BY <1>2, <2>1 DEF JobOK
<1>4. ASSUME NEW p \in Pollers, poller'[p].at # "idle" PROVE PollerOK(p)'
  <2>1. CASE poller'[p].job = j /\ PollOK(poller'[p], e, w, v)
    BY <1>2, <2>1 DEF PollerOK
  <2>2. CASE poller'[p].job # j /\ poller'[p] = poller[p]
    <3>1. PollOK(poller[p], job[poller[p].job], row[poller[p].job], vendor[poller[p].job])
      BY <1>4, <2>2 DEF TrainingInv, PollerOK
    <3>2. poller[p].job \in JobIds \ {j}
      BY <2>2, <3>1 DEF PollOK
    <3> QED
      BY <1>2, <2>2, <3>1, <3>2 DEF PollerOK
  <2> QED
    BY <1>4, <2>1, <2>2
<1>5. \A p \in Pollers : PollerOK(p)'
  BY <1>4 DEF PollerOK
<1> QED
  BY <1>1, <1>3, <1>5 DEF TrainingInv

LEMMA TrainingFacts ==
    ASSUME TrainingInv
    PROVE  /\ \A j \in JobIds : /\ JobOK(j) /\ job[j] \in Entries /\ row[j] \in Entries
                                /\ vendor[j] \in VendorStates
           /\ job = [j \in JobIds |-> job[j]] /\ row = [j \in JobIds |-> row[j]]
           /\ \A p \in Pollers : poller[p] \in Polls /\ PollerOK(p)
           /\ poller \in [Pollers -> Polls] /\ SubmittedOnce
  BY DEF TrainingInv, TrainingTypes

\* Only the status of an entry changes.
LEMMA StatusOK ==
    ASSUME NEW e \in Entries, NEW s \in JobStates, NEW v \in VendorStates,
           e.sent = TRUE, EntryOK(e, v), s \in TERMINAL => s = v
    PROVE  /\ [e EXCEPT !.status = s] \in Entries
           /\ [e EXCEPT !.status = s].status = s
           /\ [e EXCEPT !.status = s].sent = TRUE
           /\ EntryOK([e EXCEPT !.status = s], v)
<1>1. PICK f \in Entries : f = [e EXCEPT !.status = s]
  BY DEF Entries
<1>2. f.status = s /\ f.sent = TRUE /\ f.there = e.there
  BY <1>1 DEF Entries
<1>3. EntryOK(f, v)
  BY <1>2 DEF EntryOK
<1> QED
  BY <1>1, <1>2, <1>3

LEMMA FailedOK ==
    ASSUME NEW e \in Entries, NEW v, e.sent = FALSE, e.there = TRUE
    PROVE  /\ [e EXCEPT !.status = "failed"] \in Entries
           /\ [e EXCEPT !.status = "failed"].status = "failed"
           /\ EntryOK([e EXCEPT !.status = "failed"], v)
<1>1. PICK f \in Entries : f = [e EXCEPT !.status = "failed"]
  BY DEF Entries, JobStates, TERMINAL
<1>2. f.status = "failed" /\ f.sent = FALSE /\ f.there = TRUE
  BY <1>1 DEF Entries
<1>3. EntryOK(f, v)
  BY <1>2 DEF EntryOK
<1> QED
  BY <1>1, <1>2, <1>3

-----------------------------------------------------------------------------
\* The provider's job
LEMMA VendorStep ==
    ASSUME TrainingInv, NEW j \in JobIds, VendorMoves(j)
    PROVE  TrainingInv'
<1>1. PICK v \in VendorStates : vendor' = [vendor EXCEPT ![j] = v]
  BY DEF VendorMoves, VendorStates, TERMINAL
<1>2. vendor[j] \notin TERMINAL
  BY DEF VendorMoves, TERMINAL
<1>3. JobOK(j) /\ job[j] \in Entries /\ row[j] \in Entries
  BY TrainingFacts
<1>4. job' = [job EXCEPT ![j] = job[j]] /\ row' = [row EXCEPT ![j] = row[j]]
  BY DEF VendorMoves, TrainingInv, TrainingTypes
<1>5. poller' = poller /\ handed' = handed /\ Hooked' = Hooked
  BY DEF VendorMoves, Hooked
<1>6. EntryOK(job[j], v) /\ EntryOK(row[j], v)
  BY <1>2, <1>3 DEF JobOK, EntryOK
<1>7. ASSUME NEW p \in Pollers, poller[p].at # "idle", poller[p].job = j
      PROVE  PollOK(poller[p], job[j], row[j], v)
  <2>1. PollOK(poller[p], job[j], row[j], vendor[j])
    BY <1>7, TrainingFacts DEF PollerOK
  <2> QED
    BY <1>2, <2>1 DEF PollOK, TERMINAL
<1>8. SubmittedOnce'
  BY <1>5 DEF TrainingInv, SubmittedOnce
<1>9. job[j].status = "succeeded" => j \in Hooked
  BY <1>3 DEF JobOK
<1>10. handed' \in [JobIds -> Nat]
  BY <1>5 DEF TrainingInv, TrainingTypes
<1> QED
  BY <1>1, <1>3, <1>4, <1>5, <1>6, <1>7, <1>8, <1>9, <1>10, TrainingFacts, OneJob

LEMMA MappedOK ==
    ASSUME NEW s \in VendorStates
    PROVE  Mapped(s) \in JobStates /\ (Mapped(s) \in TERMINAL => s = Mapped(s))
  BY DEF Mapped, VendorStates, JobStates, TERMINAL

-----------------------------------------------------------------------------
\* The requests

\* One request goes on as q, about job j.
LEMMA PollerMoves ==
    ASSUME TrainingInv, NEW p \in Pollers, NEW q \in Polls, NEW j \in JobIds, 
           poller' = [poller EXCEPT ![p] = q],
           job' = job, row' = row, vendor' = vendor, handed' = handed,
           q.at # "submitting",
           q.at = "idle" \/ (q.job = j /\ PollOK(q, job[j], row[j], vendor[j]))
    PROVE  TrainingInv'
<1>1. /\ job' = [job EXCEPT ![j] = job[j]] /\ row' = [row EXCEPT ![j] = row[j]]
      /\ vendor' = [vendor EXCEPT ![j] = vendor[j]]
  BY DEF TrainingInv, TrainingTypes
<1>2. /\ poller' \in [Pollers -> Polls]
      /\ \A x \in Pollers : poller'[x] = IF x = p THEN q ELSE poller[x]
  BY DEF TrainingInv, TrainingTypes
<1>3. SubmittedOnce'
  BY <1>2 DEF TrainingInv, SubmittedOnce
<1>4. ASSUME NEW x \in Pollers, poller[x].at # "idle", poller[x].job = j
      PROVE  PollOK(poller[x], job[j], row[j], vendor[j])
  BY <1>4, TrainingFacts DEF PollerOK
<1>5. \A x \in Pollers :
        \/ poller'[x].at = "idle"
        \/ poller'[x].job = j /\ PollOK(poller'[x], job[j], row[j], vendor[j])
        \/ poller'[x].job # j /\ poller'[x] = poller[x]
  BY <1>2, <1>4
<1>6. /\ job[j] \in Entries /\ row[j] \in Entries /\ vendor[j] \in VendorStates
      /\ EntryOK(job[j], vendor[j]) /\ EntryOK(row[j], vendor[j])
      /\ (job[j].status = "succeeded" => j \in Hooked)
  BY TrainingFacts DEF JobOK
<1>7. Hooked' = Hooked /\ handed' \in [JobIds -> Nat]
  BY DEF Hooked, TrainingInv, TrainingTypes
<1> QED
  BY <1>1, <1>2, <1>3, <1>5, <1>6, <1>7, OneJob

\* One request returns, having changed the entry of job j or the provider's.
LEMMA PollerReturns ==
    ASSUME TrainingInv, NEW p \in Pollers, NEW j \in JobIds,
           poller[p].at # "idle", poller[p].job = j, Answer(p),
           NEW e \in Entries, NEW v \in VendorStates,
           job' = [job EXCEPT ![j] = e], Saved(j, e), vendor' = [vendor EXCEPT ![j] = v],
           handed' \in [JobIds -> Nat], Hooked \subseteq Hooked',
           EntryOK(e, v), e.status = "succeeded" => j \in Hooked',
           \/ e.sent = TRUE /\ v = vendor[j] /\ job[j].sent = TRUE
           \/ poller[p].at = "submitting"
    PROVE  TrainingInv'
<1>1. /\ poller' \in [Pollers -> Polls]
      /\ \A x \in Pollers : poller'[x] = IF x = p THEN NoPoll ELSE poller[x]
      /\ NoPoll.at = "idle"
  <2>1. NoPoll \in Polls /\ NoPoll.at = "idle"
    BY DEF NoPoll, Polls, Places
  <2> QED
    BY <2>1 DEF TrainingInv, TrainingTypes, Answer
<1>2. SubmittedOnce'
  BY <1>1 DEF TrainingInv, SubmittedOnce
<1>3. PollOK(poller[p], job[j], row[j], vendor[j])
  BY TrainingFacts DEF PollerOK
<1>4. ASSUME NEW x \in Pollers, x # p, poller[x].at # "idle", poller[x].job = j
      PROVE  PollOK(poller[x], e, e, v)
  <2>1. PollOK(poller[x], job[j], row[j], vendor[j])
    BY <1>4, TrainingFacts DEF PollerOK
  <2>2. CASE e.sent = TRUE /\ v = vendor[j] /\ job[j].sent = TRUE
    BY <2>1, <2>2 DEF PollOK
  <2>3. CASE poller[p].at = "submitting"
    <3>1. poller[x].at # "submitting"
      BY <1>4, <2>3, TrainingFacts DEF SubmittedOnce
    <3> QED
      BY <1>3, <2>1, <2>3, <3>1 DEF PollOK
  <2> QED
    BY <2>2, <2>3
<1>5. row' = [row EXCEPT ![j] = e]
  BY DEF Saved
<1>6. \A x \in Pollers :
        \/ poller'[x].at = "idle"
        \/ poller'[x].job = j /\ PollOK(poller'[x], e, e, v)
        \/ poller'[x].job # j /\ poller'[x] = poller[x]
  BY <1>1, <1>4
<1> QED
  BY <1>1, <1>2, <1>5, <1>6, OneJob

LEMMA AskStep ==
    ASSUME TrainingInv, NEW p \in Pollers, NEW j \in JobIds, PollJob(p, j) \/ CancelJob(p, j)
    PROVE  TrainingInv'
<1>1. PICK a \in {"asking", "cancelling"} :
        poller' = [poller EXCEPT ![p] = [at |-> a, job |-> j, raw |-> ""]]
  BY DEF PollJob, CancelJob
<1>2. PICK q \in Polls : q = [at |-> a, job |-> j, raw |-> ""]
  BY DEF Polls, Places
<1>3. /\ job' = job /\ row' = row /\ vendor' = vendor /\ handed' = handed
      /\ poller' = [poller EXCEPT ![p] = q]
  BY <1>1, <1>2 DEF PollJob, CancelJob
<1>4. job[j].sent
  BY DEF PollJob, CancelJob
<1>5. q.job = j /\ q.at \in {"asking", "cancelling"} /\ PollOK(q, job[j], row[j], vendor[j])
  BY <1>2, <1>4 DEF PollOK
<1> QED
  BY <1>3, <1>5, PollerMoves

LEMMA AnswersStep ==
    ASSUME TrainingInv, NEW p \in Pollers, VendorAnswers(p)
    PROVE  TrainingInv'
<1>1. PICK j : j = poller[p].job
  OBVIOUS
<1>2. PollOK(poller[p], job[j], row[j], vendor[j]) /\ poller[p].at = "asking"
  BY <1>1, TrainingFacts DEF PollerOK, VendorAnswers
<1>3. j \in JobIds /\ job[j].sent
  BY <1>1, <1>2 DEF PollOK
<1>4. PICK raw \in JobStates : raw = Mapped(vendor[j]) /\ (raw \in TERMINAL => vendor[j] = raw)
  BY <1>3, TrainingFacts, MappedOK
<1>5. PICK q \in Polls : q = [at |-> "told", job |-> j, raw |-> raw]
  BY <1>3 DEF Polls, Places
<1>6. /\ job' = job /\ row' = row /\ vendor' = vendor /\ handed' = handed
      /\ poller' = [poller EXCEPT ![p] = q]
  BY <1>1, <1>4, <1>5 DEF VendorAnswers
<1>7. q.job = j /\ q.at = "told" /\ PollOK(q, job[j], row[j], vendor[j])
  BY <1>3, <1>4, <1>5 DEF PollOK
<1> QED
  BY <1>3, <1>6, <1>7, PollerMoves

LEMMA PollReturnsStep ==
    ASSUME TrainingInv, NEW p \in Pollers, PollReturns(p)
    PROVE  TrainingInv'
<1>1. PICK j : j = poller[p].job
  OBVIOUS
<1>2. PollOK(poller[p], job[j], row[j], vendor[j]) /\ poller[p].at = "told"
  BY <1>1, TrainingFacts DEF PollerOK, PollReturns
<1>3. PICK raw \in JobStates : raw = poller[p].raw
  BY <1>2 DEF PollOK
<1>4. j \in JobIds /\ job[j].sent /\ (raw \in TERMINAL => raw = vendor[j])
  BY <1>1, <1>2, <1>3 DEF PollOK
<1>5. JobOK(j) /\ job[j] \in Entries /\ vendor[j] \in VendorStates
  BY <1>4, TrainingFacts
<1>6. job[j].sent = TRUE
  BY <1>4, <1>5 DEF Entries
<1>7. PICK e \in Entries : /\ e = [job[j] EXCEPT !.status = raw] /\ e.status = raw
                           /\ e.sent = TRUE /\ EntryOK(e, vendor[j])
  BY <1>4, <1>5, <1>6, StatusOK DEF JobOK
<1>8. /\ job' = [job EXCEPT ![j] = e] /\ Saved(j, e) /\ Answer(p) /\ vendor' = vendor
      /\ handed' = [handed EXCEPT ![j] = @ + (IF TellsHook(j, raw) THEN 1 ELSE 0)]
  BY <1>1, <1>3, <1>7 DEF PollReturns
<1>9. vendor' = [vendor EXCEPT ![j] = vendor[j]]
  BY <1>8 DEF TrainingInv, TrainingTypes
<1>11. /\ handed' \in [JobIds -> Nat] /\ Hooked \subseteq Hooked'
       /\ TellsHook(j, raw) => j \in Hooked'
  <2>1. handed \in [JobIds -> Nat] /\ handed[j] \in Nat
    BY <1>4 DEF TrainingInv, TrainingTypes
  <2>2. PICK k \in {0, 1} : /\ handed' = [handed EXCEPT ![j] = handed[j] + k]
                            /\ TellsHook(j, raw) => k = 1
    BY <1>8
  <2>7. handed[j] + k \in Nat
    BY <2>1
  <2>3. handed' \in [JobIds -> Nat]
    BY <2>1, <2>2, <2>7
  <2>4. \A i \in JobIds : handed'[i] = IF i = j THEN handed[j] + k ELSE handed[i]
    BY <2>1, <2>2
  <2>5. handed'[j] >= handed[j] /\ (TellsHook(j, raw) => handed'[j] >= 1)
    BY <1>4, <2>1, <2>2, <2>4
  <2>6. \A i \in Hooked : i \in Hooked'
    BY <2>1, <2>4, <2>5, <1>4 DEF Hooked
  <2> QED
    BY <1>4, <2>3, <2>5, <2>6 DEF Hooked
<1>10. e.status = "succeeded" => j \in Hooked'
  <2>1. ASSUME raw = "succeeded", job[j].status \in TERMINAL PROVE job[j].status = "succeeded"
    BY <1>4, <1>5, <2>1 DEF JobOK, EntryOK, TERMINAL
  <2> QED
    BY <1>5, <1>7, <1>11, <2>1 DEF TellsHook, JobOK
<1> QED
  BY <1>1, <1>2, <1>4, <1>5, <1>6, <1>7, <1>8, <1>9, <1>10, <1>11, PollerReturns

LEMMA CancelsStep ==
    ASSUME TrainingInv, NEW p \in Pollers, VendorCancels(p)
    PROVE  TrainingInv'
<1>1. PICK j : j = poller[p].job
  OBVIOUS
<1>2. PollOK(poller[p], job[j], row[j], vendor[j]) /\ poller[p].at = "cancelling"
  BY <1>1, TrainingFacts DEF PollerOK, VendorCancels
<1>3. j \in JobIds /\ job[j].sent
  BY <1>1, <1>2 DEF PollOK
<1>4. job' = job /\ row' = row /\ handed' = handed
  BY DEF VendorCancels
<1>5. CASE vendor[j] \in TERMINAL
  <2>1. NoPoll \in Polls /\ NoPoll.at = "idle"
    BY DEF NoPoll, Polls, Places
  <2>2. poller' = [poller EXCEPT ![p] = NoPoll] /\ vendor' = vendor
    BY <1>1, <1>5 DEF VendorCancels, CancelTaken, Answer
  <2> QED
    BY <1>3, <1>4, <2>1, <2>2, PollerMoves
<1>6. CASE vendor[j] \notin TERMINAL
  <2>1. PICK q \in Polls : q = [at |-> "cancelled", job |-> j, raw |-> ""]
    BY <1>3 DEF Polls, Places
  <2>2. vendor' = [vendor EXCEPT ![j] = "cancelled"] /\ poller' = [poller EXCEPT ![p] = q]
    BY <1>1, <1>6, <2>1 DEF VendorCancels, CancelTaken
  <2>3. /\ poller' \in [Pollers -> Polls]
        /\ \A x \in Pollers : poller'[x] = IF x = p THEN q ELSE poller[x]
    BY <2>2 DEF TrainingInv, TrainingTypes
  <2>4. q.at = "cancelled" /\ q.job = j
    BY <2>1
  <2>5. SubmittedOnce'
    BY <2>3, <2>4 DEF TrainingInv, SubmittedOnce
  <2>6. JobOK(j) /\ job[j] \in Entries /\ row[j] \in Entries
    BY <1>3, TrainingFacts
  <2>7. job' = [job EXCEPT ![j] = job[j]] /\ row' = [row EXCEPT ![j] = row[j]]
    BY <1>4 DEF TrainingInv, TrainingTypes
  <2>8. EntryOK(job[j], "cancelled") /\ EntryOK(row[j], "cancelled")
    BY <1>6, <2>6 DEF JobOK, EntryOK
  <2>9. ASSUME NEW x \in Pollers, poller'[x].at # "idle", poller'[x].job = j
        PROVE  PollOK(poller'[x], job[j], row[j], "cancelled")
    <3>1. CASE x = p
      BY <1>3, <2>3, <2>4, <3>1 DEF PollOK
    <3>2. CASE x # p
      <4>1. PollOK(poller[x], job[j], row[j], vendor[j]) /\ poller'[x] = poller[x]
        BY <2>3, <2>9, <3>2, TrainingFacts DEF PollerOK
      <4> QED
        BY <1>6, <4>1 DEF PollOK
    <3> QED
      BY <3>1, <3>2
  <2>12. Hooked' = Hooked /\ handed' \in [JobIds -> Nat]
    BY <1>4 DEF Hooked, TrainingInv, TrainingTypes
  <2>10. "cancelled" \in VendorStates /\ (job[j].status = "succeeded" => j \in Hooked')
    BY <2>12, <2>6 DEF VendorStates, TERMINAL, JobOK
  <2>11. \A x \in Pollers :
          \/ poller'[x].at = "idle"
          \/ poller'[x].job = j /\ PollOK(poller'[x], job[j], row[j], "cancelled")
          \/ poller'[x].job # j /\ poller'[x] = poller[x]
    BY <2>3, <2>4, <2>9
  <2> QED
    BY <1>3, <2>2, <2>3, <2>5, <2>6, <2>7, <2>8, <2>10, <2>11, <2>12, OneJob
<1> QED
  BY <1>5, <1>6

LEMMA CancelReturnsStep ==
    ASSUME TrainingInv, NEW p \in Pollers, CancelReturns(p)
    PROVE  TrainingInv'
<1>1. PICK j : j = poller[p].job
  OBVIOUS
<1>2. PollOK(poller[p], job[j], row[j], vendor[j]) /\ poller[p].at = "cancelled"
  BY <1>1, TrainingFacts DEF PollerOK, CancelReturns
<1>3. j \in JobIds /\ job[j].sent /\ vendor[j] = "cancelled"
  BY <1>1, <1>2 DEF PollOK
<1>4. JobOK(j) /\ job[j] \in Entries /\ vendor[j] \in VendorStates /\ job[j].sent = TRUE
  BY <1>3, TrainingFacts DEF Entries
<1>5. PICK e \in Entries : /\ e = [job[j] EXCEPT !.status = "cancelled"] /\ e.status = "cancelled"
                           /\ e.sent = TRUE /\ EntryOK(e, vendor[j])
  <2>1. PICK s \in JobStates : s = "cancelled" /\ EntryOK(job[j], vendor[j])
    BY <1>4 DEF JobStates, TERMINAL, JobOK
  <2>2. s = vendor[j]
    BY <1>3, <2>1
  <2>3. /\ [job[j] EXCEPT !.status = s] \in Entries
        /\ [job[j] EXCEPT !.status = s].status = s
        /\ [job[j] EXCEPT !.status = s].sent = TRUE
        /\ EntryOK([job[j] EXCEPT !.status = s], vendor[j])
    BY <1>4, <2>1, <2>2, StatusOK
  <2> QED
    BY <2>1, <2>3
<1>6. /\ job' = [job EXCEPT ![j] = e] /\ Saved(j, e) /\ Answer(p) /\ vendor' = vendor
      /\ handed' = handed
  BY <1>1, <1>5 DEF CancelReturns
<1>7. vendor' = [vendor EXCEPT ![j] = vendor[j]]
  BY <1>6 DEF TrainingInv, TrainingTypes
<1>8. Hooked' = Hooked /\ handed' \in [JobIds -> Nat]
  BY <1>6 DEF Hooked, TrainingInv, TrainingTypes
<1> QED
  BY <1>1, <1>2, <1>3, <1>4, <1>5, <1>6, <1>7, <1>8, PollerReturns

-----------------------------------------------------------------------------
\* Submission
LEMMA SubmitStep ==
    ASSUME TrainingInv, NEW p \in Pollers, NEW j \in JobIds, NEW d \in Datasets, SubmitJob(p, j, d)
    PROVE  TrainingInv'
<1>1. PICK e \in Entries : e = [there |-> TRUE, status |-> "queued", sent |-> FALSE]
  BY DEF Entries, JobStates
<1>2. PICK q \in Polls : q = [at |-> "submitting", job |-> j, raw |-> ""]
  BY DEF Polls, Places
<1>3. /\ job' = [job EXCEPT ![j] = e] /\ poller' = [poller EXCEPT ![p] = q]
      /\ row' = row /\ vendor' = vendor /\ handed' = handed
      /\ ~job[j].there /\ ~row[j].there /\ poller[p].at = "idle"
  BY <1>1, <1>2 DEF SubmitJob
<1>4. JobOK(j) /\ row[j] \in Entries /\ vendor[j] \in VendorStates
  BY TrainingFacts
<1>5. ~row[j].sent /\ ~job[j].sent
  BY <1>3, <1>4 DEF JobOK, EntryOK
<1>6. ASSUME NEW x \in Pollers PROVE poller[x].at = "idle" \/ poller[x].job # j
  <2>1. PollerOK(x)
    BY TrainingFacts
  <2> QED
    BY <1>3, <1>5, <2>1 DEF PollerOK, PollOK
<1>7. /\ poller' \in [Pollers -> Polls]
      /\ \A x \in Pollers : poller'[x] = IF x = p THEN q ELSE poller[x]
  BY <1>3 DEF TrainingInv, TrainingTypes
<1>8. q.at = "submitting" /\ q.job = j /\ EntryOK(e, vendor[j]) /\ e.status = "queued"
  BY <1>1, <1>2 DEF EntryOK, TERMINAL
<1>9. SubmittedOnce'
  BY <1>6, <1>7, <1>8 DEF TrainingInv, SubmittedOnce
<1>10. PollOK(q, e, row[j], vendor[j])
  BY <1>1, <1>5, <1>8 DEF PollOK
<1>11. row' = [row EXCEPT ![j] = row[j]] /\ vendor' = [vendor EXCEPT ![j] = vendor[j]]
  BY <1>3 DEF TrainingInv, TrainingTypes
<1>12. \A x \in Pollers :
        \/ poller'[x].at = "idle"
        \/ poller'[x].job = j /\ PollOK(poller'[x], e, row[j], vendor[j])
        \/ poller'[x].job # j /\ poller'[x] = poller[x]
  BY <1>6, <1>7, <1>8, <1>10
<1>13. EntryOK(row[j], vendor[j]) /\ e.status # "succeeded"
  BY <1>4, <1>8 DEF JobOK
<1>14. Hooked' = Hooked /\ handed' \in [JobIds -> Nat]
  BY <1>3 DEF Hooked, TrainingInv, TrainingTypes
<1> QED
  BY <1>3, <1>4, <1>7, <1>8, <1>9, <1>11, <1>12, <1>13, <1>14, OneJob

LEMMA SubmittedStep ==
    ASSUME TrainingInv, NEW p \in Pollers, Submitted(p) \/ \E got \in BOOLEAN : SubmitFails(p, got)
    PROVE  TrainingInv'
<1>1. PICK j : j = poller[p].job
  OBVIOUS
<1>2. PollOK(poller[p], job[j], row[j], vendor[j]) /\ poller[p].at = "submitting"
  BY <1>1, TrainingFacts DEF PollerOK, Submitted, SubmitFails
<1>3. j \in JobIds /\ job[j].there /\ ~job[j].sent
  BY <1>1, <1>2 DEF PollOK
<1>4. job[j] \in Entries
  BY <1>3, TrainingFacts
<1>5. job[j].there = TRUE /\ job[j].sent = FALSE
  BY <1>3, <1>4 DEF Entries
<1>8. Hooked' = Hooked /\ handed' \in [JobIds -> Nat]
  BY DEF Submitted, SubmitFails, Hooked, TrainingInv, TrainingTypes
<1>6. CASE Submitted(p)
  <2>1. PICK e \in Entries : e = [there |-> TRUE, status |-> "queued", sent |-> TRUE]
    BY DEF Entries, JobStates
  <2>2. /\ job' = [job EXCEPT ![j] = e] /\ Saved(j, e) /\ Answer(p) /\ handed' = handed
        /\ vendor' = [vendor EXCEPT ![j] = "validating_files"]
    BY <1>1, <1>6, <2>1 DEF Submitted
  <2>3. /\ EntryOK(e, "validating_files") /\ e.status # "succeeded"
        /\ "validating_files" \in VendorStates
    BY <2>1 DEF EntryOK, TERMINAL, VendorStates
  <2> QED
    BY <1>1, <1>2, <1>3, <1>8, <2>2, <2>3, PollerReturns
<1>7. ASSUME NEW got \in BOOLEAN, SubmitFails(p, got) PROVE TrainingInv'
  <2>1. PICK v \in VendorStates : vendor' = [vendor EXCEPT ![j] = v]
    BY <1>1, <1>7 DEF SubmitFails, VendorStates
  <2>2. PICK e \in Entries : /\ e = [job[j] EXCEPT !.status = "failed"]
                             /\ e.status = "failed" /\ EntryOK(e, v)
    BY <1>4, <1>5, FailedOK
  <2>3. job' = [job EXCEPT ![j] = e] /\ Saved(j, e) /\ Answer(p) /\ handed' = handed
    BY <1>1, <1>7, <2>2 DEF SubmitFails
  <2> QED
    BY <1>1, <1>2, <1>3, <1>8, <2>1, <2>2, <2>3, PollerReturns
<1> QED
  BY <1>6, <1>7

LEMMA RestartStep ==
    ASSUME TrainingInv, RestartTraining
    PROVE  TrainingInv'
<1>1. /\ job' = row /\ row' = row /\ vendor' = vendor
      /\ poller' = [p \in Pollers |-> NoPoll]
      /\ handed' = [j \in JobIds |->
                       IF row[j].there /\ row[j].status = "succeeded" THEN 1 ELSE 0]
  BY DEF RestartTraining
<1>2. NoPoll \in Polls /\ NoPoll.at = "idle"
  BY DEF NoPoll, Polls, Places
<1>3. TrainingTypes'
  BY <1>1, <1>2 DEF TrainingInv, TrainingTypes
<1>4. ASSUME NEW j \in JobIds PROVE JobOK(j)'
  <2>1. EntryOK(row[j], vendor[j])
    BY TrainingFacts DEF JobOK
  <2>2. row[j].status = "succeeded" => j \in Hooked'
    BY <1>1, <2>1 DEF EntryOK, Hooked
  <2> QED
    BY <1>1, <2>1, <2>2 DEF JobOK
<1>5. \A p \in Pollers : poller'[p].at = "idle"
  BY <1>1, <1>2
<1> QED
  BY <1>3, <1>4, <1>5 DEF TrainingInv, PollerOK, SubmittedOnce

-----------------------------------------------------------------------------
LEMMA TrainingStep == TrainingInv /\ [TrainingNext]_trainVars => TrainingInv'
<1> SUFFICES ASSUME TrainingInv, [TrainingNext]_trainVars PROVE TrainingInv'
  OBVIOUS
<1>1. CASE UNCHANGED trainVars
  BY <1>1 DEF trainVars, TrainingInv, TrainingTypes, JobOK, Hooked, PollerOK, SubmittedOnce
<1> QED
  BY <1>1, RestartStep, VendorStep, SubmittedStep, AnswersStep, PollReturnsStep, CancelsStep,
     CancelReturnsStep, AskStep, SubmitStep DEF TrainingNext

\* How often a job is handed over.  A job that no two polls of this process
\* overlapped on has one poll at most, and once it was handed over it is
\* succeeded and nobody asks about it.
Single(j) ==
    /\ \A p, q \in Pollers : Polling(p, j) /\ Polling(q, j) => p = q
    /\ handed[j] # 0 => /\ handed[j] = 1 /\ job[j].status = "succeeded"
                        /\ \A p \in Pollers : ~Polling(p, j)

HandedOnce == \A j \in JobIds : j \in overlapped \/ Single(j)

LEMMA HandedStart == TrainingInit => HandedOnce
<1> SUFFICES ASSUME TrainingInit, NEW j \in JobIds PROVE Single(j)
  BY DEF HandedOnce
<1>1. handed[j] = 0
  BY DEF TrainingInit
<1>2. \A p \in Pollers : ~Polling(p, j)
  BY DEF TrainingInit, Polling, NoPoll
<1> QED
  BY <1>1, <1>2 DEF Single

\* What a step leaves alone of a job nobody overlapped on.
LEMMA SingleKept ==
    ASSUME TrainingInv, NEW j \in JobIds, Single(j), handed'[j] = handed[j],
           job[j].status = "succeeded" => job'[j].status = "succeeded",
           \A p \in Pollers : Polling(p, j)' => Polling(p, j)
    PROVE  Single(j)'
  BY DEF Single

LEMMA HandedStep ==
    ASSUME TrainingInv, HandedOnce, [TrainingNext]_trainVars
    PROVE  HandedOnce'
<1> SUFFICES ASSUME NEW j \in JobIds, j \notin overlapped' PROVE Single(j)'
  BY DEF HandedOnce
<1>1. /\ handed \in [JobIds -> Nat] /\ poller \in [Pollers -> Polls]
      /\ job \in [JobIds -> Entries] /\ row \in [JobIds -> Entries]
  BY DEF TrainingInv, TrainingTypes
<1>0. NoPoll.at = "idle"
  BY DEF NoPoll
<1>2. CASE RestartTraining
  <2>1. \A p \in Pollers : ~Polling(p, j)'
    BY <1>0, <1>2 DEF RestartTraining, Polling
  <2>2. handed'[j] # 0 => handed'[j] = 1 /\ job'[j].status = "succeeded"
    BY <1>2 DEF RestartTraining
  <2> QED
    BY <2>1, <2>2 DEF Single
<1>3. ASSUME overlapped \subseteq overlapped' PROVE Single(j)
  BY <1>3 DEF HandedOnce
<1>4. CASE UNCHANGED trainVars
  BY <1>3, <1>4, SingleKept DEF trainVars, Polling
<1>5. ASSUME NEW i \in JobIds, VendorMoves(i) PROVE Single(j)'
  BY <1>3, <1>5, SingleKept DEF VendorMoves, Polling
<1>6. ASSUME NEW p \in Pollers, NEW i \in JobIds, PollJob(p, i) PROVE Single(j)'
  <2>1. Single(j)
    BY <1>3, <1>6 DEF PollJob
  <2>2. /\ job' = job /\ handed' = handed
        /\ \A q \in Pollers : q # p => poller'[q] = poller[q]
        /\ poller'[p].job = i
    BY <1>1, <1>6 DEF PollJob
  <2>3. CASE i # j
    BY <2>1, <2>2, <2>3, SingleKept DEF Polling
  <2>4. CASE i = j
    <3>1. \A q \in Pollers : ~Polling(q, j)
      BY <1>6, <2>4 DEF PollJob
    <3>2. job[j].status # "succeeded"
      BY <1>6, <2>4 DEF PollJob, TERMINAL
    <3>3. handed[j] = 0
      BY <2>1, <3>2 DEF Single
    <3>4. \A q \in Pollers : Polling(q, j)' => q = p
      BY <2>2, <3>1 DEF Polling
    <3> QED
      BY <2>2, <3>3, <3>4 DEF Single
  <2> QED
    BY <2>3, <2>4
<1>7. ASSUME NEW p \in Pollers, VendorAnswers(p) PROVE Single(j)'
  <2>1. /\ job' = job /\ handed' = handed
        /\ \A q \in Pollers : q # p => poller'[q] = poller[q]
        /\ poller'[p].job = poller[p].job /\ poller[p].at = "asking"
    BY <1>1, <1>7 DEF VendorAnswers
  <2>2. \A q \in Pollers : Polling(q, j)' => Polling(q, j)
    BY <2>1 DEF Polling
  <2> QED
    BY <1>3, <1>7, <2>1, <2>2, SingleKept DEF VendorAnswers
<1>8. ASSUME NEW p \in Pollers, PollReturns(p) PROVE Single(j)'
  <2>1. Single(j)
    BY <1>3, <1>8 DEF PollReturns
  <2>2. PICK i : i = poller[p].job
    OBVIOUS
  <2>3. PollOK(poller[p], job[i], row[i], vendor[i]) /\ poller[p].at = "told"
    BY <1>8, <2>2, TrainingFacts DEF PollerOK, PollReturns
  <2>4. i \in JobIds
    BY <2>3, <2>2 DEF PollOK
  <2>5. /\ \A q \in Pollers : poller'[q] = IF q = p THEN NoPoll ELSE poller[q]
        /\ \A k \in JobIds : k # i => job'[k] = job[k] /\ handed'[k] = handed[k]
        /\ job'[i].status = poller[p].raw
        /\ handed'[i] = handed[i] + (IF TellsHook(i, poller[p].raw) THEN 1 ELSE 0)
    BY <1>1, <1>8, <2>2, <2>4 DEF PollReturns, Answer, Entries
  <2>6. \A q \in Pollers : Polling(q, j)' => Polling(q, j) /\ q # p
    BY <1>0, <2>5 DEF Polling
  <2>7. CASE i # j
    BY <2>1, <2>5, <2>6, <2>7, SingleKept
  <2>8. CASE i = j
    <3>1. Polling(p, j)
      BY <2>2, <2>3, <2>8 DEF Polling
    <3>2. handed[j] = 0 /\ \A q \in Pollers : ~Polling(q, j)'
      BY <2>1, <2>6, <3>1 DEF Single
    <3>3. handed'[j] # 0 => handed'[j] = 1 /\ job'[j].status = "succeeded"
      BY <2>5, <2>8, <3>2 DEF TellsHook
    <3> QED
      BY <3>2, <3>3 DEF Single
  <2> QED
    BY <2>7, <2>8
<1>9. ASSUME NEW p \in Pollers, VendorCancels(p) PROVE Single(j)'
  <2>3. PICK q : /\ poller' = [poller EXCEPT ![p] = q]
                 /\ \/ q = NoPoll
                    \/ q = [at |-> "cancelled", job |-> poller[p].job, raw |-> ""]
    BY <1>9 DEF VendorCancels, Answer
  <2>5. [at |-> "cancelled", job |-> poller[p].job, raw |-> ""].at = "cancelled"
    OBVIOUS
  <2>4. q.at \notin {"asking", "told"}
    BY <1>0, <2>3, <2>5
  <2>1. /\ job' = job /\ handed' = handed
        /\ \A x \in Pollers : x # p => poller'[x] = poller[x]
        /\ poller'[p].at \notin {"asking", "told"}
    BY <1>1, <1>9, <2>3, <2>4 DEF VendorCancels
  <2>2. \A w \in Pollers : Polling(w, j)' => Polling(w, j)
    BY <2>1 DEF Polling
  <2> QED
    BY <1>3, <1>9, <2>1, <2>2, SingleKept DEF VendorCancels
<1>10. ASSUME NEW p \in Pollers, CancelReturns(p) PROVE Single(j)'
  <2>1. PICK i : i = poller[p].job
    OBVIOUS
  <2>2. PollOK(poller[p], job[i], row[i], vendor[i]) /\ poller[p].at = "cancelled"
    BY <1>10, <2>1, TrainingFacts DEF PollerOK, CancelReturns
  <2>3. i \in JobIds /\ vendor[i] = "cancelled" /\ job[i].sent
    BY <2>1, <2>2 DEF PollOK
  <2>4. job[i].status # "succeeded"
    BY <2>3, TrainingFacts DEF JobOK, EntryOK, TERMINAL
  <2>5. /\ \A q \in Pollers : poller'[q] = IF q = p THEN NoPoll ELSE poller[q]
        /\ \A k \in JobIds : k # i => job'[k] = job[k]
        /\ handed' = handed
    BY <1>1, <1>10, <2>1 DEF CancelReturns, Answer
  <2>6. \A q \in Pollers : Polling(q, j)' => Polling(q, j)
    BY <1>0, <2>5 DEF Polling
  <2>7. job[j].status = "succeeded" => job'[j].status = "succeeded"
    BY <2>4, <2>5
  <2>8. Single(j)
    BY <1>3, <1>10 DEF CancelReturns
  <2> QED
    BY <2>5, <2>6, <2>7, <2>8, SingleKept
<1>11. ASSUME NEW p \in Pollers, Submitted(p) \/ \E got \in BOOLEAN : SubmitFails(p, got)
       PROVE  Single(j)'
  <2>1. PICK i : i = poller[p].job
    OBVIOUS
  <2>2. PollOK(poller[p], job[i], row[i], vendor[i]) /\ poller[p].at = "submitting"
    BY <1>11, <2>1, TrainingFacts DEF PollerOK, Submitted, SubmitFails
  <2>3. i \in JobIds /\ ~job[i].sent
    BY <2>1, <2>2 DEF PollOK
  <2>4. job[i].status # "succeeded"
    BY <2>3, TrainingFacts DEF JobOK, EntryOK
  <2>5. /\ \A q \in Pollers : poller'[q] = IF q = p THEN NoPoll ELSE poller[q]
        /\ \A k \in JobIds : k # i => job'[k] = job[k]
        /\ handed' = handed
    BY <1>1, <1>11, <2>1 DEF Submitted, SubmitFails, Answer
  <2>6. \A q \in Pollers : Polling(q, j)' => Polling(q, j)
    BY <1>0, <2>5 DEF Polling
  <2>7. job[j].status = "succeeded" => job'[j].status = "succeeded"
    BY <2>4, <2>5
  <2>8. Single(j)
    BY <1>3, <1>11 DEF Submitted, SubmitFails
  <2> QED
    BY <2>5, <2>6, <2>7, <2>8, SingleKept
<1>12. ASSUME NEW p \in Pollers, NEW i \in JobIds, CancelJob(p, i) PROVE Single(j)'
  <2>1. /\ job' = job /\ handed' = handed
        /\ \A q \in Pollers : q # p => poller'[q] = poller[q]
        /\ poller'[p].at = "cancelling"
    BY <1>1, <1>12 DEF CancelJob
  <2>2. \A q \in Pollers : Polling(q, j)' => Polling(q, j)
    BY <2>1 DEF Polling
  <2> QED
    BY <1>3, <1>12, <2>1, <2>2, SingleKept DEF CancelJob
<1>13. ASSUME NEW p \in Pollers, NEW i \in JobIds, NEW d \in Datasets, SubmitJob(p, i, d)
       PROVE  Single(j)'
  <2>1. /\ \A q \in Pollers : q # p => poller'[q] = poller[q]
        /\ poller'[p].at = "submitting" /\ handed' = handed
        /\ \A k \in JobIds : k # i => job'[k] = job[k]
        /\ ~job[i].there
    BY <1>1, <1>13 DEF SubmitJob
  <2>2. job[i].status # "succeeded"
    BY <2>1, TrainingFacts DEF JobOK, EntryOK
  <2>3. \A q \in Pollers : Polling(q, j)' => Polling(q, j)
    BY <2>1 DEF Polling
  <2>4. job[j].status = "succeeded" => job'[j].status = "succeeded"
    BY <2>1, <2>2
  <2>5. Single(j)
    BY <1>3, <1>13 DEF SubmitJob
  <2> QED
    BY <2>1, <2>3, <2>4, <2>5, SingleKept
<1> QED
  BY <1>2, <1>4, <1>5, <1>6, <1>7, <1>8, <1>9, <1>10, <1>11, <1>12, <1>13 DEF TrainingNext

\* neural/training.py: a job reported or stored as over is what the provider made
\* of it, and a job seen to succeed was handed to on_succeeded, once unless two
\* polls of it crossed, for any number of jobs, requests in any order and
\* restarts between any two steps.
THEOREM TrainingSoundAlways == TrainingSpec => []TrainingSound
<1>1. TrainingInv /\ HandedOnce => TrainingSound
  BY DEF TrainingInv, TrainingTypes, TrainingSound, JobOK, EntryOK, Hooked, HandedOnce, Single
<1>2. TrainingInit => TrainingInv /\ HandedOnce
  BY TrainingStart, HandedStart
<1>3. TrainingInv /\ HandedOnce /\ [TrainingNext]_trainVars => (TrainingInv /\ HandedOnce)'
  BY TrainingStep, HandedStep
<1> QED
  BY <1>1, <1>2, <1>3, PTL DEF TrainingSpec

-----------------------------------------------------------------------------
\* AgentQueue.

ItemRecs == [status : {"absent", "queued", "running", "completed", "failed", "cancelled"},
             retries : Nat]
Running == [at : {"new", "exec", "put"}, agent : QueueAgents, stop : BOOLEAN]
CoRecs == {NoCo} \cup Running

QueueTypes ==
    /\ item \in [Items -> ItemRecs]
    /\ fut \in [Items -> {"none", "pending", "result", "error", "cancelled"}]
    /\ waiting \subseteq Items /\ line \in Seq(Items) /\ listed \subseteq Items
    /\ co \in [Items -> CoRecs]
    /\ calls \in [Items -> Int]
    /\ idle \subseteq QueueAgents

InLine(i) == \E k \in 1..Len(line) : line[k] = i

\* The queue holds an item once, and no item is in two of its places.
OnePlace ==
    /\ \A j, k \in 1..Len(line) : line[j] = line[k] => j = k
    /\ \A i \in Items : /\ ~(InLine(i) /\ i \in waiting)
                        /\ co[i].at # "none" => ~InLine(i) /\ i \notin waiting

Placed(i) == InLine(i) \/ i \in waiting \/ co[i].at # "none"

\* What the future of an item says of where it is.
FutureOK(i) ==
    /\ item[i].status = "absent" => ~Placed(i) /\ fut[i] = "none" /\ item[i].retries = 0
    /\ fut[i] = "pending" /\ mode = "running"
       => Placed(i) /\ ~co[i].stop /\ item[i].status # "cancelled"
    /\ fut[i] = "result" => item[i].status = "completed" /\ ~Placed(i)
    /\ fut[i] = "error" => item[i].status = "failed" /\ item[i].retries = MaxRetries /\ ~Placed(i)
    /\ item[i].retries <= MaxRetries
    /\ Placed(i) => item[i].retries < MaxRetries
    /\ co[i].stop => co[i].at # "none"

QueueInv == QueueTypes /\ OnePlace /\ \A i \in Items : FutureOK(i)

LEMMA QueueStart == QueueInit => QueueInv
<1> SUFFICES ASSUME QueueInit PROVE QueueInv
  OBVIOUS
<1>1. NoCo \in CoRecs /\ NoCo.at = "none" /\ ~NoCo.stop
  BY DEF NoCo, CoRecs
<1>2. /\ [status |-> "absent", retries |-> 0] \in ItemRecs
      /\ [status |-> "absent", retries |-> 0].retries = 0
  BY DEF ItemRecs
<1>3. line = << >> /\ << >> \in Seq(Items) /\ Len(line) = 0
  BY DEF QueueInit
<1>4. QueueTypes
  <2>1. item \in [Items -> ItemRecs] /\ co \in [Items -> CoRecs]
    BY <1>1, <1>2, Zenon DEF QueueInit
  <2>2. calls \in [Items -> Int]
    BY DEF QueueInit
  <2>3. fut \in [Items -> {"none", "pending", "result", "error", "cancelled"}]
    BY DEF QueueInit
  <2> QED
    BY <1>3, <2>1, <2>2, <2>3 DEF QueueInit, QueueTypes
<1>5. \A i \in Items : ~InLine(i) /\ i \notin waiting /\ co[i].at = "none" /\ ~co[i].stop
  BY <1>1, <1>3 DEF QueueInit, InLine
<1>6. OnePlace
  BY <1>3, <1>5 DEF OnePlace
<1>7. ASSUME NEW i \in Items PROVE FutureOK(i)
  <2>1. item[i].retries = 0 /\ fut[i] = "none"
    BY <1>2 DEF QueueInit
  <2> QED
    BY <1>5, <2>1, AgentQueueAssumption DEF FutureOK, Placed
<1> QED
  BY <1>4, <1>6, <1>7 DEF QueueInv

-----------------------------------------------------------------------------
\* A step moves one item: where it was, it leaves; where it is, nothing else was.
LEMMA Appended ==
    ASSUME QueueInv, NEW i \in Items, ~InLine(i), line' = Append(line, i)
    PROVE  /\ line' \in Seq(Items)
           /\ \A j, k \in 1..Len(line') : line'[j] = line'[k] => j = k
           /\ \A n \in Items : InLine(n)' <=> InLine(n) \/ n = i
<1>1. /\ line \in Seq(Items) /\ Len(line) \in Nat
      /\ line' \in Seq(Items) /\ Len(line') = Len(line) + 1
      /\ line'[Len(line) + 1] = i /\ \A k \in 1..Len(line) : line'[k] = line[k]
  BY DEF QueueInv, QueueTypes
<1>2. \A k \in 1..Len(line') : k \in 1..Len(line) \/ k = Len(line) + 1
  BY <1>1
<1>3. \A k \in 1..Len(line) : line[k] # i
  BY DEF InLine
<1>4. \A j, k \in 1..Len(line') : line'[j] = line'[k] => j = k
  BY <1>1, <1>2, <1>3 DEF QueueInv, OnePlace
<1>5. ASSUME NEW n \in Items PROVE InLine(n)' <=> InLine(n) \/ n = i
  <2>1. ASSUME InLine(n)' PROVE InLine(n) \/ n = i
    BY <1>1, <1>2, <2>1 DEF InLine
  <2>2. ASSUME InLine(n) PROVE InLine(n)'
    <3>1. PICK k \in 1..Len(line) : line[k] = n
      BY <2>2 DEF InLine
    <3>2. k \in 1..Len(line') /\ line'[k] = n
      BY <1>1, <3>1
    <3> QED
      BY <3>2 DEF InLine
  <2>3. InLine(i)'
    <3>1. Len(line) + 1 \in 1..Len(line')
      BY <1>1
    <3> QED
      BY <1>1, <3>1 DEF InLine
  <2> QED
    BY <2>1, <2>2, <2>3
<1> QED
  BY <1>1, <1>4, <1>5

\* A non-empty set of numbers has a smallest and, if it is bounded, a most urgent one.
Less == {ss \in Nat \X Nat : ss[1] < ss[2]}

LEMMA NotLess ==
    ASSUME NEW x \in Nat, NEW y \in Nat, <<y, x>> \notin Less
    PROVE  x <= y
<1>1. <<y, x>> \in Nat \X Nat /\ <<y, x>>[1] = y /\ <<y, x>>[2] = x
  OBVIOUS
<1>2. ~(y < x)
  BY <1>1, Zenon DEF Less
<1> QED
  BY <1>2

LEMMA Smallest ==
    ASSUME NEW S \in SUBSET Nat, S # {}
    PROVE  \E x \in S : \A y \in S : x <= y
<1>1. IsWellFoundedOn(Less, Nat)
  BY NatLessThanWellFounded DEF OpToRel, Less
<1>2. PICK x \in S : \A y \in S : ~(<<y, x>> \in Less)
  BY <1>1, WFMin
<1> QED
  BY <1>2, NotLess

\* The queue hands out the most urgent item, the oldest of them.
LEMMA FirstThere ==
    ASSUME QueueInv, line # << >>
    PROVE  First \in 1..Len(line)
<1>1. /\ line \in Seq(Items) /\ Len(line) \in Nat /\ Len(line) > 0
      /\ DOMAIN line = 1..Len(line) /\ \A k \in 1..Len(line) : line[k] \in Items
  BY DEF QueueInv, QueueTypes
<1>2. Urgency \in [Items -> 0..3]
  BY AgentQueueAssumption
<1> DEFINE levels == {Urgency[line[k]] : k \in 1..Len(line)}
<1>3. levels \in SUBSET Nat /\ levels # {}
  <2>1. 1 \in 1..Len(line)
    BY <1>1
  <2>2. \A k \in 1..Len(line) : Urgency[line[k]] \in Nat
    BY <1>1, <1>2
  <2> QED
    BY <2>1, <2>2
<1>4. PICK u \in levels : \A v \in levels : u <= v
  BY <1>3, Smallest
<1> DEFINE ready == {k \in 1..Len(line) : Urgency[line[k]] = u}
<1>5. ready \in SUBSET Nat /\ ready # {}
  BY <1>1, <1>4
<1>6. PICK k \in ready : \A n \in ready : k <= n
  BY <1>5, Smallest
<1>7. ASSUME NEW n \in DOMAIN line \ {k}
      PROVE  \/ Urgency[line[k]] < Urgency[line[n]]
             \/ (Urgency[line[k]] = Urgency[line[n]] /\ k < n)
  <2>1. n \in 1..Len(line) /\ n # k /\ k \in 1..Len(line) /\ Urgency[line[k]] = u
    BY <1>1, <1>6
  <2>2. Urgency[line[n]] \in levels /\ Urgency[line[n]] \in Nat /\ u \in Nat
    BY <1>1, <1>2, <1>3, <2>1
  <2>3. u <= Urgency[line[n]]
    BY <1>4, <2>2
  <2>4. CASE Urgency[line[n]] = u
    <3>1. n \in ready
      BY <2>1, <2>4
    <3>2. k <= n
      BY <1>6, <3>1
    <3> QED
      BY <2>1, <2>4, <3>2
  <2> QED
    BY <2>1, <2>2, <2>3, <2>4
<1>8. k \in DOMAIN line
  BY <1>1, <1>6
<1>9. First \in DOMAIN line
  BY <1>7, <1>8, Zenon DEF First
<1> QED
  BY <1>1, <1>9

\* Removing a place of a sequence keeps the order of the others.
LEMMA RemovedAt ==
    ASSUME NEW S, NEW s \in Seq(S), NEW k \in 1..Len(s)
    PROVE  /\ RemoveAt(s, k) \in Seq(S) /\ Len(RemoveAt(s, k)) = Len(s) - 1
           /\ \A j \in 1..(Len(s) - 1) : RemoveAt(s, k)[j] = IF j < k THEN s[j] ELSE s[j + 1]
<1> DEFINE before == SubSeq(s, 1, k - 1)
           after == SubSeq(s, k + 1, Len(s))
           t == before \o after
<1>1. /\ before \in Seq(S) /\ Len(before) = k - 1
      /\ \A j \in 1..(k - 1) : before[j] = s[j]
  OBVIOUS
<1>2. /\ after \in Seq(S) /\ Len(after) = Len(s) - k
      /\ \A j \in 1..(Len(s) - k) : after[j] = s[k + j]
  OBVIOUS
<1> HIDE DEF before, after
<1>3. t \in Seq(S) /\ Len(t) = Len(s) - 1
  BY <1>1, <1>2
<1>4. ASSUME NEW j \in 1..(Len(s) - 1) PROVE t[j] = IF j < k THEN s[j] ELSE s[j + 1]
  <2>1. CASE j < k
    BY <1>1, <1>2, <1>3, <2>1
  <2>2. CASE ~(j < k)
    <3>1. t[j] = after[j - (k - 1)] /\ j - (k - 1) \in 1..(Len(s) - k)
      BY <1>1, <1>2, <1>3, <2>2
    <3>2. k + (j - (k - 1)) = j + 1
      OBVIOUS
    <3> QED
      BY <1>2, <2>2, <3>1, <3>2
  <2> QED
    BY <2>1, <2>2
<1>5. RemoveAt(s, k) = t
  BY DEF RemoveAt, before, after
<1> HIDE DEF t
<1> QED
  BY <1>3, <1>4, <1>5


LEMMA Taken ==
    ASSUME QueueInv, NEW k \in 1..Len(line), line' = RemoveAt(line, k)
    PROVE  /\ line[k] \in Items
           /\ line' \in Seq(Items)
           /\ \A j, n \in 1..Len(line') : line'[j] = line'[n] => j = n
           /\ \A n \in Items : InLine(n)' <=> InLine(n) /\ n # line[k]
<1>1. line \in Seq(Items) /\ Len(line) \in Nat /\ k \in Nat /\ k <= Len(line) /\ 1 <= k
  BY DEF QueueInv, QueueTypes
<1>2. /\ line' \in Seq(Items) /\ Len(line') = Len(line) - 1
      /\ \A j \in 1..(Len(line) - 1) : line'[j] = IF j < k THEN line[j] ELSE line[j + 1]
  BY <1>1, RemovedAt
<1>3. \A j, n \in 1..Len(line) : line[j] = line[n] => j = n
  BY DEF QueueInv, OnePlace
<1> DEFINE old(j) == IF j < k THEN j ELSE j + 1
<1>4. \A j \in 1..Len(line') : old(j) \in 1..Len(line) /\ old(j) # k /\ line'[j] = line[old(j)]
  BY <1>1, <1>2
<1>5. \A j, n \in 1..Len(line') : old(j) = old(n) => j = n
  BY <1>1, <1>2
<1>6. \A j, n \in 1..Len(line') : line'[j] = line'[n] => j = n
  <2> HIDE DEF old
  <2> QED
    BY <1>3, <1>4, <1>5
<1>7. ASSUME NEW n \in Items PROVE InLine(n)' <=> InLine(n) /\ n # line[k]
  <2>1. ASSUME InLine(n)' PROVE InLine(n) /\ n # line[k]
    <3>1. PICK j \in 1..Len(line') : line'[j] = n
      BY <2>1 DEF InLine
    <3>2. old(j) \in 1..Len(line) /\ old(j) # k /\ line[old(j)] = n
      BY <1>4, <3>1
    <3> HIDE DEF old
    <3> QED
      BY <1>3, <3>2 DEF InLine
  <2>2. ASSUME InLine(n), n # line[k] PROVE InLine(n)'
    <3>1. PICK j \in 1..Len(line) : line[j] = n
      BY <2>2 DEF InLine
    <3>2. j # k
      BY <2>2, <3>1
    <3>3. CASE j < k
      <4>1. j \in 1..Len(line') /\ line'[j] = n
        BY <1>1, <1>2, <3>1, <3>3
      <4> QED
        BY <4>1 DEF InLine
    <3>4. CASE j > k
      <4>1. j - 1 \in 1..Len(line') /\ ~(j - 1 < k) /\ (j - 1) + 1 = j
        BY <1>1, <1>2, <3>1, <3>4
      <4>2. line'[j - 1] = n
        BY <1>2, <3>1, <4>1
      <4> QED
        BY <4>1, <4>2 DEF InLine
    <3> QED
      BY <1>1, <3>1, <3>2, <3>3, <3>4
  <2> QED
    BY <2>1, <2>2
<1>8. line[k] \in Items
  BY <1>1
<1> QED
  BY <1>2, <1>6, <1>7, <1>8

\* What a step leaves alone of an item.
Still(n) ==
    /\ item'[n] = item[n] /\ fut'[n] = fut[n] /\ co'[n] = co[n]
    /\ InLine(n)' <=> InLine(n)
    /\ n \in waiting' <=> n \in waiting

LEMMA OneMoves ==
    ASSUME QueueInv, QueueTypes', mode' = mode, NEW i \in Items,
           \A j, k \in 1..Len(line') : line'[j] = line'[k] => j = k,
           \A n \in Items \ {i} : Still(n),
           ~(InLine(i)' /\ i \in waiting'),
           co'[i].at # "none" => ~InLine(i)' /\ i \notin waiting',
           FutureOK(i)'
    PROVE  QueueInv'
<1>1. OnePlace'
  <2>1. ASSUME NEW n \in Items
        PROVE  /\ ~(InLine(n)' /\ n \in waiting')
               /\ co'[n].at # "none" => ~InLine(n)' /\ n \notin waiting'
    <3>1. CASE n = i
      BY <3>1
    <3>2. CASE n # i
      BY <3>2 DEF Still, QueueInv, OnePlace
    <3> QED
      BY <3>1, <3>2
  <2> QED
    BY <2>1 DEF OnePlace
<1>2. ASSUME NEW n \in Items PROVE FutureOK(n)'
  <2>1. CASE n = i
    BY <2>1
  <2>2. CASE n # i
    <3>1. Still(n) /\ FutureOK(n)
      BY <2>2 DEF QueueInv
    <3>2. Placed(n)' <=> Placed(n)
      BY <3>1 DEF Still, Placed
    <3> QED
      BY <3>1, <3>2 DEF Still, FutureOK
  <2> QED
    BY <2>1, <2>2
<1> QED
  BY <1>1, <1>2 DEF QueueInv

-----------------------------------------------------------------------------
\* The record of an item, and of its coroutine, after a step.
LEMMA Marked ==
    ASSUME QueueTypes, NEW i \in Items, NEW s,
           s \in {"absent", "queued", "running", "completed", "failed", "cancelled"},
           item' = [item EXCEPT ![i].status = s]
    PROVE  /\ item' \in [Items -> ItemRecs]
           /\ item'[i].status = s /\ item'[i].retries = item[i].retries
           /\ \A n \in Items \ {i} : item'[n] = item[n]
<1>1. item \in [Items -> ItemRecs] /\ item[i] \in ItemRecs
  BY DEF QueueTypes
<1>2. item' = [item EXCEPT ![i] = [item[i] EXCEPT !.status = s]]
  OBVIOUS
<1>3. /\ [item[i] EXCEPT !.status = s] \in ItemRecs
      /\ [item[i] EXCEPT !.status = s].status = s
      /\ [item[i] EXCEPT !.status = s].retries = item[i].retries
  BY <1>1 DEF ItemRecs
<1>4. item'[i] = [item[i] EXCEPT !.status = s]
  BY <1>1, <1>2
<1> QED
  BY <1>1, <1>2, <1>3, <1>4

LEMMA RunningKnown ==
    ASSUME NEW c \in CoRecs, c.at # "none"
    PROVE  c \in Running
<1>1. NoCo.at = "none"
  BY DEF NoCo
<1> QED
  BY <1>1 DEF CoRecs

LEMMA Moves ==
    ASSUME QueueTypes, NEW i \in Items, NEW s, s \in {"new", "exec", "put"},
           co[i].at # "none", co' = [co EXCEPT ![i].at = s]
    PROVE  /\ co' \in [Items -> CoRecs]
           /\ co'[i].at = s /\ co'[i].stop = co[i].stop
           /\ \A n \in Items \ {i} : co'[n] = co[n]
<1>1. co \in [Items -> CoRecs] /\ co[i] \in Running
  BY RunningKnown DEF QueueTypes
<1>2. co' = [co EXCEPT ![i] = [co[i] EXCEPT !.at = s]]
  OBVIOUS
<1>3. /\ [co[i] EXCEPT !.at = s] \in Running
      /\ [co[i] EXCEPT !.at = s].at = s
      /\ [co[i] EXCEPT !.at = s].stop = co[i].stop
  BY <1>1 DEF Running
<1>4. co'[i] = [co[i] EXCEPT !.at = s]
  BY <1>1, <1>2
<1> QED
  BY <1>1, <1>2, <1>3, <1>4 DEF CoRecs

\* A coroutine that runs has an agent.
LEMMA AgentKnown ==
    ASSUME QueueTypes, NEW i \in Items, co[i].at # "none"
    PROVE  co[i].agent \in QueueAgents
<1>1. co[i] \in Running
  BY RunningKnown DEF QueueTypes
<1> QED
  BY <1>1 DEF Running

LEMMA Ends ==
    ASSUME QueueTypes, NEW i \in Items, CoEnds(i)
    PROVE  /\ co' \in [Items -> CoRecs] /\ calls' \in [Items -> Int]
           /\ co'[i].at = "none" /\ ~co'[i].stop
           /\ \A n \in Items \ {i} : co'[n] = co[n]
<1>1. NoCo \in CoRecs /\ NoCo.at = "none" /\ ~NoCo.stop
  BY DEF NoCo, CoRecs
<1>2. co \in [Items -> CoRecs] /\ calls \in [Items -> Int]
  BY DEF QueueTypes
<1>3. co' = [co EXCEPT ![i] = NoCo] /\ calls' = [calls EXCEPT ![i] = calls[i] + 1]
  BY DEF CoEnds
<1>4. calls' \in [Items -> Int]
  BY <1>2, <1>3
<1> HIDE DEF NoCo
<1>5. co' \in [Items -> CoRecs] /\ co'[i] = NoCo /\ \A n \in Items \ {i} : co'[n] = co[n]
  BY <1>1, <1>2, <1>3
<1> QED
  BY <1>1, <1>4, <1>5

LEMMA Settled ==
    ASSUME QueueTypes, NEW i \in Items, NEW outcome,
           outcome \in {"result", "error", "cancelled"}, Settle(i, outcome)
    PROVE  /\ fut' \in [Items -> {"none", "pending", "result", "error", "cancelled"}]
           /\ fut'[i] = IF fut[i] = "pending" THEN outcome ELSE fut[i]
           /\ \A n \in Items \ {i} : fut'[n] = fut[n]
  BY DEF QueueTypes, Settle

\* submit(): an item that nobody knew goes to the queue or waits for a place in it.
LEMMA SubmitOK ==
    ASSUME QueueInv, NEW i \in Items, SubmitItem(i)
    PROVE  QueueInv'
<1>1. QueueTypes /\ FutureOK(i) /\ OnePlace
  BY DEF QueueInv
<1>2. ~Placed(i) /\ item[i].retries = 0
  BY <1>1 DEF SubmitItem, FutureOK
<1>3. /\ item' \in [Items -> ItemRecs]
      /\ item'[i].status = "queued" /\ item'[i].retries = item[i].retries
      /\ \A n \in Items \ {i} : item'[n] = item[n]
  BY <1>1, Marked DEF SubmitItem
<1>4. /\ fut' \in [Items -> {"none", "pending", "result", "error", "cancelled"}]
      /\ fut'[i] = "pending" /\ \A n \in Items \ {i} : fut'[n] = fut[n]
  BY <1>1 DEF SubmitItem, QueueTypes
<1>5. co' = co /\ listed' = listed /\ calls' = calls /\ mode' = mode /\ idle' = idle
  BY DEF SubmitItem
<1>6. MaxRetries \in Nat /\ MaxRetries > 0
  BY AgentQueueAssumption
<1>7. /\ line' \in Seq(Items) /\ waiting' \subseteq Items
      /\ \A j, k \in 1..Len(line') : line'[j] = line'[k] => j = k
      /\ \A n \in Items \ {i} : InLine(n)' <=> InLine(n)
      /\ \A n \in Items \ {i} : n \in waiting' <=> n \in waiting
      /\ ~(InLine(i)' /\ i \in waiting') /\ (InLine(i)' \/ i \in waiting')
  <2>1. CASE Full
    <3>1. waiting' = waiting \cup {i} /\ line' = line
      BY <2>1 DEF SubmitItem
    <3> QED
      BY <1>1, <1>2, <3>1 DEF QueueTypes, OnePlace, Placed, InLine
  <2>2. CASE ~Full
    <3>1. waiting' = waiting /\ line' = Append(line, i)
      BY <2>2 DEF SubmitItem
    <3>2. ~InLine(i)
      BY <1>2 DEF Placed
    <3>3. /\ line' \in Seq(Items)
          /\ \A j, k \in 1..Len(line') : line'[j] = line'[k] => j = k
          /\ \A n \in Items : InLine(n)' <=> InLine(n) \/ n = i
      BY <3>1, <3>2, Appended
    <3> QED
      BY <1>1, <1>2, <3>1, <3>3 DEF QueueTypes, Placed
  <2> QED
    BY <2>1, <2>2
<1>8. co'[i].at = "none" /\ ~co'[i].stop
  BY <1>1, <1>2, <1>5 DEF Placed, FutureOK
<1>9. \A n \in Items \ {i} : Still(n)
  BY <1>3, <1>4, <1>5, <1>7 DEF Still
<1>10. QueueTypes'
  BY <1>1, <1>3, <1>4, <1>5, <1>7 DEF QueueTypes
<1>11. FutureOK(i)'
  BY <1>2, <1>3, <1>4, <1>6, <1>7, <1>8 DEF FutureOK, Placed
<1> QED
  BY <1>5, <1>7, <1>8, <1>9, <1>10, <1>11, OneMoves

\* A step that leaves the queue and those who wait for a place as they are.
LEMMA SameLine ==
    ASSUME QueueInv, UNCHANGED <<line, waiting>>
    PROVE  /\ \A j, k \in 1..Len(line') : line'[j] = line'[k] => j = k
           /\ \A n : (InLine(n)' <=> InLine(n)) /\ (n \in waiting' <=> n \in waiting)
           /\ line' \in Seq(Items) /\ waiting' \subseteq Items
  BY DEF QueueInv, QueueTypes, OnePlace, InLine

LEMMA SubmitGoesOnOK ==
    ASSUME QueueInv, NEW i \in Items, SubmitGoesOn(i)
    PROVE  QueueInv'
<1>1. QueueTypes /\ FutureOK(i) /\ OnePlace
  BY DEF QueueInv
<1>2. ~InLine(i) /\ Placed(i) /\ co[i].at = "none"
  BY <1>1 DEF SubmitGoesOn, OnePlace, Placed
<1>3. /\ line' = Append(line, i) /\ waiting' = waiting \ {i}
      /\ item' = item /\ fut' = fut /\ co' = co /\ listed' = listed /\ calls' = calls
      /\ mode' = mode /\ idle' = idle
  BY DEF SubmitGoesOn
<1>4. /\ line' \in Seq(Items)
      /\ \A j, k \in 1..Len(line') : line'[j] = line'[k] => j = k
      /\ \A n \in Items : InLine(n)' <=> InLine(n) \/ n = i
  BY <1>2, <1>3, Appended
<1>5. \A n \in Items \ {i} : Still(n)
  BY <1>3, <1>4 DEF Still
<1>6. QueueTypes'
  BY <1>1, <1>3, <1>4 DEF QueueTypes
<1>7. InLine(i)' /\ i \notin waiting' /\ co'[i].at = "none"
  BY <1>2, <1>3, <1>4
<1>8. FutureOK(i)'
  BY <1>1, <1>2, <1>3, <1>7 DEF FutureOK, Placed
<1> QED
  BY <1>3, <1>4, <1>5, <1>6, <1>7, <1>8, OneMoves

LEMMA RequeueGoesOnOK ==
    ASSUME QueueInv, NEW i \in Items, RequeueGoesOn(i)
    PROVE  QueueInv'
<1>1. QueueTypes /\ FutureOK(i) /\ OnePlace
  BY DEF QueueInv
<1>2. co[i].at # "none" /\ ~InLine(i) /\ i \notin waiting /\ Placed(i)
  BY <1>1 DEF RequeueGoesOn, OnePlace, Placed
<1>3. /\ line' = Append(line, i) /\ waiting' = waiting
      /\ item' = item /\ fut' = fut /\ listed' = listed /\ mode' = mode /\ idle' = idle
      /\ CoEnds(i)
  BY DEF RequeueGoesOn
<1>4. /\ line' \in Seq(Items)
      /\ \A j, k \in 1..Len(line') : line'[j] = line'[k] => j = k
      /\ \A n \in Items : InLine(n)' <=> InLine(n) \/ n = i
  BY <1>2, <1>3, Appended
<1>5. /\ co' \in [Items -> CoRecs] /\ calls' \in [Items -> Int]
      /\ co'[i].at = "none" /\ ~co'[i].stop
      /\ \A n \in Items \ {i} : co'[n] = co[n]
  BY <1>1, <1>3, Ends
<1>6. \A n \in Items \ {i} : Still(n)
  BY <1>3, <1>4, <1>5 DEF Still
<1>7. QueueTypes'
  BY <1>1, <1>3, <1>4, <1>5 DEF QueueTypes
<1>8. InLine(i)' /\ i \notin waiting'
  BY <1>2, <1>3, <1>4
<1>9. FutureOK(i)'
  BY <1>1, <1>2, <1>3, <1>5, <1>8 DEF FutureOK, Placed
<1> QED
  BY <1>3, <1>4, <1>5, <1>6, <1>7, <1>8, <1>9, OneMoves

LEMMA TaskBeginsOK ==
    ASSUME QueueInv, NEW i \in Items, TaskBegins(i)
    PROVE  QueueInv'
<1>1. QueueTypes /\ FutureOK(i) /\ OnePlace
  BY DEF QueueInv
<1>2. co[i].at # "none" /\ ~InLine(i) /\ i \notin waiting /\ Placed(i) /\ ~co[i].stop
  BY <1>1 DEF TaskBegins, OnePlace, Placed
<1>3. idle' \subseteq QueueAgents
  <2>1. co[i].agent \in QueueAgents
    BY <1>1, <1>2, AgentKnown
  <2> QED
    BY <1>1, <2>1 DEF TaskBegins, QueueTypes
<1>4. /\ UNCHANGED <<line, waiting>>
      /\ fut' = fut /\ listed' = listed /\ mode' = mode /\ calls' = calls
      /\ item' = [item EXCEPT ![i].status = "running"]
      /\ co' = [co EXCEPT ![i].at = "exec"]
  BY DEF TaskBegins
<1>5. /\ \A j, k \in 1..Len(line') : line'[j] = line'[k] => j = k
      /\ \A n : (InLine(n)' <=> InLine(n)) /\ (n \in waiting' <=> n \in waiting)
      /\ line' \in Seq(Items) /\ waiting' \subseteq Items
  BY <1>4, SameLine
<1>6. /\ item' \in [Items -> ItemRecs]
      /\ item'[i].status = "running" /\ item'[i].retries = item[i].retries
      /\ \A n \in Items \ {i} : item'[n] = item[n]
  BY <1>1, <1>4, Marked
<1>7. /\ co' \in [Items -> CoRecs]
      /\ co'[i].at = "exec" /\ co'[i].stop = co[i].stop
      /\ \A n \in Items \ {i} : co'[n] = co[n]
  BY <1>1, <1>2, <1>4, Moves
<1>8. \A n \in Items \ {i} : Still(n)
  BY <1>4, <1>5, <1>6, <1>7 DEF Still
<1>9. QueueTypes'
  BY <1>3, <1>1, <1>4, <1>5, <1>6, <1>7 DEF QueueTypes
<1>10. FutureOK(i)'
  BY <1>1, <1>2, <1>4, <1>5, <1>6, <1>7 DEF FutureOK, Placed
<1>11. ~InLine(i)' /\ i \notin waiting'
  BY <1>2, <1>5
<1> QED
  BY <1>4, <1>5, <1>7, <1>8, <1>9, <1>10, <1>11, OneMoves

LEMMA TaskSucceedsOK ==
    ASSUME QueueInv, NEW i \in Items, TaskSucceeds(i)
    PROVE  QueueInv'
<1>1. QueueTypes /\ FutureOK(i) /\ OnePlace
  BY DEF QueueInv
<1>2. co[i].at # "none" /\ ~InLine(i) /\ i \notin waiting /\ Placed(i)
  BY <1>1 DEF TaskSucceeds, OnePlace, Placed
<1>3. idle' \subseteq QueueAgents
  <2>1. co[i].agent \in QueueAgents
    BY <1>1, <1>2, AgentKnown
  <2> QED
    BY <1>1, <2>1 DEF TaskSucceeds, QueueTypes
<1>4. UNCHANGED <<line, waiting>> /\ listed' = listed /\ mode' = mode /\ CoEnds(i)
  BY DEF TaskSucceeds
<1>5. /\ \A j, k \in 1..Len(line') : line'[j] = line'[k] => j = k
      /\ \A n : (InLine(n)' <=> InLine(n)) /\ (n \in waiting' <=> n \in waiting)
      /\ line' \in Seq(Items) /\ waiting' \subseteq Items
  BY <1>4, SameLine
<1>6. /\ co' \in [Items -> CoRecs] /\ calls' \in [Items -> Int]
      /\ co'[i].at = "none" /\ ~co'[i].stop
      /\ \A n \in Items \ {i} : co'[n] = co[n]
  BY <1>1, <1>4, Ends
<1>7. /\ item' \in [Items -> ItemRecs] /\ item'[i].retries = item[i].retries
      /\ fut' \in [Items -> {"none", "pending", "result", "error", "cancelled"}]
      /\ \A n \in Items \ {i} : item'[n] = item[n] /\ fut'[n] = fut[n]
      /\ \/ /\ item[i].status = "cancelled" /\ item'[i] = item[i] /\ fut'[i] = fut[i]
         \/ /\ item'[i].status = "completed"
            /\ fut'[i] = IF fut[i] = "pending" THEN "result" ELSE fut[i]
  <2>1. CASE item[i].status = "cancelled"
    <3>1. item' = item /\ fut' = fut
      BY <2>1 DEF TaskSucceeds
    <3> QED
      BY <1>1, <2>1, <3>1 DEF QueueTypes
  <2>2. CASE item[i].status # "cancelled"
    <3>1. item' = [item EXCEPT ![i].status = "completed"] /\ Settle(i, "result")
      BY <2>2 DEF TaskSucceeds
    <3>2. /\ item' \in [Items -> ItemRecs]
          /\ item'[i].status = "completed" /\ item'[i].retries = item[i].retries
          /\ \A n \in Items \ {i} : item'[n] = item[n]
      BY <1>1, <3>1, Marked
    <3>3. /\ fut' \in [Items -> {"none", "pending", "result", "error", "cancelled"}]
          /\ fut'[i] = IF fut[i] = "pending" THEN "result" ELSE fut[i]
          /\ \A n \in Items \ {i} : fut'[n] = fut[n]
      BY <1>1, <3>1, Settled
    <3> QED
      BY <3>2, <3>3
  <2> QED
    BY <2>1, <2>2
<1>8. \A n \in Items \ {i} : Still(n)
  BY <1>5, <1>6, <1>7 DEF Still
<1>9. QueueTypes'
  BY <1>3, <1>1, <1>4, <1>5, <1>6, <1>7 DEF QueueTypes
<1>10. FutureOK(i)'
  BY <1>1, <1>2, <1>4, <1>5, <1>6, <1>7 DEF FutureOK, Placed
<1>11. ~InLine(i)' /\ i \notin waiting'
  BY <1>2, <1>5
<1> QED
  BY <1>4, <1>5, <1>6, <1>8, <1>9, <1>10, <1>11, OneMoves

\* _handle_failure(): the last try that is allowed ends in an error.
LEMMA Rewritten ==
    ASSUME QueueTypes, NEW i \in Items, NEW s, NEW n \in Nat,
           s \in {"absent", "queued", "running", "completed", "failed", "cancelled"},
           item' = [item EXCEPT ![i] = [status |-> s, retries |-> n]]
    PROVE  /\ item' \in [Items -> ItemRecs]
           /\ item'[i].status = s /\ item'[i].retries = n
           /\ \A k \in Items \ {i} : item'[k] = item[k]
<1> DEFINE r == [status |-> s, retries |-> n]
<1>1. r \in ItemRecs /\ r.status = s /\ r.retries = n
  BY DEF ItemRecs
<1>2. item' = [item EXCEPT ![i] = r] /\ item \in [Items -> ItemRecs]
  BY DEF QueueTypes
<1> HIDE DEF r
<1>3. item' \in [Items -> ItemRecs] /\ item'[i] = r
  BY <1>1, <1>2
<1> QED
  BY <1>1, <1>2, <1>3

LEMMA RequeueOK ==
    ASSUME QueueInv, NEW i \in Items, ~InLine(i), co[i].at # "none", ~co[i].stop,
           i \notin waiting, waiting' = waiting, Requeue(i)
    PROVE  /\ line' \in Seq(Items)
           /\ \A j, k \in 1..Len(line') : line'[j] = line'[k] => j = k
           /\ \A n \in Items \ {i} : InLine(n)' <=> InLine(n)
           /\ co' \in [Items -> CoRecs] /\ calls' \in [Items -> Int]
           /\ \A n \in Items \ {i} : co'[n] = co[n]
           /\ ~co'[i].stop /\ Placed(i)' /\ (co'[i].at # "none" => ~InLine(i)')
<1>1. QueueTypes
  BY DEF QueueInv
<1>2. CASE Full
  <2>1. co' = [co EXCEPT ![i].at = "put"] /\ line' = line /\ calls' = calls
    BY <1>2 DEF Requeue
  <2>2. /\ \A j, k \in 1..Len(line') : line'[j] = line'[k] => j = k
        /\ \A n : (InLine(n)' <=> InLine(n)) /\ (n \in waiting' <=> n \in waiting)
        /\ line' \in Seq(Items) /\ waiting' \subseteq Items
    BY <2>1, SameLine
  <2>3. /\ co' \in [Items -> CoRecs]
        /\ co'[i].at = "put" /\ co'[i].stop = co[i].stop
        /\ \A n \in Items \ {i} : co'[n] = co[n]
    BY <1>1, <2>1, Moves
  <2> QED
    BY <1>1, <2>1, <2>2, <2>3 DEF QueueTypes, Placed
<1>3. CASE ~Full
  <2>1. line' = Append(line, i) /\ CoEnds(i)
    BY <1>3 DEF Requeue
  <2>2. /\ line' \in Seq(Items)
        /\ \A j, k \in 1..Len(line') : line'[j] = line'[k] => j = k
        /\ \A n \in Items : InLine(n)' <=> InLine(n) \/ n = i
    BY <2>1, Appended
  <2>3. /\ co' \in [Items -> CoRecs] /\ calls' \in [Items -> Int]
        /\ co'[i].at = "none" /\ ~co'[i].stop
        /\ \A n \in Items \ {i} : co'[n] = co[n]
    BY <1>1, <2>1, Ends
  <2> QED
    BY <2>2, <2>3 DEF Placed
<1> QED
  BY <1>2, <1>3

LEMMA TaskFailsOK ==
    ASSUME QueueInv, NEW i \in Items, TaskFails(i)
    PROVE  QueueInv'
<1>1. QueueTypes /\ FutureOK(i) /\ OnePlace
  BY DEF QueueInv
<1>2. co[i].at # "none" /\ ~InLine(i) /\ i \notin waiting /\ Placed(i) /\ ~co[i].stop
  BY <1>1 DEF TaskFails, OnePlace, Placed
<1>3. idle' \subseteq QueueAgents
  <2>1. co[i].agent \in QueueAgents
    BY <1>1, <1>2, AgentKnown
  <2> QED
    BY <1>1, <2>1 DEF TaskFails, QueueTypes
<1>4. waiting' = waiting /\ listed' = listed /\ mode' = mode
  BY DEF TaskFails
<1>5. MaxRetries \in Nat /\ item[i].retries \in Nat /\ item[i].retries < MaxRetries
  BY <1>1, <1>2, AgentQueueAssumption DEF QueueTypes, ItemRecs, FutureOK
<1> DEFINE n == item[i].retries + 1
<1>6. n \in Nat
  BY <1>5
<1>7. CASE item[i].status = "cancelled" /\ CoEnds(i) /\ UNCHANGED <<item, fut, line>>
  <2>1. /\ \A j, k \in 1..Len(line') : line'[j] = line'[k] => j = k
        /\ \A m : (InLine(m)' <=> InLine(m)) /\ (m \in waiting' <=> m \in waiting)
        /\ line' \in Seq(Items) /\ waiting' \subseteq Items
    BY <1>4, <1>7, SameLine
  <2>2. /\ co' \in [Items -> CoRecs] /\ calls' \in [Items -> Int]
        /\ co'[i].at = "none" /\ ~co'[i].stop
        /\ \A m \in Items \ {i} : co'[m] = co[m]
    BY <1>1, <1>7, Ends
  <2>3. \A m \in Items \ {i} : Still(m)
    BY <1>7, <2>1, <2>2 DEF Still
  <2>4. QueueTypes'
    BY <1>3, <1>1, <1>4, <1>7, <2>1, <2>2 DEF QueueTypes
  <2>5. FutureOK(i)'
    BY <1>1, <1>2, <1>4, <1>7, <2>1, <2>2 DEF FutureOK, Placed
  <2>6. ~InLine(i)' /\ i \notin waiting'
    BY <1>2, <2>1
  <2> QED
    BY <1>4, <2>1, <2>2, <2>3, <2>4, <2>5, <2>6, OneMoves
<1>8. CASE /\ item[i].status # "cancelled" /\ MayRetry(n)
           /\ item' = [item EXCEPT ![i] = [status |-> "queued", retries |-> n]]
           /\ Requeue(i) /\ UNCHANGED fut
  <2>1. /\ item' \in [Items -> ItemRecs]
        /\ item'[i].status = "queued" /\ item'[i].retries = n
        /\ \A m \in Items \ {i} : item'[m] = item[m]
    BY <1>1, <1>6, <1>8, Rewritten
  <2>2. /\ line' \in Seq(Items)
        /\ \A j, k \in 1..Len(line') : line'[j] = line'[k] => j = k
        /\ \A m \in Items \ {i} : InLine(m)' <=> InLine(m)
        /\ co' \in [Items -> CoRecs] /\ calls' \in [Items -> Int]
        /\ \A m \in Items \ {i} : co'[m] = co[m]
        /\ ~co'[i].stop /\ Placed(i)' /\ (co'[i].at # "none" => ~InLine(i)')
    BY <1>2, <1>4, <1>8, RequeueOK
  <2>3. \A m \in Items \ {i} : Still(m)
    BY <1>4, <1>8, <2>1, <2>2 DEF Still
  <2>4. QueueTypes'
    BY <1>3, <1>1, <1>4, <1>8, <2>1, <2>2 DEF QueueTypes
  <2>5. n < MaxRetries
    BY <1>8 DEF MayRetry
  <2>6. fut'[i] # "result" /\ fut'[i] # "error"
    BY <1>1, <1>2, <1>8 DEF FutureOK
  <2>7. FutureOK(i)'
    BY <1>1, <1>2, <1>5, <2>1, <2>2, <2>5, <2>6 DEF FutureOK
  <2>8. i \notin waiting'
    BY <1>2, <1>4
  <2> QED
    BY <1>4, <2>2, <2>3, <2>4, <2>7, <2>8, OneMoves
<1>9. CASE /\ item[i].status # "cancelled" /\ ~MayRetry(n)
           /\ item' = [item EXCEPT ![i] = [status |-> "failed", retries |-> n]]
           /\ Settle(i, "error") /\ CoEnds(i) /\ UNCHANGED line
  <2>1. /\ item' \in [Items -> ItemRecs]
        /\ item'[i].status = "failed" /\ item'[i].retries = n
        /\ \A m \in Items \ {i} : item'[m] = item[m]
    BY <1>1, <1>6, <1>9, Rewritten
  <2>2. /\ \A j, k \in 1..Len(line') : line'[j] = line'[k] => j = k
        /\ \A m : (InLine(m)' <=> InLine(m)) /\ (m \in waiting' <=> m \in waiting)
        /\ line' \in Seq(Items) /\ waiting' \subseteq Items
    BY <1>4, <1>9, SameLine
  <2>3. /\ co' \in [Items -> CoRecs] /\ calls' \in [Items -> Int]
        /\ co'[i].at = "none" /\ ~co'[i].stop
        /\ \A m \in Items \ {i} : co'[m] = co[m]
    BY <1>1, <1>9, Ends
  <2>4. /\ fut' \in [Items -> {"none", "pending", "result", "error", "cancelled"}]
        /\ fut'[i] = IF fut[i] = "pending" THEN "error" ELSE fut[i]
        /\ \A m \in Items \ {i} : fut'[m] = fut[m]
    BY <1>1, <1>9, Settled
  <2>5. \A m \in Items \ {i} : Still(m)
    BY <2>1, <2>2, <2>3, <2>4 DEF Still
  <2>6. QueueTypes'
    BY <1>3, <1>1, <1>4, <2>1, <2>2, <2>3, <2>4 DEF QueueTypes
  <2>7. n = MaxRetries
    BY <1>5, <1>9 DEF MayRetry
  <2>8. ~InLine(i)' /\ i \notin waiting'
    BY <1>2, <2>2
  <2>9. FutureOK(i)'
    BY <1>1, <1>2, <1>5, <2>1, <2>3, <2>4, <2>7, <2>8 DEF FutureOK, Placed
  <2> QED
    BY <1>4, <2>2, <2>3, <2>5, <2>6, <2>8, <2>9, OneMoves
<1> QED
  BY <1>7, <1>8, <1>9 DEF TaskFails

LEMMA TaskStopsOK ==
    ASSUME QueueInv, NEW i \in Items, TaskStops(i)
    PROVE  QueueInv'
<1>1. QueueTypes /\ FutureOK(i) /\ OnePlace
  BY DEF QueueInv
<1>2. co[i].at # "none" /\ ~InLine(i) /\ i \notin waiting /\ Placed(i) /\ co[i].stop
  BY <1>1 DEF TaskStops, OnePlace, Placed, FutureOK
<1>3. idle' \subseteq QueueAgents
  <2>1. co[i].agent \in QueueAgents
    BY <1>1, <1>2, AgentKnown
  <2> QED
    BY <1>1, <2>1 DEF TaskStops, QueueTypes
<1>4. UNCHANGED <<line, waiting>> /\ fut' = fut /\ listed' = listed /\ mode' = mode /\ CoEnds(i)
  BY DEF TaskStops
<1>5. /\ \A j, k \in 1..Len(line') : line'[j] = line'[k] => j = k
      /\ \A n : (InLine(n)' <=> InLine(n)) /\ (n \in waiting' <=> n \in waiting)
      /\ line' \in Seq(Items) /\ waiting' \subseteq Items
  BY <1>4, SameLine
<1>6. /\ co' \in [Items -> CoRecs] /\ calls' \in [Items -> Int]
      /\ co'[i].at = "none" /\ ~co'[i].stop
      /\ \A n \in Items \ {i} : co'[n] = co[n]
  BY <1>1, <1>4, Ends
<1>7. /\ item' \in [Items -> ItemRecs] /\ item'[i].retries = item[i].retries
      /\ \A n \in Items \ {i} : item'[n] = item[n]
      /\ item'[i].status \in {item[i].status, "cancelled"}
  <2>1. CASE co[i].at = "exec"
    <3>1. item' = [item EXCEPT ![i].status = "cancelled"]
      BY <2>1 DEF TaskStops
    <3>2. /\ item' \in [Items -> ItemRecs]
          /\ item'[i].status = "cancelled" /\ item'[i].retries = item[i].retries
          /\ \A n \in Items \ {i} : item'[n] = item[n]
      BY <1>1, <3>1, Marked
    <3> QED
      BY <3>2
  <2>2. CASE co[i].at # "exec"
    <3>1. item' = item
      BY <2>2 DEF TaskStops
    <3> QED
      BY <1>1, <3>1 DEF QueueTypes
  <2> QED
    BY <2>1, <2>2
<1>8. \A n \in Items \ {i} : Still(n)
  BY <1>4, <1>5, <1>6, <1>7 DEF Still
<1>9. QueueTypes'
  BY <1>3, <1>1, <1>4, <1>5, <1>6, <1>7 DEF QueueTypes
<1>10. FutureOK(i)'
  BY <1>1, <1>2, <1>4, <1>5, <1>6, <1>7 DEF FutureOK, Placed
<1>11. ~InLine(i)' /\ i \notin waiting'
  BY <1>2, <1>5
<1> QED
  BY <1>4, <1>5, <1>6, <1>8, <1>9, <1>10, <1>11, OneMoves

LEMMA ForgetTaskOK ==
    ASSUME QueueInv, NEW i \in Items, ForgetTask(i)
    PROVE  QueueInv'
<1>1. QueueTypes /\ FutureOK(i) /\ OnePlace
  BY DEF QueueInv
<1>2. /\ UNCHANGED <<line, waiting>> /\ item' = item /\ fut' = fut /\ co' = co
      /\ mode' = mode /\ idle' = idle
      /\ listed' = listed \ {i} /\ calls' = [calls EXCEPT ![i] = calls[i] - 1]
  BY DEF ForgetTask
<1>3. /\ \A j, k \in 1..Len(line') : line'[j] = line'[k] => j = k
      /\ \A n : (InLine(n)' <=> InLine(n)) /\ (n \in waiting' <=> n \in waiting)
      /\ line' \in Seq(Items) /\ waiting' \subseteq Items
  BY <1>2, SameLine
<1>4. calls' \in [Items -> Int]
  BY <1>1, <1>2 DEF QueueTypes
<1>5. \A n \in Items : Still(n)
  BY <1>2, <1>3 DEF Still
<1>6. QueueTypes'
  BY <1>1, <1>2, <1>3, <1>4 DEF QueueTypes
<1>7. /\ ~(InLine(i)' /\ i \in waiting')
      /\ co'[i].at # "none" => ~InLine(i)' /\ i \notin waiting'
  BY <1>1, <1>2, <1>3 DEF OnePlace
<1>8. FutureOK(i)'
  BY <1>1, <1>2, <1>3 DEF FutureOK, Placed
<1> QED
  BY <1>2, <1>3, <1>5, <1>6, <1>7, <1>8, OneMoves

\* cancel() and stop() cancel coroutines that run, and only those that are listed.
LEMMA StopsListed ==
    ASSUME QueueTypes, NEW S, co' = StoppedListed(S)
    PROVE  /\ co' \in [Items -> CoRecs]
           /\ \A n \in Items : /\ co'[n].at = co[n].at
                               /\ n \notin S => co'[n] = co[n]
                               /\ co'[n].stop => co[n].stop \/ co[n].at # "none"
<1> DEFINE C(n) == IF n \in S /\ co[n].at # "none" THEN [co[n] EXCEPT !.stop = TRUE] ELSE co[n]
<1>1. co' = [n \in Items |-> C(n)]
  BY DEF StoppedListed
<1>2. ASSUME NEW n \in Items
      PROVE  /\ C(n) \in CoRecs /\ C(n).at = co[n].at
             /\ n \notin S => C(n) = co[n]
             /\ C(n).stop => co[n].stop \/ co[n].at # "none"
  <2>1. co[n] \in CoRecs
    BY DEF QueueTypes
  <2>2. ASSUME co[n].at # "none"
        PROVE  /\ [co[n] EXCEPT !.stop = TRUE] \in CoRecs
               /\ [co[n] EXCEPT !.stop = TRUE].at = co[n].at
    <3>1. co[n] \in Running
      BY <2>1, <2>2, RunningKnown
    <3>2. /\ [co[n] EXCEPT !.stop = TRUE] \in Running
          /\ [co[n] EXCEPT !.stop = TRUE].at = co[n].at
      BY <3>1 DEF Running
    <3> QED
      BY <3>2 DEF CoRecs
  <2> QED
    BY <2>1, <2>2
<1> HIDE DEF C
<1> QED
  BY <1>1, <1>2

LEMMA CancelItemOK ==
    ASSUME QueueInv, NEW i \in Items, CancelItem(i)
    PROVE  QueueInv'
<1>1. QueueTypes /\ FutureOK(i) /\ OnePlace
  BY DEF QueueInv
<1>2. /\ UNCHANGED <<line, waiting>> /\ listed' = listed /\ calls' = calls /\ mode' = mode
      /\ idle' = idle
      /\ item' = [item EXCEPT ![i].status = "cancelled"]
      /\ co' = StoppedListed(listed \cap {i}) /\ Settle(i, "cancelled")
      /\ item[i].status \in {"queued", "running", "cancelled"}
  BY DEF CancelItem
<1>3. /\ \A j, k \in 1..Len(line') : line'[j] = line'[k] => j = k
      /\ \A n : (InLine(n)' <=> InLine(n)) /\ (n \in waiting' <=> n \in waiting)
      /\ line' \in Seq(Items) /\ waiting' \subseteq Items
  BY <1>2, SameLine
<1>4. /\ item' \in [Items -> ItemRecs]
      /\ item'[i].status = "cancelled" /\ item'[i].retries = item[i].retries
      /\ \A n \in Items \ {i} : item'[n] = item[n]
  BY <1>1, <1>2, Marked
<1>5. /\ co' \in [Items -> CoRecs]
      /\ \A n \in Items : /\ co'[n].at = co[n].at
                          /\ n \notin listed \cap {i} => co'[n] = co[n]
                          /\ co'[n].stop => co[n].stop \/ co[n].at # "none"
  BY <1>1, <1>2, StopsListed
<1>6. /\ fut' \in [Items -> {"none", "pending", "result", "error", "cancelled"}]
      /\ fut'[i] = IF fut[i] = "pending" THEN "cancelled" ELSE fut[i]
      /\ \A n \in Items \ {i} : fut'[n] = fut[n]
  BY <1>1, <1>2, Settled
<1>7. \A n \in Items \ {i} : Still(n)
  BY <1>3, <1>4, <1>5, <1>6 DEF Still
<1>8. QueueTypes'
  BY <1>1, <1>2, <1>3, <1>4, <1>5, <1>6 DEF QueueTypes
<1>9. /\ ~(InLine(i)' /\ i \in waiting')
      /\ co'[i].at # "none" => ~InLine(i)' /\ i \notin waiting'
  BY <1>1, <1>3, <1>5 DEF OnePlace
<1>10. Placed(i)' <=> Placed(i)
  BY <1>3, <1>5 DEF Placed
<1>11. co'[i].stop => co'[i].at # "none"
  BY <1>1, <1>5 DEF FutureOK
<1>12. FutureOK(i)'
  BY <1>1, <1>2, <1>4, <1>6, <1>10, <1>11 DEF FutureOK
<1> QED
  BY <1>2, <1>3, <1>7, <1>8, <1>9, <1>12, OneMoves

\* One turn of the dispatch loop: an item leaves the queue for a coroutine.
LEMMA DispatchOK ==
    ASSUME QueueInv, Dispatch
    PROVE  QueueInv'
<1>1. QueueTypes /\ OnePlace /\ First \in 1..Len(line)
  BY FirstThere DEF QueueInv, Dispatch
<1>2. line' = RemoveAt(line, First)
  BY DEF Dispatch
<1>3. PICK i \in Items : i = line[First]
  BY <1>1 DEF QueueTypes
<1>4. /\ line' \in Seq(Items)
      /\ \A j, n \in 1..Len(line') : line'[j] = line'[n] => j = n
      /\ \A n \in Items : InLine(n)' <=> InLine(n) /\ n # i
  BY <1>3, <1>1, <1>2, Taken
<1>5. InLine(i) /\ FutureOK(i)
  BY <1>3, <1>1 DEF InLine, QueueInv
<1>6. co[i].at = "none" /\ i \notin waiting /\ Placed(i)
  BY <1>1, <1>4, <1>5 DEF OnePlace, Placed
<1>7. /\ item' = item /\ fut' = fut /\ waiting' = waiting /\ calls' = calls
      /\ mode' = mode /\ idle' = idle /\ mode = "running"
  BY DEF Dispatch
<1>8. CASE item[i].status = "cancelled"
  <2>1. co' = co /\ listed' = listed
    BY <1>3, <1>8 DEF Dispatch
  <2>2. \A n \in Items \ {i} : Still(n)
    BY <1>4, <1>7, <2>1 DEF Still
  <2>3. QueueTypes'
    BY <1>1, <1>4, <1>7, <2>1 DEF QueueTypes
  <2>4. ~InLine(i)' /\ co'[i].at = "none" /\ i \notin waiting'
    BY <1>4, <1>6, <1>7, <2>1
  <2>5. fut[i] # "pending"
    BY <1>5, <1>7, <1>8 DEF FutureOK
  <2>6. FutureOK(i)'
    BY <1>5, <1>6, <1>7, <1>8, <2>1, <2>4, <2>5 DEF FutureOK, Placed
  <2> QED
    BY <1>4, <1>7, <2>2, <2>3, <2>4, <2>6, OneMoves
<1>9. CASE item[i].status # "cancelled"
  <2>1. PICK a \in idle : co' = [co EXCEPT ![i] = [at |-> "new", agent |-> a, stop |-> FALSE]]
    BY <1>3, <1>9 DEF Dispatch
  <2>2. listed' = listed \cup {i}
    BY <1>3, <1>9 DEF Dispatch
  <2> DEFINE c == [at |-> "new", agent |-> a, stop |-> FALSE]
  <2>3. c \in CoRecs /\ c.at = "new" /\ ~c.stop
    BY <1>1 DEF CoRecs, Running, QueueTypes
  <2>4. co' = [co EXCEPT ![i] = c] /\ co \in [Items -> CoRecs]
    BY <1>1, <2>1 DEF QueueTypes
  <2> HIDE DEF c
  <2>5. co' \in [Items -> CoRecs] /\ co'[i] = c /\ \A n \in Items \ {i} : co'[n] = co[n]
    BY <1>4, <2>3, <2>4
  <2>6. \A n \in Items \ {i} : Still(n)
    BY <1>4, <1>7, <2>5 DEF Still
  <2>7. QueueTypes'
    BY <1>1, <1>4, <1>7, <2>2, <2>5 DEF QueueTypes
  <2>8. ~InLine(i)' /\ i \notin waiting' /\ co'[i].at = "new" /\ ~co'[i].stop
    BY <1>4, <1>6, <1>7, <2>3, <2>5
  <2>9. FutureOK(i)'
    BY <1>5, <1>6, <1>7, <1>9, <2>8 DEF FutureOK, Placed
  <2> QED
    BY <1>4, <1>7, <2>6, <2>7, <2>8, <2>9, OneMoves
<1> QED
  BY <1>8, <1>9

\* stop() asks the coroutines to end; what is still pending then is cancelled.
LEMMA StopQueueOK ==
    ASSUME QueueInv, StopQueue \/ QueueStopped
    PROVE  QueueInv'
<1>1. QueueTypes /\ OnePlace
  BY DEF QueueInv
<1>2. /\ UNCHANGED <<line, waiting>> /\ item' = item /\ calls' = calls
      /\ mode' # "running" /\ idle' = idle /\ listed' \subseteq Items
  BY <1>1 DEF StopQueue, QueueStopped, QueueTypes
<1>3. /\ \A j, k \in 1..Len(line') : line'[j] = line'[k] => j = k
      /\ \A n : (InLine(n)' <=> InLine(n)) /\ (n \in waiting' <=> n \in waiting)
      /\ line' \in Seq(Items) /\ waiting' \subseteq Items
  BY <1>2, SameLine
<1>4. /\ co' \in [Items -> CoRecs]
      /\ \A n \in Items : /\ co'[n].at = co[n].at
                          /\ co'[n].stop => co[n].stop \/ co[n].at # "none"
  <2>1. CASE StopQueue
    BY <1>1, <2>1, StopsListed DEF StopQueue
  <2>2. CASE QueueStopped
    BY <1>1, <2>2 DEF QueueStopped, QueueTypes
  <2> QED
    BY <2>1, <2>2
<1>5. /\ fut' \in [Items -> {"none", "pending", "result", "error", "cancelled"}]
      /\ \A n \in Items : fut'[n] = fut[n] \/ (fut[n] = "pending" /\ fut'[n] = "cancelled")
  <2>1. CASE StopQueue
    BY <1>1, <2>1 DEF StopQueue, QueueTypes
  <2>2. CASE QueueStopped
    BY <1>1, <2>2 DEF QueueStopped, QueueTypes
  <2> QED
    BY <2>1, <2>2
<1>6. QueueTypes'
  BY <1>1, <1>2, <1>3, <1>4, <1>5 DEF QueueTypes
<1>7. OnePlace'
  BY <1>1, <1>3, <1>4 DEF OnePlace
<1>8. ASSUME NEW n \in Items PROVE FutureOK(n)'
  <2>1. FutureOK(n)
    BY DEF QueueInv
  <2>2. Placed(n)' <=> Placed(n)
    BY <1>3, <1>4 DEF Placed
  <2> QED
    BY <1>2, <1>4, <1>5, <2>1, <2>2 DEF FutureOK
<1> QED
  BY <1>6, <1>7, <1>8 DEF QueueInv

LEMMA QueueStep == QueueInv /\ [QueueNext]_queueVars => QueueInv'
<1> SUFFICES ASSUME QueueInv, [QueueNext]_queueVars PROVE QueueInv'
  OBVIOUS
<1>1. CASE UNCHANGED queueVars
  BY <1>1 DEF queueVars, QueueInv, QueueTypes, OnePlace, InLine, FutureOK, Placed
<1>2. ASSUME NEW i \in Items,
             \/ SubmitItem(i) \/ SubmitGoesOn(i) \/ TaskBegins(i) \/ TaskSucceeds(i)
             \/ TaskFails(i) \/ RequeueGoesOn(i) \/ TaskStops(i) \/ ForgetTask(i)
             \/ CancelItem(i)
      PROVE QueueInv'
  BY <1>2, SubmitOK, SubmitGoesOnOK, TaskBeginsOK, TaskSucceedsOK, TaskFailsOK,
     RequeueGoesOnOK, TaskStopsOK, ForgetTaskOK, CancelItemOK
<1>3. CASE Dispatch
  BY <1>3, DispatchOK
<1>4. CASE StopQueue \/ QueueStopped
  BY <1>4, StopQueueOK
<1> QED
  BY <1>1, <1>2, <1>3, <1>4 DEF QueueNext

LEMMA OneOccurrence ==
    ASSUME QueueInv, NEW i \in Items
    PROVE  Occurrences(i) = IF InLine(i) THEN 1 ELSE 0
<1>1. /\ line \in Seq(Items) /\ DOMAIN line = 1..Len(line)
      /\ \A j, k \in 1..Len(line) : line[j] = line[k] => j = k
  BY DEF QueueInv, QueueTypes, OnePlace
<1> DEFINE at == {k \in DOMAIN line : line[k] = i}
<1>2. CASE InLine(i)
  <2>1. PICK k \in 1..Len(line) : line[k] = i
    BY <1>2 DEF InLine
  <2>2. at = {k}
    BY <1>1, <2>1
  <2>3. Cardinality({k}) = 1
    BY FS_Singleton
  <2>4. Cardinality(at) = 1
    BY <2>2, <2>3
  <2> QED
    BY <1>2, <2>4 DEF Occurrences
<1>3. CASE ~InLine(i)
  <2>1. at = {}
    BY <1>1, <1>3 DEF InLine
  <2>2. Cardinality(at) = 0
    BY <2>1, FS_EmptySet
  <2> QED
    BY <1>3, <2>2 DEF Occurrences
<1> QED
  BY <1>2, <1>3

LEMMA QueueInvSound == QueueInv => AgentQueueSound
<1> SUFFICES ASSUME QueueInv, NEW i \in Items
             PROVE  /\ fut[i] = "pending" /\ mode = "running"
                       => Occurrences(i) + (IF i \in waiting THEN 1 ELSE 0)
                            + (IF co[i].at # "none" THEN 1 ELSE 0) = 1
                    /\ fut[i] = "result" => item[i].status = "completed"
                    /\ fut[i] = "error" => item[i].status = "failed"
                                           /\ item[i].retries = MaxRetries
                    /\ item[i].retries <= MaxRetries
  BY DEF AgentQueueSound
<1>1. FutureOK(i) /\ OnePlace
  BY DEF QueueInv
<1>2. Occurrences(i) = IF InLine(i) THEN 1 ELSE 0
  BY OneOccurrence
<1>3. ASSUME fut[i] = "pending", mode = "running"
      PROVE  Occurrences(i) + (IF i \in waiting THEN 1 ELSE 0)
                + (IF co[i].at # "none" THEN 1 ELSE 0) = 1
  <2>1. Placed(i)
    BY <1>1, <1>3 DEF FutureOK
  <2> QED
    BY <1>1, <1>2, <2>1 DEF OnePlace, Placed
<1> QED
  BY <1>1, <1>3 DEF FutureOK

\* agents/task_orchestrator.py: whatever is submitted, fails, is retried or is cancelled,
\* in a full queue or not, no item is lost or is in two places while the loop runs, and
\* its future says what became of it.  For any items, agents, queue size and retries.
THEOREM AgentQueueAlways == QueueSpec => []AgentQueueSound
  BY QueueStart, QueueStep, QueueInvSound, PTL DEF QueueSpec

-----------------------------------------------------------------------------
\* LocalRuntime: the supervisor and the provider.

Procs == {"none", "booting", "loading", "ready", "hung", "dead"}
Delays == {0} \cup {h + 2^(k + 1) : h \in Nat, k \in Nat}
ObjRecs == [model : Ggufs \cup {Nobody}, proc : Procs, used : Nat, restarts : Nat, next : Delays]
Stations == {"none", "lock", "look", "restart", "room", "spawn", "wait", "call", "over"}
AskRecs == [at : Stations, model : Ggufs, on : Objects \cup {0}, embeds : BOOLEAN, cut : BOOLEAN]

LocalTypes ==
    /\ obj \in [Objects -> ObjRecs] /\ loaded \in [Ggufs -> Objects \cup {0}]
    /\ \E n \in Nat : ask \in [1..n -> AskRecs]
    /\ files \subseteq Ggufs /\ hour \in Nat /\ client \in Objects \cup {0}

\* o is, or was, a child for m.
ChildOf(o, m) == o \in Objects /\ obj[o].model = m /\ obj[o].proc # "none"

LoadedOK(m) == loaded[m] # 0 => ChildOf(loaded[m], m)
AskOK(r) ==
    \/ ask[r].at \in {"wait", "restart"}
    \/ ask[r].at = "call" /\ ~ask[r].embeds
    => ChildOf(ask[r].on, ask[r].model)

\* A thread that somebody still awaits runs under the lock.
Awaited(r) == Threaded(r) /\ ~ask[r].cut
HoldsLock(r) == Awaited(r) => lock = r

Spawning == {r \in Asks : ask[r].at = "spawn"}

\* A thread that is about to load a model leaves a place for it.
PlaceLeft == Cardinality(Residents) + Cardinality(Spawning) <= MaxLoaded + Cardinality(Cut)

Counted(o) == o \in torn \/ \E m \in Ggufs : loaded[m] = o
FoundDead(r) ==
    ask[r].at = "restart"
    => /\ ~Alive(ask[r].on)
       /\ \/ loaded[ask[r].model] = ask[r].on
          \/ loaded[ask[r].model] = 0 /\ ask[r].on \in torn
NoneLoaded(r) == ask[r].at \in {"room", "spawn"} => loaded[ask[r].model] = 0

\* As long as no thread was left to itself, nobody's child is replaced or forgotten.
QuietInv ==
    Cut = {} => /\ \A o \in Objects : Alive(o) => Counted(o)
                /\ \A r \in Asks : FoundDead(r) /\ NoneLoaded(r)

\* The inductive invariant.
LocalInv ==
    /\ LocalTypes
    /\ \A m \in Ggufs : LoadedOK(m)
    /\ \A r \in Asks : AskOK(r) /\ HoldsLock(r)
    /\ PlaceLeft
    /\ QuietInv

\* LocalRuntime: downloads, as long as one pull runs at a time.
Versions == 1..MaxVersion
FileOK(f) == f = Missing \/ f \in Seq(Versions \cup {Hole})
PullRecs == [at : {"none", "listed", "append", "write", "check", "verified", "ok", "error"},
             ver : Versions \cup {0}, body : Versions \cup {0}, pos : Nat,
             to : {"none", "part", "dest", "gone"}]

PullOK(u) ==
    /\ ~Idle(u) => pull[u].ver \in Versions
    /\ pull[u].at \in {"append", "write"}
       => pull[u].to = "part" /\ pull[u].body \in Versions /\ part \in Seq(Versions \cup {Hole})
    /\ pull[u].at = "verified" => part = Whole(pull[u].ver)

OnePullInv ==
    /\ pull \in [Pulls -> PullRecs] /\ remote \in Versions
    /\ FileOK(part)
    /\ \A u, w \in Pulls : ~Idle(u) /\ ~Idle(w) => u = w
    /\ \A u \in Pulls : PullOK(u)
    /\ dest = Missing \/ \E v \in Versions : dest = Whole(v)

DownloadInv == overlap \/ OnePullInv

\* A child that was there is there, alive or not, and is for the same model.
Kept(o) ==
    obj[o].proc # "none" => obj'[o].model = obj[o].model /\ obj'[o].proc # "none"

\* One request moves on.
MovedTo(r, at, o, c) ==
    /\ \E n \in Nat : ask' \in [1..n -> AskRecs]
    /\ Asks' = Asks /\ \A s \in Asks \ {r} : ask'[s] = ask[s]
    /\ ask'[r].at = at /\ ask'[r].on = o /\ ask'[r].cut = c
    /\ ask'[r].model = ask[r].model /\ ask'[r].embeds = ask[r].embeds

LEMMA AsksAre ==
    ASSUME LocalTypes
    PROVE  /\ ask \in [Asks -> AskRecs]
           /\ \E n \in Nat : Asks = 1..n
  BY DEF LocalTypes, Asks

LEMMA AskIs ==
    ASSUME LocalTypes, NEW r \in Asks
    PROVE  /\ ask[r] \in AskRecs /\ ask[r].at \in Stations /\ ask[r].model \in Ggufs
           /\ ask[r].on \in Objects \cup {0} /\ ask[r].embeds \in BOOLEAN /\ ask[r].cut \in BOOLEAN
<1>1. ask[r] \in AskRecs
  BY AsksAre
<1> QED
  BY <1>1 DEF AskRecs

LEMMA AskBecomes ==
    ASSUME LocalTypes, NEW r \in Asks, NEW q \in AskRecs,
           q.model = ask[r].model, q.embeds = ask[r].embeds, ask' = [ask EXCEPT ![r] = q]
    PROVE  MovedTo(r, q.at, q.on, q.cut)
<1>1. PICK n \in Nat : ask \in [1..n -> AskRecs] /\ Asks = 1..n
  BY DEF LocalTypes, Asks
<1>2. /\ ask' \in [1..n -> AskRecs] /\ ask'[r] = q
      /\ \A s \in Asks \ {r} : ask'[s] = ask[s]
  BY <1>1
<1>3. Asks' = Asks
  BY <1>1, <1>2 DEF Asks
<1> QED
  BY <1>2, <1>3 DEF MovedTo

LEMMA AskMoves ==
    ASSUME LocalTypes, NEW r \in Asks, NEW o \in Objects \cup {0}, NEW at \in Stations,
           GoesTo(r, at, o)
    PROVE  MovedTo(r, at, o, ask[r].cut)
<1> DEFINE q == [ask[r] EXCEPT !.at = at, !.on = o]
<1>1. ask[r] \in AskRecs
  BY AskIs
<1>2. /\ q \in AskRecs /\ q.at = at /\ q.on = o /\ q.cut = ask[r].cut
      /\ q.model = ask[r].model /\ q.embeds = ask[r].embeds
  BY <1>1 DEF AskRecs
<1>3. ask' = [ask EXCEPT ![r] = q]
  BY DEF GoesTo
<1> HIDE DEF q
<1>4. MovedTo(r, q.at, q.on, q.cut)
  BY <1>2, <1>3, AskBecomes
<1> QED
  BY <1>2, <1>4

LEMMA AskGoes ==
    ASSUME LocalTypes, NEW r \in Asks, NEW at \in Stations, Goes(r, at)
    PROVE  MovedTo(r, at, ask[r].on, ask[r].cut)
<1> DEFINE q == [ask[r] EXCEPT !.at = at]
<1>1. ask[r] \in AskRecs
  BY AskIs
<1>2. /\ q \in AskRecs /\ q.at = at /\ q.on = ask[r].on /\ q.cut = ask[r].cut
      /\ q.model = ask[r].model /\ q.embeds = ask[r].embeds
  BY <1>1 DEF AskRecs
<1>3. ask' = [ask EXCEPT ![r] = q]
  BY DEF Goes
<1> HIDE DEF q
<1>4. MovedTo(r, q.at, q.on, q.cut)
  BY <1>2, <1>3, AskBecomes
<1> QED
  BY <1>2, <1>4

LEMMA AskIsCut ==
    ASSUME LocalTypes, NEW r \in Asks, ask' = [ask EXCEPT ![r].cut = TRUE]
    PROVE  MovedTo(r, ask[r].at, ask[r].on, TRUE)
<1> DEFINE q == [ask[r] EXCEPT !.cut = TRUE]
<1>1. ask[r] \in AskRecs
  BY AskIs
<1>2. /\ q \in AskRecs /\ q.at = ask[r].at /\ q.on = ask[r].on /\ q.cut = TRUE
      /\ q.model = ask[r].model /\ q.embeds = ask[r].embeds
  BY <1>1 DEF AskRecs
<1>3. ask' = [ask EXCEPT ![r] = q]
  OBVIOUS
<1> HIDE DEF q
<1>4. MovedTo(r, q.at, q.on, q.cut)
  BY <1>2, <1>3, AskBecomes
<1> QED
  BY <1>2, <1>4

\* ensure() returns an address to whoever awaits it.
LEMMA AskReturns ==
    ASSUME LocalTypes, NEW r \in Asks, NEW o \in Objects, Returns(r, o)
    PROVE  \/ MovedTo(r, "over", 0, ask[r].cut)
           \/ MovedTo(r, "wait", o, ask[r].cut)
<1>1. {"over", "wait"} \subseteq Stations /\ 0 \in Objects \cup {0} /\ o \in Objects \cup {0}
  BY DEF Stations
<1>2. GoesTo(r, "over", 0) \/ GoesTo(r, "wait", o)
  BY DEF Returns
<1> QED
  BY <1>1, <1>2, AskMoves

LEMMA ObjBecomes ==
    ASSUME LocalTypes, NEW o \in Objects, NEW c \in ObjRecs, c.proc # "none",
           \/ obj[o].proc = "none"
           \/ c.model = obj[o].model,
           obj' = [obj EXCEPT ![o] = c]
    PROVE  /\ obj' \in [Objects -> ObjRecs] /\ obj'[o] = c
           /\ \A x \in Objects \ {o} : obj'[x] = obj[x]
           /\ \A x \in Objects : Kept(x)
<1>1. /\ obj' \in [Objects -> ObjRecs] /\ obj'[o] = c
      /\ \A x \in Objects \ {o} : obj'[x] = obj[x]
  BY DEF LocalTypes
<1> QED
  BY <1>1 DEF Kept

LEMMA ObjStopped ==
    ASSUME LocalTypes, NEW O, obj' = Stopped(O)
    PROVE  /\ obj' \in [Objects -> ObjRecs] /\ \A o \in Objects : Kept(o)
           /\ \A o \in Objects : Alive(o)' => Alive(o) /\ o \notin O
<1> DEFINE D(o) == IF o \in O THEN [obj[o] EXCEPT !.proc = "dead"] ELSE obj[o]
<1>1. obj' = [o \in Objects |-> D(o)]
  BY DEF Stopped
<1>2. ASSUME NEW o \in Objects
      PROVE  /\ D(o) \in ObjRecs /\ D(o).model = obj[o].model
             /\ obj[o].proc # "none" => D(o).proc # "none"
             /\ D(o).proc = IF o \in O THEN "dead" ELSE obj[o].proc
  <2>1. obj[o] \in ObjRecs
    BY DEF LocalTypes
  <2>2. /\ [obj[o] EXCEPT !.proc = "dead"] \in ObjRecs
        /\ [obj[o] EXCEPT !.proc = "dead"].model = obj[o].model
        /\ [obj[o] EXCEPT !.proc = "dead"].proc = "dead"
    BY <2>1 DEF ObjRecs, Procs
  <2> QED
    BY <2>1, <2>2
<1> HIDE DEF D
<1>3. /\ obj' \in [Objects -> ObjRecs] /\ \A o \in Objects : Kept(o)
      /\ \A o \in Objects : obj'[o].proc = IF o \in O THEN "dead" ELSE obj[o].proc
  BY <1>1, <1>2 DEF Kept
<1> QED
  BY <1>3 DEF Alive

-----------------------------------------------------------------------------
\* The models loaded, and the requests, are counted.
LEMMA CountsAre ==
    ASSUME LocalTypes
    PROVE  /\ IsFiniteSet(Residents) /\ Cardinality(Residents) \in Nat
           /\ IsFiniteSet(Spawning) /\ Cardinality(Spawning) \in Nat
           /\ IsFiniteSet(Cut) /\ Cardinality(Cut) \in Nat
<1>1. Residents \subseteq Ggufs /\ IsFiniteSet(Ggufs)
  BY LocalAssumption DEF Residents
<1>2. PICK n \in Nat : Asks = 1..n
  BY AsksAre
<1>3. IsFiniteSet(Asks)
  BY <1>2, FS_Interval
<1>4. Spawning \subseteq Asks /\ Cut \subseteq Asks
  BY DEF Spawning, Cut
<1>5. IsFiniteSet(Residents) /\ IsFiniteSet(Spawning) /\ IsFiniteSet(Cut)
  BY <1>1, <1>3, <1>4, FS_Subset
<1> QED
  BY <1>5, FS_CardinalityType

LEMMA CountsNext ==
    ASSUME LocalTypes'
    PROVE  /\ IsFiniteSet(Residents') /\ Cardinality(Residents') \in Nat
           /\ IsFiniteSet(Spawning') /\ Cardinality(Spawning') \in Nat
           /\ IsFiniteSet(Cut') /\ Cardinality(Cut') \in Nat
<1>1. Residents' \subseteq Ggufs /\ IsFiniteSet(Ggufs)
  BY LocalAssumption DEF Residents
<1>2. PICK n \in Nat : Asks' = 1..n
  BY DEF LocalTypes, Asks
<1>3. IsFiniteSet(Asks')
  BY <1>2, FS_Interval
<1>4. Spawning' \subseteq Asks' /\ Cut' \subseteq Asks'
  BY DEF Spawning, Cut
<1>5. IsFiniteSet(Residents') /\ IsFiniteSet(Spawning') /\ IsFiniteSet(Cut')
  BY <1>1, <1>3, <1>4, FS_Subset
<1> QED
  BY <1>5, FS_CardinalityType

LEMMA CountKeeps ==
    ASSUME LocalInv, LocalTypes', Residents' \subseteq Residents, Spawning' \subseteq Spawning,
           Cut \subseteq Cut'
    PROVE  PlaceLeft'
<1>1. LocalTypes /\ PlaceLeft
  BY DEF LocalInv
<1>2. /\ IsFiniteSet(Residents) /\ IsFiniteSet(Spawning)
      /\ Cardinality(Residents) \in Nat /\ Cardinality(Spawning) \in Nat /\ Cardinality(Cut) \in Nat
  BY <1>1, CountsAre
<1>3. /\ IsFiniteSet(Cut') /\ Cardinality(Cut') \in Nat
      /\ Cardinality(Residents') \in Nat /\ Cardinality(Spawning') \in Nat
  BY CountsNext
<1>4. /\ Cardinality(Residents') <= Cardinality(Residents)
      /\ Cardinality(Spawning') <= Cardinality(Spawning)
  BY <1>2, FS_Subset
<1>5. Cardinality(Cut) <= Cardinality(Cut')
  BY <1>3, FS_Subset
<1>6. MaxLoaded \in Nat
  BY LocalAssumption
<1> QED
  BY <1>1, <1>2, <1>3, <1>4, <1>5, <1>6 DEF PlaceLeft

\* A step that loads nothing, and is not the last turn of the loop that makes room.
LEMMA LocalKeeps ==
    ASSUME LocalInv, LocalTypes', \A o \in Objects : Kept(o),
           \A m \in Ggufs : loaded'[m] \in {0, loaded[m]},
           Asks' = Asks,
           \A s \in Asks : \/ ask'[s] = ask[s]
                           \/ /\ AskOK(s)' /\ (ask[s].cut => ask'[s].cut)
                              /\ ask'[s].at = "spawn" => ask[s].at = "spawn",
           \A s \in Asks : HoldsLock(s)',
           QuietInv'
    PROVE  LocalInv'
<1>1. ASSUME NEW m \in Ggufs PROVE LoadedOK(m)'
  BY <1>1 DEF LocalInv, LoadedOK, ChildOf, Kept
<1>2. ASSUME NEW s \in Asks PROVE AskOK(s)'
  <2>1. CASE ask'[s] = ask[s]
    BY <1>2, <2>1 DEF LocalInv, AskOK, ChildOf, Kept
  <2> QED
    BY <1>2, <2>1
<1>3. Residents' \subseteq Residents
  BY DEF Residents
<1>4. Spawning' \subseteq Spawning /\ Cut \subseteq Cut'
  BY DEF Spawning, Cut
<1>5. PlaceLeft'
  BY <1>3, <1>4, CountKeeps
<1> QED
  BY <1>1, <1>2, <1>5 DEF LocalInv

\* Under the lock, and when nobody was cancelled, there is one thread.
LEMMA Alone ==
    ASSUME LocalInv, Cut = {}, NEW r \in Asks, Threaded(r), NEW s \in Asks \ {r}
    PROVE  ~Threaded(s)
  BY DEF LocalInv, HoldsLock, Awaited, Cut

\* The other threads keep the lock, or their independence.
LEMMA LocksKept ==
    ASSUME LocalInv, NEW r \in Asks, Asks' = Asks, \A s \in Asks \ {r} : ask'[s] = ask[s],
           Threaded(r)' => Threaded(r) /\ ask'[r].cut = ask[r].cut,
           lock' = lock \/ (lock' = Nobody /\ lock = r /\ ~Threaded(r)')
    PROVE  \A s \in Asks : HoldsLock(s)'
<1>1. ASSUME NEW s \in Asks PROVE HoldsLock(s)'
  <2>1. HoldsLock(s)
    BY <1>1 DEF LocalInv
  <2>2. CASE s = r
    BY <2>1, <2>2 DEF HoldsLock, Awaited
  <2>3. CASE s # r
    <3>1. Awaited(s)' = Awaited(s)
      BY <2>3 DEF Awaited, Threaded
    <3> QED
      BY <2>1, <2>3, <3>1 DEF HoldsLock
  <2> QED
    BY <2>2, <2>3
<1> QED
  BY <1>1

LEMMA ThreadQuiet ==
    ASSUME LocalInv, NEW r \in Asks, Threaded(r), Asks' = Asks,
           \A s \in Asks \ {r} : ask'[s] = ask[s], ask[r].cut => ask'[r].cut,
           Cut = {} => /\ FoundDead(r)' /\ NoneLoaded(r)'
                       /\ \A o \in Objects : Alive(o)' => Counted(o)'
    PROVE  QuietInv'
<1> SUFFICES ASSUME Cut' = {}
             PROVE  /\ \A o \in Objects : Alive(o)' => Counted(o)'
                    /\ \A s \in Asks : FoundDead(s)' /\ NoneLoaded(s)'
  BY DEF QuietInv
<1>1. Cut = {}
  BY DEF Cut
<1>2. ASSUME NEW s \in Asks \ {r} PROVE FoundDead(s)' /\ NoneLoaded(s)'
  <2>1. ~Threaded(s) /\ ask'[s] = ask[s]
    BY <1>1, <1>2, Alone
  <2> QED
    BY <2>1 DEF Threaded, FoundDead, NoneLoaded
<1> QED
  BY <1>1, <1>2

-----------------------------------------------------------------------------
LEMMA LocalStart == LocalInit => LocalInv
<1> SUFFICES ASSUME LocalInit PROVE LocalInv
  OBVIOUS
<1>1. PICK s \in Scripts : ask = [r \in DOMAIN s.asks |-> NewAsk(s.asks[r])]
  BY DEF LocalInit
<1> DEFINE Q == [model : Ggufs, embeds : BOOLEAN]
<1>0. s.asks \in Seq(Q)
  BY LocalAssumption
<1> HIDE DEF Q
<1>2. /\ s.asks \in Seq(Q) /\ Len(s.asks) \in Nat
      /\ DOMAIN s.asks = 1..Len(s.asks)
  BY <1>0
<1>3. ASSUME NEW r \in 1..Len(s.asks)
      PROVE  /\ NewAsk(s.asks[r]) \in AskRecs
             /\ NewAsk(s.asks[r]).at = "none" /\ NewAsk(s.asks[r]).cut = FALSE
  <2>1. s.asks[r] \in Q
    BY <1>2, <1>3
  <2> QED
    BY <2>1 DEF Q, NewAsk, AskRecs, Stations
<1>4. /\ ask \in [1..Len(s.asks) -> AskRecs]
      /\ \A r \in 1..Len(s.asks) : ask[r].at = "none" /\ ask[r].cut = FALSE
  BY <1>1, <1>2, <1>3
<1>5. NoObject \in ObjRecs /\ NoObject.proc = "none"
  BY DEF NoObject, ObjRecs, Procs, Delays
<1>6. /\ obj \in [Objects -> ObjRecs] /\ loaded \in [Ggufs -> Objects \cup {0}]
      /\ files \subseteq Ggufs /\ hour \in Nat /\ client \in Objects \cup {0}
  <2> HIDE DEF NoObject
  <2> QED
    BY <1>5 DEF LocalInit
<1>7. LocalTypes
  BY <1>2, <1>4, <1>6 DEF LocalTypes
<1>8. \A m \in Ggufs : LoadedOK(m)
  BY DEF LocalInit, LoadedOK
<1>9. Asks = 1..Len(s.asks)
  BY <1>4 DEF Asks
<1>10. \A r \in Asks : ask[r].at = "none" /\ ask[r].cut = FALSE
  BY <1>4, <1>9
<1>11. \A r \in Asks : AskOK(r) /\ HoldsLock(r) /\ FoundDead(r) /\ NoneLoaded(r)
  BY <1>10 DEF AskOK, HoldsLock, Awaited, Threaded, FoundDead, NoneLoaded
<1>12. PlaceLeft
  <2>1. Residents = {} /\ Spawning = {}
    BY <1>10 DEF LocalInit, Residents, Spawning
  <2>2. Cardinality({}) = 0
    BY FS_EmptySet
  <2>3. Cardinality(Residents) = 0 /\ Cardinality(Spawning) = 0
    BY <2>1, <2>2
  <2>4. Cardinality(Cut) \in Nat /\ MaxLoaded \in Nat
    BY <1>7, CountsAre, LocalAssumption
  <2> QED
    BY <2>3, <2>4 DEF PlaceLeft
<1>13. \A o \in Objects : ~Alive(o)
  BY <1>5 DEF LocalInit, Alive
<1> QED
  BY <1>7, <1>8, <1>11, <1>12, <1>13 DEF LocalInv, QuietInv

\* The steps of a request that leave the children alone.
LEMMA CalmStep ==
    ASSUME LocalInv, NEW r \in Asks, NEW at \in Stations, NEW o \in Objects \cup {0},
           NEW c \in BOOLEAN,
           MovedTo(r, at, o, c), ask[r].cut => c,
           UNCHANGED <<obj, loaded, torn>>, LocalTypes', AskOK(r)',
           at = "spawn" => ask[r].at = "spawn",
           at \in {"restart", "room", "spawn"} => c,
           \A s \in Asks : HoldsLock(s)'
    PROVE  LocalInv'
<1>1. /\ Asks' = Asks /\ \A s \in Asks \ {r} : ask'[s] = ask[s]
      /\ ask'[r].at = at /\ ask'[r].cut = c
  BY DEF MovedTo
<1>2. /\ \A x \in Objects : Kept(x)
      /\ \A m \in Ggufs : loaded'[m] \in {0, loaded[m]}
  BY DEF Kept
<1>3. QuietInv'
  <2> SUFFICES ASSUME Cut' = {}
               PROVE  /\ \A x \in Objects : Alive(x)' => Counted(x)'
                      /\ \A s \in Asks : FoundDead(s)' /\ NoneLoaded(s)'
    BY <1>1 DEF QuietInv
  <2>1. Cut = {} /\ ~c
    BY <1>1 DEF Cut
  <2>2. \A x \in Objects : Alive(x)' => Counted(x)'
    BY <2>1 DEF LocalInv, QuietInv, Alive, Counted
  <2>3. ASSUME NEW s \in Asks \ {r} PROVE FoundDead(s)' /\ NoneLoaded(s)'
    <3>1. FoundDead(s) /\ NoneLoaded(s) /\ ask'[s] = ask[s]
      BY <1>1, <2>1, <2>3 DEF LocalInv, QuietInv
    <3> QED
      BY <3>1 DEF FoundDead, NoneLoaded, Alive
  <2>4. FoundDead(r)' /\ NoneLoaded(r)'
    BY <1>1, <2>1 DEF FoundDead, NoneLoaded
  <2> QED
    BY <2>2, <2>3, <2>4
<1> QED
  BY <1>1, <1>2, <1>3, LocalKeeps

LEMMA AskerStep ==
    ASSUME LocalInv, NEW r \in Asks,
           \/ Ask(r) \/ Embed(r) \/ TakeLock(r) \/ Serve(r) \/ LoadTimesOut(r) \/ CancelAsk(r)
           \/ CallEnds(r)
    PROVE  LocalInv'
<1>1. LocalTypes /\ AskOK(r) /\ HoldsLock(r)
  BY DEF LocalInv
<1>2. /\ UNCHANGED <<obj, loaded, torn>> /\ files' = files /\ hour' = hour
      /\ client' = client \/ (ask[r].at = "wait" /\ client' = ask[r].on)
  BY DEF Ask, Embed, TakeLock, Serve, LoadTimesOut, CancelAsk, Fails, CallEnds
<1>3. /\ ask[r].at \in Stations /\ ask[r].model \in Ggufs /\ ask[r].on \in Objects \cup {0}
      /\ ask[r].embeds \in BOOLEAN /\ ask[r].cut \in BOOLEAN
  BY <1>1, AskIs
<1>4. client \in Objects \cup {0} /\ client' \in Objects \cup {0}
  BY <1>1, <1>2, <1>3 DEF LocalTypes
<1>5. ASSUME NEW at \in Stations, NEW o \in Objects \cup {0}, NEW c \in BOOLEAN, MovedTo(r, at, o, c)
      PROVE LocalTypes'
  BY <1>1, <1>2, <1>4, <1>5 DEF LocalTypes, MovedTo
<1>6. CASE Ask(r)
  <2>1. Goes(r, "lock") /\ "lock" \in Stations /\ lock' = lock /\ ~ask[r].embeds
    BY <1>6 DEF Ask, Stations
  <2>2. MovedTo(r, "lock", ask[r].on, ask[r].cut)
    BY <1>1, <2>1, AskGoes
  <2>3. AskOK(r)' /\ ~Threaded(r)'
    BY <2>2 DEF MovedTo, AskOK, Threaded
  <2>4. \A s \in Asks : HoldsLock(s)'
    BY <2>1, <2>2, <2>3, LocksKept DEF MovedTo
  <2>5. LocalTypes'
    BY <1>3, <1>5, <2>1, <2>2
  <2> QED
    BY <1>2, <1>3, <2>1, <2>2, <2>3, <2>4, <2>5, CalmStep
<1>7. CASE Embed(r)
  <2>1. PICK at \in {"over", "call"} : GoesTo(r, at, client)
    BY <1>7 DEF Embed
  <2>2. at \in Stations /\ lock' = lock /\ ask[r].embeds
    BY <1>7 DEF Embed, Stations
  <2>3. MovedTo(r, at, client, ask[r].cut)
    BY <1>1, <1>4, <2>1, <2>2, AskMoves
  <2>4. AskOK(r)' /\ ~Threaded(r)'
    BY <2>1, <2>2, <2>3 DEF MovedTo, AskOK, Threaded
  <2>5. \A s \in Asks : HoldsLock(s)'
    BY <2>2, <2>3, <2>4, LocksKept DEF MovedTo
  <2>6. LocalTypes'
    BY <1>3, <1>4, <1>5, <2>2, <2>3
  <2> QED
    BY <1>2, <1>3, <1>4, <2>1, <2>2, <2>3, <2>4, <2>5, <2>6, CalmStep
<1>8. CASE TakeLock(r)
  <2>1. Goes(r, "look") /\ "look" \in Stations /\ lock = Nobody /\ lock' = r
    BY <1>8 DEF TakeLock, Stations
  <2>2. MovedTo(r, "look", ask[r].on, ask[r].cut)
    BY <1>1, <2>1, AskGoes
  <2>3. AskOK(r)'
    BY <2>2 DEF MovedTo, AskOK
  <2>4. ASSUME NEW s \in Asks PROVE HoldsLock(s)'
    <3>1. CASE s = r
      BY <2>1, <3>1 DEF HoldsLock
    <3>2. CASE s # r
      <4>1. HoldsLock(s) /\ ask'[s] = ask[s] /\ s # Nobody
        BY <2>2, <3>2, AsksAre, <1>1 DEF LocalInv, MovedTo, Nobody
      <4> QED
        BY <2>1, <4>1 DEF HoldsLock, Awaited, Threaded
    <3> QED
      BY <3>1, <3>2
  <2>5. LocalTypes'
    BY <1>3, <1>5, <2>1, <2>2
  <2> QED
    BY <1>2, <1>3, <2>1, <2>2, <2>3, <2>4, <2>5, CalmStep
<1>9. CASE Serve(r)
  <2>1. GoesTo(r, "call", ask[r].on) /\ ask[r].at = "wait" /\ "call" \in Stations
    BY <1>9 DEF Serve, Stations
  <2>2. MovedTo(r, "call", ask[r].on, ask[r].cut)
    BY <1>1, <1>3, <2>1, AskMoves
  <2>3. ChildOf(ask[r].on, ask[r].model)
    BY <1>1, <2>1 DEF AskOK
  <2>4. AskOK(r)' /\ ~Threaded(r)'
    BY <1>2, <2>2, <2>3 DEF MovedTo, AskOK, ChildOf, Threaded
  <2>5. lock' = lock \/ (lock = r /\ lock' = Nobody)
    BY <1>9 DEF Serve, Released
  <2>6. \A s \in Asks : HoldsLock(s)'
    BY <2>2, <2>4, <2>5, LocksKept DEF MovedTo
  <2>7. LocalTypes'
    BY <1>3, <1>5, <2>1, <2>2
  <2> QED
    BY <1>2, <1>3, <2>1, <2>2, <2>4, <2>6, <2>7, CalmStep
<1>10. ASSUME GoesTo(r, "over", 0), lock' = lock \/ (lock = r /\ lock' = Nobody)
       PROVE  LocalInv'
  <2>1. 0 \in Objects \cup {0} /\ "over" \in Stations
    BY DEF Stations
  <2>2. MovedTo(r, "over", 0, ask[r].cut)
    BY <1>1, <1>10, <2>1, AskMoves
  <2>3. AskOK(r)' /\ ~Threaded(r)'
    BY <2>2 DEF MovedTo, AskOK, Threaded
  <2>4. \A s \in Asks : HoldsLock(s)'
    BY <1>10, <2>2, <2>3, LocksKept DEF MovedTo
  <2>5. LocalTypes'
    BY <1>3, <1>5, <2>1, <2>2
  <2> QED
    BY <1>2, <1>3, <2>1, <2>2, <2>3, <2>4, <2>5, CalmStep
<1>11. CASE LoadTimesOut(r) \/ CallEnds(r)
  BY <1>10, <1>11 DEF LoadTimesOut, Fails, CallEnds, Released
<1>12. CASE CancelAsk(r)
  <2>1. lock' = lock \/ (lock = r /\ lock' = Nobody)
    BY <1>12 DEF CancelAsk, Released
  <2>2. CASE GoesTo(r, "over", 0)
    BY <1>10, <2>1, <2>2
  <2>3. CASE Threaded(r) /\ ask' = [ask EXCEPT ![r].cut = TRUE]
    <3>1. MovedTo(r, ask[r].at, ask[r].on, TRUE)
      BY <1>1, <2>3, AskIsCut
    <3>2. AskOK(r)'
      BY <1>1, <1>2, <3>1 DEF MovedTo, AskOK, ChildOf
    <3>3. ASSUME NEW s \in Asks PROVE HoldsLock(s)'
      <4>1. CASE s = r
        BY <3>1, <4>1 DEF MovedTo, HoldsLock, Awaited
      <4>2. CASE s # r
        <5>1. HoldsLock(s) /\ ask'[s] = ask[s]
          BY <3>1, <4>2 DEF LocalInv, MovedTo
        <5> QED
          BY <2>1, <4>2, <5>1 DEF HoldsLock, Awaited, Threaded
      <4> QED
        BY <4>1, <4>2
    <3>4. LocalTypes'
      BY <1>3, <1>5, <3>1
    <3> QED
      BY <1>2, <1>3, <3>1, <3>2, <3>3, <3>4, CalmStep
  <2> QED
    BY <1>12, <2>2, <2>3 DEF CancelAsk
<1> QED
  BY <1>6, <1>7, <1>8, <1>9, <1>11, <1>12

-----------------------------------------------------------------------------
\* Unloading.
LEMMA UnloadedOK ==
    ASSUME LocalInv, NEW S \in SUBSET Ggufs, Unloaded(S), UNCHANGED <<ask, lock>>,
           files' \subseteq Ggufs, hour' \in Nat, client' = client
    PROVE  LocalInv'
<1> DEFINE O == {loaded[m] : m \in S} \ {0}
<1>1. LocalTypes
  BY DEF LocalInv
<1>2. /\ loaded' = [m \in Ggufs |-> IF m \in S THEN 0 ELSE loaded[m]] /\ obj' = Stopped(O)
      /\ torn' = torn \cup {o \in O : \E r \in Asks : ask[r].at = "restart" /\ ask[r].on = o}
  BY DEF Unloaded
<1>3. /\ obj' \in [Objects -> ObjRecs] /\ \A o \in Objects : Kept(o)
      /\ \A o \in Objects : Alive(o)' => Alive(o) /\ o \notin O
  BY <1>1, <1>2, ObjStopped
<1>4. /\ loaded' \in [Ggufs -> Objects \cup {0}]
      /\ \A m \in Ggufs : loaded'[m] \in {0, loaded[m]}
  BY <1>1, <1>2 DEF LocalTypes
<1>5. Asks' = Asks /\ LocalTypes'
  BY <1>1, <1>3, <1>4 DEF LocalTypes, Asks
<1>6. \A s \in Asks : HoldsLock(s)'
  BY DEF LocalInv, HoldsLock, Awaited, Threaded
<1>7. QuietInv'
  <2> SUFFICES ASSUME Cut' = {}
               PROVE  /\ \A o \in Objects : Alive(o)' => Counted(o)'
                      /\ \A s \in Asks : FoundDead(s)' /\ NoneLoaded(s)'
    BY <1>5 DEF QuietInv
  <2>1. Cut = {}
    BY DEF Cut, Asks
  <2>2. ASSUME NEW o \in Objects, Alive(o)' PROVE Counted(o)'
    <3>1. Alive(o) /\ o \notin O
      BY <1>3, <2>2
    <3>2. CASE o \in torn
      BY <1>2, <3>2 DEF Counted
    <3>3. CASE \E m \in Ggufs : loaded[m] = o
      <4>1. PICK m \in Ggufs : loaded[m] = o
        BY <3>3
      <4>2. m \notin S
        BY <3>1, <4>1 DEF Objects
      <4>3. loaded'[m] = o
        BY <1>2, <4>1, <4>2
      <4> QED
        BY <4>3 DEF Counted
    <3> QED
      BY <2>1, <3>1, <3>2, <3>3 DEF LocalInv, QuietInv, Counted
  <2>3. ASSUME NEW s \in Asks PROVE FoundDead(s)' /\ NoneLoaded(s)'
    <3>1. FoundDead(s) /\ NoneLoaded(s) /\ AskOK(s)
      BY <2>1, <2>3 DEF LocalInv, QuietInv
    <3>2. ask[s].model \in Ggufs
      BY <1>1, <2>3, AskIs
    <3>3. NoneLoaded(s)'
      BY <1>4, <3>1, <3>2 DEF NoneLoaded
    <3>4. CASE ask[s].at = "restart"
      <4>0. PICK m \in Ggufs, o \in Objects :
               /\ m = ask[s].model /\ o = ask[s].on /\ o # 0 /\ ~Alive(o)
               /\ loaded[m] = o \/ (loaded[m] = 0 /\ o \in torn)
        BY <3>1, <3>2, <3>4 DEF AskOK, ChildOf, FoundDead, Objects
      <4>1. ~Alive(o)' /\ ask' = ask
        BY <1>3, <4>0
      <4>2. \/ loaded'[m] = o
            \/ loaded'[m] = 0 /\ o \in torn'
        <5>1. CASE loaded[m] = o /\ m \in S
          <6>1. o \in O /\ loaded'[m] = 0
            BY <1>2, <4>0, <5>1
          <6> QED
            BY <1>2, <2>3, <3>4, <4>0, <6>1
        <5>2. CASE loaded[m] = o /\ m \notin S
          BY <1>2, <5>2
        <5>3. CASE loaded[m] = 0 /\ o \in torn
          BY <1>2, <1>4, <5>3
        <5> QED
          BY <4>0, <5>1, <5>2, <5>3
      <4>3. FoundDead(s)'
        BY <4>0, <4>1, <4>2 DEF FoundDead, Alive
      <4> QED
        BY <3>3, <4>3
    <3>5. CASE ask[s].at # "restart"
      BY <3>3, <3>5 DEF FoundDead
    <3> QED
      BY <3>4, <3>5
  <2> QED
    BY <2>2, <2>3
<1> QED
  BY <1>3, <1>4, <1>5, <1>6, <1>7, LocalKeeps

\* A child that moves, or is killed.
LEMMA ChildOK ==
    ASSUME LocalInv, NEW o \in Objects, NEW c \in ObjRecs,
           c.model = obj[o].model, c.proc # "none", obj' = [obj EXCEPT ![o] = c],
           c.proc = "dead" \/ Alive(o),
           UNCHANGED <<loaded, files, ask, lock, client, hour, torn>>
    PROVE  LocalInv'
<1>1. LocalTypes
  BY DEF LocalInv
<1>2. /\ obj' \in [Objects -> ObjRecs] /\ obj'[o] = c
      /\ \A x \in Objects \ {o} : obj'[x] = obj[x]
      /\ \A x \in Objects : Kept(x)
  BY <1>1, ObjBecomes
<1>3. Asks' = Asks /\ LocalTypes'
  BY <1>1, <1>2 DEF LocalTypes, Asks
<1>4. \A s \in Asks : HoldsLock(s)'
  BY DEF LocalInv, HoldsLock, Awaited, Threaded
<1>5. \A x \in Objects : Alive(x)' => Alive(x)
  BY <1>2 DEF Alive
<1>6. QuietInv'
  <2> SUFFICES ASSUME Cut' = {}
               PROVE  /\ \A x \in Objects : Alive(x)' => Counted(x)'
                      /\ \A s \in Asks : FoundDead(s)' /\ NoneLoaded(s)'
    BY <1>3 DEF QuietInv
  <2>1. Cut = {}
    BY DEF Cut, Asks
  <2>2. \A x \in Objects : Alive(x)' => Counted(x)'
    BY <1>5, <2>1 DEF LocalInv, QuietInv, Counted
  <2>3. ASSUME NEW s \in Asks PROVE FoundDead(s)' /\ NoneLoaded(s)'
    <3>1. FoundDead(s) /\ NoneLoaded(s) /\ AskOK(s)
      BY <2>1, <2>3 DEF LocalInv, QuietInv
    <3>2. ask[s].at = "restart" => ~Alive(ask[s].on)'
      BY <1>5, <3>1 DEF FoundDead, AskOK, ChildOf
    <3> QED
      BY <3>1, <3>2 DEF FoundDead, NoneLoaded, Alive
  <2> QED
    BY <2>2, <2>3
<1> QED
  BY <1>2, <1>3, <1>4, <1>6, LocalKeeps

\* What others do to the children, the files and the clock.
LEMMA OthersStep ==
    ASSUME LocalInv,
           \/ ReapIdle \/ ClockTicks \/ \E o \in Objects : ChildMoves(o)
           \/ \E m \in Ggufs : KillUnhealthy(m) \/ UnloadModel(m) \/ DeleteModel(m) \/ PullModel(m)
    PROVE  LocalInv'
<1>1. LocalTypes
  BY DEF LocalInv
<1>2. files \subseteq Ggufs /\ hour \in Nat
  BY <1>1 DEF LocalTypes
<1>3. CASE ReapIdle
  <2> DEFINE S == {m \in Residents : hour - obj[loaded[m]].used > IdleTimeout}
  <2>1. S \in SUBSET Ggufs
    BY DEF Residents
  <2>2. Unloaded(S) /\ UNCHANGED <<ask, lock>> /\ files' = files /\ hour' = hour /\ client' = client
    BY <1>3 DEF ReapIdle
  <2> HIDE DEF S
  <2> QED
    BY <1>2, <2>1, <2>2, UnloadedOK
<1>4. ASSUME NEW m \in Ggufs, UnloadModel(m) \/ DeleteModel(m) PROVE LocalInv'
  <2>1. /\ Unloaded({m}) /\ UNCHANGED <<ask, lock>> /\ files' \subseteq Ggufs /\ hour' \in Nat
        /\ client' = client
    BY <1>2, <1>4 DEF UnloadModel, DeleteModel
  <2>2. {m} \in SUBSET Ggufs
    OBVIOUS
  <2> QED
    BY <2>1, <2>2, UnloadedOK
<1>5. ASSUME NEW o \in Objects, ChildMoves(o) PROVE LocalInv'
  <2>1. PICK p \in {"loading", "ready", "hung", "dead"} : obj' = [obj EXCEPT ![o].proc = p]
    BY <1>5 DEF ChildMoves, Alive
  <2> DEFINE c == [obj[o] EXCEPT !.proc = p]
  <2>2. c \in ObjRecs /\ c.model = obj[o].model /\ c.proc # "none"
    <3>1. obj[o] \in ObjRecs
      BY <1>1 DEF LocalTypes
    <3> QED
      BY <3>1 DEF ObjRecs, Procs
  <2>3. /\ obj' = [obj EXCEPT ![o] = c] /\ Alive(o)
        /\ UNCHANGED <<loaded, files, ask, lock, client, hour, torn>>
    BY <1>5, <2>1 DEF ChildMoves
  <2> HIDE DEF c
  <2> QED
    BY <2>2, <2>3, ChildOK
<1>6. ASSUME NEW m \in Ggufs, KillUnhealthy(m) PROVE LocalInv'
  <2>1. PICK o \in Objects : o = loaded[m]
    BY <1>1, <1>6 DEF KillUnhealthy, LocalTypes
  <2> DEFINE c == [obj[o] EXCEPT !.proc = "dead"]
  <2>2. c \in ObjRecs /\ c.model = obj[o].model /\ c.proc = "dead"
    <3>1. obj[o] \in ObjRecs
      BY <1>1 DEF LocalTypes
    <3> QED
      BY <3>1 DEF ObjRecs, Procs
  <2>3. obj' = [obj EXCEPT ![o] = c]
    <3>1. obj \in [Objects -> ObjRecs] /\ obj' = Stopped({o})
      BY <1>1, <1>6, <2>1 DEF LocalTypes, KillUnhealthy
    <3> QED
      BY <3>1 DEF Stopped
  <2>4. UNCHANGED <<loaded, files, ask, lock, client, hour, torn>>
    BY <1>6 DEF KillUnhealthy
  <2> HIDE DEF c
  <2> QED
    BY <2>2, <2>3, <2>4, ChildOK
<1>7. ASSUME ClockTicks \/ \E m \in Ggufs : PullModel(m) PROVE LocalInv'
  <2>1. UNCHANGED <<obj, loaded, ask, lock, client, torn>>
    BY <1>7 DEF ClockTicks, PullModel
  <2>2. files' \subseteq Ggufs /\ hour' \in Nat
    BY <1>2, <1>7 DEF ClockTicks, PullModel
  <2>3. LocalTypes'
    BY <1>1, <2>1, <2>2 DEF LocalTypes
  <2> QED
    BY <2>1, <2>3 DEF LocalInv, LoadedOK, AskOK, ChildOf, HoldsLock, Awaited, Threaded, PlaceLeft,
       Residents, Spawning, Cut, Asks, QuietInv, Alive, Counted, FoundDead, NoneLoaded
<1> QED
  BY <1>3, <1>4, <1>5, <1>6, <1>7

-----------------------------------------------------------------------------
\* ensure()

\* It fails, and its object, if it was popped, was dead.
LEMMA FailsOK ==
    ASSUME LocalInv, NEW r \in Asks, Threaded(r), Fails(r),
           UNCHANGED <<obj, files, client, hour, torn>>,
           \/ loaded' = loaded
           \/ ask[r].at = "restart" /\ loaded' = [loaded EXCEPT ![ask[r].model] = 0]
    PROVE  LocalInv'
<1>1. LocalTypes /\ AskOK(r)
  BY DEF LocalInv
<1>2. GoesTo(r, "over", 0) /\ 0 \in Objects \cup {0} /\ "over" \in Stations
  BY DEF Fails, Stations
<1>3. MovedTo(r, "over", 0, ask[r].cut)
  BY <1>1, <1>2, AskMoves
<1>4. /\ loaded' \in [Ggufs -> Objects \cup {0}]
      /\ \A m \in Ggufs : loaded'[m] \in {0, loaded[m]}
  BY <1>1 DEF LocalTypes
<1>5. LocalTypes'
  BY <1>1, <1>3, <1>4 DEF LocalTypes, MovedTo
<1>6. AskOK(r)' /\ ~Threaded(r)'
  BY <1>3 DEF MovedTo, AskOK, Threaded
<1>7. lock' = lock \/ (lock = r /\ lock' = Nobody)
  BY DEF Fails, Released
<1>8. \A s \in Asks : HoldsLock(s)'
  BY <1>3, <1>6, <1>7, LocksKept DEF MovedTo
<1>9. ASSUME Cut = {}
      PROVE  /\ FoundDead(r)' /\ NoneLoaded(r)'
             /\ \A o \in Objects : Alive(o)' => Counted(o)'
  <2>1. FoundDead(r)' /\ NoneLoaded(r)'
    BY <1>3 DEF MovedTo, FoundDead, NoneLoaded
  <2>2. ASSUME NEW o \in Objects, Alive(o)' PROVE Counted(o)'
    <3>1. Alive(o) /\ Counted(o)
      BY <1>9, <2>2 DEF LocalInv, QuietInv, Alive
    <3>2. CASE o \in torn
      BY <3>2 DEF Counted
    <3>3. CASE \E m \in Ggufs : loaded[m] = o
      <4>1. PICK m \in Ggufs : loaded[m] = o
        BY <3>3
      <4>2. CASE loaded'[m] = loaded[m]
        BY <4>1, <4>2 DEF Counted
      <4>3. CASE loaded'[m] # loaded[m]
        <5>1. ask[r].at = "restart" /\ m = ask[r].model
          BY <1>1, <4>3 DEF LocalTypes
        <5>2. FoundDead(r) /\ o # 0
          BY <1>9 DEF LocalInv, QuietInv, Objects
        <5> QED
          BY <3>1, <4>1, <5>1, <5>2 DEF FoundDead
      <4> QED
        BY <4>2, <4>3
    <3> QED
      BY <3>1, <3>2, <3>3 DEF Counted
  <2> QED
    BY <2>1, <2>2
<1>10. QuietInv'
  BY <1>3, <1>9, ThreadQuiet DEF MovedTo
<1>11. \A x \in Objects : Kept(x)
  BY DEF Kept
<1> QED
  BY <1>3, <1>4, <1>5, <1>6, <1>8, <1>10, <1>11, LocalKeeps DEF MovedTo

\* It comes back with an object, old or restarted.
LEMMA ReturnsOK ==
    ASSUME LocalInv, NEW r \in Asks, Threaded(r), NEW o \in Objects, Returns(r, o),
           ChildOf(o, ask[r].model),
           NEW c \in ObjRecs, c.model = obj[o].model, c.proc # "none", obj' = [obj EXCEPT ![o] = c],
           UNCHANGED <<loaded, files, lock, client, hour, torn>>,
           Cut = {} => Counted(o)
    PROVE  LocalInv'
<1>1. LocalTypes
  BY DEF LocalInv
<1>2. \/ MovedTo(r, "over", 0, ask[r].cut)
      \/ MovedTo(r, "wait", o, ask[r].cut)
  BY <1>1, AskReturns
<1>3. /\ obj' \in [Objects -> ObjRecs] /\ obj'[o] = c
      /\ \A x \in Objects \ {o} : obj'[x] = obj[x]
      /\ \A x \in Objects : Kept(x)
  BY <1>1, ObjBecomes
<1>4. LocalTypes'
  BY <1>1, <1>2, <1>3 DEF LocalTypes, MovedTo
<1>5. AskOK(r)' /\ ~Threaded(r)'
  BY <1>2, <1>3 DEF MovedTo, AskOK, Threaded, ChildOf
<1>6. \A s \in Asks : HoldsLock(s)'
  BY <1>2, <1>5, LocksKept DEF MovedTo
<1>7. ASSUME Cut = {}
      PROVE  /\ FoundDead(r)' /\ NoneLoaded(r)'
             /\ \A x \in Objects : Alive(x)' => Counted(x)'
  <2>1. FoundDead(r)' /\ NoneLoaded(r)'
    BY <1>2 DEF MovedTo, FoundDead, NoneLoaded
  <2>2. ASSUME NEW x \in Objects, Alive(x)' PROVE Counted(x)
    <3>1. CASE x = o
      BY <1>7, <3>1
    <3>2. CASE x # o
      BY <1>3, <1>7, <2>2, <3>2 DEF LocalInv, QuietInv, Alive
    <3> QED
      BY <3>1, <3>2
  <2> QED
    BY <2>1, <2>2 DEF Counted
<1>8. QuietInv'
  BY <1>2, <1>7, ThreadQuiet DEF MovedTo
<1>9. \A m \in Ggufs : loaded'[m] \in {0, loaded[m]}
  OBVIOUS
<1>10. /\ Asks' = Asks /\ \A s \in Asks \ {r} : ask'[s] = ask[s]
       /\ ask'[r].cut = ask[r].cut /\ ask'[r].at # "spawn"
  BY <1>2 DEF MovedTo
<1> QED
  BY <1>3, <1>4, <1>5, <1>6, <1>8, <1>9, <1>10, LocalKeeps

LEMMA EnsureLooksOK ==
    ASSUME LocalInv, NEW r \in Asks, EnsureLooks(r)
    PROVE  LocalInv'
<1>1. LocalTypes /\ ask[r].at = "look" /\ Threaded(r)
  BY DEF LocalInv, EnsureLooks, Threaded
<1>2. PICK m \in Ggufs : m = ask[r].model
  BY <1>1, AskIs
<1>3. PICK o \in Objects \cup {0} : o = loaded[m]
  BY <1>1 DEF LocalTypes
<1>4. o # 0 => o \in Objects /\ ChildOf(o, m)
  BY <1>3 DEF LocalInv, LoadedOK
<1>5. UNCHANGED <<loaded, files, client, hour, torn>>
  BY DEF EnsureLooks
<1>6. CASE Fails(r) /\ UNCHANGED obj
  BY <1>1, <1>5, <1>6, FailsOK
<1>7. CASE o # 0 /\ Alive(o) /\ obj' = [obj EXCEPT ![o].used = hour] /\ Returns(r, o) /\ lock' = lock
  <2>1. o \in Objects /\ obj[o] \in ObjRecs /\ hour \in Nat
    BY <1>1, <1>4, <1>7 DEF LocalTypes
  <2> DEFINE c == [obj[o] EXCEPT !.used = hour]
  <2>2. c \in ObjRecs /\ c.model = obj[o].model /\ c.proc = obj[o].proc
    BY <2>1 DEF ObjRecs
  <2>3. obj' = [obj EXCEPT ![o] = c] /\ c.proc # "none"
    BY <1>7, <2>2 DEF Alive
  <2>4. Counted(o)
    BY <1>3 DEF Counted
  <2> HIDE DEF c
  <2> QED
    BY <1>1, <1>2, <1>4, <1>5, <1>7, <2>1, <2>2, <2>3, <2>4, ReturnsOK
<1>8. CASE /\ UNCHANGED <<obj, lock>>
           /\ \/ o # 0 /\ ~Alive(o) /\ GoesTo(r, "restart", o)
              \/ o = 0 /\ Goes(r, "room")
  <2>1. {"restart", "room"} \subseteq Stations
    BY DEF Stations
  <2>2. \/ o # 0 /\ ~Alive(o) /\ MovedTo(r, "restart", o, ask[r].cut)
        \/ o = 0 /\ MovedTo(r, "room", ask[r].on, ask[r].cut)
    BY <1>1, <1>8, <2>1, AskMoves, AskGoes
  <2>3. LocalTypes'
    BY <1>1, <1>5, <1>8, <2>2 DEF LocalTypes, MovedTo
  <2>4. AskOK(r)'
    BY <1>2, <1>4, <1>8, <2>2 DEF MovedTo, AskOK, ChildOf
  <2>5. \A s \in Asks : HoldsLock(s)'
    BY <1>1, <1>8, <2>2, LocksKept DEF MovedTo
  <2>6. ASSUME Cut = {}
        PROVE  /\ FoundDead(r)' /\ NoneLoaded(r)'
               /\ \A x \in Objects : Alive(x)' => Counted(x)'
    <3>1. FoundDead(r)' /\ NoneLoaded(r)'
      BY <1>2, <1>3, <1>5, <1>8, <2>2 DEF MovedTo, FoundDead, NoneLoaded, Alive
    <3>2. \A x \in Objects : Alive(x)' => Counted(x)'
      BY <1>5, <1>8, <2>6 DEF LocalInv, QuietInv, Alive, Counted
    <3> QED
      BY <3>1, <3>2
  <2>7. QuietInv'
    BY <1>1, <2>2, <2>6, ThreadQuiet DEF MovedTo
  <2>8. /\ \A x \in Objects : Kept(x)
        /\ \A x \in Ggufs : loaded'[x] \in {0, loaded[x]}
    BY <1>5, <1>8 DEF Kept
  <2>9. /\ Asks' = Asks /\ \A s \in Asks \ {r} : ask'[s] = ask[s]
        /\ ask'[r].cut = ask[r].cut /\ ask'[r].at # "spawn"
    BY <2>2 DEF MovedTo
  <2> QED
    BY <2>3, <2>4, <2>5, <2>7, <2>8, <2>9, LocalKeeps
<1> QED
  BY <1>2, <1>3, <1>6, <1>7, <1>8 DEF EnsureLooks

LEMMA EnsureRestartsOK ==
    ASSUME LocalInv, NEW r \in Asks, EnsureRestarts(r)
    PROVE  LocalInv'
<1>1. LocalTypes /\ AskOK(r) /\ ask[r].at = "restart" /\ Threaded(r)
  BY DEF LocalInv, EnsureRestarts, Threaded
<1>2. PICK m \in Ggufs : m = ask[r].model
  BY <1>1, AskIs
<1>3. PICK o \in Objects : o = ask[r].on
  BY <1>1 DEF AskOK, ChildOf
<1>4. ChildOf(o, m)
  BY <1>1, <1>2, <1>3 DEF AskOK
<1>5. UNCHANGED <<files, client, hour, torn>>
  BY DEF EnsureRestarts
<1>6. CASE Fails(r) /\ obj' = obj /\ (loaded' = loaded \/ loaded' = [loaded EXCEPT ![m] = 0])
  BY <1>1, <1>2, <1>5, <1>6, FailsOK
<1>7. CASE /\ obj' = [obj EXCEPT ![o] = [model |-> obj[o].model, proc |-> "booting", used |-> hour,
                                         restarts |-> obj[o].restarts + 1,
                                         next |-> hour + 2^(obj[o].restarts + 1)]]
           /\ Returns(r, o) /\ UNCHANGED <<loaded, lock>>
  <2>1. obj[o] \in ObjRecs /\ hour \in Nat
    BY <1>1 DEF LocalTypes
  <2> DEFINE c == [model |-> obj[o].model, proc |-> "booting", used |-> hour,
                   restarts |-> obj[o].restarts + 1,
                   next |-> hour + 2^(obj[o].restarts + 1)]
  <2>2. c \in ObjRecs /\ c.model = obj[o].model /\ c.proc # "none"
    <3>1. obj[o].model \in Ggufs \cup {Nobody} /\ obj[o].restarts \in Nat
      BY <2>1 DEF ObjRecs
    <3>2. hour + 2^(obj[o].restarts + 1) \in Delays
      BY <2>1, <3>1 DEF Delays
    <3>3. obj[o].restarts + 1 \in Nat
      BY <3>1
    <3> QED
      BY <2>1, <3>1, <3>2, <3>3 DEF ObjRecs, Procs
  <2>3. obj' = [obj EXCEPT ![o] = c]
    BY <1>7
  <2>4. ASSUME Cut = {} PROVE Counted(o)
    <3>1. FoundDead(r)
      BY <2>4 DEF LocalInv, QuietInv
    <3> QED
      BY <1>1, <1>2, <1>3, <3>1 DEF FoundDead, Counted
  <2> HIDE DEF c
  <2> QED
    BY <1>1, <1>2, <1>4, <1>5, <1>7, <2>2, <2>3, <2>4, ReturnsOK
<1> QED
  BY <1>2, <1>3, <1>6, <1>7 DEF EnsureRestarts

\* The loop ends when a place is free; only those that were cancelled may run beside it.
LEMMA EnsureMakesRoomOK ==
    ASSUME LocalInv, NEW r \in Asks, EnsureMakesRoom(r)
    PROVE  LocalInv'
<1>1. LocalTypes /\ ask[r].at = "room" /\ Threaded(r) /\ AskOK(r)
  BY DEF LocalInv, EnsureMakesRoom, Threaded
<1>2. UNCHANGED <<files, lock, client, hour>> /\ files \subseteq Ggufs /\ hour \in Nat
  BY <1>1 DEF EnsureMakesRoom, LocalTypes
<1>3. ASSUME NEW m \in Residents, Unloaded({m}), ask' = ask PROVE LocalInv'
  <2>1. {m} \in SUBSET Ggufs
    BY DEF Residents
  <2> QED
    BY <1>2, <1>3, <2>1, UnloadedOK
<1>4. CASE /\ Cardinality(Residents) < MaxLoaded /\ Goes(r, "spawn")
           /\ UNCHANGED <<obj, loaded, torn>>
  <2>1. "spawn" \in Stations
    BY DEF Stations
  <2>2. MovedTo(r, "spawn", ask[r].on, ask[r].cut)
    BY <1>1, <1>4, <2>1, AskGoes
  <2>3. /\ Asks' = Asks /\ \A s \in Asks \ {r} : ask'[s] = ask[s]
        /\ ask'[r].cut = ask[r].cut /\ ask'[r].at = "spawn"
        /\ ask'[r].model = ask[r].model
    BY <2>2 DEF MovedTo
  <2>4. LocalTypes'
    BY <1>1, <1>2, <1>4, <2>2 DEF LocalTypes, MovedTo
  <2>5. ASSUME NEW s \in Asks PROVE AskOK(s)'
    <3>1. AskOK(s)
      BY <2>5 DEF LocalInv
    <3> QED
      BY <1>4, <2>3, <3>1 DEF AskOK, ChildOf
  <2>6. \A s \in Asks : HoldsLock(s)'
    BY <1>1, <1>2, <2>3, LocksKept
  <2>7. \A m \in Ggufs : LoadedOK(m)'
    BY <1>4 DEF LocalInv, LoadedOK, ChildOf
  <2>8. ASSUME Cut = {}
        PROVE  /\ FoundDead(r)' /\ NoneLoaded(r)'
               /\ \A x \in Objects : Alive(x)' => Counted(x)'
    <3>1. NoneLoaded(r)
      BY <2>8 DEF LocalInv, QuietInv
    <3>2. FoundDead(r)' /\ NoneLoaded(r)'
      BY <1>1, <1>4, <2>3, <3>1 DEF FoundDead, NoneLoaded
    <3>3. \A x \in Objects : Alive(x)' => Counted(x)'
      BY <1>4, <2>8 DEF LocalInv, QuietInv, Alive, Counted
    <3> QED
      BY <3>2, <3>3
  <2>9. QuietInv'
    BY <1>1, <2>3, <2>8, ThreadQuiet
  <2>10. PlaceLeft'
    <3>1. Residents' = Residents /\ Cut' = Cut
      BY <1>4, <2>3 DEF Residents, Cut
    <3>2. Spawning' \subseteq Cut \cup {lock}
      <4> SUFFICES ASSUME NEW s \in Spawning' PROVE s \in Cut \/ s = lock
        OBVIOUS
      <4>1. s \in Asks /\ HoldsLock(s)
        BY <2>3 DEF Spawning, LocalInv
      <4>2. Threaded(s)
        BY <1>1, <2>3 DEF Spawning, Threaded
      <4> QED
        BY <4>1, <4>2 DEF HoldsLock, Awaited, Cut
    <3>3. /\ IsFiniteSet(Cut) /\ Cardinality(Cut) \in Nat /\ Cardinality(Residents) \in Nat
      BY <1>1, CountsAre
    <3>4. /\ IsFiniteSet(Cut \cup {lock})
          /\ Cardinality(Cut \cup {lock}) = IF lock \in Cut THEN Cardinality(Cut) ELSE Cardinality(Cut) + 1
      BY <3>3, FS_AddElement
    <3>5. Cardinality(Spawning') <= Cardinality(Cut \cup {lock}) /\ Cardinality(Spawning') \in Nat
      BY <2>4, <3>2, <3>4, FS_Subset, CountsNext
    <3>6. Cardinality(Spawning') <= Cardinality(Cut) + 1
      BY <3>3, <3>4, <3>5
    <3>7. MaxLoaded \in Nat
      BY LocalAssumption
    <3> QED
      BY <1>4, <3>1, <3>3, <3>5, <3>6, <3>7 DEF PlaceLeft
  <2> QED
    BY <2>3, <2>4, <2>5, <2>6, <2>7, <2>9, <2>10 DEF LocalInv
<1> QED
  BY <1>3, <1>4 DEF EnsureMakesRoom

\* The new child takes the place that was left.
LEMMA EnsureSpawnsOK ==
    ASSUME LocalInv, NEW r \in Asks, EnsureSpawns(r)
    PROVE  LocalInv'
<1>1. LocalTypes /\ ask[r].at = "spawn" /\ Threaded(r)
  BY DEF LocalInv, EnsureSpawns, Threaded
<1>2. PICK m \in Ggufs : m = ask[r].model
  BY <1>1, AskIs
<1>3. PICK n \in Fresh :
         /\ obj' = [obj EXCEPT ![n] = [model |-> m, proc |-> "booting", used |-> hour,
                                       restarts |-> 0, next |-> 0]]
         /\ loaded' = [loaded EXCEPT ![m] = n]
         /\ Returns(r, n)
  BY <1>2 DEF EnsureSpawns
<1>4. UNCHANGED <<files, lock, client, hour, torn>>
  BY DEF EnsureSpawns
<1>5. n \in Objects /\ obj[n].proc = "none" /\ n # 0
  BY DEF Fresh, Objects
<1> DEFINE c == [model |-> m, proc |-> "booting", used |-> hour, restarts |-> 0, next |-> 0]
<1>6. c \in ObjRecs /\ c.model = m /\ c.proc = "booting"
  <2>1. hour \in Nat
    BY <1>1 DEF LocalTypes
  <2> QED
    BY <2>1 DEF ObjRecs, Procs, Delays
<1>7. obj' = [obj EXCEPT ![n] = c]
  BY <1>3
<1> HIDE DEF c
<1>8. /\ obj' \in [Objects -> ObjRecs] /\ obj'[n] = c
      /\ \A x \in Objects \ {n} : obj'[x] = obj[x]
      /\ \A x \in Objects : Kept(x)
  BY <1>1, <1>5, <1>6, <1>7, ObjBecomes
<1>9. /\ loaded' \in [Ggufs -> Objects \cup {0}] /\ loaded'[m] = n
      /\ \A x \in Ggufs \ {m} : loaded'[x] = loaded[x]
  BY <1>1, <1>3, <1>5 DEF LocalTypes
<1>10. \/ MovedTo(r, "over", 0, ask[r].cut)
       \/ MovedTo(r, "wait", n, ask[r].cut)
  BY <1>1, <1>3, <1>5, AskReturns
<1>11. /\ Asks' = Asks /\ \A s \in Asks \ {r} : ask'[s] = ask[s]
       /\ ask'[r].cut = ask[r].cut /\ ask'[r].at \in {"over", "wait"}
       /\ ask'[r].model = m /\ (ask'[r].at = "wait" => ask'[r].on = n)
  BY <1>2, <1>10 DEF MovedTo
<1>12. LocalTypes'
  BY <1>1, <1>4, <1>8, <1>9, <1>10 DEF LocalTypes, MovedTo
<1>13. ASSUME NEW x \in Ggufs PROVE LoadedOK(x)'
  <2>1. CASE x = m
    BY <1>5, <1>6, <1>8, <1>9, <2>1 DEF LoadedOK, ChildOf
  <2>2. CASE x # m
    <3>1. LoadedOK(x) /\ loaded'[x] = loaded[x]
      BY <1>9, <2>2 DEF LocalInv
    <3> QED
      BY <1>8, <3>1 DEF LoadedOK, ChildOf, Kept
  <2> QED
    BY <2>1, <2>2
<1>14. ASSUME NEW s \in Asks PROVE AskOK(s)'
  <2>1. CASE s = r
    BY <1>5, <1>6, <1>8, <1>11, <2>1 DEF AskOK, ChildOf
  <2>2. CASE s # r
    <3>1. AskOK(s) /\ ask'[s] = ask[s]
      BY <1>11, <2>2 DEF LocalInv
    <3> QED
      BY <1>8, <3>1 DEF AskOK, ChildOf, Kept
  <2> QED
    BY <2>1, <2>2
<1>15. ~Threaded(r)'
  BY <1>11 DEF Threaded
<1>16. \A s \in Asks : HoldsLock(s)'
  BY <1>4, <1>11, <1>15, LocksKept
<1>17. ASSUME Cut = {}
       PROVE  /\ FoundDead(r)' /\ NoneLoaded(r)'
              /\ \A x \in Objects : Alive(x)' => Counted(x)'
  <2>1. FoundDead(r)' /\ NoneLoaded(r)'
    BY <1>11 DEF FoundDead, NoneLoaded
  <2>2. loaded[m] = 0
    BY <1>1, <1>2, <1>17 DEF LocalInv, QuietInv, NoneLoaded
  <2>3. ASSUME NEW x \in Objects, Alive(x)' PROVE Counted(x)'
    <3>1. CASE x = n
      BY <1>9, <3>1 DEF Counted
    <3>2. CASE x # n
      <4>1. Alive(x) /\ Counted(x) /\ x # 0
        BY <1>8, <1>17, <2>3, <3>2 DEF LocalInv, QuietInv, Alive, Objects
      <4> QED
        BY <1>4, <1>9, <2>2, <4>1 DEF Counted
    <3> QED
      BY <3>1, <3>2
  <2> QED
    BY <2>1, <2>3
<1>18. QuietInv'
  BY <1>1, <1>11, <1>17, ThreadQuiet
<1>19. PlaceLeft'
  <2>1. Residents' \subseteq Residents \cup {m}
    BY <1>9 DEF Residents
  <2>2. Cut' = Cut
    BY <1>11 DEF Cut
  <2>3. Spawning' = Spawning \ {r} /\ r \in Spawning
    BY <1>1, <1>11 DEF Spawning
  <2>4. /\ IsFiniteSet(Residents) /\ IsFiniteSet(Spawning)
        /\ Cardinality(Residents) \in Nat /\ Cardinality(Spawning) \in Nat
        /\ Cardinality(Cut) \in Nat /\ MaxLoaded \in Nat
    BY <1>1, CountsAre, LocalAssumption
  <2>5. /\ IsFiniteSet(Residents \cup {m})
        /\ Cardinality(Residents \cup {m})
           = IF m \in Residents THEN Cardinality(Residents) ELSE Cardinality(Residents) + 1
    BY <2>4, FS_AddElement
  <2>6. Cardinality(Residents') <= Cardinality(Residents \cup {m}) /\ Cardinality(Residents') \in Nat
    BY <1>12, <2>1, <2>5, FS_Subset, CountsNext
  <2>7. Cardinality(Residents') <= Cardinality(Residents) + 1
    BY <2>4, <2>5, <2>6
  <2>8. Cardinality(Spawning') = Cardinality(Spawning) - 1
    BY <2>3, <2>4, FS_RemoveElement
  <2>9. Cardinality(Residents) + Cardinality(Spawning) <= MaxLoaded + Cardinality(Cut)
    BY DEF LocalInv, PlaceLeft
  <2> QED
    BY <2>2, <2>4, <2>6, <2>7, <2>8, <2>9 DEF PlaceLeft
<1> QED
  BY <1>11, <1>12, <1>13, <1>14, <1>16, <1>18, <1>19 DEF LocalInv

LEMMA LocalStep == LocalInv /\ [LocalNext]_localVars => LocalInv'
<1> SUFFICES ASSUME LocalInv, [LocalNext]_localVars PROVE LocalInv'
  OBVIOUS
<1>1. CASE UNCHANGED localVars
  <2>1. UNCHANGED <<obj, loaded, ask, files, lock, client, hour, torn>>
    BY <1>1 DEF localVars
  <2> QED
    BY <2>1 DEF LocalInv, LocalTypes, LoadedOK, AskOK, ChildOf, HoldsLock, Awaited, Threaded,
       PlaceLeft, Residents, Spawning, Cut, Asks, QuietInv, Alive, Counted, FoundDead, NoneLoaded
<1>2. ASSUME NEW r \in Asks,
             \/ Ask(r) \/ Embed(r) \/ TakeLock(r) \/ Serve(r) \/ LoadTimesOut(r) \/ CancelAsk(r)
             \/ CallEnds(r)
      PROVE LocalInv'
  BY <1>2, AskerStep
<1>3. ASSUME NEW r \in Asks,
             EnsureLooks(r) \/ EnsureRestarts(r) \/ EnsureMakesRoom(r) \/ EnsureSpawns(r)
      PROVE LocalInv'
  BY <1>3, EnsureLooksOK, EnsureRestartsOK, EnsureMakesRoomOK, EnsureSpawnsOK
<1>4. ASSUME \/ ReapIdle \/ ClockTicks \/ \E o \in Objects : ChildMoves(o)
             \/ \E m \in Ggufs : KillUnhealthy(m) \/ UnloadModel(m) \/ DeleteModel(m) \/ PullModel(m)
      PROVE LocalInv'
  BY <1>4, OthersStep
<1> QED
  BY <1>1, <1>2, <1>3, <1>4 DEF LocalNext

LEMMA LocalHolds == LocalInv => RightServer /\ ModelsHeld
<1> SUFFICES ASSUME LocalInv PROVE RightServer /\ ModelsHeld
  OBVIOUS
<1>1. RightServer
  BY DEF LocalInv, AskOK, ChildOf, RightServer
<1>2. LocalTypes /\ PlaceLeft
  BY DEF LocalInv
<1>3. Cardinality(Residents) <= MaxLoaded + Cardinality(Cut)
  BY <1>2, CountsAre, LocalAssumption DEF PlaceLeft
<1>4. Cut = {} => \A o \in Objects : Alive(o) => o \in torn \/ \E m \in Ggufs : loaded[m] = o
  BY DEF LocalInv, QuietInv, Counted
<1> QED
  BY <1>1, <1>3, <1>4 DEF ModelsHeld

\* localrt/supervisor.py, localrt/provider.py: completions and streams for different
\* models share one client, and each is sent to a child of its own model, cancelled
\* requests beside it or not.  Embeddings, which prepare no model, are left out.  For
\* any models, requests, bounds, evictions, restarts, cancellations and deletions.
THEOREM RightServerAlways == LocalSpec => []RightServer
<1>1. LocalInv => RightServer
  BY LocalHolds
<1> QED
  BY <1>1, LocalStart, LocalStep, PTL DEF LocalSpec

\* localrt/supervisor.py, localrt/provider.py: no more models are loaded than
\* max_loaded, and one for each request cancelled inside ensure(); and as long as none
\* was, no child that lives is lost from `loaded` but one unloaded under its restart.
THEOREM ModelsHeldAlways == LocalSpec => []ModelsHeld
<1>1. LocalInv => ModelsHeld
  BY LocalHolds
<1> QED
  BY <1>1, LocalStart, LocalStep, PTL DEF LocalSpec

-----------------------------------------------------------------------------
DestOK == dest = Missing \/ \E v \in Versions : dest = Whole(v)

LEMMA PullMoves ==
    ASSUME pull \in [Pulls -> PullRecs], NEW u \in Pulls, NEW q \in PullRecs,
           pull' = [pull EXCEPT ![u] = q]
    PROVE  /\ pull' \in [Pulls -> PullRecs] /\ pull'[u] = q
           /\ \A w \in Pulls \ {u} : pull'[w].at = pull[w].at
  OBVIOUS

\* A step of the one pull that is at work.
LEMMA OnePulls ==
    ASSUME OnePullInv, NEW u \in Pulls, \A w \in Pulls \ {u} : Idle(w),
           pull' \in [Pulls -> PullRecs], \A w \in Pulls \ {u} : pull'[w].at = pull[w].at,
           remote' \in Versions, FileOK(part)', DestOK', PullOK(u)'
    PROVE  OnePullInv'
<1>1. ASSUME NEW w \in Pulls \ {u} PROVE Idle(w)'
  BY <1>1 DEF Idle
<1>2. ASSUME NEW w \in Pulls PROVE PullOK(w)'
  <2>1. CASE w = u
    BY <2>1
  <2>2. CASE w # u
    BY <1>1, <2>2 DEF Idle, PullOK
  <2> QED
    BY <2>1, <2>2
<1> QED
  BY <1>1, <1>2 DEF OnePullInv, DestOK

LEMMA DownloadStart == DownloadInit => OnePullInv
<1> SUFFICES ASSUME DownloadInit PROVE OnePullInv
  OBVIOUS
<1>1. NoPull \in PullRecs /\ NoPull.at = "none"
  BY DEF NoPull, PullRecs
<1>2. pull \in [Pulls -> PullRecs] /\ \A u \in Pulls : pull[u].at = "none"
  <2> HIDE DEF NoPull
  <2> QED
    BY <1>1 DEF DownloadInit
<1>3. remote \in Versions
  BY DownloadAssumption DEF DownloadInit, Versions
<1> QED
  BY <1>2, <1>3 DEF DownloadInit, OnePullInv, FileOK, Idle, PullOK

LEMMA StartPullOK ==
    ASSUME OnePullInv, NEW u \in Pulls, StartPull(u), ~overlap'
    PROVE  OnePullInv'
<1>1. \A w \in Pulls \ {u} : Idle(w)
  BY DEF StartPull
<1>2. Size(part) \in Nat /\ remote \in Versions
  BY DEF OnePullInv, FileOK, Size
<1> DEFINE q == [at |-> "listed", ver |-> remote, body |-> 0, pos |-> Size(part), to |-> "none"]
<1>3. q \in PullRecs /\ q.at = "listed" /\ q.ver = remote
  BY <1>2 DEF PullRecs
<1>4. pull \in [Pulls -> PullRecs] /\ pull' = [pull EXCEPT ![u] = q]
  BY DEF StartPull, OnePullInv
<1>5. remote' = remote /\ part' = part /\ dest' = dest
  BY DEF StartPull
<1> HIDE DEF q
<1>6. /\ pull' \in [Pulls -> PullRecs] /\ pull'[u] = q
      /\ \A w \in Pulls \ {u} : pull'[w].at = pull[w].at
  BY <1>3, <1>4, PullMoves
<1>7. PullOK(u)'
  BY <1>2, <1>3, <1>6 DEF PullOK
<1>8. FileOK(part)' /\ DestOK'
  BY <1>5 DEF OnePullInv, FileOK, DestOK, Whole
<1> QED
  BY <1>1, <1>2, <1>5, <1>6, <1>7, <1>8, OnePulls

LEMMA RespondOK ==
    ASSUME OnePullInv, NEW u \in Pulls, Respond(u)
    PROVE  OnePullInv'
<1>1. pull[u].at = "listed" /\ pull[u] \in PullRecs /\ pull \in [Pulls -> PullRecs]
  BY DEF Respond, OnePullInv
<1>2. \A w \in Pulls \ {u} : Idle(w)
  BY <1>1 DEF OnePullInv, Idle
<1>3. pull[u].ver \in Versions /\ remote \in Versions /\ FileOK(part) /\ DestOK
  BY <1>1 DEF OnePullInv, PullOK, Idle, DestOK
<1>4. remote' = remote /\ dest' = dest
  BY DEF Respond
<1>5. DestOK'
  BY <1>3, <1>4 DEF DestOK, Whole
<1>6. CASE pull' = [pull EXCEPT ![u].at = "check"] /\ part' = part
  <2> DEFINE q == [pull[u] EXCEPT !.at = "check"]
  <2>1. q \in PullRecs /\ q.at = "check" /\ q.ver = pull[u].ver
    BY <1>1 DEF PullRecs
  <2>2. pull' = [pull EXCEPT ![u] = q]
    BY <1>6
  <2> HIDE DEF q
  <2>3. /\ pull' \in [Pulls -> PullRecs] /\ pull'[u] = q
        /\ \A w \in Pulls \ {u} : pull'[w].at = pull[w].at
    BY <1>1, <2>1, <2>2, PullMoves
  <2>4. PullOK(u)'
    BY <1>3, <2>1, <2>3 DEF PullOK
  <2>5. FileOK(part)' /\ remote' \in Versions
    BY <1>3, <1>4, <1>6 DEF FileOK
  <2> QED
    BY <1>2, <1>5, <2>3, <2>4, <2>5, OnePulls
<1>7. ASSUME NEW at \in {"append", "write"}, NEW n \in Nat,
             pull' = [pull EXCEPT ![u] = [at |-> at, ver |-> pull[u].ver, body |-> remote,
                                          pos |-> n, to |-> "part"]],
             part' \in Seq(Versions \cup {Hole})
      PROVE  OnePullInv'
  <2> DEFINE q == [at |-> at, ver |-> pull[u].ver, body |-> remote, pos |-> n, to |-> "part"]
  <2>1. q \in PullRecs /\ q.at = at /\ q.ver = pull[u].ver /\ q.to = "part" /\ q.body = remote
    BY <1>3 DEF PullRecs
  <2>2. pull' = [pull EXCEPT ![u] = q]
    BY <1>7
  <2> HIDE DEF q
  <2>3. /\ pull' \in [Pulls -> PullRecs] /\ pull'[u] = q
        /\ \A w \in Pulls \ {u} : pull'[w].at = pull[w].at
    BY <1>1, <2>1, <2>2, PullMoves
  <2>4. PullOK(u)'
    BY <1>3, <1>7, <2>1, <2>3 DEF PullOK
  <2>5. FileOK(part)' /\ remote' \in Versions
    BY <1>3, <1>4, <1>7 DEF FileOK
  <2> QED
    BY <1>2, <1>5, <2>3, <2>4, <2>5, OnePulls
<1>8. pull[u].pos \in Nat
  BY <1>1 DEF PullRecs
<1>9. << >> \in Seq(Versions \cup {Hole})
  OBVIOUS
<1>10. CASE /\ pull' = [pull EXCEPT ![u] = [at |-> "append", ver |-> pull[u].ver, body |-> remote,
                                            pos |-> pull[u].pos, to |-> "part"]]
            /\ part' = IF part = Missing THEN << >> ELSE part
  <2>1. part' \in Seq(Versions \cup {Hole})
    BY <1>3, <1>9, <1>10 DEF FileOK
  <2> QED
    BY <1>7, <1>8, <1>10, <2>1
<1>11. CASE /\ pull' = [pull EXCEPT ![u] = [at |-> "write", ver |-> pull[u].ver, body |-> remote,
                                            pos |-> 0, to |-> "part"]]
            /\ part' = << >>
  <2>1. 0 \in Nat
    OBVIOUS
  <2> QED
    BY <1>7, <1>9, <1>11, <2>1
<1> QED
  BY <1>6, <1>10, <1>11 DEF Respond

LEMMA WrittenOK ==
    ASSUME NEW X, NEW f \in Seq(X), NEW n \in Nat \ {0}, NEW v \in X, Hole \in X
    PROVE  Written(f, n, v) \in Seq(X)
<1>1. CASE n <= Len(f)
  <2>1. [f EXCEPT ![n] = v] \in Seq(X)
    BY <1>1
  <2> QED
    BY <1>1, <2>1 DEF Written
<1>2. CASE ~(n <= Len(f))
  <2> DEFINE g == [i \in 1..n |-> IF i = n THEN v ELSE IF i <= Len(f) THEN f[i] ELSE Hole]
  <2>1. ASSUME NEW i \in 1..n
        PROVE  (IF i = n THEN v ELSE IF i <= Len(f) THEN f[i] ELSE Hole) \in X
    <3>1. i <= Len(f) => f[i] \in X
      OBVIOUS
    <3> QED
      BY <3>1
  <2>2. g \in [1..n -> X]
    BY <2>1
  <2> HIDE DEF g
  <2>3. g \in Seq(X)
    BY <2>2, SeqDef
  <2> QED
    BY <1>2, <2>3 DEF Written, g
<1> QED
  BY <1>1, <1>2

LEMMA ReceiveOK ==
    ASSUME OnePullInv, NEW u \in Pulls, Receive(u)
    PROVE  OnePullInv'
<1>1. /\ pull[u].at \in {"append", "write"}
      /\ pull[u] \in PullRecs /\ pull \in [Pulls -> PullRecs]
  BY DEF Receive, OnePullInv
<1>2. \A w \in Pulls \ {u} : Idle(w)
  BY <1>1 DEF OnePullInv, Idle
<1>3. PullOK(u) /\ DestOK /\ remote \in Versions /\ ~Idle(u)
  BY <1>1 DEF OnePullInv, DestOK, Idle
<1>4. /\ pull[u].to = "part" /\ pull[u].body \in Versions /\ pull[u].ver \in Versions
      /\ part \in Seq(Versions \cup {Hole})
  BY <1>1, <1>3 DEF PullOK
<1>5. dest' = dest /\ remote' = remote
  BY <1>4 DEF Receive
<1>6. pull[u].pos \in Nat
  BY <1>1 DEF PullRecs
<1>7. part' \in Seq(Versions \cup {Hole})
  <2>1. pull[u].body \in Versions \cup {Hole} /\ Hole \in Versions \cup {Hole}
    BY <1>4
  <2>2. Append(part, pull[u].body) \in Seq(Versions \cup {Hole})
    BY <1>4, <2>1
  <2>3. Written(part, pull[u].pos + 1, pull[u].body) \in Seq(Versions \cup {Hole})
    <3>1. pull[u].pos + 1 \in Nat \ {0}
      BY <1>6
    <3> QED
      BY <1>4, <2>1, <3>1, WrittenOK
  <2>4. part' = IF pull[u].at = "append" THEN Append(part, pull[u].body)
                ELSE Written(part, pull[u].pos + 1, pull[u].body)
    BY <1>4 DEF Receive
  <2> QED
    BY <2>2, <2>3, <2>4
<1> DEFINE q == [pull[u] EXCEPT !.pos = pull[u].pos + 1]
<1>8. /\ q \in PullRecs /\ q.at = pull[u].at /\ q.ver = pull[u].ver
      /\ q.to = pull[u].to /\ q.body = pull[u].body
  BY <1>1, <1>6 DEF PullRecs
<1>9. pull' = [pull EXCEPT ![u] = q]
  BY DEF Receive
<1> HIDE DEF q
<1>10. /\ pull' \in [Pulls -> PullRecs] /\ pull'[u] = q
       /\ \A w \in Pulls \ {u} : pull'[w].at = pull[w].at
  BY <1>1, <1>8, <1>9, PullMoves
<1>11. PullOK(u)'
  BY <1>1, <1>4, <1>7, <1>8, <1>10 DEF PullOK
<1>12. FileOK(part)' /\ DestOK' /\ remote' \in Versions
  BY <1>3, <1>5, <1>7 DEF FileOK, DestOK, Whole
<1> QED
  BY <1>2, <1>10, <1>11, <1>12, OnePulls

\* The ends of a pull: the body, the check of size and hash, a broken connection.
LEMMA PullEndsOK ==
    ASSUME OnePullInv, NEW u \in Pulls, BodyEnds(u) \/ Verify(u) \/ Break(u)
    PROVE  OnePullInv'
<1>1. ~Idle(u) /\ pull[u] \in PullRecs /\ pull \in [Pulls -> PullRecs]
  BY DEF BodyEnds, Verify, Break, Idle, OnePullInv
<1>2. \A w \in Pulls \ {u} : Idle(w)
  BY <1>1 DEF OnePullInv
<1>3. PullOK(u) /\ DestOK /\ remote \in Versions /\ FileOK(part) /\ pull[u].ver \in Versions
  BY <1>1 DEF OnePullInv, DestOK, PullOK
<1>4. dest' = dest /\ remote' = remote
  BY DEF BodyEnds, Verify, Break
<1>5. DestOK' /\ remote' \in Versions
  BY <1>3, <1>4 DEF DestOK, Whole
<1>6. ASSUME NEW q \in PullRecs, pull' = [pull EXCEPT ![u] = q], part' = part,
             \/ q.at = "error"
             \/ q.ver \in Versions /\ q.at = "check"
             \/ q.ver \in Versions /\ q.at = "verified" /\ part = Whole(q.ver)
      PROVE  OnePullInv'
  <2>1. /\ pull' \in [Pulls -> PullRecs] /\ pull'[u] = q
        /\ \A w \in Pulls \ {u} : pull'[w].at = pull[w].at
    BY <1>1, <1>6, PullMoves
  <2>2. FileOK(part)' /\ PullOK(u)'
    BY <1>3, <1>6, <2>1 DEF FileOK, PullOK, Idle, Whole
  <2> QED
    BY <1>2, <1>5, <2>1, <2>2, OnePulls
<1>7. CASE BodyEnds(u)
  <2> DEFINE q == [at |-> "check", ver |-> pull[u].ver, body |-> pull[u].body,
                   pos |-> pull[u].pos, to |-> "none"]
  <2>1. q \in PullRecs /\ q.at = "check" /\ q.ver = pull[u].ver
    BY <1>1 DEF PullRecs
  <2>2. pull' = [pull EXCEPT ![u] = q] /\ part' = part
    BY <1>7 DEF BodyEnds
  <2> HIDE DEF q
  <2> QED
    BY <1>3, <1>6, <2>1, <2>2
<1>8. CASE Break(u)
  <2>1. [NoPull EXCEPT !.at = "error"] \in PullRecs /\ [NoPull EXCEPT !.at = "error"].at = "error"
    BY DEF NoPull, PullRecs
  <2>2. pull' = [pull EXCEPT ![u] = [NoPull EXCEPT !.at = "error"]] /\ part' = part
    BY <1>8 DEF Break
  <2> QED
    BY <1>6, <2>1, <2>2
<1>9. CASE Verify(u)
  <2>1. CASE pull' = [pull EXCEPT ![u].at = "error"] /\ part' = part
    <3> DEFINE q == [pull[u] EXCEPT !.at = "error"]
    <3>1. q \in PullRecs /\ q.at = "error"
      BY <1>1 DEF PullRecs
    <3>2. pull' = [pull EXCEPT ![u] = q]
      BY <2>1
    <3> HIDE DEF q
    <3> QED
      BY <1>6, <2>1, <3>1, <3>2
  <2>2. CASE part = Whole(pull[u].ver) /\ pull' = [pull EXCEPT ![u].at = "verified"] /\ part' = part
    <3> DEFINE q == [pull[u] EXCEPT !.at = "verified"]
    <3>1. q \in PullRecs /\ q.at = "verified" /\ q.ver = pull[u].ver
      BY <1>1 DEF PullRecs
    <3>2. pull' = [pull EXCEPT ![u] = q]
      BY <2>2
    <3> HIDE DEF q
    <3>3. part = Whole(q.ver)
      BY <2>2, <3>1
    <3> QED
      BY <1>3, <1>6, <2>2, <3>1, <3>2, <3>3
  <2>3. CASE pull' = [Others(u, "part", "gone") EXCEPT ![u].at = "error"] /\ part' = Missing
    <3> DEFINE D(w) == IF w # u /\ pull[w].to = "part" THEN [pull[w] EXCEPT !.to = "gone"] ELSE pull[w]
    <3>1. Others(u, "part", "gone") = [w \in Pulls |-> D(w)]
      BY DEF Others
    <3>2. ASSUME NEW w \in Pulls PROVE D(w) \in PullRecs /\ D(w).at = pull[w].at
      <4>1. pull[w] \in PullRecs
        BY <1>1
      <4>2. /\ [pull[w] EXCEPT !.to = "gone"] \in PullRecs
            /\ [pull[w] EXCEPT !.to = "gone"].at = pull[w].at
        BY <4>1 DEF PullRecs
      <4> QED
        BY <4>1, <4>2
    <3> HIDE DEF D
    <3> DEFINE mid == Others(u, "part", "gone")
               q == [mid[u] EXCEPT !.at = "error"]
    <3>3. mid \in [Pulls -> PullRecs] /\ \A w \in Pulls : mid[w].at = pull[w].at
      BY <3>1, <3>2
    <3>4. q \in PullRecs /\ q.at = "error"
      BY <3>3 DEF PullRecs
    <3>5. pull' = [mid EXCEPT ![u] = q]
      BY <2>3
    <3> HIDE DEF mid, q
    <3>6. /\ pull' \in [Pulls -> PullRecs] /\ pull'[u] = q
          /\ \A w \in Pulls \ {u} : pull'[w].at = pull[w].at
      BY <3>3, <3>4, <3>5
    <3>7. FileOK(part)' /\ PullOK(u)'
      BY <2>3, <3>4, <3>6 DEF FileOK, PullOK, Idle
    <3> QED
      BY <1>2, <1>5, <3>6, <3>7, OnePulls
  <2> QED
    BY <1>9, <2>1, <2>2, <2>3 DEF Verify
<1> QED
  BY <1>7, <1>8, <1>9

LEMMA RenameOK ==
    ASSUME OnePullInv, NEW u \in Pulls, Rename(u)
    PROVE  OnePullInv'
<1>1. pull[u].at = "verified" /\ pull[u] \in PullRecs /\ pull \in [Pulls -> PullRecs]
  BY DEF Rename, OnePullInv
<1>2. \A w \in Pulls \ {u} : Idle(w)
  BY <1>1 DEF OnePullInv, Idle
<1>3. DestOK /\ remote \in Versions /\ part = Whole(pull[u].ver) /\ pull[u].ver \in Versions
  BY <1>1 DEF OnePullInv, DestOK, PullOK, Idle
<1>4. remote' = remote
  BY DEF Rename
<1>5. CASE part = Missing
  <2> DEFINE q == [pull[u] EXCEPT !.at = "error"]
  <2>1. q \in PullRecs /\ q.at = "error"
    BY <1>1 DEF PullRecs
  <2>2. pull' = [pull EXCEPT ![u] = q] /\ part' = part /\ dest' = dest
    BY <1>5 DEF Rename
  <2> HIDE DEF q
  <2>3. /\ pull' \in [Pulls -> PullRecs] /\ pull'[u] = q
        /\ \A w \in Pulls \ {u} : pull'[w].at = pull[w].at
    BY <1>1, <2>1, <2>2, PullMoves
  <2>4. FileOK(part)' /\ PullOK(u)' /\ DestOK'
    BY <1>3, <1>5, <2>1, <2>2, <2>3 DEF FileOK, PullOK, Idle, DestOK, Whole
  <2> QED
    BY <1>2, <1>3, <1>4, <2>3, <2>4, OnePulls
<1>6. CASE part # Missing
  <2> DEFINE D(w) == CASE w = u -> [pull[u] EXCEPT !.at = "ok"]
                       [] w # u /\ pull[w].to = "dest" -> [pull[w] EXCEPT !.to = "gone"]
                       [] w # u /\ pull[w].to = "part" -> [pull[w] EXCEPT !.to = "dest"]
                       [] OTHER -> pull[w]
  <2>1. pull' = [w \in Pulls |-> D(w)] /\ dest' = part /\ part' = Missing
    BY <1>6 DEF Rename
  <2>2. D(u) \in PullRecs /\ D(u).at = "ok"
    BY <1>1 DEF PullRecs
  <2>3. ASSUME NEW w \in Pulls \ {u} PROVE D(w) \in PullRecs /\ D(w).at = pull[w].at
    <3>1. pull[w] \in PullRecs
      BY <1>1
    <3>2. /\ [pull[w] EXCEPT !.to = "gone"] \in PullRecs
          /\ [pull[w] EXCEPT !.to = "gone"].at = pull[w].at
          /\ [pull[w] EXCEPT !.to = "dest"] \in PullRecs
          /\ [pull[w] EXCEPT !.to = "dest"].at = pull[w].at
      BY <3>1 DEF PullRecs
    <3>3. D(w) \in {[pull[w] EXCEPT !.to = "gone"], [pull[w] EXCEPT !.to = "dest"], pull[w]}
      OBVIOUS
    <3> QED
      BY <3>1, <3>2, <3>3
  <2> HIDE DEF D
  <2>4. /\ pull' \in [Pulls -> PullRecs] /\ pull'[u].at = "ok"
        /\ \A w \in Pulls \ {u} : pull'[w].at = pull[w].at
    BY <2>1, <2>2, <2>3
  <2>5. FileOK(part)' /\ PullOK(u)' /\ DestOK'
    BY <1>3, <2>1, <2>4 DEF FileOK, PullOK, Idle, DestOK, Whole
  <2> QED
    BY <1>2, <1>3, <1>4, <2>4, <2>5, OnePulls
<1> QED
  BY <1>5, <1>6

LEMMA DownloadStep == DownloadInv /\ [DownloadNext]_dlVars => DownloadInv'
<1> SUFFICES ASSUME DownloadInv, [DownloadNext]_dlVars, ~overlap' PROVE OnePullInv'
  BY DEF DownloadInv
<1>1. OnePullInv
  BY DEF DownloadInv, DownloadNext, dlVars, StartPull, Respond, Receive, BodyEnds, Verify, Rename,
     Break, Publish
<1>2. CASE UNCHANGED dlVars
  BY <1>1, <1>2 DEF dlVars, OnePullInv, PullOK, Idle, FileOK, Whole
<1>3. ASSUME NEW u \in Pulls,
             \/ StartPull(u) \/ Respond(u) \/ Receive(u) \/ BodyEnds(u)
             \/ Verify(u) \/ Rename(u) \/ Break(u)
      PROVE  OnePullInv'
  BY <1>1, <1>3, StartPullOK, RespondOK, ReceiveOK, PullEndsOK, RenameOK
<1>4. CASE Publish
  <2>1. /\ remote \in Nat /\ remote + 1 \in Versions /\ remote' = remote + 1
        /\ UNCHANGED <<part, dest, pull>>
    BY <1>1, <1>4, DownloadAssumption DEF Publish, OnePullInv, Versions
  <2> QED
    BY <1>1, <2>1 DEF OnePullInv, PullOK, Idle, FileOK, Whole
<1> QED
  BY <1>2, <1>3, <1>4 DEF DownloadNext

\* localrt/download.py: whatever breaks off, is resumed or is published meanwhile, a model
\* file that is in place is whole and of one version, unless two pulls of it overlapped.
\* For any number of pulls, versions and chunks.
THEOREM PulledWholeAlways == DownloadSpec => []PulledWhole
<1>1. DownloadInv => PulledWhole
  BY DEF DownloadInv, OnePullInv, PulledWhole, Versions
<1>2. DownloadInit => DownloadInv
  BY DownloadStart DEF DownloadInv
<1> QED
  BY <1>1, <1>2, DownloadStep, PTL DEF DownloadSpec

\* A completion by a local model reaches the server of that model, the servers are held
\* within their number, and the file a server was started on is whole: the supervisor and
\* the downloads of localrt/ beside each other, cancelled requests and broken downloads
\* included.
THEOREM LocalModelsAlways == LocalSpec /\ DownloadSpec => []LocalModelsSound
  BY RightServerAlways, ModelsHeldAlways, PulledWholeAlways, PTL DEF LocalModelsSound

-----------------------------------------------------------------------------
\* The histories: the task in front, and every result behind its call.
Messages == [role : {"user", "assistant", "tool"}, turn : Nat, size : Nat]

HistoryOK(h) == h \in Seq(Messages) /\ Len(h) >= 1 /\ h[1] = Pinned /\ Paired(h)

ContextInv ==
    /\ turnNo \in Nat /\ HistoryOK(history)
    /\ HistoryOK(prompt.out) /\ Fits(prompt.out)

\* The tokens of a list of messages
Units(s) == UNION {{i} \X (1..s[i].size) : i \in DOMAIN s}

LEMMA UnitsAre ==
    ASSUME NEW s, NEW u
    PROVE  u \in Units(s) <=> \E i \in DOMAIN s : \E n \in 1..s[i].size : u = <<i, n>>
BY DEF Units

LEMMA UnitsFinite ==
    ASSUME NEW s \in Seq(Messages)
    PROVE  IsFiniteSet(Units(s)) /\ Count(s) = Cardinality(Units(s)) /\ Count(s) \in Nat
<1> DEFINE col(i) == {i} \X (1..s[i].size)
           T == {col(i) : i \in 1..Len(s)}
           f == [i \in 1..Len(s) |-> col(i)]
<1>1. DOMAIN s = 1..Len(s) /\ Len(s) \in Nat /\ \A i \in 1..Len(s) : s[i].size \in Nat
  <2>1. \A i \in 1..Len(s) : s[i] \in Messages
    OBVIOUS
  <2> QED
    BY <2>1 DEF Messages
<1>2. IsFiniteSet(1..Len(s))
  <2>1. PICK n \in Nat : n = Len(s)
    BY <1>1
  <2>2. IsFiniteSet(1..n)
    BY FS_Interval
  <2> QED
    BY <2>1, <2>2
<1>3. f \in Surjection(1..Len(s), T)
  BY DEF Surjection
<1>4. IsFiniteSet(T)
  BY <1>2, <1>3, FS_Surjection DEF ExistsSurjection
<1>5. ASSUME NEW i \in 1..Len(s) PROVE IsFiniteSet(col(i))
  <2>1. PICK n \in Nat : n = s[i].size
    BY <1>1
  <2>2. IsFiniteSet({i})
    BY FS_Singleton
  <2>3. IsFiniteSet(1..n)
    BY FS_Interval
  <2> QED
    BY <2>1, <2>2, <2>3, FS_Product
<1>6. \A U \in T : IsFiniteSet(U)
  BY <1>5
<1>7. Units(s) = UNION T
  BY <1>1 DEF Units
<1>8. IsFiniteSet(Units(s))
  BY <1>4, <1>6, <1>7, FS_UNION
<1> QED
  BY <1>8, FS_CardinalityType DEF Count, Units

\* A message in front moves the others by one place
LEMMA FrontOK ==
    ASSUME NEW m \in Messages, NEW s \in Seq(Messages), NEW n \in Nat, n = Len(s), NEW t, t = <<m>> \o s
    PROVE  /\ t \in Seq(Messages) /\ Len(t) = n + 1 /\ t[1] = m
           /\ DOMAIN t = 1..(n + 1) /\ DOMAIN s = 1..n
           /\ \A i \in 1..n : t[i + 1] = s[i]
OBVIOUS

\* and adds its tokens.
LEMMA CountFront ==
    ASSUME NEW m \in Messages, NEW s \in Seq(Messages)
    PROVE  Count(<<m>> \o s) = m.size + Count(s)
<1>1. PICK t : t = <<m>> \o s
  OBVIOUS
<1>2. /\ t \in Seq(Messages) /\ Len(s) \in Nat /\ Len(t) = Len(s) + 1 /\ t[1] = m
      /\ DOMAIN t = 1..(Len(s) + 1) /\ DOMAIN s = 1..Len(s)
      /\ \A i \in 1..Len(s) : t[i + 1] = s[i]
  BY <1>1
<1> DEFINE front == {1} \X (1..m.size)
           U == Units(s)
           later == {<<u[1] + 1, u[2]>> : u \in U}
           f == [u \in U |-> <<u[1] + 1, u[2]>>]
<1>3. \A u \in U : \E i \in 1..Len(s) : \E n \in 1..s[i].size : u = <<i, n>>
  BY <1>2, UnitsAre
<1>4. Units(t) = front \cup later
  <2>1. ASSUME NEW v \in Units(t) PROVE v \in front \cup later
    <3>1. PICK i \in 1..(Len(s) + 1) : \E n \in 1..t[i].size : v = <<i, n>>
      BY <1>2, UnitsAre
    <3>2. PICK n \in 1..t[i].size : v = <<i, n>>
      BY <3>1
    <3>3. CASE i = 1
      BY <1>2, <3>2, <3>3
    <3>4. CASE i # 1
      <4>1. PICK j \in 1..Len(s) : i = j + 1
        <5>1. i - 1 \in 1..Len(s) /\ i = (i - 1) + 1
          BY <1>2, <3>4
        <5> QED
          BY <5>1
      <4>2. n \in 1..s[j].size
        BY <1>2, <3>2, <4>1
      <4>3. <<j, n>> \in U
        BY <1>2, <4>2, UnitsAre
      <4>4. v = <<<<j, n>>[1] + 1, <<j, n>>[2]>>
        BY <3>2, <4>1
      <4> QED
        BY <4>3, <4>4
    <3> QED
      BY <3>3, <3>4
  <2>2. ASSUME NEW v \in front PROVE v \in Units(t)
    <3>1. PICK n \in 1..m.size : v = <<1, n>>
      OBVIOUS
    <3>2. 1 \in DOMAIN t /\ n \in 1..t[1].size
      BY <1>2, <3>1
    <3> QED
      BY <3>1, <3>2, UnitsAre
  <2>3. ASSUME NEW v \in later PROVE v \in Units(t)
    <3>1. PICK u \in U : v = <<u[1] + 1, u[2]>>
      OBVIOUS
    <3>2. PICK i \in 1..Len(s) : \E n \in 1..s[i].size : u = <<i, n>>
      BY <1>3
    <3>3. PICK n \in 1..s[i].size : u = <<i, n>>
      BY <3>2
    <3>4. v = <<i + 1, n>> /\ i + 1 \in DOMAIN t /\ n \in 1..t[i + 1].size
      BY <1>2, <3>1, <3>3
    <3> QED
      BY <3>4, UnitsAre
  <2> QED
    BY <2>1, <2>2, <2>3
<1>5. front \cap later = {}
  <2> SUFFICES ASSUME NEW v \in front, v \in later PROVE FALSE
    OBVIOUS
  <2>1. v[1] = 1
    OBVIOUS
  <2>2. PICK u \in U : v = <<u[1] + 1, u[2]>>
    OBVIOUS
  <2>3. u[1] \in 1..Len(s)
    BY <1>3
  <2> QED
    BY <2>1, <2>2, <2>3
<1>6. f \in Bijection(U, later)
  <2>1. \A u, v \in U : f[u] = f[v] => u = v
    <3> SUFFICES ASSUME NEW u \in U, NEW v \in U, f[u] = f[v] PROVE u = v
      OBVIOUS
    <3>1. PICK i \in 1..Len(s) : \E n \in 1..s[i].size : u = <<i, n>>
      BY <1>3
    <3>2. PICK n \in 1..s[i].size : u = <<i, n>>
      BY <3>1
    <3>3. PICK j \in 1..Len(s) : \E k \in 1..s[j].size : v = <<j, k>>
      BY <1>3
    <3>4. PICK k \in 1..s[j].size : v = <<j, k>>
      BY <3>3
    <3>5. f[u] = <<i + 1, n>> /\ f[v] = <<j + 1, k>>
      BY <3>2, <3>4
    <3>6. i = j /\ n = k
      BY <3>5
    <3> QED
      BY <3>2, <3>4, <3>6
  <2>2. \A v \in later : \E u \in U : f[u] = v
    OBVIOUS
  <2>3. f \in [U -> later]
    OBVIOUS
  <2> HIDE DEF f, later, U
  <2>4. f \in Injection(U, later)
    BY <2>1, <2>3 DEF Injection, IsInjective
  <2>5. f \in Surjection(U, later)
    BY <2>2, <2>3 DEF Surjection
  <2> QED
    BY <2>4, <2>5 DEF Bijection
<1>7. IsFiniteSet(U) /\ Count(s) = Cardinality(U) /\ Count(s) \in Nat /\ Count(t) = Cardinality(Units(t))
  BY <1>2, UnitsFinite
<1>8. IsFiniteSet(later) /\ Cardinality(later) = Cardinality(U)
  BY <1>6, <1>7, FS_Bijection DEF ExistsBijection
<1>9. IsFiniteSet(front) /\ Cardinality(front) = m.size
  <2>1. IsFiniteSet({1}) /\ Cardinality({1}) = 1
    BY FS_Singleton
  <2>2. PICK n \in Nat : n = m.size
    BY DEF Messages
  <2>3. IsFiniteSet(1..n) /\ Cardinality(1..n) = n
    BY FS_Interval
  <2>4. IsFiniteSet(front) /\ Cardinality(front) = Cardinality({1}) * Cardinality(1..n)
    BY <2>1, <2>2, <2>3, FS_Product
  <2> QED
    BY <2>1, <2>2, <2>3, <2>4
<1> HIDE DEF front, later, U, f
<1>10. m.size \in Nat
  BY DEF Messages
<1>11. Cardinality(front \cup later) = Cardinality(front) + Cardinality(later) - Cardinality({})
  BY <1>5, <1>8, <1>9, FS_Union
<1>12. Cardinality({}) = 0
  BY FS_EmptySet
<1>13. PICK k \in Nat : k = Count(s)
  BY <1>7
<1>15. PICK n \in Nat : n = m.size
  BY <1>10
<1>16. Count(t) = n + k
  BY <1>4, <1>7, <1>8, <1>9, <1>11, <1>12, <1>13, <1>15
<1> QED
  BY <1>1, <1>13, <1>15, <1>16

-----------------------------------------------------------------------------
\* Where the kept turns begin.

LEMMA LeastOf ==
    ASSUME NEW S \in SUBSET Nat, S # {}
    PROVE  Min(S) \in S /\ \A y \in S : Min(S) <= y
BY Smallest DEF Min

LEMMA LastOfSome ==
    ASSUME NEW n \in Nat, NEW S \in SUBSET (1..n), S # {}
    PROVE  \E x \in S : \A y \in S : y <= x
<1>1. PICK M : M = {k \in 0..n : n - k \in S}
  OBVIOUS
<1>2. M # {}
  <2>1. PICK x \in S : x \in 1..n
    OBVIOUS
  <2>2. n - x \in 0..n /\ n - (n - x) = x
    BY <2>1
  <2> QED
    BY <1>1, <2>1, <2>2
<1>3. PICK k \in M : \A j \in M : k <= j
  <2>1. M \in SUBSET Nat
    BY <1>1
  <2> QED
    BY <1>2, <2>1, Smallest
<1>4. k \in 0..n /\ n - k \in S
  BY <1>1
<1>5. ASSUME NEW y \in S PROVE y <= n - k
  <2>1. n - y \in 0..n /\ n - (n - y) = y /\ y \in 1..n
    OBVIOUS
  <2>2. n - y \in M
    BY <1>1, <2>1
  <2>3. k <= n - y
    BY <1>3, <2>2
  <2> QED
    BY <1>4, <2>1, <2>3
<1> QED
  BY <1>4, <1>5

\* Only tool results follow the start of the last turn.
LastTurn(rest, f) == \A j \in (f + 1)..Len(rest) : rest[j].role = "tool"

\* What is kept begins with a turn, and is one turn or fits.
LEMMA FirstKeptOK ==
    ASSUME NEW rest \in Seq(Messages), Len(rest) > 0
    PROVE  /\ FirstKept(rest) \in 1..Len(rest) /\ StartsTurn(rest, FirstKept(rest))
           /\ LastTurn(rest, FirstKept(rest)) \/ ~OverFrom(rest, FirstKept(rest))
<1>1. PICK n \in Nat : n = Len(rest) /\ n > 0 /\ DOMAIN rest = 1..n
  OBVIOUS
<1>2. PICK B : B = Starts(rest)
  OBVIOUS
<1>3. B = {i \in 1..n : StartsTurn(rest, i)}
  BY <1>1, <1>2 DEF Starts
<1>4. PICK S : S = {i \in B : StopsAt(rest, i)}
  OBVIOUS
<1>5. FirstKept(rest) = Min(S \cup {n + 1})
  BY <1>1, <1>2, <1>4 DEF FirstKept
<1>6. S # {}
  <2>1. 1 \in B
    BY <1>1, <1>3 DEF StartsTurn
  <2>2. B \in SUBSET (1..n) /\ B # {}
    BY <1>3, <2>1
  <2>3. PICK x \in B : \A y \in B : y <= x
    BY <2>2, LastOfSome
  <2>4. {j \in B : j > x} = {}
    <3>1. ASSUME NEW j \in B PROVE ~(j > x)
      <4>1. j \in 1..n /\ x \in 1..n /\ j <= x
        BY <2>2, <2>3
      <4> QED
        BY <4>1
    <3> QED
      BY <3>1
  <2>5. StopsAt(rest, x)
    BY <1>2, <2>4 DEF StopsAt
  <2> QED
    BY <1>4, <2>5
<1>7. PICK f : f = FirstKept(rest)
  OBVIOUS
<1>8. f \in S
  <2>1. S \cup {n + 1} \in SUBSET Nat /\ S \cup {n + 1} # {} /\ S \subseteq 1..n
    BY <1>3, <1>4
  <2>2. f \in S \cup {n + 1} /\ \A y \in S \cup {n + 1} : f <= y
    BY <1>5, <1>7, <2>1, LeastOf
  <2>3. PICK y \in S : y \in 1..n
    BY <1>6, <2>1
  <2>4. f <= y
    BY <2>2, <2>3
  <2> QED
    BY <1>1, <2>2, <2>3, <2>4
<1>9. f \in 1..n /\ StartsTurn(rest, f) /\ StopsAt(rest, f)
  BY <1>3, <1>4, <1>8
<1>10. LastTurn(rest, f) \/ ~OverFrom(rest, f)
  <2>1. PICK later : later = {j \in B : j > f}
    OBVIOUS
  <2>2. \/ later = {}
        \/ Len(rest) - Min(later) + 1 < Min({KeepRecent, 1})
        \/ ~OverFrom(rest, f)
    BY <1>2, <1>9, <2>1 DEF StopsAt
  <2>3. CASE later = {}
    <3> SUFFICES ASSUME NEW j \in (f + 1)..Len(rest) PROVE rest[j].role = "tool"
      BY DEF LastTurn
    <3>1. j \in 1..n /\ j > f
      BY <1>1, <1>9
    <3>2. j \notin B
      BY <2>1, <2>3, <3>1
    <3> QED
      BY <1>3, <3>1, <3>2 DEF StartsTurn
  <2>4. CASE later # {} /\ Len(rest) - Min(later) + 1 < Min({KeepRecent, 1})
    <3>1. later \in SUBSET Nat /\ later \subseteq 1..n
      BY <1>3, <2>1
    <3>2. PICK a : a = Min(later)
      OBVIOUS
    <3>3. a \in 1..n
      BY <2>4, <3>1, <3>2, LeastOf
    <3>4. Min({KeepRecent, 1}) <= 1
      <4>1. {KeepRecent, 1} \in SUBSET Nat /\ {KeepRecent, 1} # {}
        BY ContextAssumption
      <4> QED
        BY <4>1, LeastOf
    <3>5. Min({KeepRecent, 1}) \in Nat
      <4>1. {KeepRecent, 1} \in SUBSET Nat /\ {KeepRecent, 1} # {}
        BY ContextAssumption
      <4> QED
        BY <4>1, LeastOf
    <3> QED
      BY <1>1, <2>4, <3>2, <3>3, <3>4, <3>5
  <2> QED
    BY <2>2, <2>3, <2>4
<1> QED
  BY <1>1, <1>7, <1>9, <1>10

-----------------------------------------------------------------------------
\* Compaction.

\* Cutting outputs short keeps everybody's place.
LEMMA SamePaired ==
    ASSUME NEW h, NEW g, NEW n \in Nat, DOMAIN h = 1..n, DOMAIN g = 1..n, Paired(h),
           \A i \in 1..n : g[i].role = h[i].role /\ g[i].turn = h[i].turn
    PROVE  Paired(g)
<1> SUFFICES ASSUME NEW i \in 1..n, g[i].role = "tool"
             PROVE  \E j \in 1..(i - 1) : /\ g[j].role = "assistant" /\ g[j].turn = g[i].turn
                                          /\ \A k \in (j + 1)..i : g[k].role = "tool"
  BY DEF Paired
<1>1. PICK j \in 1..(i - 1) : /\ h[j].role = "assistant" /\ h[j].turn = h[i].turn
                              /\ \A k \in (j + 1)..i : h[k].role = "tool"
  BY DEF Paired
<1>2. j \in 1..n /\ \A k \in (j + 1)..i : k \in 1..n
  OBVIOUS
<1> QED
  BY <1>1, <1>2

LEMMA CutOK ==
    ASSUME NEW h, HistoryOK(h), NEW rest, rest = Shrunk(Tail(h))
    PROVE  /\ rest \in Seq(Messages) /\ Len(rest) = Len(h) - 1
           /\ HistoryOK(<<Pinned>> \o rest)
<1>1. h \in Seq(Messages) /\ Len(h) >= 1 /\ h[1] = Pinned /\ Paired(h)
  BY DEF HistoryOK
<1>2. PICK t : t = Tail(h)
  OBVIOUS
<1>3. PICK n \in Nat : n = Len(t) /\ DOMAIN t = 1..n /\ n + 1 = Len(h) /\ DOMAIN h = 1..(n + 1)
  BY <1>1, <1>2
<1>4. \A i \in 1..n : t[i] = h[i + 1] /\ t[i] \in Messages
  <2>1. \A i \in 1..n : t[i] = h[i + 1]
    <3>1. h # << >>
      BY <1>1
    <3> QED
      BY <1>1, <1>2, <1>3, <3>1, HeadTailProperties
  <2>2. t \in Seq(Messages)
    BY <1>1, <1>2
  <2> QED
    BY <1>3, <2>1, <2>2
<1>5. rest = [i \in 1..n |->
                 IF i <= n - KeepRecent /\ t[i].role = "tool" /\ t[i].size = Long
                 THEN [t[i] EXCEPT !.size = Short] ELSE t[i]]
  BY <1>2, <1>3 DEF Shrunk
<1>6. ASSUME NEW i \in 1..n
      PROVE  rest[i] \in Messages /\ rest[i].role = t[i].role /\ rest[i].turn = t[i].turn
  <2>1. PICK m \in Messages : m = t[i]
    BY <1>4
  <2>2. Short \in Nat
    BY ContextAssumption
  <2>3. PICK g : g = [m EXCEPT !.size = Short]
    OBVIOUS
  <2>4. g \in Messages /\ g.role = m.role /\ g.turn = m.turn
    BY <2>2, <2>3 DEF Messages
  <2>5. rest[i] = g \/ rest[i] = m
    BY <1>5, <2>1, <2>3
  <2> QED
    BY <2>1, <2>4, <2>5
<1>7. rest \in Seq(Messages) /\ Len(rest) = n /\ DOMAIN rest = 1..n
  <2>1. rest \in [1..n -> Messages]
    BY <1>5, <1>6
  <2> QED
    BY <2>1
<1>8. PICK g : g = <<Pinned>> \o rest
  OBVIOUS
<1>9. Pinned \in Messages
  BY ContextAssumption DEF Pinned, Msg, Messages
<1>10. /\ g \in Seq(Messages) /\ Len(g) = n + 1 /\ DOMAIN g = 1..(n + 1) /\ g[1] = Pinned
       /\ \A i \in 1..n : g[i + 1] = rest[i]
  BY <1>7, <1>8, <1>9
<1>11. ASSUME NEW i \in 1..(n + 1) PROVE g[i].role = h[i].role /\ g[i].turn = h[i].turn
  <2>1. CASE i = 1
    BY <1>1, <1>10, <2>1
  <2>2. CASE i # 1
    <3>1. PICK j \in 1..n : i = j + 1
      <4>1. i - 1 \in 1..n /\ i = (i - 1) + 1
        BY <2>2
      <4> QED
        BY <4>1
    <3> QED
      BY <1>4, <1>6, <1>10, <3>1
  <2> QED
    BY <2>1, <2>2
<1>12. Paired(g)
  <2>1. n + 1 \in Nat
    OBVIOUS
  <2> QED
    BY <1>1, <1>3, <1>10, <1>11, <2>1, SamePaired
<1> QED
  BY <1>3, <1>7, <1>8, <1>10, <1>12 DEF HistoryOK

\* A list that does not begin with a result loses nothing at its head.
LEMMA NoOrphanOK ==
    ASSUME NEW s \in Seq(Messages), Len(s) > 0, s[1].role # "tool"
    PROVE  NoOrphanAhead(s) = s
<1>1. PICK H : H = {i \in DOMAIN s : s[i].role # "tool"}
  OBVIOUS
<1>2. 1 \in H /\ H \in SUBSET Nat /\ \A i \in H : 1 <= i
  BY <1>1
<1>3. Min(H) \in H /\ Min(H) <= 1
  BY <1>2, LeastOf
<1>4. Min(H) = 1
  <2>1. PICK a \in H : a = Min(H)
    BY <1>3
  <2>2. a \in Nat /\ 1 <= a /\ a <= 1
    BY <1>2, <1>3, <2>1
  <2> QED
    BY <2>1, <2>2
<1>5. NoOrphanAhead(s) = SubSeq(s, 1, Len(s))
  BY <1>1, <1>2, <1>4 DEF NoOrphanAhead
<1> QED
  BY <1>5, SubSeqFull

\* The results that follow the last call are its own.
LEMMA OneTurn ==
    ASSUME NEW rest \in Seq(Messages), HistoryOK(<<Pinned>> \o rest),
           NEW f \in 1..Len(rest), rest[f].role # "tool", LastTurn(rest, f)
    PROVE  \A j \in f..Len(rest) : rest[j].turn = rest[f].turn
<1> SUFFICES ASSUME NEW j \in f..Len(rest), j # f PROVE rest[j].turn = rest[f].turn
  OBVIOUS
<1>1. PICK g : g = <<Pinned>> \o rest
  OBVIOUS
<1>2. PICK n \in Nat : n = Len(rest) /\ DOMAIN rest = 1..n
  OBVIOUS
<1>3. DOMAIN g = 1..(n + 1) /\ \A i \in 1..n : g[i + 1] = rest[i]
  BY <1>1, <1>2
<1>4. j \in 1..n /\ f \in 1..n /\ j > f /\ rest[j].role = "tool"
  BY <1>2 DEF LastTurn
<1>5. Paired(g) /\ j + 1 \in DOMAIN g /\ g[j + 1].role = "tool"
  BY <1>1, <1>3, <1>4 DEF HistoryOK
<1>6. PICK a \in 1..((j + 1) - 1) : /\ g[a].role = "assistant" /\ g[a].turn = g[j + 1].turn
                                    /\ \A k \in (a + 1)..(j + 1) : g[k].role = "tool"
  BY <1>5 DEF Paired
<1>7. a \in 1..j
  BY <1>4, <1>6
<1>8. a >= f + 1
  <2> SUFFICES ASSUME ~(a >= f + 1) PROVE FALSE
    OBVIOUS
  <2>1. f + 1 \in (a + 1)..(j + 1)
    BY <1>4, <1>7
  <2> QED
    BY <1>3, <1>4, <1>6, <2>1
<1>9. a = f + 1
  <2> SUFFICES ASSUME a # f + 1 PROVE FALSE
    OBVIOUS
  <2>1. PICK b : b = a - 1
    OBVIOUS
  <2>2. b \in (f + 1)..Len(rest) /\ b \in 1..n /\ a = b + 1
    BY <1>2, <1>4, <1>7, <1>8, <2>1
  <2>3. rest[b].role = "tool" /\ g[a] = rest[b]
    BY <1>3, <2>2 DEF LastTurn
  <2> QED
    BY <1>6, <2>3
<1> QED
  BY <1>3, <1>4, <1>6, <1>9

\* What is kept of a history when a note stands for its oldest turns.
LEMMA DroppedOK ==
    ASSUME NEW rest \in Seq(Messages), HistoryOK(<<Pinned>> \o rest), NEW size \in Nat,
           NEW f \in 2..Len(rest), rest[f].role # "tool", LastTurn(rest, f) \/ ~OverFrom(rest, f)
    PROVE  LET out == <<Pinned>> \o NoOrphanAhead(<<Note(size)>> \o SubSeq(rest, f, Len(rest)))
           IN  HistoryOK(out) /\ Fits(out)
<1>0. PICK out : out = <<Pinned>> \o NoOrphanAhead(<<Note(size)>> \o SubSeq(rest, f, Len(rest)))
  OBVIOUS
<1> SUFFICES HistoryOK(out) /\ Fits(out)
  BY <1>0
<1>1. PICK n \in Nat : n = Len(rest) /\ DOMAIN rest = 1..n
  OBVIOUS
<1>2. PICK kept : kept = SubSeq(rest, f, Len(rest))
  OBVIOUS
<1>3. f \in 2..n /\ \A i \in 1..n : rest[i] \in Messages
  BY <1>1
<1>4. PICK m \in Nat : m = n - f + 1
  BY <1>3
<1>5. kept \in Seq(Messages) /\ Len(kept) = m /\ \A i \in 1..m : kept[i] = rest[f + i - 1]
  <2>1. \A i \in f..n : rest[i] \in Messages
    BY <1>3
  <2>2. f \in Int /\ n \in Int /\ f <= n
    BY <1>3
  <2>3. kept \in Seq(Messages) /\ Len(kept) = n - f + 1 /\ \A i \in 1..(n - f + 1) : kept[i] = rest[f + i - 1]
    BY <1>1, <1>2, <2>1, <2>2, SubSeqProperties
  <2> QED
    BY <1>4, <2>3
<1>6. /\ Note(size) \in Messages /\ Pinned \in Messages /\ Note(size).role = "user" /\ Note(size).turn = 0
      /\ Note(size).size = size /\ Pinned.role = "user" /\ Pinned.turn = 0
  BY ContextAssumption DEF Note, Pinned, Msg, Messages
<1>7. PICK s : s = <<Note(size)>> \o kept
  OBVIOUS
<1>8. s \in Seq(Messages) /\ Len(s) = m + 1 /\ s[1] = Note(size) /\ \A i \in 1..m : s[i + 1] = kept[i]
  BY <1>5, <1>6, <1>7
<1>9. out = <<Pinned>> \o s
  <2>1. Len(s) > 0 /\ s[1].role # "tool"
    BY <1>6, <1>8
  <2>2. NoOrphanAhead(s) = s
    BY <1>8, <2>1, NoOrphanOK
  <2> QED
    BY <1>0, <1>2, <1>7, <2>2
<1>10. /\ out \in Seq(Messages) /\ Len(out) = m + 2 /\ DOMAIN out = 1..(m + 2)
       /\ out[1] = Pinned /\ \A i \in 1..(m + 1) : out[i + 1] = s[i]
  <2>1. PICK q \in Nat : q = Len(s) /\ q = m + 1
    BY <1>8
  <2>2. /\ out \in Seq(Messages) /\ Len(out) = q + 1 /\ DOMAIN out = 1..(q + 1)
        /\ out[1] = Pinned /\ \A i \in 1..q : out[i + 1] = s[i]
    <3>1. Pinned \in Messages /\ s \in Seq(Messages) /\ q = Len(s) /\ out = <<Pinned>> \o s
      BY <1>6, <1>8, <1>9, <2>1
    <3> QED
      BY <3>1, FrontOK
  <2>3. q + 1 = m + 2
    BY <2>1
  <2> QED
    BY <2>1, <2>2, <2>3
<1>11. out[2] = Note(size)
  <2>1. PICK one \in 1..(m + 1) : one = 1
    OBVIOUS
  <2>2. out[one + 1] = s[one] /\ one + 1 = 2
    BY <1>10, <2>1
  <2>3. s[1] = Note(size)
    BY <1>8
  <2> QED
    BY <2>1, <2>2, <2>3
<1>12. ASSUME NEW i \in 3..(m + 2) PROVE out[i] = rest[f + i - 3]
  <2>1. PICK j : j = i - 2
    OBVIOUS
  <2>2. j \in 1..m /\ j + 1 \in 1..(m + 1) /\ (j + 1) + 1 = i /\ f + j - 1 = f + i - 3
    <3>1. i \in Nat /\ 3 <= i /\ i <= m + 2 /\ f \in Nat
      OBVIOUS
    <3> QED
      BY <2>1, <3>1
  <2>3. out[(j + 1) + 1] = s[j + 1] /\ s[j + 1] = kept[j] /\ kept[j] = rest[f + j - 1]
    BY <1>5, <1>8, <1>10, <2>2
  <2> QED
    BY <2>2, <2>3
<1>13. Paired(out)
  <2> SUFFICES ASSUME NEW i \in 1..(m + 2), out[i].role = "tool"
               PROVE  \E j \in 1..(i - 1) : /\ out[j].role = "assistant" /\ out[j].turn = out[i].turn
                                            /\ \A k \in (j + 1)..i : out[k].role = "tool"
    BY <1>10 DEF Paired
  <2>1. i \in 3..(m + 2)
    BY <1>6, <1>10, <1>11
  <2>2. PICK g : g = <<Pinned>> \o rest
    OBVIOUS
  <2>3. DOMAIN g = 1..(n + 1) /\ Paired(g) /\ \A k \in 1..n : g[k + 1] = rest[k]
    BY <1>1, <2>2 DEF HistoryOK
  <2>4. ASSUME NEW k \in 3..(m + 2) PROVE k + f - 2 \in 1..(n + 1) /\ out[k] = g[k + f - 2]
    <3>1. PICK b : b = f + k - 3
      OBVIOUS
    <3>2. b \in 1..n /\ b + 1 = k + f - 2
      BY <1>3, <1>4, <3>1
    <3>3. g[b + 1] = rest[b] /\ b + 1 \in 1..(n + 1)
      BY <2>3, <3>2
    <3>4. out[k] = rest[b]
      BY <1>12, <3>1
    <3> QED
      BY <3>2, <3>3, <3>4
  <2>5. PICK p \in 1..(n + 1) : p = i + f - 2 /\ g[p].role = "tool" /\ out[i] = g[p]
    BY <2>1, <2>4
  <2>6. PICK a \in 1..(p - 1) : /\ g[a].role = "assistant" /\ g[a].turn = g[p].turn
                                /\ \A k \in (a + 1)..p : g[k].role = "tool"
    <3>1. p \in DOMAIN g
      BY <2>3, <2>5
    <3> QED
      BY <2>3, <2>5, <3>1 DEF Paired
  <2>7. a >= f + 1
    <3> SUFFICES ASSUME ~(a >= f + 1) PROVE FALSE
      OBVIOUS
    <3>1. f + 1 \in (a + 1)..p
      BY <1>3, <2>1, <2>5, <2>6
    <3>2. f \in 1..n /\ g[f + 1] = rest[f]
      BY <1>3, <2>3
    <3> QED
      BY <2>6, <3>1, <3>2
  <2>8. PICK j : j = a - f + 2
    OBVIOUS
  <2>9. j \in 3..(m + 2) /\ j \in 1..(i - 1) /\ j + f - 2 = a
    BY <1>3, <2>1, <2>5, <2>6, <2>7, <2>8
  <2>10. out[j] = g[a]
    BY <2>4, <2>9
  <2>11. ASSUME NEW k \in (j + 1)..i PROVE out[k].role = "tool"
    <3>1. k \in 3..(m + 2) /\ k + f - 2 \in (a + 1)..p
      BY <1>3, <2>1, <2>5, <2>6, <2>9
    <3> QED
      BY <2>4, <2>6, <3>1
  <2> QED
    BY <2>5, <2>6, <2>9, <2>10, <2>11
<1>14. HistoryOK(out)
  <2>1. Len(out) >= 1
    BY <1>10
  <2> QED
    BY <1>10, <1>13, <2>1 DEF HistoryOK
<1>15. CASE LastTurn(rest, f)
  <2>1. PICK t : t = rest[f].turn
    OBVIOUS
  <2>2. \A j \in f..n : rest[j].turn = t
    <3>1. f \in 1..Len(rest)
      BY <1>1, <1>3
    <3>2. \A j \in f..Len(rest) : rest[j].turn = rest[f].turn
      BY <1>15, <3>1, OneTurn
    <3> QED
      BY <1>1, <2>1, <3>2
  <2>3. ASSUME NEW i \in 1..(m + 2) PROVE out[i].turn \in {0, t}
    <3>1. CASE i \in {1, 2}
      BY <1>6, <1>10, <1>11, <3>1
    <3>2. CASE i \notin {1, 2}
      <4>1. i \in 3..(m + 2) /\ f + i - 3 \in f..n
        BY <1>3, <1>4, <3>2
      <4> QED
        BY <1>12, <2>2, <4>1
    <3> QED
      BY <3>1, <3>2
  <2>4. {out[i].turn : i \in DOMAIN out} \ {0} \subseteq {t}
    BY <1>10, <2>3
  <2>5. Cardinality({out[i].turn : i \in DOMAIN out} \ {0}) <= 1
    <3>1. IsFiniteSet({t}) /\ Cardinality({t}) = 1
      BY FS_Singleton
    <3> QED
      BY <2>4, <3>1, FS_Subset
  <2> QED
    BY <1>14, <2>5 DEF Fits
<1>16. CASE ~OverFrom(rest, f)
  <2>1. /\ Pinned.size + NoteSize + Count(kept) <= MaxTokens
        /\ Pinned.size \in Nat /\ NoteSize \in Nat /\ MaxTokens \in Nat
    <3>1. ~(Pinned.size + NoteSize + Count(kept) > MaxTokens)
      BY <1>2, <1>16 DEF OverFrom
    <3>2. Pinned.size \in Nat /\ NoteSize \in Nat /\ MaxTokens \in Nat
      BY <1>6, ContextAssumption DEF Messages
    <3>3. Count(kept) \in Nat
      BY <1>5, UnitsFinite
    <3> QED
      BY <3>1, <3>2, <3>3
  <2>2. PICK c \in Nat : c = Count(kept)
    BY <1>5, UnitsFinite
  <2>3. Count(s) = size + c
    BY <1>5, <1>6, <1>7, <2>2, CountFront
  <2>4. Count(out) = Pinned.size + Count(s)
    BY <1>6, <1>8, <1>9, CountFront
  <2>5. Count(out) <= MaxTokens + size - NoteSize
    BY <2>1, <2>2, <2>3, <2>4
  <2>6. Len(out) > 1
    BY <1>10
  <2>7. out[2].turn = 0 /\ out[2].size = size
    BY <1>6, <1>11
  <2> QED
    BY <1>14, <2>5, <2>6, <2>7 DEF Fits
<1> QED
  BY <1>15, <1>16

\* A history that is compacted stays one, and is no longer than it has to be.
LEMMA CompactedOK ==
    ASSUME NEW h, HistoryOK(h), NEW size \in NoteSizes
    PROVE  HistoryOK(Compacted(h, size)) /\ Fits(Compacted(h, size))
<1>1. PICK rest : rest = Shrunk(Tail(h))
  OBVIOUS
<1>2. PICK g : g = <<Pinned>> \o rest
  OBVIOUS
<1>3. rest \in Seq(Messages) /\ HistoryOK(g)
  BY <1>1, <1>2, CutOK
<1>4. Head(h) = Pinned
  BY DEF HistoryOK
<1>5. PICK f : f = FirstKept(rest)
  OBVIOUS
<1>6. PICK kept : kept = SubSeq(rest, f, Len(rest))
  OBVIOUS
<1>7. PICK out : out = Compacted(h, size)
  OBVIOUS
<1>8. out = IF Count(h) <= MaxTokens THEN h
            ELSE IF Count(g) <= MaxTokens THEN g
            ELSE <<Pinned>> \o NoOrphanAhead(IF f > 1 THEN <<Note(size)>> \o kept ELSE kept)
  BY <1>1, <1>2, <1>4, <1>5, <1>6, <1>7 DEF Compacted
<1>9. size \in Nat /\ MaxTokens \in Nat
  BY ContextAssumption
<1>10. Count(h) \in Nat /\ Count(g) \in Nat
  BY <1>3, UnitsFinite DEF HistoryOK
<1>11. CASE Count(h) <= MaxTokens
  <2>1. out = h
    BY <1>8, <1>11
  <2>2. ~(Count(out) > MaxTokens)
    BY <1>9, <1>10, <1>11, <2>1
  <2> QED
    BY <1>7, <2>1, <2>2 DEF Fits
<1>12. CASE Count(g) <= MaxTokens /\ ~(Count(h) <= MaxTokens)
  <2>1. out = g
    BY <1>8, <1>12
  <2>2. ~(Count(out) > MaxTokens)
    BY <1>9, <1>10, <1>12, <2>1
  <2> QED
    BY <1>3, <1>7, <2>1, <2>2 DEF Fits
<1>13. CASE ~(Count(h) <= MaxTokens) /\ ~(Count(g) <= MaxTokens) /\ Len(rest) = 0
  <2>1. rest = << >> /\ g = <<Pinned>>
    BY <1>2, <1>3, <1>13
  <2>2. f = 1
    <3>1. Starts(rest) = {}
      BY <2>1 DEF Starts
    <3>2. FirstKept(rest) = Min({1})
      BY <1>13, <3>1 DEF FirstKept
    <3>3. Min({1}) \in {1}
      BY LeastOf
    <3> QED
      BY <1>5, <3>2, <3>3
  <2>3. kept = << >>
    BY <1>6, <2>1, <2>2
  <2>4. NoOrphanAhead(kept) = << >>
    BY <2>3 DEF NoOrphanAhead
  <2>5. out = <<Pinned>> \o << >>
    BY <1>8, <1>13, <2>2, <2>4
  <2>6. out = g
    BY <2>1, <2>5
  <2>7. {out[i].turn : i \in DOMAIN out} \ {0} = {}
    BY <2>1, <2>6 DEF Pinned, Msg
  <2>8. Cardinality({out[i].turn : i \in DOMAIN out} \ {0}) <= 1
    BY <2>7, FS_EmptySet
  <2> QED
    BY <1>3, <1>7, <2>6, <2>8 DEF Fits
<1>14. CASE ~(Count(h) <= MaxTokens) /\ ~(Count(g) <= MaxTokens) /\ Len(rest) # 0
  <2>1. PICK n \in Nat : n = Len(rest) /\ n > 0 /\ DOMAIN rest = 1..n
    BY <1>3, <1>14
  <2>2. f \in 1..Len(rest) /\ StartsTurn(rest, f) /\ (LastTurn(rest, f) \/ ~OverFrom(rest, f))
    BY <1>3, <1>5, <2>1, FirstKeptOK
  <2>3. rest[1].role # "tool"
    <3>1. DOMAIN g = 1..(n + 1) /\ \A i \in 1..n : g[i + 1] = rest[i]
      <4>1. Pinned \in Messages
        BY ContextAssumption DEF Pinned, Msg, Messages
      <4> QED
        BY <1>2, <1>3, <2>1, <4>1, FrontOK
    <3>2. g[1 + 1] = rest[1] /\ 1 + 1 = 2 /\ 2 \in DOMAIN g
      BY <2>1, <3>1
    <3>3. Paired(g) /\ g[1] = Pinned
      BY <1>3 DEF HistoryOK
    <3> SUFFICES ASSUME g[2].role = "tool" PROVE FALSE
      BY <3>2
    <3>4. PICK j \in 1..(2 - 1) : g[j].role = "assistant"
      BY <3>2, <3>3 DEF Paired
    <3>5. j = 1
      OBVIOUS
    <3> QED
      BY <3>3, <3>4, <3>5 DEF Pinned, Msg
  <2>4. rest[f].role # "tool"
    BY <2>2, <2>3 DEF StartsTurn
  <2>5. CASE f > 1
    <3>1. f \in 2..Len(rest)
      BY <2>1, <2>2, <2>5
    <3>2. out = <<Pinned>> \o NoOrphanAhead(<<Note(size)>> \o SubSeq(rest, f, Len(rest)))
      BY <1>6, <1>8, <1>14, <2>5
    <3>3. HistoryOK(<<Pinned>> \o rest)
      BY <1>2, <1>3
    <3> QED
      BY <1>3, <1>7, <1>9, <2>2, <2>4, <3>1, <3>2, <3>3, DroppedOK
  <2>6. CASE ~(f > 1)
    <3>1. f = 1
      BY <2>1, <2>2, <2>6
    <3>2. kept = rest
      BY <1>3, <1>6, <3>1, SubSeqFull
    <3>3. NoOrphanAhead(rest) = rest
      BY <1>3, <2>1, <2>3, NoOrphanOK
    <3>4. out = g
      BY <1>2, <1>8, <1>14, <2>6, <3>2, <3>3
    <3>5. LastTurn(rest, 1)
      <4> SUFFICES ASSUME ~OverFrom(rest, 1) PROVE FALSE
        BY <2>2, <3>1
      <4>1. PICK c \in Nat : c = Count(rest)
        BY <1>3, UnitsFinite
      <4>2. ~(Pinned.size + NoteSize + c > MaxTokens)
        BY <1>6, <3>1, <3>2, <4>1 DEF OverFrom
      <4>3. Pinned \in Messages /\ NoteSize \in Nat
        BY ContextAssumption DEF Pinned, Msg, Messages
      <4>4. Count(g) = Pinned.size + c
        BY <1>2, <1>3, <4>1, <4>3, CountFront
      <4>5. Pinned.size \in Nat
        BY <4>3 DEF Messages
      <4> QED
        BY <1>9, <1>14, <4>2, <4>3, <4>4, <4>5
    <3>6. \A j \in 1..Len(rest) : rest[j].turn = rest[1].turn
      <4>1. 1 \in 1..Len(rest) /\ HistoryOK(<<Pinned>> \o rest)
        BY <1>2, <1>3, <2>1
      <4> QED
        BY <1>3, <2>3, <3>5, <4>1, OneTurn
    <3>7. Cardinality({g[i].turn : i \in DOMAIN g} \ {0}) <= 1
      <4>1. PICK t : t = rest[1].turn
        OBVIOUS
      <4>2. /\ DOMAIN g = 1..(n + 1) /\ g[1] = Pinned /\ \A i \in 1..n : g[i + 1] = rest[i]
        <5>1. Pinned \in Messages
          BY ContextAssumption DEF Pinned, Msg, Messages
        <5> QED
          BY <1>2, <1>3, <2>1, <5>1, FrontOK
      <4>3. ASSUME NEW i \in 1..(n + 1) PROVE g[i].turn \in {0, t}
        <5>1. CASE i = 1
          BY <4>2, <5>1 DEF Pinned, Msg
        <5>2. CASE i # 1
          <6>1. PICK k : k = i - 1
            OBVIOUS
          <6>2. k \in 1..n /\ i = k + 1
            BY <5>2, <6>1
          <6>3. g[i] = rest[k] /\ rest[k].turn = t
            BY <2>1, <3>6, <4>1, <4>2, <6>2
          <6> QED
            BY <6>3
        <5> QED
          BY <5>1, <5>2
      <4>4. {g[i].turn : i \in DOMAIN g} \ {0} \subseteq {t}
        BY <4>2, <4>3
      <4>5. IsFiniteSet({t}) /\ Cardinality({t}) = 1
        BY FS_Singleton
      <4> QED
        BY <4>4, <4>5, FS_Subset
    <3> QED
      BY <1>3, <1>7, <3>4, <3>7 DEF Fits
  <2> QED
    BY <2>5, <2>6
<1> QED
  BY <1>11, <1>12, <1>13, <1>14

-----------------------------------------------------------------------------
LEMMA ContextStart == ContextInit => ContextInv
<1> SUFFICES ASSUME ContextInit PROVE ContextInv
  OBVIOUS
<1>1. history = <<Pinned>> /\ turnNo = 0 /\ prompt.out = <<Pinned>>
  BY DEF ContextInit
<1>2. Pinned \in Messages /\ Pinned.role = "user" /\ Pinned.turn = 0
  BY ContextAssumption DEF Pinned, Msg, Messages
<1>3. HistoryOK(<<Pinned>>)
  BY <1>2 DEF HistoryOK, Paired
<1>4. Fits(<<Pinned>>)
  <2>1. {<<Pinned>>[i].turn : i \in DOMAIN <<Pinned>>} \ {0} = {}
    BY <1>2
  <2> QED
    BY <2>1, FS_EmptySet DEF Fits
<1> QED
  BY <1>1, <1>3, <1>4 DEF ContextInv

\* One list of messages after another
JoinedSeq(s, t, h, n, q) ==
    /\ h \in Seq(Messages) /\ Len(h) = n + q /\ DOMAIN h = 1..(n + q)
    /\ \A i \in 1..n : h[i] = s[i]
    /\ \A i \in 1..q : h[n + i] = t[i]

LEMMA JoinedOK ==
    ASSUME NEW s \in Seq(Messages), NEW t \in Seq(Messages), NEW h, h = s \o t,
           NEW n \in Nat, n = Len(s), NEW q \in Nat, q = Len(t)
    PROVE  JoinedSeq(s, t, h, n, q)
BY DEF JoinedSeq

\* The reply and its results are a turn.
LEMMA ReplyOK ==
    ASSUME NEW sent, HistoryOK(sent), NEW next \in Nat, NEW size \in Nat, NEW results \in Seq(Nat)
    PROVE  HistoryOK(sent \o (<<Msg("assistant", next, size)>>
                                 \o [i \in DOMAIN results |-> Msg("tool", next, results[i])]))
<1>0. PICK h : h = sent \o (<<Msg("assistant", next, size)>>
                               \o [i \in DOMAIN results |-> Msg("tool", next, results[i])])
  OBVIOUS
<1> SUFFICES HistoryOK(h)
  BY <1>0
<1>1. PICK reply : reply = [i \in DOMAIN results |-> Msg("tool", next, results[i])]
  OBVIOUS
<1>2. PICK r \in Nat : r = Len(results) /\ DOMAIN results = 1..r
  OBVIOUS
<1>3. \A i \in 1..r : reply[i] \in Messages /\ reply[i].role = "tool" /\ reply[i].turn = next
  <2> SUFFICES ASSUME NEW i \in 1..r
               PROVE  reply[i] \in Messages /\ reply[i].role = "tool" /\ reply[i].turn = next
    OBVIOUS
  <2>1. reply[i] = Msg("tool", next, results[i]) /\ results[i] \in Nat
    BY <1>1, <1>2
  <2> QED
    BY <2>1 DEF Msg, Messages
<1>4. reply \in Seq(Messages) /\ Len(reply) = r
  <2>1. reply \in [1..r -> Messages]
    BY <1>1, <1>2, <1>3
  <2> QED
    BY <2>1
<1>5. PICK m \in Messages : m = Msg("assistant", next, size) /\ m.role = "assistant" /\ m.turn = next
  <2>1. PICK m : m = [role |-> "assistant", turn |-> next, size |-> size]
    OBVIOUS
  <2>2. m \in Messages /\ m.role = "assistant" /\ m.turn = next
    BY <2>1 DEF Messages
  <2> QED
    BY <2>1, <2>2 DEF Msg
<1>6. PICK turn : turn = <<m>> \o reply
  OBVIOUS
<1>7. /\ turn \in Seq(Messages) /\ Len(turn) = r + 1 /\ turn[1] = m
      /\ \A i \in 1..r : turn[i + 1] = reply[i]
  BY <1>4, <1>5, <1>6, FrontOK
<1>8. h = sent \o turn
  BY <1>0, <1>1, <1>5, <1>6
<1>9. sent \in Seq(Messages) /\ Len(sent) >= 1 /\ sent[1] = Pinned /\ Paired(sent)
  BY DEF HistoryOK
<1>10. PICK n \in Nat : n = Len(sent) /\ n >= 1 /\ DOMAIN sent = 1..n
  BY <1>9
<1>11. PICK q \in Nat : q = r + 1 /\ q = Len(turn)
  BY <1>7
<1>12. /\ h \in Seq(Messages) /\ Len(h) = n + q /\ DOMAIN h = 1..(n + q)
       /\ \A i \in 1..n : h[i] = sent[i]
       /\ \A i \in 1..q : h[n + i] = turn[i]
  <2>1. sent \in Seq(Messages) /\ turn \in Seq(Messages)
    BY <1>7, <1>9
  <2> QED
    <3>2. h = sent \o turn /\ n = Len(sent) /\ q = Len(turn)
      BY <1>8, <1>10, <1>11
    <3>3. JoinedSeq(sent, turn, h, n, q)
      BY <2>1, <3>2, JoinedOK
    <3> QED
      BY <3>3 DEF JoinedSeq
<1>13. ASSUME NEW k \in (n + 2)..(n + q) PROVE h[k].role = "tool" /\ h[k].turn = next
  <2>1. PICK i : i = k - n - 1
    OBVIOUS
  <2>2. i \in 1..r /\ i + 1 \in 1..q /\ n + (i + 1) = k
    BY <1>11, <2>1
  <2>3. h[n + (i + 1)] = turn[i + 1] /\ turn[i + 1] = reply[i]
    BY <1>7, <1>12, <2>2
  <2> QED
    BY <1>3, <2>2, <2>3
<1>14. h[n + 1].role = "assistant" /\ h[n + 1].turn = next
  <2>1. 1 \in 1..q
    BY <1>11
  <2> QED
    BY <1>5, <1>7, <1>12, <2>1
<1>15. Paired(h)
  <2> SUFFICES ASSUME NEW i \in 1..(n + q), h[i].role = "tool"
               PROVE  \E j \in 1..(i - 1) : /\ h[j].role = "assistant" /\ h[j].turn = h[i].turn
                                            /\ \A k \in (j + 1)..i : h[k].role = "tool"
    BY <1>12 DEF Paired
  <2>1. CASE i <= n
    <3>1. i \in DOMAIN sent /\ sent[i].role = "tool" /\ h[i] = sent[i]
      BY <1>10, <1>12, <2>1
    <3>2. PICK j \in 1..(i - 1) : /\ sent[j].role = "assistant" /\ sent[j].turn = sent[i].turn
                                  /\ \A k \in (j + 1)..i : sent[k].role = "tool"
      BY <1>9, <3>1 DEF Paired
    <3>3. j \in 1..n /\ \A k \in (j + 1)..i : k \in 1..n
      BY <2>1
    <3> QED
      BY <1>12, <3>1, <3>2, <3>3
  <2>2. CASE i > n
    <3>1. i # n + 1
      BY <1>14
    <3>2. i \in (n + 2)..(n + q) /\ n + 1 \in 1..(i - 1)
      BY <2>2, <3>1
    <3>3. \A k \in ((n + 1) + 1)..i : k \in (n + 2)..(n + q)
      BY <3>2
    <3> QED
      BY <1>13, <1>14, <3>2, <3>3
  <2>3. i <= n \/ i > n
    OBVIOUS
  <2> QED
    BY <2>1, <2>2, <2>3
<1>16. Len(h) >= 1 /\ h[1] = Pinned
  <2>1. 1 \in 1..n
    BY <1>10
  <2> QED
    BY <1>9, <1>10, <1>11, <1>12, <2>1
<1> QED
  BY <1>12, <1>15, <1>16 DEF HistoryOK

LEMMA ContextStep == ContextInv /\ [ContextNext]_ctxVars => ContextInv'
<1> SUFFICES ASSUME ContextInv, [ContextNext]_ctxVars PROVE ContextInv'
  OBVIOUS
<1>1. ASSUME NEW size \in {Short, Long}, NEW note \in NoteSizes, NEW results \in Seq(Nat),
             ModelTurn(results, size, note)
      PROVE  ContextInv'
  <2>1. PICK sent : sent = Compacted(history, note)
    OBVIOUS
  <2>2. HistoryOK(sent) /\ Fits(sent)
    BY <2>1, CompactedOK DEF ContextInv
  <2>3. PICK next \in Nat : next = turnNo + 1
    BY DEF ContextInv
  <2>4. /\ turnNo' = next /\ prompt' = [in |-> history, out |-> sent]
        /\ history' = sent \o (<<Msg("assistant", next, size)>>
                                  \o [i \in DOMAIN results |-> Msg("tool", next, results[i])])
    BY <1>1, <2>1, <2>3 DEF ModelTurn
  <2>5. size \in Nat
    BY ContextAssumption
  <2>6. HistoryOK(history')
    BY <2>2, <2>4, <2>5, ReplyOK
  <2>7. prompt'.out = sent
    BY <2>4
  <2> QED
    BY <2>2, <2>4, <2>6, <2>7 DEF ContextInv
<1>2. CASE ContextNext
  <2>1. PICK size \in {Short, Long}, note \in NoteSizes :
          \E results \in {<< >>} \union {<<a>> : a \in {Short, Long}}
                          \union {<<a, b>> : a, b \in {Short, Long}} :
              ModelTurn(results, size, note)
    BY <1>2 DEF ContextNext
  <2>2. PICK results \in {<< >>} \union {<<a>> : a \in {Short, Long}}
                         \union {<<a, b>> : a, b \in {Short, Long}} :
              ModelTurn(results, size, note)
    BY <2>1
  <2>3. results \in Seq(Nat)
    <3>1. Short \in Nat /\ Long \in Nat
      BY ContextAssumption
    <3>2. \A a, b \in Nat : << >> \in Seq(Nat) /\ <<a>> \in Seq(Nat) /\ <<a, b>> \in Seq(Nat)
      OBVIOUS
    <3>3. CASE results = << >>
      BY <3>2, <3>3
    <3>4. CASE results \in {<<a>> : a \in {Short, Long}}
      <4>1. PICK a \in {Short, Long} : results = <<a>>
        BY <3>4
      <4>2. a \in Nat
        BY <3>1
      <4> QED
        BY <3>2, <4>1, <4>2
    <3>5. CASE results \in {<<a, b>> : a, b \in {Short, Long}}
      <4>1. PICK a \in {Short, Long}, b \in {Short, Long} : results = <<a, b>>
        BY <3>5
      <4>2. a \in Nat /\ b \in Nat
        BY <3>1
      <4> QED
        BY <3>2, <4>1, <4>2
    <3> QED
      BY <2>2, <3>3, <3>4, <3>5
  <2> QED
    BY <1>1, <2>2, <2>3
<1>3. CASE UNCHANGED ctxVars
  BY <1>3 DEF ctxVars, ContextInv
<1> QED
  BY <1>2, <1>3

\* However often a history has been compacted, no tool result is separated from
\* its call, the task stays in front, and the prompt fits but for one whole turn or a
\* note longer than was reckoned with (compact(), HarnessRunner._model).
THEOREM ContextAlways == ContextSpec => []ContextSound
<1>1. ContextInv => ContextSound
  BY DEF ContextInv, ContextSound, HistoryOK
<1> QED
  BY <1>1, ContextStart, ContextStep, PTL DEF ContextSpec

=============================================================================
