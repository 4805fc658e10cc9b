------------------------------ MODULE ChatPane ------------------------------
(***************************************************************************)
(* The chat panes of the terminal interface (caips_tui/chat.py and         *)
(* HarnessPane of caips_tui/harness_view.py): the conversation, the reply  *)
(* in progress and what stopping, clearing and retrying do to both.        *)
(*                                                                         *)
(*   history   the conversation, a sequence of [role, turn, ...]           *)
(*   busy      whether a reply is in progress, as the pane believes        *)
(*   attempt   the last question and where it was put, for /retry          *)
(*   last      the turn a rating would be about                            *)
(*   worker    the worker of group "chat" that runs send()                 *)
(*   turns     "History turns", 0 for all                                  *)
(*   mode      the dialect requests are sent in                            *)
(*   asked     the number of questions put                                 *)
(*   paneUp    whether the application still runs                          *)
(*                                                                         *)
(* Handlers of the pane run one after the other; the worker runs beside    *)
(* them.  A worker is queued until the loop starts it, "adding" while      *)
(* send() awaits its two widgets, before its try, "asking" while the reply *)
(* arrives, "finishing" while the line under the reply is added, and       *)
(* "gone" when it was stopped before its try.                              *)
(***************************************************************************)
EXTENDS Integers, Sequences, SequencesExt

CONSTANTS
    Turns,       \* the values of "History turns", 0 for all of it
    Modes,       \* subset of {"chat", "native", "anthropic"}
    MaxAsked     \* bound: questions put

ASSUME ChatPaneAssumption ==
    /\ Turns \subseteq Nat /\ Modes \subseteq {"chat", "native", "anthropic"}
    /\ MaxAsked \in Nat

VARIABLES history, busy, attempt, last, worker, turns, mode, asked, paneUp

chatVars == <<history, busy, attempt, last, worker, turns, mode, asked, paneUp>>

NoAttempt == [text |-> 0, before |-> 0, context |-> << >>]
NoWorker == [at |-> "idle", text |-> 0, turn |-> 0, before |-> 0,
             window |-> << >>, turns |-> 0, cleared |-> FALSE]

ChatInit ==
    /\ history = << >> /\ busy = FALSE
    /\ attempt = NoAttempt /\ last = 0
    /\ worker = NoWorker
    /\ turns \in Turns /\ mode \in Modes
    /\ asked = 0 /\ paneUp = TRUE

\* HarnessPane.window(): the last n turns and the question, from a question on.
Window(h, n) ==
    LET keep == 2 * n + (IF h # << >> /\ Last(h).role = "user" THEN 1 ELSE 0)
        tail == SubSeq(h, Len(h) - keep + 1, Len(h))
        kept == IF keep >= Len(h) THEN h ELSE tail
        questions == {i \in DOMAIN kept : kept[i].role = "user"}
    IN  IF n = 0 THEN h
        ELSE IF questions = {} THEN << >>
        ELSE SubSeq(kept, Min(questions), Len(kept))

\* del self.history[before:]
CutAt(h, before) == IF before >= Len(h) THEN h ELSE SubSeq(h, 1, before)

-----------------------------------------------------------------------------
\* on_input_submitted(), a message while no reply is in progress: the worker
\* is exclusive in its group, so one that has not begun is cancelled.
Submit(text) ==
    /\ paneUp /\ ~busy
    /\ worker' = [NoWorker EXCEPT !.at = "queued", !.text = text]
    /\ UNCHANGED <<history, busy, attempt, last, turns, mode, asked, paneUp>>

\* send() begins: the settings are invalid, or the question joins the history.
SendRefused ==
    /\ paneUp /\ worker.at = "queued"
    /\ worker' = NoWorker
    /\ UNCHANGED <<history, busy, attempt, last, turns, mode, asked, paneUp>>

SendBegins ==
    /\ paneUp /\ worker.at = "queued" /\ asked < MaxAsked
    /\ busy' = TRUE
    /\ asked' = asked + 1
    /\ attempt' = [text |-> worker.text, before |-> Len(history), context |-> history]
    /\ history' = Append(history, [role |-> "user", turn |-> asked', window |-> << >>,
                                   turns |-> 0, cleared |-> FALSE])
    /\ worker' = [worker EXCEPT !.at = "adding", !.turn = asked', !.before = Len(history)]
    /\ UNCHANGED <<last, turns, mode, paneUp>>

\* generate() reads the window when the widgets are there.
Generate ==
    /\ paneUp /\ worker.at = "adding"
    /\ worker' = [worker EXCEPT !.at = "asking", !.window = Window(history, turns), !.turns = turns]
    /\ UNCHANGED <<history, busy, attempt, last, turns, mode, asked, paneUp>>

\* The reply is complete.
ReplyEnds ==
    /\ paneUp /\ worker.at = "asking"
    /\ history' = Append(history, [role |-> "assistant", turn |-> worker.turn,
                                   window |-> worker.window, turns |-> worker.turns,
                                   cleared |-> worker.cleared])
    /\ last' = worker.turn
    /\ worker' = [worker EXCEPT !.at = "finishing"]
    /\ UNCHANGED <<busy, attempt, turns, mode, asked, paneUp>>

ReplyShown ==
    /\ paneUp /\ worker.at = "finishing"
    /\ worker' = NoWorker /\ busy' = FALSE
    /\ UNCHANGED <<history, attempt, last, turns, mode, asked, paneUp>>

\* An ApiError: a refused request, a lost connection or an error event.
ReplyFails ==
    /\ paneUp /\ worker.at = "asking"
    /\ history' = CutAt(history, worker.before)
    /\ worker' = NoWorker /\ busy' = FALSE
    /\ UNCHANGED <<attempt, last, turns, mode, asked, paneUp>>

\* An event that is not JSON is skipped in the OpenAI dialect.  In the other
\* two its ValueError ends the worker, and with it the application.
ReplyBreaks ==
    /\ paneUp /\ worker.at = "asking" /\ mode # "chat"
    /\ worker' = NoWorker /\ busy' = FALSE /\ paneUp' = FALSE
    /\ UNCHANGED <<history, attempt, last, turns, mode, asked>>

\* action_stop(): the worker is cancelled where it is.
Stop ==
    /\ paneUp /\ worker.at \notin {"idle", "gone"}
    /\ \/ /\ worker.at = "queued"
          /\ worker' = NoWorker
          /\ UNCHANGED <<history, busy>>
       \/ /\ worker.at = "adding"      \* before the try: nothing is undone
          /\ worker' = [worker EXCEPT !.at = "gone"]
          /\ UNCHANGED <<history, busy>>
       \/ /\ worker.at \in {"asking", "finishing"}
          /\ history' = CutAt(history, worker.before)
          /\ worker' = NoWorker /\ busy' = FALSE
    /\ UNCHANGED <<attempt, last, turns, mode, asked, paneUp>>

\* Mutant: the question to retry outlives the conversation it was put in.
ForgottenKept(a) == a
Forgotten(a) == NoAttempt

\* clear(), at any time
Clear ==
    /\ paneUp
    /\ history' = << >> /\ last' = 0
    /\ attempt' = Forgotten(attempt)
    /\ worker' = [worker EXCEPT !.cleared = worker.at \in {"adding", "asking", "finishing"}]
    /\ UNCHANGED <<busy, turns, mode, asked, paneUp>>

\* retry(): the earlier question and its reply, if any, go; the question is
\* sent again.
Retry ==
    /\ paneUp /\ attempt # NoAttempt /\ ~busy
    /\ history' = CutAt(history, attempt.before)
    /\ worker' = [NoWorker EXCEPT !.at = "queued", !.text = attempt.text]
    /\ UNCHANGED <<busy, attempt, last, turns, mode, asked, paneUp>>

\* The settings and /mode, at any time
SetTurns(n) ==
    /\ paneUp /\ turns # n
    /\ turns' = n
    /\ UNCHANGED <<history, busy, attempt, last, worker, mode, asked, paneUp>>

SetMode(m) ==
    /\ paneUp /\ mode # m
    /\ mode' = m
    /\ UNCHANGED <<history, busy, attempt, last, worker, turns, asked, paneUp>>

ChatNext ==
    \/ \E text \in {1, 2} : Submit(text)
    \/ SendRefused \/ SendBegins \/ Generate
    \/ ReplyEnds \/ ReplyShown \/ ReplyFails \/ ReplyBreaks
    \/ Stop \/ Clear \/ Retry
    \/ \E n \in Turns : SetTurns(n)
    \/ \E m \in Modes : SetMode(m)

ChatSpec == ChatInit /\ [][ChatNext]_chatVars

-----------------------------------------------------------------------------
\* Each reply of the conversation follows the question it answers and was
\* given with exactly the window of what stands before it, unless the
\* conversation was cleared while it was being written (send(), clear()).
ConversationHonest ==
    \A i \in DOMAIN history : history[i].role = "assistant" /\ ~history[i].cleared =>
        /\ i > 1 /\ history[i - 1].role = "user" /\ history[i - 1].turn = history[i].turn
        /\ history[i].window = Window(SubSeq(history, 1, i - 1), history[i].turns)

\* While no reply is in progress, retrying asks the question in the context it
\* was first put in, however the earlier attempt ended (retry()).
RetryKeepsContext ==
    attempt # NoAttempt /\ ~busy =>
        CutAt(history, attempt.before) = attempt.context

\* What is sent ends with the question and, when the history is limited,
\* begins with one, unless it was cleared before it was read (window()).
WindowEndsWithQuestion ==
    worker.at = "asking" /\ ~worker.cleared =>
        /\ worker.window # << >> /\ Last(worker.window).turn = worker.turn
        /\ worker.turns > 0 => Head(worker.window).role = "user"
        /\ worker.turns > 0 => Len(worker.window) <= 2 * worker.turns + 1

\* The pane is busy exactly while send() is between its first and its last
\* statement; a worker stopped before its try leaves the pane busy.
BusyWhileReplying == busy <=> worker.at \in {"adding", "asking", "finishing", "gone"}

\* The chat pane's conversation stays one, however replies are stopped, retried,
\* cleared or broken off while they are being written.
ChatSound ==
    ConversationHonest /\ RetryKeepsContext /\ WindowEndsWithQuestion /\ BusyWhileReplying
=============================================================================
