------------------------------ MODULE Context -------------------------------
(***************************************************************************)
(* Keeping a run's history inside the model's window: harness/context.py,  *)
(* as HarnessRunner._model uses it before every model call.  A message has *)
(* a role, the number of the assistant message it belongs to and a size;   *)
(* what it says is left out.  The history grows by whole turns: an         *)
(* assistant message and the results of the tools it called.               *)
(***************************************************************************)
EXTENDS Integers, Sequences, FiniteSets, SequencesExt

CONSTANTS
    MaxTokens,       \* context_tokens
    KeepRecent,      \* keep_recent
    NoteSize,        \* of the summary note, as the loop that drops turns takes it to be
    NoteSizes,       \* sizes the note may have: a digest, or what a model summarises
    Long, Short,     \* sizes: a tool's output before and after it is cut
    MaxTurns         \* bound: turns of a run

ASSUME ContextAssumption ==
    /\ MaxTokens \in Nat /\ KeepRecent \in Nat /\ NoteSize \in Nat
    /\ NoteSizes \subseteq Nat
    /\ Short \in Nat /\ Long \in Nat /\ Short < Long

VARIABLES
    history,    \* msgs, part of the durable state
    turnNo,     \* bound and label: turns so far
    prompt      \* the last compaction: what went in and what came out

ctxVars == <<history, turnNo, prompt>>

Msg(role, turn, size) == [role |-> role, turn |-> turn, size |-> size]

Pinned == Msg("user", 0, Short)

ContextInit ==
    /\ history = <<Pinned>>
    /\ turnNo = 0
    /\ prompt = [in |-> <<Pinned>>, out |-> <<Pinned>>]

\* count(): the tokens of a list of messages, one by one.
Count(msgs) == Cardinality(UNION {{i} \X (1..msgs[i].size) : i \in DOMAIN msgs})

\* The messages outside the recent window, their long tool outputs cut.
Shrunk(rest) ==
    [i \in DOMAIN rest |->
        IF i <= Len(rest) - KeepRecent /\ rest[i].role = "tool" /\ rest[i].size = Long
        THEN [rest[i] EXCEPT !.size = Short] ELSE rest[i]]

\* Mutant: every message is a turn of its own.
StartsTurnAlways(rest, i) == TRUE

\* _turns(): a tool message goes with the messages before it.
StartsTurn(rest, i) == i = 1 \/ rest[i].role # "tool"

\* Where the turns of rest begin.
Starts(rest) == {i \in DOMAIN rest : StartsTurn(rest, i)}

\* What is left from position i on does not fit beside the pinned message and
\* a note of the usual length.
OverFrom(rest, i) ==
    Pinned.size + NoteSize + Count(SubSeq(rest, i, Len(rest))) > MaxTokens

\* The loop that drops the oldest turns stops at the first turn that fits, or
\* that is the last one, or that min(keep_recent, 1) messages do not follow.
StopsAt(rest, i) ==
    LET later == {j \in Starts(rest) : j > i}
    IN  \/ later = {}
        \/ Len(rest) - Min(later) + 1 < Min({KeepRecent, 1})
        \/ ~OverFrom(rest, i)

\* Where what is kept begins: behind the end if there is nothing but the task.
FirstKept(rest) == Min({i \in Starts(rest) : StopsAt(rest, i)} \cup {Len(rest) + 1})

Note(size) == Msg("user", 0, size)

\* A leading tool message with no caller is dropped.
NoOrphanAhead(rest) ==
    LET heads == {i \in DOMAIN rest : rest[i].role # "tool"}
    IN  IF heads = {} THEN << >> ELSE SubSeq(rest, Min(heads), Len(rest))

\* compact(): the history that fits, or as near to it as whole turns allow; a
\* note of the given size stands for the turns dropped.
Compacted(msgs, size) ==
    LET rest == Shrunk(Tail(msgs))
        kept == SubSeq(rest, FirstKept(rest), Len(rest))
    IN  IF Count(msgs) <= MaxTokens THEN msgs
        ELSE IF Count(<<Head(msgs)>> \o rest) <= MaxTokens THEN <<Head(msgs)>> \o rest
        ELSE <<Head(msgs)>> \o NoOrphanAhead(IF FirstKept(rest) > 1 THEN <<Note(size)>> \o kept ELSE kept)

\* HarnessRunner._model: the compacted history is what is sent and kept.  The
\* reply, and the results of the calls in it, are the next turn.
ModelTurn(results, size, note) ==
    LET sent  == Compacted(history, note)
        next  == turnNo + 1
        reply == <<Msg("assistant", next, size)>>
                    \o [i \in DOMAIN results |-> Msg("tool", next, results[i])]
    IN  /\ turnNo < MaxTurns
        /\ turnNo' = next
        /\ prompt' = [in |-> history, out |-> sent]
        /\ history' = sent \o reply

ContextNext ==
    \E size \in {Short, Long}, note \in NoteSizes :
        \E results \in {<< >>} \union {<<a>> : a \in {Short, Long}}
                        \union {<<a, b>> : a, b \in {Short, Long}} :
            ModelTurn(results, size, note)

ContextSpec == ContextInit /\ [][ContextNext]_ctxVars

-----------------------------------------------------------------------------
\* Each tool result stands behind the assistant message that called it, with
\* nothing but results between.
Paired(msgs) ==
    \A i \in DOMAIN msgs : msgs[i].role = "tool" =>
        \E j \in 1..(i - 1) : /\ msgs[j].role = "assistant" /\ msgs[j].turn = msgs[i].turn
                              /\ \A k \in (j + 1)..i : msgs[k].role = "tool"

\* More than fits is either down to the task and one whole turn, or too much by
\* what its note is longer than the loop took it to be.
Fits(msgs) ==
    Count(msgs) > MaxTokens =>
        \/ Cardinality({msgs[i].turn : i \in DOMAIN msgs} \ {0}) <= 1
        \/ /\ Len(msgs) > 1 /\ msgs[2].turn = 0
           /\ Count(msgs) <= MaxTokens + msgs[2].size - NoteSize

\* "A tool result is never separated from the assistant message that called
\* it", the task stays in front, and the prompt is no longer than it has to be,
\* however often the history has been compacted.
ContextSound ==
    prompt.out[1] = Pinned /\ Paired(prompt.out) /\ Fits(prompt.out)
=============================================================================
