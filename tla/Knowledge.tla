----------------------------- MODULE Knowledge -----------------------------
(***************************************************************************)
(* What the gateway keeps for its users: the long-term memory of           *)
(* memory/store.py, the document index of rag/store.py and the ratings of  *)
(* feedback/store.py, with the handlers that use them.  The three share    *)
(* nothing, and each has its own variables and next-state relation.        *)
(*                                                                         *)
(*   memories   one namespace's rows: (owner, key) -> [created, updated]   *)
(*   gone       history: per owner, the time of the last eviction's row    *)
(*   seen       history: the ages of the rows the last read returned       *)
(*   memNow     the time                                                   *)
(*   index      per source of one collection, its rows [text, idx]         *)
(*   ingests    the calls of ingest_text() in progress                     *)
(*   indexed    history: per source, the text indexed last                 *)
(*   ratings    (owner, request) -> [rating, task]                         *)
(*                                                                         *)
(* A store is called from the event loop and only ingest_text() awaits, so *)
(* every other operation is one step.  Redaction and the scoring of a      *)
(* search have no state and are left out.                                  *)
(***************************************************************************)
EXTENDS Integers, Sequences, FiniteSets, SequencesExt, FiniteSetsExt, Functions

CONSTANTS
    Owners, MemKeys,
    MAX_ITEMS_PER_SCOPE,
    Retention,                    \* retention_s, 0 to keep for ever
    MaxMemNow,                    \* bound: the time
    Sources, Texts,               \* texts, as the lengths of their paragraphs
    Size, Overlap,                \* chunk_text()'s parameters
    MAX_CHUNKS_PER_COLLECTION,
    Ingests,                      \* concurrent calls of ingest_text()
    Rated, MAX_ROWS_PER_OWNER

ASSUME KnowledgeAssumption ==
    /\ MAX_ITEMS_PER_SCOPE \in Nat \ {0} /\ Retention \in Nat /\ MaxMemNow \in Nat
    /\ Size \in Nat /\ Overlap \in Nat /\ Size > Overlap
    /\ IsFiniteSet(Ingests) /\ \A t \in Texts : t \in Seq(Nat)
    /\ MAX_CHUNKS_PER_COLLECTION \in Nat /\ MAX_ROWS_PER_OWNER \in Nat

VARIABLES memories, gone, seen, memNow, index, ingests, indexed, ratings

memVars == <<memories, gone, seen, memNow>>
ragVars == <<index, ingests, indexed>>
fbVars == <<ratings>>

-----------------------------------------------------------------------------
\* MemoryStore

MemoryInit == memories = << >> /\ gone = [o \in Owners |-> 0] /\ seen = {} /\ memNow = 0

RowsOf(mem, o) == {k \in DOMAIN mem : k[1] = o}

\* expire(), at the beginning of every call but forget()
Expired(mem) ==
    IF Retention = 0 THEN mem
    ELSE Restrict(mem, {k \in DOMAIN mem : mem[k].updated >= memNow - Retention})

\* Mutant: the row written first goes.
OldestByCreation(mem, o) ==
    {k \in RowsOf(mem, o) : \A j \in RowsOf(mem, o) : mem[k].created <= mem[j].created}

\* The rows that may be evicted for a new one: ORDER BY updated LIMIT 1.
Oldest(mem, o) ==
    {k \in RowsOf(mem, o) : \A j \in RowsOf(mem, o) : mem[k].updated <= mem[j].updated}

Upserted(mem, k) ==
    IF k \in DOMAIN mem THEN [mem EXCEPT ![k].updated = memNow]
    ELSE [j \in DOMAIN mem \cup {k} |->
             IF j = k THEN [created |-> memNow, updated |-> memNow] ELSE mem[j]]

\* remember()
Remember(o, key) ==
    LET mem == Expired(memories)
        k == <<o, key>>
    IN  /\ IF k \in DOMAIN mem \/ Cardinality(RowsOf(mem, o)) < MAX_ITEMS_PER_SCOPE
           THEN memories' = Upserted(mem, k) /\ UNCHANGED gone
           ELSE \E old \in Oldest(mem, o) :
                   /\ memories' = Upserted(Restrict(mem, DOMAIN mem \ {old}), k)
                   /\ gone' = [gone EXCEPT ![o] = mem[old].updated]
        /\ UNCHANGED <<seen, memNow>>

\* recall(), view() and search()
View(o) ==
    LET mem == Expired(memories)
    IN  /\ memories' = mem
        /\ seen' = {memNow - mem[k].updated : k \in RowsOf(mem, o)}
        /\ UNCHANGED <<gone, memNow>>

\* forget(): one key, or everything the owner has
Forget(o, keys) ==
    /\ memories' = Restrict(memories, DOMAIN memories \ ({o} \X keys))
    /\ UNCHANGED <<gone, seen, memNow>>

MemTick == memNow < MaxMemNow /\ memNow' = memNow + 1 /\ UNCHANGED <<memories, gone, seen>>

MemoryNext ==
    \/ \E o \in Owners, key \in MemKeys : Remember(o, key)
    \/ \E o \in Owners : View(o) \/ Forget(o, MemKeys) \/ \E key \in MemKeys : Forget(o, {key})
    \/ MemTick

MemorySpec == MemoryInit /\ [][MemoryNext]_memVars

-----------------------------------------------------------------------------
\* chunk_text(): a character is the paragraph and the place it comes from.

Paragraph(i, n) == [j \in 1..n |-> <<i, j>>]
Separator == <<<<0, 1>>, <<0, 2>>>>
LastOf(s, n) == SubSeq(s, IF n < Len(s) THEN Len(s) - n + 1 ELSE 1, Len(s))
Joined(cur, p) == IF cur = << >> THEN p ELSE cur \o Separator \o p

\* An oversize paragraph is cut into overlapping pieces of the full size; what
\* is left of it goes on like a paragraph.
ChunkStep(n) == n * (Size - Overlap)
Cuts(p) == IF Len(p) <= Size THEN 0 ELSE Min({n \in 1..Len(p) : Len(p) - ChunkStep(n) <= Size})
Pieces(p) == [n \in 1..Cuts(p) |-> SubSeq(p, ChunkStep(n - 1) + 1, ChunkStep(n - 1) + Size)]
LeftOver(p) == SubSeq(p, ChunkStep(Cuts(p)) + 1, Len(p))

WithParagraph(acc, p) ==
    LET flush == Cuts(p) > 0 /\ acc.cur # << >>
        out == (IF flush THEN Append(acc.out, acc.cur) ELSE acc.out) \o Pieces(p)
        cur == IF Cuts(p) > 0 THEN << >> ELSE acc.cur
        rest == LeftOver(p)
    IN  IF cur # << >> /\ Len(cur) + Len(rest) + 2 > Size
        THEN [out |-> Append(out, cur),
              cur |-> IF Overlap > 0 THEN Joined(LastOf(cur, Overlap), rest) ELSE rest]
        ELSE [out |-> out, cur |-> Joined(cur, rest)]

\* The chunks done and the one in hand, after each paragraph.
Filling(lengths) ==
    LET after[n \in 0..Len(lengths)] ==
            IF n = 0 THEN [out |-> << >>, cur |-> << >>]
            ELSE WithParagraph(after[n - 1], Paragraph(n, lengths[n]))
    IN  after

ChunkText(lengths) ==
    LET end == Filling(lengths)[Len(lengths)]
    IN  IF end.cur = << >> THEN end.out ELSE Append(end.out, end.cur)

-----------------------------------------------------------------------------
\* VectorStore

NoIngest == [at |-> "idle", source |-> "", text |-> << >>]

RagInit ==
    /\ index = [s \in Sources |-> << >>]
    /\ ingests = [i \in Ingests |-> NoIngest]
    /\ indexed = [s \in Sources |-> << >>]

ChunksIn(ix) == Cardinality(UNION {{s} \X DOMAIN ix[s] : s \in Sources})

\* ingest_text() up to its await: an unchanged text is skipped, and what would
\* not fit into the collection is refused.
Unchanged(s, t) == index[s] # << >> /\ index[s][1].text = t
BeginIngest(i, s, t) ==
    /\ ingests[i].at = "idle" /\ ~Unchanged(s, t)
    /\ ChunksIn(index) + Len(ChunkText(t)) <= MAX_CHUNKS_PER_COLLECTION
    /\ ingests' = [ingests EXCEPT ![i] = [at |-> "embedding", source |-> s, text |-> t]]
    /\ UNCHANGED <<index, indexed>>

RowsFor(t) == [n \in DOMAIN ChunkText(t) |-> [text |-> t, idx |-> n]]

\* Mutant: the rows of the text before stay.
ReplacedAdding(s, t) == [index EXCEPT ![s] = @ \o RowsFor(t)]

\* The old rows of the source go and the new ones come in one transaction.
Replaced(s, t) == [index EXCEPT ![s] = RowsFor(t)]

\* ingest_text() after the await
StoreIngest(i) ==
    LET g == ingests[i]
    IN  /\ g.at = "embedding"
        /\ index' = Replaced(g.source, g.text)
        /\ indexed' = [indexed EXCEPT ![g.source] = g.text]
        /\ ingests' = [ingests EXCEPT ![i] = NoIngest]

\* The embedding fails, or does not answer for every chunk.
IngestFails(i) ==
    /\ ingests[i].at = "embedding"
    /\ ingests' = [ingests EXCEPT ![i] = NoIngest]
    /\ UNCHANGED <<index, indexed>>

\* delete_source()
DeleteSource(s) ==
    /\ index[s] # << >>
    /\ index' = [index EXCEPT ![s] = << >>]
    /\ indexed' = [indexed EXCEPT ![s] = << >>]
    /\ UNCHANGED ingests

RagNext ==
    \/ \E i \in Ingests :
          \/ \E s \in Sources, t \in Texts : BeginIngest(i, s, t)
          \/ StoreIngest(i)
          \/ IngestFails(i)
    \/ \E s \in Sources : DeleteSource(s)

RagSpec == RagInit /\ [][RagNext]_ragVars

-----------------------------------------------------------------------------
\* FeedbackStore

FeedbackInit == ratings = << >>

\* record(): one row for a request, replaced by a second rating of it; the
\* limit counts the other rows of the owner.
RecordFeedback(o, r, rating, task) ==
    /\ Cardinality({k \in DOMAIN ratings : k[1] = o /\ k[2] # r}) < MAX_ROWS_PER_OWNER
    /\ ratings' = [k \in DOMAIN ratings \cup {<<o, r>>} |->
                      IF k = <<o, r>> THEN [rating |-> rating, task |-> task] ELSE ratings[k]]

\* delete()
DeleteFeedback(o, r) ==
    /\ <<o, r>> \in DOMAIN ratings
    /\ ratings' = Restrict(ratings, DOMAIN ratings \ {<<o, r>>})

\* summary() and eval_tasks()
Summary(o, rating) == Cardinality({k \in DOMAIN ratings : k[1] = o /\ ratings[k].rating = rating})
EvalTasks(o) == {k[2] : k \in {j \in DOMAIN ratings : j[1] = o /\ ratings[j].task}}

FeedbackNext ==
    \E o \in Owners, r \in Rated :
        \/ DeleteFeedback(o, r)
        \/ \E rating \in {-1, 1}, task \in BOOLEAN : RecordFeedback(o, r, rating, task)

FeedbackSpec == FeedbackInit /\ [][FeedbackNext]_fbVars

-----------------------------------------------------------------------------
\* An owner keeps at most MAX_ITEMS_PER_SCOPE rows, none of them is older than
\* the row its store evicted last, however often rows are rewritten, and no
\* read returns a row past its retention (remember(), expire()).
MemorySound ==
    /\ \A o \in Owners :
          /\ Cardinality(RowsOf(memories, o)) <= MAX_ITEMS_PER_SCOPE
          /\ \A k \in RowsOf(memories, o) : memories[k].updated >= gone[o]
    /\ Retention # 0 => \A age \in seen : age <= Retention

\* Whatever ingestions and deletions overlap, the rows of a source are the
\* chunks of one text, the one indexed last, all of them in their order, and
\* the collection is beyond its limit by no more than what the concurrent
\* ingestions may bring (ingest_text() checks before it awaits).
IndexWhole ==
    /\ \A s \in Sources : index[s] = IF indexed[s] = << >> THEN << >> ELSE RowsFor(indexed[s])
    /\ ChunksIn(index) > MAX_CHUNKS_PER_COLLECTION =>
          \E t \in Texts : ChunksIn(index) <= MAX_CHUNKS_PER_COLLECTION
                                             + (Cardinality(Ingests) - 1) * Len(ChunkText(t))

\* The chunks of a text hold all of its characters, and none is longer than a
\* full paragraph behind an overlap (chunk_text()).
ChunksCover ==
    \A t \in Texts :
        /\ \A i \in DOMAIN t : \A j \in 1..t[i] : \E n \in DOMAIN ChunkText(t) :
              <<i, j>> \in ToSet(ChunkText(t)[n])
        /\ \A n \in DOMAIN ChunkText(t) : Len(ChunkText(t)[n]) <= Size + Overlap + 2

\* The summary of an owner counts each of its rows once, within the limit.
RatingsBounded ==
    \A o \in Owners :
        /\ Summary(o, 1) + Summary(o, -1) = Cardinality(RowsOf(ratings, o))
        /\ Cardinality(EvalTasks(o)) <= Summary(o, 1) + Summary(o, -1)
        /\ Summary(o, 1) + Summary(o, -1) <= MAX_ROWS_PER_OWNER

\* Memories, indexed documents and ratings: within their limits, whole and fresh.
KnowledgeSound == MemorySound /\ IndexWhole /\ ChunksCover /\ RatingsBounded
=============================================================================
