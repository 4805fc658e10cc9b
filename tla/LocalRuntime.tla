---------------------------- MODULE LocalRuntime ----------------------------
(***************************************************************************)
(* Models that the gateway runs itself: the supervisor of llama-server     *)
(* processes (localrt/supervisor.py), the provider in front of it          *)
(* (localrt/provider.py, providers/local.py), the registry of model files  *)
(* (localrt/registry.py) and the handlers of api/local_models_api.py.      *)
(*                                                                         *)
(*   obj       the Loaded objects: a child process with its own port       *)
(*   loaded    Supervisor.loaded: the object of each loaded model, or 0    *)
(*   failed    Supervisor.failed                                           *)
(*   files     the models the registry knows                               *)
(*   ask       the requests: complete() and stream() prepare their model,  *)
(*             embed() does not; one cancelled in ensure() is `cut`        *)
(*   lock      the holder of ManagedLocalProvider._lock                    *)
(*   client    the object whose port base_url and client point to          *)
(*   hour      the clock                                                   *)
(*   limit     max_restarts                                                *)
(*   torn      history: objects that were popped from `loaded` while a     *)
(*             thread was about to restart them                            *)
(*                                                                         *)
(* A child is "booting" until its port is bound, "loading" while it        *)
(* answers 503, then "ready"; it may be "hung", and "dead" in the end.     *)
(* ensure() runs in a worker thread, in steps between which the event loop *)
(* goes on.  A request cancelled meanwhile gives the lock back; its thread *)
(* runs on, beside that of the next request.  Taken as one step: an        *)
(* unload, and a turn of the loop that makes room.  Abstracted: the plan   *)
(* of memory and layers (a model fits or is refused), logs, the content of *)
(* requests.                                                               *)
(***************************************************************************)
EXTENDS Integers, FiniteSets, SequencesExt

CONSTANTS
    Ggufs,         \* the models
    Scripts,       \* bound: the requests in their order, each with its model and
                   \* whether it is for embeddings; and max_restarts
    MaxLoaded,     \* max_loaded
    IdleTimeout,   \* idle_timeout_s
    MaxObjects,    \* bound: Loaded objects
    MaxHour        \* bound: the clock

ASSUME LocalAssumption ==
    /\ MaxLoaded \in Nat \ {0} /\ IdleTimeout \in Nat
    /\ MaxObjects \in Nat \ {0} /\ MaxHour \in Nat
    /\ IsFiniteSet(Ggufs)
    /\ \A s \in Scripts : s.asks \in Seq([model : Ggufs, embeds : BOOLEAN]) /\ s.restarts \in Nat

VARIABLES obj, loaded, failed, files, ask, lock, client, hour, limit, torn

localVars == <<obj, loaded, failed, files, ask, lock, client, hour, limit, torn>>

Objects == 1..MaxObjects
Nobody == 0
NoObject == [model |-> Nobody, proc |-> "none", used |-> 0, restarts |-> 0, next |-> 0]
NewAsk(q) == [at |-> "none", model |-> q.model, on |-> 0, embeds |-> q.embeds, cut |-> FALSE]

LocalInit ==
    /\ obj = [o \in Objects |-> NoObject]
    /\ loaded = [m \in Ggufs |-> 0]
    /\ failed = {} /\ files = Ggufs
    /\ \E s \in Scripts :
          /\ limit = s.restarts
          /\ ask = [r \in DOMAIN s.asks |-> NewAsk(s.asks[r])]
    /\ lock = Nobody /\ client = 0 /\ hour = 0 /\ torn = {}

-----------------------------------------------------------------------------
\* The supervisor

Asks == DOMAIN ask

Alive(o) == obj[o].proc \in {"booting", "loading", "ready", "hung"}

Residents == {m \in Ggufs : loaded[m] # 0}

Stopped(O) == [o \in Objects |-> IF o \in O THEN [obj[o] EXCEPT !.proc = "dead"] ELSE obj[o]]

\* unload(): popped, terminated, and killed when it does not end.
Unloaded(S) ==
    LET O == {loaded[m] : m \in S} \ {0}
    IN  /\ loaded' = [m \in Ggufs |-> IF m \in S THEN 0 ELSE loaded[m]]
        /\ obj' = Stopped(O)
        /\ torn' = torn \cup {o \in O : \E r \in Asks : ask[r].at = "restart" /\ ask[r].on = o}

Fresh == {o \in Objects : obj[o].proc = "none"}

Goes(r, at) == ask' = [ask EXCEPT ![r].at = at]
GoesTo(r, at, o) == ask' = [ask EXCEPT ![r].at = at, ![r].on = o]

Released(r) == lock' = IF lock = r THEN Nobody ELSE lock

\* An exception leaves _prepare(), and the lock with it.
Fails(r) == GoesTo(r, "over", 0) /\ Released(r)

\* ensure() returns the address of object o, if anybody still awaits it.
Returns(r, o) == IF ask[r].cut THEN GoesTo(r, "over", 0) ELSE GoesTo(r, "wait", o)

\* ensure(): the first thing it sees of the model.
EnsureLooks(r) ==
    LET m == ask[r].model
        o == loaded[m]
    IN  /\ ask[r].at = "look"
        /\ \/ m \in failed /\ Fails(r) /\ UNCHANGED obj
           \/ /\ m \notin failed /\ o # 0 /\ Alive(o)
              /\ obj' = [obj EXCEPT ![o].used = hour]
              /\ Returns(r, o) /\ UNCHANGED lock
           \/ /\ m \notin failed /\ o # 0 /\ ~Alive(o)
              /\ GoesTo(r, "restart", o) /\ UNCHANGED <<obj, lock>>
           \/ m \notin failed /\ o = 0 /\ Goes(r, "room") /\ UNCHANGED <<obj, lock>>
        /\ UNCHANGED <<loaded, failed, files, client, hour, limit, torn>>

\* _restart(): given up after max_restarts, refused during the backoff, or spawned.
EnsureRestarts(r) ==
    LET o == ask[r].on
        m == ask[r].model
    IN  /\ ask[r].at = "restart"
        /\ \/ /\ obj[o].restarts >= limit
              /\ failed' = failed \cup {m} /\ loaded' = [loaded EXCEPT ![m] = 0]
              /\ Fails(r) /\ UNCHANGED obj
           \/ /\ obj[o].restarts < limit /\ hour < obj[o].next
              /\ Fails(r) /\ UNCHANGED <<obj, loaded, failed>>
           \/ /\ obj[o].restarts < limit /\ hour >= obj[o].next
              /\ obj' = [obj EXCEPT ![o] =
                    [model |-> obj[o].model, proc |-> "booting", used |-> hour,
                     restarts |-> obj[o].restarts + 1,
                     next |-> hour + 2^(obj[o].restarts + 1)]]
              /\ Returns(r, o) /\ UNCHANGED <<loaded, failed, lock>>
        /\ UNCHANGED <<files, client, hour, limit, torn>>

\* Mutant: the loop stops one model early.
EnsureKeepsOneMore(r) ==
    /\ ask[r].at = "room"
    /\ \/ /\ Cardinality(Residents) <= MaxLoaded
          /\ Goes(r, "spawn")
          /\ UNCHANGED <<obj, loaded, torn>>
       \/ /\ Cardinality(Residents) > MaxLoaded
          /\ \E m \in Residents :
                /\ \A n \in Residents : obj[loaded[m]].used <= obj[loaded[n]].used
                /\ Unloaded({m})
          /\ UNCHANGED ask
    /\ UNCHANGED <<failed, files, lock, client, hour, limit>>

\* ensure(): a turn of the loop that evicts the least recently used model, or its end.
EnsureMakesRoom(r) ==
    /\ ask[r].at = "room"
    /\ \/ /\ Cardinality(Residents) < MaxLoaded
          /\ Goes(r, "spawn")
          /\ UNCHANGED <<obj, loaded, torn>>
       \/ /\ Cardinality(Residents) >= MaxLoaded
          /\ \E m \in Residents :
                /\ \A n \in Residents : obj[loaded[m]].used <= obj[loaded[n]].used
                /\ Unloaded({m})
          /\ UNCHANGED ask
    /\ UNCHANGED <<failed, files, lock, client, hour, limit>>

\* ensure(): a new child.
EnsureSpawns(r) ==
    /\ ask[r].at = "spawn"
    /\ \E n \in Fresh :
          /\ obj' = [obj EXCEPT ![n] = [model |-> ask[r].model, proc |-> "booting", used |-> hour,
                                        restarts |-> 0, next |-> 0]]
          /\ loaded' = [loaded EXCEPT ![ask[r].model] = n]
          /\ Returns(r, n)
    /\ UNCHANGED <<failed, files, lock, client, hour, limit, torn>>

\* reap_idle(), of probe(): models nobody asked for in a while.
ReapIdle ==
    LET idle == {m \in Residents : hour - obj[loaded[m]].used > IdleTimeout}
    IN  /\ idle # {}
        /\ Unloaded(idle)
        /\ UNCHANGED <<failed, files, ask, lock, client, hour, limit>>

\* unhealthy(), of probe(): a live child that does not answer at all is killed.
KillUnhealthy(m) ==
    /\ loaded[m] # 0 /\ obj[loaded[m]].proc \in {"booting", "hung"}
    /\ obj' = Stopped({loaded[m]})
    /\ UNCHANGED <<loaded, failed, files, ask, lock, client, hour, limit, torn>>

-----------------------------------------------------------------------------
\* The provider: _prepare(), complete() and stream()

\* Requests are numbered in the order they arrive.
Ask(r) ==
    /\ ask[r].at = "none" /\ \A s \in Asks : s < r => ask[s].at # "none"
    /\ ~ask[r].embeds /\ ask[r].model \in files
    /\ Goes(r, "lock")
    /\ UNCHANGED <<obj, loaded, failed, files, lock, client, hour, limit, torn>>

\* embed() of providers/local.py, which ManagedLocalProvider inherits: no model is
\* prepared, the request goes to whichever child the client points to.
Embed(r) ==
    /\ ask[r].at = "none" /\ \A s \in Asks : s < r => ask[s].at # "none"
    /\ ask[r].embeds
    /\ GoesTo(r, IF client = 0 THEN "over" ELSE "call", client)
    /\ UNCHANGED <<obj, loaded, failed, files, lock, client, hour, limit, torn>>

TakeLock(r) ==
    /\ ask[r].at = "lock" /\ lock = Nobody
    /\ lock' = r
    /\ Goes(r, "look")
    /\ UNCHANGED <<obj, loaded, failed, files, client, hour, limit, torn>>

\* The child answers its health check: the client turns to its port, and the call
\* is made, with no await in between.
Serve(r) ==
    /\ ask[r].at = "wait" /\ obj[ask[r].on].proc = "ready"
    /\ client' = ask[r].on
    /\ GoesTo(r, "call", client')
    /\ Released(r)
    /\ UNCHANGED <<obj, loaded, failed, files, hour, limit, torn>>

\* load_timeout_s is over.
LoadTimesOut(r) ==
    /\ ask[r].at = "wait" /\ obj[ask[r].on].proc # "ready"
    /\ Fails(r)
    /\ UNCHANGED <<obj, loaded, failed, files, client, hour, limit, torn>>

Threaded(r) == ask[r].at \in {"look", "restart", "room", "spawn"}

\* The request is cancelled while it waits for the lock, for a thread or for the
\* child.  The lock is given back in any case; a thread does not stop.
CancelAsk(r) ==
    /\ \/ /\ ask[r].at \in {"lock", "wait"}
          /\ GoesTo(r, "over", 0)
       \/ /\ Threaded(r) /\ ~ask[r].cut
          /\ ask' = [ask EXCEPT ![r].cut = TRUE]
    /\ Released(r)
    /\ UNCHANGED <<obj, loaded, failed, files, client, hour, limit, torn>>

\* The answer, or the end of a connection whose server is gone.
CallEnds(r) ==
    /\ ask[r].at = "call"
    /\ GoesTo(r, "over", 0)
    /\ UNCHANGED <<obj, loaded, failed, files, lock, client, hour, limit, torn>>

-----------------------------------------------------------------------------
\* Children, administrators, time

ChildMoves(o) ==
    /\ Alive(o)
    /\ \E p \in CASE obj[o].proc = "booting" -> {"loading", "dead"}
                  [] obj[o].proc = "loading" -> {"ready", "dead"}
                  [] obj[o].proc = "ready" -> {"hung", "dead"}
                  [] obj[o].proc = "hung" -> {"dead"} :
          obj' = [obj EXCEPT ![o].proc = p]
    /\ UNCHANGED <<loaded, failed, files, ask, lock, client, hour, limit, torn>>

\* unload_model()
UnloadModel(m) ==
    /\ loaded[m] # 0
    /\ Unloaded({m})
    /\ UNCHANGED <<failed, files, ask, lock, client, hour, limit>>

\* delete_model(): unloaded, and its file removed.
DeleteModel(m) ==
    /\ m \in files
    /\ Unloaded({m})
    /\ files' = files \ {m}
    /\ UNCHANGED <<failed, ask, lock, client, hour, limit>>

\* pull_model(): the second half of this module says how the file gets there.
PullModel(m) ==
    /\ m \notin files
    /\ files' = files \cup {m}
    /\ UNCHANGED <<obj, loaded, failed, ask, lock, client, hour, limit, torn>>

ClockTicks ==
    /\ hour < MaxHour
    /\ hour' = hour + 1
    /\ UNCHANGED <<obj, loaded, failed, files, ask, lock, client, limit, torn>>

LocalNext ==
    \/ \E r \in Asks : \/ Ask(r) \/ Embed(r) \/ TakeLock(r) \/ EnsureLooks(r) \/ EnsureRestarts(r)
                       \/ EnsureMakesRoom(r) \/ EnsureSpawns(r)
                       \/ Serve(r) \/ LoadTimesOut(r) \/ CancelAsk(r) \/ CallEnds(r)
    \/ \E m \in Ggufs : KillUnhealthy(m) \/ UnloadModel(m) \/ DeleteModel(m) \/ PullModel(m)
    \/ \E o \in Objects : ChildMoves(o)
    \/ ReapIdle \/ ClockTicks

LocalSpec == LocalInit /\ [][LocalNext]_localVars

-----------------------------------------------------------------------------
\* Completions and streams for different models share one client: each is sent to
\* the child of its own model, whatever is evicted, reaped, restarted, deleted or
\* cancelled meanwhile.  (An embedding goes where the client points.)
RightServer ==
    \A r \in Asks :
        ask[r].at = "call" /\ ~ask[r].embeds => obj[ask[r].on].model = ask[r].model

Cut == {r \in Asks : ask[r].cut}

\* No more models are loaded than may be, but for one more with each request that
\* was cancelled inside ensure(): its thread makes room and spawns beside the next.
\* And as long as no request was, every child that lives is in `loaded`, where it is
\* counted, evicted and shut down, or was unloaded under a thread that had found it
\* dead and restarts it.
ModelsHeld ==
    /\ Cardinality(Residents) <= MaxLoaded + Cardinality(Cut)
    /\ Cut = {} => \A o \in Objects : Alive(o) => o \in torn \/ \E m \in Ggufs : loaded[m] = o

-----------------------------------------------------------------------------
(***************************************************************************)
(* download() and pull() of localrt/download.py: a model file is fetched   *)
(* into a .part file, resumed after a failure, verified and renamed.       *)
(*                                                                         *)
(*   remote    the version the server has now                              *)
(*   part      the .part file, and                                         *)
(*   dest      the file it is renamed to: sequences of chunks, or Missing  *)
(*   pull      the pulls: the version of the metadata and of the response, *)
(*             the position of the next write, and the file that the open  *)
(*             descriptor points to, whatever it is called by now          *)
(*   overlap   history: two pulls of the file have run at one time         *)
(*                                                                         *)
(* A chunk is the version it belongs to, or Hole where nothing was         *)
(* written.  Every version has Chunks of them.  A pull that crashes, or    *)
(* whose connection breaks, leaves the .part file as it is.                *)
(***************************************************************************)

CONSTANTS
    Pulls,         \* bound: calls of pull_model()
    Chunks,        \* the length of the file
    MaxVersion,    \* bound: versions of the file on the server
    Missing        \* no file

ASSUME DownloadAssumption == Chunks \in Nat \ {0} /\ MaxVersion \in Nat \ {0}

Hole == 0

VARIABLES remote, part, dest, pull, overlap

dlVars == <<remote, part, dest, pull, overlap>>

NoPull == [at |-> "none", ver |-> 0, body |-> 0, pos |-> 0, to |-> "none"]

DownloadInit ==
    /\ remote = 1 /\ part = Missing /\ dest = Missing
    /\ pull = [u \in Pulls |-> NoPull]
    /\ overlap = FALSE

Size(f) == IF f = Missing THEN 0 ELSE Len(f)

Whole(v) == [i \in 1..Chunks |-> v]

Idle(u) == pull[u].at \in {"none", "ok", "error"}

Others(u, from, to) ==
    [w \in Pulls |-> IF w # u /\ pull[w].to = from THEN [pull[w] EXCEPT !.to = to] ELSE pull[w]]

-----------------------------------------------------------------------------
\* hf_files() and resolve(): the size and the SHA-256 to expect.
StartPull(u) ==
    /\ Idle(u)
    /\ pull' = [pull EXCEPT ![u] = [at |-> "listed", ver |-> remote, body |-> 0, pos |-> Size(part),
                                   to |-> "none"]]
    /\ overlap' = (overlap \/ \E w \in Pulls \ {u} : ~Idle(w))
    /\ UNCHANGED <<remote, part, dest>>

\* The response: 416 when nothing is left to fetch, 206 to go on at the end of the
\* file, or the whole file again, which truncates it.
Respond(u) ==
    LET k == pull[u]
    IN  /\ k.at = "listed"
        /\ \/ /\ k.pos >= Chunks
              /\ pull' = [pull EXCEPT ![u].at = "check"]
              /\ UNCHANGED part
           \/ /\ k.pos \in 1..(Chunks - 1)
              /\ pull' = [pull EXCEPT ![u] = [at |-> "append", ver |-> k.ver, body |-> remote,
                                               pos |-> k.pos, to |-> "part"]]
              /\ part' = IF part = Missing THEN << >> ELSE part
           \/ /\ pull' = [pull EXCEPT ![u] = [at |-> "write", ver |-> k.ver, body |-> remote,
                                               pos |-> 0, to |-> "part"]]
              /\ part' = << >>
        /\ UNCHANGED <<remote, dest, overlap>>

\* A chunk at the position of a writer, after a hole if the file has shrunk.
Written(f, n, v) ==
    IF n <= Len(f) THEN [f EXCEPT ![n] = v]
    ELSE [i \in 1..n |-> IF i = n THEN v ELSE IF i <= Len(f) THEN f[i] ELSE Hole]

\* Mode "ab" writes at the end of the file, mode "wb" at its own position; both
\* count what they have received.
Receive(u) ==
    LET k == pull[u]
        At(f) == IF k.at = "append" THEN Append(f, k.body) ELSE Written(f, k.pos + 1, k.body)
    IN  /\ k.at \in {"append", "write"} /\ k.pos < Chunks
        /\ pull' = [pull EXCEPT ![u].pos = @ + 1]
        /\ part' = IF k.to = "part" THEN At(part) ELSE part
        /\ dest' = IF k.to = "dest" THEN At(dest) ELSE dest
        /\ UNCHANGED <<remote, overlap>>

BodyEnds(u) ==
    /\ pull[u].at \in {"append", "write"} /\ pull[u].pos = Chunks
    /\ pull' = [pull EXCEPT ![u] = [at |-> "check", ver |-> pull[u].ver, body |-> pull[u].body,
                                     pos |-> pull[u].pos, to |-> "none"]]
    /\ UNCHANGED <<remote, part, dest, overlap>>

\* The size, then the SHA-256: a file that does not match is deleted.
Verify(u) ==
    LET k == pull[u]
    IN  /\ k.at = "check"
        /\ \/ /\ Size(part) # Chunks
              /\ pull' = [pull EXCEPT ![u].at = "error"] /\ UNCHANGED part
           \/ /\ part = Whole(k.ver)
              /\ pull' = [pull EXCEPT ![u].at = "verified"] /\ UNCHANGED part
           \/ /\ Size(part) = Chunks /\ part # Whole(k.ver)
              /\ pull' = [Others(u, "part", "gone") EXCEPT ![u].at = "error"]
              /\ part' = Missing
        /\ UNCHANGED <<remote, dest, overlap>>

\* rename(): whoever writes to the file goes on writing to it.
Rename(u) ==
    /\ pull[u].at = "verified"
    /\ IF part = Missing
       THEN pull' = [pull EXCEPT ![u].at = "error"] /\ UNCHANGED <<part, dest>>
       ELSE /\ dest' = part /\ part' = Missing
            /\ pull' = [w \in Pulls |-> CASE w = u -> [pull[u] EXCEPT !.at = "ok"]
                                          [] w # u /\ pull[w].to = "dest" -> [pull[w] EXCEPT !.to = "gone"]
                                          [] w # u /\ pull[w].to = "part" -> [pull[w] EXCEPT !.to = "dest"]
                                          [] OTHER -> pull[w]]
    /\ UNCHANGED <<remote, overlap>>

\* The connection breaks, or the process ends.
Break(u) ==
    /\ ~Idle(u)
    /\ pull' = [pull EXCEPT ![u] = [NoPull EXCEPT !.at = "error"]]
    /\ UNCHANGED <<remote, part, dest, overlap>>

\* A new version is published under the same name.
Publish ==
    /\ remote < MaxVersion
    /\ remote' = remote + 1
    /\ UNCHANGED <<part, dest, pull, overlap>>

DownloadNext ==
    \/ \E u \in Pulls : \/ StartPull(u) \/ Respond(u) \/ Receive(u) \/ BodyEnds(u)
                        \/ Verify(u) \/ Rename(u) \/ Break(u)
    \/ Publish

DownloadSpec == DownloadInit /\ [][DownloadNext]_dlVars

-----------------------------------------------------------------------------
\* A model file is whole and of one version, however often its download broke off
\* and was resumed, and whatever was published meanwhile; as long as nobody else
\* pulled it at the same time, since pulls share the .part file.
PulledWhole == overlap \/ dest = Missing \/ \E v \in 1..MaxVersion : dest = Whole(v)

\* A completion by a local model reaches the server of that model, the servers are
\* held within their number, and the file a server was started on is whole:
\* evictions, restarts, cancellations, deletions and broken downloads included.
LocalModelsSound == RightServer /\ ModelsHeld /\ PulledWhole
=============================================================================
