------------------------------- MODULE Loader -------------------------------
(***************************************************************************)
(* Inner::load of client.rs with what it is built from: the node iteration *)
(* (nodes.rs), the HTTP pull (http.rs), the snapshot behind a watch        *)
(* channel and the loaded flag (store.rs, client.rs), the cache file       *)
(* (cache.rs) and Source::collect (source.rs).                             *)
(*                                                                         *)
(* Nothing serialises loads: the application, Source::collect, the readers *)
(* and the reconnect loop run theirs side by side, each one a member of    *)
(* Loads.  A load gives way to the others at every await, and on the       *)
(* multi-threaded runtime between any two accesses to the shared store,    *)
(* flag and file.                                                          *)
(*                                                                         *)
(* A configuration is its version, a number: what a node publishes later   *)
(* has a larger one.  0 is the empty snapshot of a new client.             *)
(***************************************************************************)
EXTENDS RandomNodes

CONSTANTS
    Loads,         \* the calls of load that may overlap
    MaxVersion,    \* bound: the last version the servers publish
    Size,          \* the length of the body that write_cache makes of a version
    DiskFaults,    \* the file system may refuse to open, read or write
    MayCrash,      \* the process may be killed and started again
    MayAbandon     \* the future of a load may be dropped at an await

ASSUME LoaderAssumption ==
    /\ MaxVersion \in Nat \ {0}
    /\ Size \in [0 .. MaxVersion -> Nat]
    /\ {DiskFaults, MayCrash, MayAbandon} \subseteq BOOLEAN

VARIABLES
    cache_enabled,  \* options.cache.enabled, fixed
    reliable,    \* the indexes of the nodes that always answer, fixed
    published,   \* the version the nodes serve
    store,       \* Inner::store, the current snapshot
    loaded,      \* Inner::loaded
    file,        \* the cache file
    pc,          \* where each load is
    start,       \* the first index of its RandomNodes
    next,        \* how many nodes it has finished with
    payload,     \* the snapshot it is about to apply
    last_error,
    result,      \* what the last call returned
    asked,       \* history: the version published when the load began
    saved        \* history: how the last write_cache, of this or of an earlier
                 \* run of the process, has ended

local  == <<pc, start, next, payload, last_error, result, asked>>
fixed  == <<cache_enabled, reliable>>
shared == <<fixed, published, store, loaded, file, saved>>
vars   == <<local, shared>>

Versions == 0 .. MaxVersion
Errors   == {"http", "payload", "load_failed"}
Steps    == {"idle", "fetch", "replace", "mark", "open", "write", "notify", "fallback"}

Snapshots     == [version : Versions, from_cache : BOOLEAN]
EmptySnapshot == [version |-> 0, from_cache |-> FALSE]

\* What a reader of the cache file finds.  Torn(v): a strict part of a body or a
\* mixture of several, at most as long as that of v, which decode_body or
\* parse_items rejects.
Absent   == [kind |-> "absent", version |-> 0]
Blank    == [kind |-> "blank", version |-> 0]
Torn(v)  == [kind |-> "torn", version |-> v]
Whole(v) == [kind |-> "whole", version |-> v]
Files    == {Absent, Blank} \cup {Torn(v) : v \in Versions}
                            \cup {Whole(v) : v \in Versions}

Endings == {"never", "done", "failed", "killed"}

Goto(l, from, to) == pc[l] = from /\ pc' = [pc EXCEPT ![l] = to]

Return(l, r) == result' = [result EXCEPT ![l] = r]

Init ==
    /\ cache_enabled \in BOOLEAN
    /\ reliable \in SUBSET Indexes
    /\ published = 1
    /\ store = EmptySnapshot
    /\ loaded = FALSE
    /\ file \in {Absent, Whole(1)}
    /\ pc = [l \in Loads |-> "idle"]
    /\ start = [l \in Loads |-> 0]
    /\ next = [l \in Loads |-> 0]
    /\ payload = [l \in Loads |-> EmptySnapshot]
    /\ last_error = [l \in Loads |-> "none"]
    /\ result = [l \in Loads |-> "none"]
    /\ asked = [l \in Loads |-> 0]
    /\ saved = IF file = Absent THEN "never" ELSE "done"

-----------------------------------------------------------------------------
(* Calls.                                                                  *)

\* Mutant of Begin: load() trusts the flag, as collect() does.
BeginUnlessLoaded(l) ==
    /\ Goto(l, "idle", IF loaded THEN "idle" ELSE "fetch")
    /\ \E first \in Indexes : start' = [start EXCEPT ![l] = first]
    /\ next' = [next EXCEPT ![l] = 0]
    /\ asked' = [asked EXCEPT ![l] = published]
    /\ Return(l, IF loaded THEN "ok" ELSE "none")
    /\ UNCHANGED <<payload, last_error, shared>>

\* Mutant of Begin: indexes counted from 1.
BeginFromOne(l) ==
    /\ Goto(l, "idle", "fetch")
    /\ \E first \in 1 .. NodeCount : start' = [start EXCEPT ![l] = first]
    /\ next' = [next EXCEPT ![l] = 0]
    /\ asked' = [asked EXCEPT ![l] = published]
    /\ Return(l, "none")
    /\ UNCHANGED <<payload, last_error, shared>>

\* load(), or collect() when nothing is loaded yet.
Begin(l) ==
    /\ Goto(l, "idle", "fetch")
    /\ \E first \in Indexes : start' = [start EXCEPT ![l] = first]
    /\ next' = [next EXCEPT ![l] = 0]
    /\ payload' = [payload EXCEPT ![l] = EmptySnapshot]
    /\ last_error' = [last_error EXCEPT ![l] = "none"]
    /\ asked' = [asked EXCEPT ![l] = published]
    /\ Return(l, "none")
    /\ UNCHANGED shared

\* Mutant of AlreadyLoaded: collect() does not look at the flag.
CollectUnloaded(l) ==
    /\ Goto(l, "idle", "idle")
    /\ Return(l, "ok")
    /\ UNCHANGED <<start, next, payload, last_error, asked, shared>>

\* collect() when the flag is set: no request is made.
AlreadyLoaded(l) ==
    /\ loaded
    /\ Goto(l, "idle", "idle")
    /\ asked' = [asked EXCEPT ![l] = 0]
    /\ Return(l, "ok")
    /\ UNCHANGED <<start, next, payload, last_error, shared>>

\* Mutant of Abandon: the file is written asynchronously, with an await between
\* the truncation and the write.
AbandonWhileWriting(l) ==
    /\ MayAbandon
    /\ pc[l] \in {"fetch", "write", "notify"}
    /\ Goto(l, pc[l], "idle")
    /\ UNCHANGED <<start, next, payload, last_error, result, asked, shared>>

\* The caller drops the future: timeouts, select!, an aborted task.
Abandon(l) ==
    /\ MayAbandon
    /\ pc[l] \in {"fetch", "notify"}
    /\ Goto(l, pc[l], "idle")
    /\ UNCHANGED <<start, next, payload, last_error, result, asked, shared>>

-----------------------------------------------------------------------------
(* The requests, one node after the other.                                 *)

Node(l) == Order(start[l])[next[l]]

\* The node serves what is published now; the answer is used later.
Answer(l) ==
    /\ next[l] < NodeCount
    /\ Goto(l, "fetch", "replace")
    /\ payload' = [payload EXCEPT ![l] = [version |-> published, from_cache |-> FALSE]]
    /\ UNCHANGED <<start, next, last_error, result, asked, shared>>

\* Mutant of NodeFails: the iteration goes round and round.
NodesCycled(l) ==
    /\ next[l] < NodeCount
    /\ Node(l) \notin reliable
    /\ Goto(l, "fetch", "fetch")
    /\ next' = [next EXCEPT ![l] = (@ + 1) % NodeCount]
    /\ \E e \in {"http", "payload"} : last_error' = [last_error EXCEPT ![l] = e]
    /\ UNCHANGED <<start, payload, result, asked, shared>>

\* Mutant of NodeFails: the first error ends the iteration.
FirstErrorEnds(l) ==
    /\ next[l] < NodeCount
    /\ Node(l) \notin reliable
    /\ Goto(l, "fetch", "fallback")
    /\ next' = [next EXCEPT ![l] = @ + 1]
    /\ \E e \in {"http", "payload"} : last_error' = [last_error EXCEPT ![l] = e]
    /\ UNCHANGED <<start, payload, result, asked, shared>>

\* No connection, a timeout, an HTTP status that is no success ("http"), or a
\* body that parse_items rejects ("payload").
NodeFails(l) ==
    /\ next[l] < NodeCount
    /\ Node(l) \notin reliable
    /\ Goto(l, "fetch", "fetch")
    /\ next' = [next EXCEPT ![l] = @ + 1]
    /\ \E e \in {"http", "payload"} : last_error' = [last_error EXCEPT ![l] = e]
    /\ UNCHANGED <<start, payload, result, asked, shared>>

\* Mutant of Exhausted: the last node is not asked.
LastNodeSkipped(l) ==
    /\ next[l] >= NodeCount - 1
    /\ Goto(l, "fetch", "fallback")
    /\ UNCHANGED <<start, next, payload, last_error, result, asked, shared>>

Exhausted(l) ==
    /\ next[l] = NodeCount
    /\ Goto(l, "fetch", "fallback")
    /\ UNCHANGED <<start, next, payload, last_error, result, asked, shared>>

-----------------------------------------------------------------------------
(* apply_snapshot: first the store, then the flag.                         *)

Replace(l) ==
    /\ Goto(l, "replace", "mark")
    /\ store' = payload[l]
    /\ UNCHANGED <<start, next, payload, last_error, result, asked,
                   fixed, published, loaded, file, saved>>

\* After a pull the cache comes next; a load from the cache is done.
MarkLoaded(l) ==
    /\ Goto(l, "mark", IF payload[l].from_cache THEN "idle" ELSE "open")
    /\ loaded' = TRUE
    /\ Return(l, IF payload[l].from_cache THEN "ok" ELSE "none")
    /\ UNCHANGED <<start, next, payload, last_error, asked,
                   fixed, published, store, file, saved>>

-----------------------------------------------------------------------------
(* write_cache: std::fs::write creates or truncates the file, then writes. *)

\* Mutant of SkipCache: a cache that is there is not written again.
SkipExisting(l) ==
    /\ ~cache_enabled \/ file.kind = "whole"
    /\ Goto(l, "open", "notify")
    /\ UNCHANGED <<start, next, payload, last_error, result, asked, shared>>

SkipCache(l) ==
    /\ ~cache_enabled
    /\ Goto(l, "open", "notify")
    /\ UNCHANGED <<start, next, payload, last_error, result, asked, shared>>

Truncate(l) ==
    /\ cache_enabled
    /\ Goto(l, "open", "write")
    /\ file' = Blank
    /\ UNCHANGED <<start, next, payload, last_error, result, asked,
                   fixed, published, store, loaded, saved>>

\* The file may reach beyond a body of v.
Longer(f, v) == f.kind \in {"torn", "whole"} /\ Size[f.version] > Size[v]

\* The body goes to the start of the file.  What another load has written since
\* the truncation is covered, unless it is longer: then its end stays behind.
Write(l) ==
    LET v == payload[l].version IN
    /\ Goto(l, "write", "notify")
    /\ \/ Longer(file, v) /\ file' = Torn(file.version)
       \/ ~(Longer(file, v) /\ file.kind = "whole") /\ file' = Whole(v)
    /\ saved' = "done"
    /\ UNCHANGED <<start, next, payload, last_error, result, asked,
                   fixed, published, store, loaded>>

\* The file f after a part of the body of v, or nothing, has been written to it:
\* the same body does not change, the part may complete what is there of v.
Cut(f, v) ==
    IF f = Whole(v) THEN {f}
    ELSE {f, Torn(IF Longer(f, v) THEN f.version ELSE v)}
           \cup {g \in {Whole(v)} : f = Torn(v)}

\* A failed write_cache is logged and the load goes on.
OpenFails(l) ==
    /\ DiskFaults /\ cache_enabled
    /\ Goto(l, "open", "notify")
    /\ saved' = "failed"
    /\ UNCHANGED <<start, next, payload, last_error, result, asked,
                   fixed, published, store, loaded, file>>

WriteFails(l) ==
    /\ DiskFaults
    /\ Goto(l, "write", "notify")
    /\ file' \in Cut(file, payload[l].version)
    /\ saved' = "failed"
    /\ UNCHANGED <<start, next, payload, last_error, result, asked,
                   fixed, published, store, loaded>>

\* send_text(self, "loaded"): its outcome is logged only.
Notify(l) ==
    /\ Goto(l, "notify", "idle")
    /\ Return(l, "ok")
    /\ UNCHANGED <<start, next, payload, last_error, asked, shared>>

-----------------------------------------------------------------------------
(* load_from_cache.                                                        *)

ReadCache(l) ==
    /\ cache_enabled
    /\ file.kind = "whole"
    /\ Goto(l, "fallback", "replace")
    /\ payload' = [payload EXCEPT ![l] = [version |-> file.version, from_cache |-> TRUE]]
    /\ UNCHANGED <<start, next, last_error, result, asked, shared>>

\* last_error.unwrap_or(Error::LoadFailed)
CacheUnavailable(l) ==
    /\ ~cache_enabled \/ file.kind # "whole" \/ DiskFaults
    /\ Goto(l, "fallback", "idle")
    /\ Return(l, IF last_error[l] = "none" THEN "load_failed" ELSE last_error[l])
    /\ UNCHANGED <<start, next, payload, last_error, asked, shared>>

-----------------------------------------------------------------------------
(* The environment.                                                        *)

Publish ==
    /\ published < MaxVersion
    /\ published' = published + 1
    /\ UNCHANGED <<local, fixed, store, loaded, file, saved>>

\* The process is killed and started again: only the file stays, cut short when
\* a write was under way.
Crash ==
    /\ MayCrash
    /\ store' = EmptySnapshot
    /\ loaded' = FALSE
    /\ \/ /\ \A l \in Loads : pc[l] # "write"
          /\ UNCHANGED <<file, saved>>
       \/ \E l \in Loads :
          /\ pc[l] = "write"
          /\ file' \in Cut(file, payload[l].version)
          /\ saved' = "killed"
    /\ pc' = [l \in Loads |-> "idle"]
    /\ start' = [l \in Loads |-> 0]
    /\ next' = [l \in Loads |-> 0]
    /\ payload' = [l \in Loads |-> EmptySnapshot]
    /\ last_error' = [l \in Loads |-> "none"]
    /\ result' = [l \in Loads |-> "none"]
    /\ asked' = [l \in Loads |-> 0]
    /\ UNCHANGED <<fixed, published>>

-----------------------------------------------------------------------------
Call(l) == Begin(l) \/ AlreadyLoaded(l) \/ Abandon(l)

LoadStep(l) ==
    \/ Answer(l) \/ NodeFails(l) \/ Exhausted(l)
    \/ Replace(l) \/ MarkLoaded(l)
    \/ SkipCache(l) \/ Truncate(l) \/ Write(l) \/ OpenFails(l) \/ WriteFails(l)
    \/ Notify(l)
    \/ ReadCache(l) \/ CacheUnavailable(l)

Next ==
    \/ \E l \in Loads : Call(l) \/ LoadStep(l)
    \/ Publish
    \/ Crash

Spec == Init /\ [][Next]_vars

\* Every request ends: reqwest gives it http_timeout.  The rest of a load is
\* computation, file access and one send.
FairSpec == Spec /\ \A l \in Loads : WF_vars(LoadStep(l))

-----------------------------------------------------------------------------
(* Properties.                                                             *)

TypeOK ==
    /\ cache_enabled \in BOOLEAN
    /\ reliable \in SUBSET Indexes
    /\ published \in Versions \ {0}
    /\ store \in Snapshots
    /\ loaded \in BOOLEAN
    /\ file \in Files
    /\ pc \in [Loads -> Steps]
    /\ start \in [Loads -> Indexes]
    /\ next \in [Loads -> 0 .. NodeCount]
    /\ payload \in [Loads -> Snapshots]
    /\ last_error \in [Loads -> Errors \cup {"none"}]
    /\ result \in [Loads -> Errors \cup {"none", "ok"}]
    /\ asked \in [Loads -> Versions]
    /\ saved \in Endings

AtRest == \A l \in Loads : pc[l] = "idle"

\* load() and collect() return Ok only when the snapshot holds a configuration,
\* whatever other loads do: collect() never converts the empty snapshot.
OkMeansSnapshot ==
    loaded \/ (\E l \in Loads : result[l] = "ok") => store.version # 0

\* One node that works is enough: wherever the iteration starts and whatever the
\* other nodes do, no load uses the cache or returns an error.
OneReliableNodeSuffices ==
    reliable # {} =>
        /\ ~store.from_cache
        /\ \A l \in Loads : pc[l] # "fallback" /\ result[l] \notin Errors

\* An Ok from load() whose snapshot was pulled: the snapshot is at least as new
\* as what was published when load() was called.
LoadIsFresh ==
    \A l \in Loads : result[l] = "ok" /\ ~store.from_cache => store.version >= asked[l]

\* The loads of one process never replace a configuration by an older one, except
\* by the cached one after a write_cache that failed, which only leaves a log line.
SnapshotNeverRegresses ==
    [][loaded' => \/ store'.version >= store.version
                  \/ store'.from_cache /\ saved = "failed"]_vars

\* The snapshot is the newest, and no load under way was called before that was
\* published.
Unrivalled ==
    /\ reliable # {}
    /\ store.version = published
    /\ \A l \in Loads : pc[l] \in {"fetch", "replace", "fallback"} => asked[l] = published

\* What overlapping loads can do to each other ends with those that are older than
\* the last publication: from then on the newest configuration stays, however many
\* loads overlap and fail, until the next publication or a restart.
NewestStays ==
    [][Unrivalled => Unrivalled' \/ published' # published \/ store' = EmptySnapshot]_vars

\* Between loads the file holds the configuration in memory, so a restart without
\* servers resumes where this process stands: only a write_cache that fails breaks
\* this, and a file that a kill has torn is made good by the next load.
CacheMatchesSnapshot ==
    cache_enabled /\ AtRest /\ loaded /\ saved # "failed" => file = Whole(store.version)

\* Cached configurations are "written to disk and used if HTTP fails": once a
\* write_cache has succeeded there is one to fall back on between loads, until
\* another write fails or is killed.
PullSurvives == saved = "done" /\ AtRest => file.kind = "whole"

\* load() "returns LoadFailed when every node fails and no cache exists".
FailureIsLoadFailed ==
    \A l \in Loads : result[l] \in Errors => result[l] = "load_failed"

\* Every load ends.
LoadsReturn == \A l \in Loads : pc[l] # "idle" ~> pc[l] = "idle"

-----------------------------------------------------------------------------
(* Why they hold.                                                          *)

\* A load that is past its request holds a configuration, so does the file when
\* it is whole, and once a load has replaced the snapshot there is one.
SnapshotBeforeFlag ==
    /\ OkMeansSnapshot
    /\ file.kind = "whole" => file.version # 0
    /\ \A l \in Loads :
        /\ pc[l] \in {"replace", "mark", "open", "write"} => payload[l].version # 0
        /\ pc[l] \in {"mark", "open", "write", "notify"} => store.version # 0

\* A load at its requests has only passed over nodes that may fail.
ReliableAhead ==
    \A l \in Loads : pc[l] = "fetch" => Visited(start[l], next[l]) \cap reliable = {}

CacheUnused ==
    /\ OneReliableNodeSuffices
    /\ reliable # {} => \A l \in Loads : ~payload[l].from_cache

\* What load() returns instead of LoadFailed: the error of a node, always.
NeverLoadFailed == \A l \in Loads : result[l] # "load_failed"

\* A load that has passed over a node knows why.
CauseKnown ==
    /\ NeverLoadFailed
    /\ \A l \in Loads :
        /\ last_error[l] # "load_failed"
        /\ pc[l] = "fallback" \/ (pc[l] = "fetch" /\ next[l] > 0) => last_error[l] # "none"

\* One load at a time: what the load holds, where the snapshot comes from and what
\* the file contains at each step.
Serial(l) ==
    /\ published >= store.version /\ published >= payload[l].version
    /\ published >= asked[l] /\ published >= file.version
    /\ pc[l] # "idle" => result[l] = "none"
    /\ pc[l] \in {"open", "write", "notify"} => ~payload[l].from_cache
    /\ pc[l] \in {"mark", "open", "write", "notify"} => store = payload[l]
    /\ pc[l] \in {"replace", "mark", "notify", "open", "write"} =>
         payload[l].from_cache \/ payload[l].version >= asked[l]
    /\ pc[l] = "replace" /\ loaded =>
         \/ payload[l].version >= store.version
         \/ payload[l].from_cache /\ saved = "failed"
    /\ pc[l] \in {"replace", "mark"} /\ payload[l].from_cache =>
         cache_enabled /\ file = Whole(payload[l].version)
    /\ pc[l] = "write" => cache_enabled /\ file = Blank
    /\ cache_enabled /\ loaded /\ saved # "failed"
         /\ pc[l] \notin {"mark", "open", "write"} => file = Whole(store.version)
    /\ saved = "done" /\ pc[l] # "write" => file.kind = "whole"
    /\ LoadIsFresh

AllSerial == \A l \in Loads : Serial(l)

\* A load that is under way has returned nothing; what it was asked for, holds or
\* may read from the file has been published, and what it pulled since the call.
Pending ==
    /\ file.version <= published
    /\ \A l \in Loads :
        /\ pc[l] # "idle" => result[l] = "none"
        /\ asked[l] <= published /\ payload[l].version <= published
        /\ pc[l] = "replace" => payload[l].from_cache \/ asked[l] <= payload[l].version

-----------------------------------------------------------------------------
(* The loader implements LoadService: a load waits until it replaces the   *)
(* snapshot, the rest of it changes nothing its caller can see.            *)

Phase(l) ==
    CASE pc[l] \in {"fetch", "replace", "fallback"} -> "waiting"
      [] pc[l] \in {"mark", "open", "write", "notify"} -> "applied"
      [] pc[l] = "idle" -> IF result[l] \in Errors THEN "failed"
                          ELSE IF result[l] = "ok" THEN "ok" ELSE "idle"

SinceOf(l) == IF pc[l] \in {"fetch", "replace", "fallback"} THEN asked[l] ELSE 0

Phases == [l \in Loads |-> Phase(l)]
Since  == [l \in Loads |-> SinceOf(l)]

Service == INSTANCE LoadService WITH view <- store, phase <- Phases, since <- Since

\* However loads overlap and whatever fails between their steps, each one looks
\* like a single replacement of the snapshot, by a configuration published since
\* its call unless no node has to answer, and only then does it return Ok.
ImplementsLoadService == Service!Spec

=============================================================================
