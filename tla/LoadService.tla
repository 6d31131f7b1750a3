----------------------------- MODULE LoadService -----------------------------
(***************************************************************************)
(* What a load promises, without the steps it takes: the abstract          *)
(* specification that Loader implements and LiveUpdates is built on.  A    *)
(* load puts one configuration in place of the snapshot, a pulled one that *)
(* was published after the call or, only when every node can fail, a       *)
(* cached one; it returns Ok only after that.  Loads overlap freely: the   *)
(* last to apply wins, whatever it pulled.                                 *)
(***************************************************************************)
EXTENDS Naturals

CONSTANTS Loads  \* whoever calls load()

VARIABLES
    reliable,   \* the nodes that always answer
    published,  \* the version the nodes serve
    view,       \* the snapshot: a version, and whether it comes from the cache
    phase,      \* of each load; at rest it is what the last call returned
    since       \* the version published when a waiting load was called

Nothing == [version |-> 0, from_cache |-> FALSE]

Resting == {"idle", "ok", "failed"}

svars == <<reliable, published, view, phase, since>>

Init ==
    /\ published = 1
    /\ view = Nothing
    /\ phase = [l \in Loads |-> "idle"]
    /\ since = [l \in Loads |-> 0]

Begin(l) ==
    /\ phase[l] \in Resting
    /\ phase' = [phase EXCEPT ![l] = "waiting"]
    /\ since' = [since EXCEPT ![l] = published]
    /\ UNCHANGED <<reliable, published, view>>

Pull(l) ==
    /\ phase[l] = "waiting"
    /\ phase' = [phase EXCEPT ![l] = "applied"]
    /\ \E v \in since[l] .. published : view' = [version |-> v, from_cache |-> FALSE]
    /\ since' = [since EXCEPT ![l] = 0]
    /\ UNCHANGED <<reliable, published>>

Restore(l) ==
    /\ reliable = {}
    /\ phase[l] = "waiting"
    /\ phase' = [phase EXCEPT ![l] = "applied"]
    /\ \E v \in 1 .. published : view' = [version |-> v, from_cache |-> TRUE]
    /\ since' = [since EXCEPT ![l] = 0]
    /\ UNCHANGED <<reliable, published>>

\* A load comes to rest: "ok" once it has applied, "failed" when no node had to
\* answer, "idle" when its caller drops it.
Rest(l, outcome) ==
    /\ \/ outcome = "ok" /\ phase[l] = "applied"
       \/ outcome = "failed" /\ phase[l] = "waiting" /\ reliable = {}
       \/ outcome = "idle" /\ phase[l] \notin Resting
    /\ phase' = [phase EXCEPT ![l] = outcome]
    /\ since' = [since EXCEPT ![l] = 0]
    /\ UNCHANGED <<reliable, published, view>>

\* A caller is content with the snapshot that is there.
Reuse(l) ==
    /\ view # Nothing
    /\ phase[l] \in Resting
    /\ phase' = [phase EXCEPT ![l] = "ok"]
    /\ UNCHANGED <<reliable, published, view, since>>

Publish ==
    /\ published' = published + 1
    /\ UNCHANGED <<reliable, view, phase, since>>

\* The process ends and starts again.
Restart ==
    /\ view' = Nothing
    /\ phase' = [l \in Loads |-> "idle"]
    /\ since' = [l \in Loads |-> 0]
    /\ UNCHANGED <<reliable, published>>

Next ==
    \/ \E l \in Loads :
        \/ Begin(l) \/ Pull(l) \/ Restore(l) \/ Reuse(l)
        \/ \E outcome \in Resting : Rest(l, outcome)
    \/ Publish
    \/ Restart

Spec == Init /\ [][Next]_svars
=============================================================================
