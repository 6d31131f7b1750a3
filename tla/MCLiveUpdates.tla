---------------------------- MODULE MCLiveUpdates ----------------------------
(* Module LiveUpdates on a small instance.                                 *)
EXTENDS LiveUpdates, TLC

\* Each version has a digest of its own.
Digests == [v \in 0 .. MaxVersion |-> v]

\* Servers of each style with a node that always answers, and some without.
Kinds ==
    [style : {"id", "digest", "legacy"}, reliable : {{"node"}}]
        \cup {[style |-> "id", reliable |-> {}]}

\* A reload, a ping of the registration center that names no version of ours,
\* an offline message.
Others == {Object("c", "reload", NoData), Object("r", "ping", Id(0)),
           Object("c", "offline", NoData)}
=============================================================================
