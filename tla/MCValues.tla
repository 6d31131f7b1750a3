------------------------------ MODULE MCValues ------------------------------
(***************************************************************************)
(* Modules ConfigMap and ClientOptions on small inputs.  They share no     *)
(* state and neither waits for the other: a behaviour is one of the one or *)
(* of the other, whose counterpart has nothing to do.                      *)
(***************************************************************************)
EXTENDS ConfigMap, ClientOptions

\* Keys with and without a group, at, above, below and beside each other, two of
\* them with one path and one without any part.
Keys == {[group |-> <<>>,    key |-> <<"a">>],
         [group |-> <<>>,    key |-> <<"a", ".", "b">>],
         [group |-> <<"a">>, key |-> <<"b">>],
         [group |-> <<"a">>, key |-> <<"c">>],
         [group |-> <<"a">>, key |-> <<"b", ":", ".", "a">>],
         [group |-> <<>>,    key |-> <<".">>]}

SomeItems == {[group |-> k.group, key |-> k.key, value |-> v] : k \in Keys, v \in {1, 2}}

e == "e-acute"

NotASCII == {e}
AllChars == NotASCII \cup {"a", "b", "h", "H", "p", "s", "t", "w", ":", "/", ",", " "}

Hosts == {<<"a">>, <<"a", "/">>, <<"a", "/", " ", "/">>, <<e>>, <<"a", e>>}

Texts == {<<>>, <<" ">>, <<"/">>, <<" ", "/", "/", " ">>, <<"/", " ", "/">>,
          <<"a">>, <<e>>, <<e, e, e, e>>,
          <<"a", ",", " ", "/", ",", "w", "s", ":", "/", "/", "b">>,
          <<"w", "s", "s", ":", "/", "/", "b">>, <<"H", "t", "t", "p", ":", "/", "/", "b">>}
         \cup {Http \o host : host \in Hosts} \cup {Https \o host : host \in Hosts}

SomeNodes == UNION {[1 .. n -> Texts] : n \in 0 .. 2}

MCInit ==
    \/ Init /\ stage = "EmptyNodes" /\ options = [nodes |-> <<>>] /\ given = <<>>
            /\ node = <<>> /\ url = Absent
    \/ OptionsInit /\ items = <<>> /\ data = <<>> /\ todo = {}
                    /\ key = <<>> /\ rest = <<>> /\ frames = <<Empty>>

MCNext ==
    \/ Next /\ UNCHANGED settings
    \/ OptionsNext /\ UNCHANGED vars

MCSpec == MCInit /\ [][MCNext]_<<vars, settings>>
=============================================================================
