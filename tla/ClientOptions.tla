---------------------------- MODULE ClientOptions ----------------------------
(***************************************************************************)
(* Options of a client, options.rs, from the fields an application sets    *)
(* through build_options() and Client::new, which both normalise them, to  *)
(* the address of a node, http_to_ws_url of websocket.rs.                  *)
(*                                                                         *)
(* A text is a sequence of characters.  Rust indexes it by byte: the       *)
(* characters of Wide take two.                                            *)
(***************************************************************************)
EXTENDS Naturals, SequencesExt

CONSTANTS
    Chars,       \* the characters
    NodeLists,   \* the values of the field nodes
    Wide,        \* characters that are not ASCII
    MayEncrypt   \* the crate is built with cache-encrypt

Blank == " "

\* Those of the four schemes are characters; the field nodes is a list of texts.
ASSUME ClientOptionsAssumption ==
    /\ {"h", "t", "p", "s", "w", ":", "/"} \subseteq Chars
    /\ NodeLists \subseteq Seq(Seq(Chars))

VARIABLES
    stage,    \* how far the application is, or the error it got
    options,  \* the fields of ClientOptions
    given,    \* history: the field nodes as the application set it
    node,     \* the node dialled last
    url       \* what its conversion returned

settings == <<stage, options, given, node, url>>

\* One interval stands for the three, which are treated alike.
Fields == [app_id : {"blank", "padded", "name"}, nodes : NodeLists,
           interval : {"zero", "set"}, encrypt : BOOLEAN]

-----------------------------------------------------------------------------
(* Texts.                                                                  *)

\* str::split: each comma and the end of the text end a piece.
Pieces(text) ==
    LET commas   == {i \in DOMAIN text : text[i] = ","}
        Start(i) == Max({0} \cup {j \in commas : j < i}) + 1
    IN  FlattenSeq([i \in 1 .. Len(text) + 1 |->
            IF i \in commas \cup {Len(text) + 1}
            THEN <<SubSeq(text, Start(i), i - 1)>> ELSE <<>>])

TrimEnd(text, c) ==
    SubSeq(text, 1, Max({0} \cup {i \in DOMAIN text : text[i] # c}))

Trim(text) ==
    LET solid == {i \in DOMAIN text : text[i] # Blank}
    IN  IF solid = {} THEN <<>> ELSE SubSeq(text, Min(solid), Max(solid))

AllPieces(nodes) == FlattenSeq([i \in DOMAIN nodes |-> Pieces(nodes[i])])

\* What becomes of a piece: nothing if it is blank.
Cleaned(piece) ==
    IF Trim(piece) = <<>> THEN <<>> ELSE <<TrimEnd(Trim(piece), "/")>>

\* Mutant of NormalizeNodes: commas do not separate.
NormalizeWhole(nodes) == FlattenSeq([i \in DOMAIN nodes |-> Cleaned(nodes[i])])

\* normalize_nodes: split, trim, drop what is empty, and then strip slashes.
NormalizeNodes(nodes) ==
    LET pieces == AllPieces(nodes)
    IN  FlattenSeq([i \in DOMAIN pieces |-> Cleaned(pieces[i])])

-----------------------------------------------------------------------------
(* ClientOptions::normalized.  It trims env, secret, name and tag as well. *)

\* Mutant of Rejection: the nodes are looked at before they are normalised.
RejectionOfRaw(o) ==
    CASE o.app_id = "blank"           -> "EmptyAppId"
      [] o.nodes = <<>>               -> "EmptyNodes"
      [] o.encrypt /\ ~MayEncrypt     -> "CacheEncryptDisabled"
      [] OTHER                        -> "none"

Rejection(o) ==
    IF o.app_id = "blank" THEN "EmptyAppId"
    ELSE IF NormalizeNodes(o.nodes) = <<>> THEN "EmptyNodes"
    ELSE IF o.encrypt /\ ~MayEncrypt THEN "CacheEncryptDisabled"
    ELSE "none"

Normalized(o) ==
    [o EXCEPT !.app_id = "name", !.nodes = NormalizeNodes(@),
              !.interval = IF @ = "zero" THEN "default" ELSE @]

Normalize(next) ==
    IF Rejection(options) = "none"
    THEN stage' = next /\ options' = Normalized(options)
    ELSE stage' = Rejection(options) /\ UNCHANGED options

-----------------------------------------------------------------------------
(* http_to_ws_url.                                                         *)

Http  == <<"h", "t", "t", "p", ":", "/", "/">>
Https == <<"h", "t", "t", "p", "s", ":", "/", "/">>
Ws    == <<"w", "s", ":", "/", "/">>
Wss   == <<"w", "s", "s", ":", "/", "/">>

\* The prefixes it tries, in order, and what it puts in their place.
Schemes      == <<Https, Http, Wss, Ws>>
Replacements == <<Wss, Ws, Wss, Ws>>

\* The lower case of a letter that occurs in them.
Small      == [H |-> "h", T |-> "t", P |-> "p", S |-> "s", W |-> "w"]
LowerOf(c) == IF c \in DOMAIN Small THEN Small[c] ELSE c
Lower(text) == [i \in DOMAIN text |-> LowerOf(text[i])]

Bytes(text) == Len(text) + Cardinality({i \in DOMAIN text : text[i] \in Wide})

\* The prefix of a text that takes so many bytes, if a character ends there.
Heads(text, bytes) ==
    {SubSeq(text, 1, i) : i \in {j \in 0 .. Len(text) : Bytes(SubSeq(text, 1, j)) = bytes}}

Panic  == [kind |-> "panic", text |-> <<>>]
Absent == [kind |-> "invalid", text |-> <<>>]
Url(t) == [kind |-> "url", text |-> t]

\* Mutant of StripPrefix: a text is sliced whatever its length.
StripUnchecked(text, prefix) ==
    IF Heads(text, Len(prefix)) = {} THEN Panic
    ELSE IF \E head \in Heads(text, Len(prefix)) : Lower(head) = prefix
    THEN Url(SubSeq(text, Len(prefix) + 1, Len(text)))
    ELSE Absent

\* strip_prefix_ignore_ascii_case: to slice a text inside a character panics.
StripPrefix(text, prefix) ==
    IF Bytes(text) < Len(prefix) THEN Absent
    ELSE IF Heads(text, Len(prefix)) = {} THEN Panic
    ELSE IF \E head \in Heads(text, Len(prefix)) : Lower(head) = prefix
    THEN Url(SubSeq(text, Len(prefix) + 1, Len(text)))
    ELSE Absent

HttpToWsUrl(text) ==
    LET hits == {n \in DOMAIN Schemes : StripPrefix(text, Schemes[n]) # Absent}
        n    == CHOOSE m \in hits : \A k \in hits : m <= k
        rest == StripPrefix(text, Schemes[n])
    IN  IF hits = {} THEN Absent
        ELSE IF rest = Panic THEN Panic
        ELSE Url(TrimEnd(Replacements[n] \o rest.text, "/"))

-----------------------------------------------------------------------------
OptionsInit ==
    /\ stage = "fields"
    /\ options \in Fields
    /\ given = options.nodes
    /\ node = <<>>
    /\ url = Absent

\* ClientBuilder::build_options.
BuildOptions ==
    /\ stage = "fields"
    /\ Normalize("options")
    /\ UNCHANGED <<given, node, url>>

\* Mutant of NewClient: options that were built are taken as they are.
NewClientTrusting ==
    /\ stage \in {"fields", "options"}
    /\ stage' = "client"
    /\ UNCHANGED <<options, given, node, url>>

\* Client::new, on fields or on options that were built.
NewClient ==
    /\ stage \in {"fields", "options"}
    /\ Normalize("client")
    /\ UNCHANGED <<given, node, url>>

\* connect_websocket comes to a node.
Dial(n) ==
    /\ stage = "client"
    /\ node' = options.nodes[n]
    /\ url' = HttpToWsUrl(node')
    /\ UNCHANGED <<stage, options, given>>

OptionsNext == BuildOptions \/ NewClient \/ \E n \in DOMAIN options.nodes : Dial(n)

OptionsSpec == OptionsInit /\ [][OptionsNext]_settings

-----------------------------------------------------------------------------
(* Properties.                                                             *)

Named(text) == \E i \in DOMAIN text : text[i] \notin {Blank, "/", ","}

\* How many texts of a list say more than blanks and slashes.
Addresses(texts) == Cardinality({i \in DOMAIN texts : Named(texts[i])})

\* A client has an application id, intervals that make its loops wait, a list of
\* nodes for the iteration to rotate, and encryption only if it is built in,
\* however often and by whom its options were normalised.
ClientUsable ==
    stage = "client" =>
        /\ options.app_id = "name"
        /\ options.interval # "zero"
        /\ options.nodes # <<>>
        /\ options.encrypt => MayEncrypt

\* No address is lost on the way from the field to the client, none comes to it,
\* and an empty one stems from a piece of slashes and blanks.
NodesAccounted ==
    stage \in {"options", "client"} =>
        /\ Addresses(options.nodes) = Addresses(AllPieces(given))
        /\ (\E i \in DOMAIN options.nodes : options.nodes[i] = <<>>) =>
             \E i \in DOMAIN AllPieces(given) :
                 Trim(AllPieces(given)[i]) # <<>> /\ ~Named(AllPieces(given)[i])

\* What build_options() returns, Client::new accepts, unless every node of it
\* has become empty.
BuiltOptionsAreAccepted ==
    [][stage = "options" =>
         \/ stage' = "client"
         \/ options.nodes # <<>> /\ \A i \in DOMAIN options.nodes : options.nodes[i] = <<>>]_settings

\* A node whose first eight bytes are ASCII characters is converted when it has
\* one of the four schemes and refused when it has none.
AsciiNodesConverted ==
    (\A i \in DOMAIN node : i <= Len(Https) => node[i] \notin Wide) =>
        /\ url.kind # "panic"
        /\ url.kind = "url" <=>
             \E n \in DOMAIN Schemes : IsPrefix(Schemes[n], Lower(node))

\* A node that cannot be converted is an error of the call, never a panic.
ConversionReturns == url.kind # "panic"
=============================================================================
