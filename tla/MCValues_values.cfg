\* Lists of up to three items in every order of visit; options with up to two
\* texts in the field nodes.
SPECIFICATION MCSpec
CONSTANTS
    Items <- SomeItems
    MaxItems = 3
    Chars <- AllChars
    NodeLists <- SomeNodes
    Wide <- NotASCII
    MayEncrypt = FALSE
INVARIANTS
    TypeOK
    KeptUnlessContested
    NothingInvented
    ClientUsable
    NodesAccounted
    AsciiNodesConverted
PROPERTIES
    ImplementsFlatMap
    DigestSeesEdit
    BuiltOptionsAreAccepted
CHECK_DEADLOCK FALSE
