-------------------------- MODULE MCBufferedParser --------------------------
(***************************************************************************)
(* Small instances of the parser for TLC: method names of one and of two   *)
(* characters, names and values of one, at most two fields.                *)
(***************************************************************************)
EXTENDS BufferedParser, TLC

Letters == {"j", "g", "a", "b", "v"}

\* Two methods, and the two placeholders the table has names for as well.
Names ==
    (<<"g">> :> "GET_ROOM_LIST") @@ (<<"j", "g">> :> "JOIN_GAME")
        @@ (<<"v">> :> Uninitialized) @@ (<<"b">> :> ParsingFailed)

\* No field, one, and two; and the placeholder that can be sent.
SomeMessages ==
    {[method |-> "GET_ROOM_LIST", data |-> <<>>],
     [method |-> Uninitialized, data |-> <<>>],
     [method |-> "JOIN_GAME", data |-> (<<"a">> :> <<"v">>)],
     [method |-> "JOIN_GAME", data |-> (<<"a">> :> <<"v", "v">>) @@ (<<"b">> :> <<"v">>)]}

\* A name that is not in the table, one that is there for no method, a name and a
\* line that are too long, a line without a delimiter, a field without a value, a
\* line end within the name.
BadTexts ==
    {<<<<"a">>>>,
     <<<<"b">>>>,
     <<<<"j", "j", "g", "g">>>>,
     <<<<"g">>, <<"a", Colon, "v", "v", "v", "v", "v", "v">>>>,
     <<<<"g">>, <<"a">>>>,
     <<<<"g">>, <<"a", Colon>>>>,
     <<<<"j">>, <<"g">>>>}
=============================================================================
