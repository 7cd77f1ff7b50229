--------------------------- MODULE BufferedParser ---------------------------
(***************************************************************************)
(* The parser of one connection. The peer sends messages as text, the      *)
(* network hands the text over in fragments of any length, and every read  *)
(* gives one fragment to parse, which keeps what is incomplete for the     *)
(* next one.                                                               *)
(*                                                                         *)
(* A text is a sequence of characters. Only the four that mean something   *)
(* to the parser have names here; the others are elements of Char.         *)
(***************************************************************************)
EXTENDS Naturals, Sequences, FiniteSets, SequencesExt, FiniteSetsExt

CONSTANTS
    Char,             \* the characters of names and values
    MethodNameTable,  \* from the texts of the method names to the methods
    Messages,         \* the messages the peer may send: [method, data]
    Junk,             \* the lines of texts the peer may send that are no message
    MaxSent,          \* bound: how many of them it sends
    MaxLineLength,    \* MAX_LINE_LENGTH
    MaxMethodName     \* MAX_METHOD_NAME_LENGTH

CR == "CR"
LF == "LF"
Colon == ":"

END_SEQUENCE == <<CR, LF, CR, LF>>
END_OF_LINE == <<LF>>
LINE_DELIMITER == <<Colon>>

Uninitialized == "UNINITIALIZED"
ParsingFailed == "PARSING_FAILED"

Method == {MethodNameTable[name] : name \in DOMAIN MethodNameTable} \cup {Uninitialized}
Text == Seq(Char \cup {CR, LF, Colon})

\* A line without its end.
Line == Seq(Char \cup {Colon})

\* The table may hold anything, also names for the two methods that are none.
ASSUME ParserAssumption ==
    /\ Char \cap {CR, LF, Colon} = {}
    /\ DOMAIN MethodNameTable \subseteq Seq(Char)
    /\ MaxSent \in Nat /\ MaxLineLength \in Nat /\ MaxMethodName \in Nat

VARIABLES
    sent,      \* what the peer sends: the texts, each with its message
    received,  \* how many characters have been read
    cut,       \* whether a read has ended within an end sequence
    parser,    \* the members of the parser, with the result of the last parse
    output     \* the messages parse has returned

vars == <<sent, received, cut, parser, output>>

-----------------------------------------------------------------------------
(* The text of a message *)

\* The table read backwards.
SerializeMethodName(method) ==
    CHOOSE name \in DOMAIN MethodNameTable : MethodNameTable[name] = method

ParseMethodName(name) ==
    IF name \in DOMAIN MethodNameTable THEN MethodNameTable[name] ELSE ParsingFailed

\* serializeProtocolData: the method, then the fields in some order.
FieldLine(msg, attr) == attr \o LINE_DELIMITER \o msg.data[attr]

MessageLines(msg, order) ==
    <<SerializeMethodName(msg.method)>> \o [i \in DOMAIN order |-> FieldLine(msg, order[i])]

SerializeProtocolData(lines) ==
    FlattenSeq([i \in DOMAIN lines |-> lines[i] \o END_OF_LINE]) \o END_SEQUENCE

\* What parse never returns.
NoMessage == [method |-> ParsingFailed, data |-> <<>>]

\* What the peer can send at once: a message with its fields in any order, or junk.
MessageTexts(msg) ==
    {[text |-> SerializeProtocolData(MessageLines(msg, order)), msg |-> msg] :
        order \in SetToSeqs(DOMAIN msg.data)}

JunkTexts == {[text |-> SerializeProtocolData(lines), msg |-> NoMessage] : lines \in Junk}

Sendable == JunkTexts \cup UNION {MessageTexts(msg) : msg \in Messages}

\* Messages are what the parser is to read: fields without delimiters, a value in
\* each, and lines that are not too long.
ASSUME MessagesAssumption ==
    \A msg \in Messages :
        /\ msg = [method |-> msg.method, data |-> msg.data]
        /\ \E name \in DOMAIN MethodNameTable : MethodNameTable[name] = msg.method
        /\ msg.method # ParsingFailed
        /\ Len(SerializeMethodName(msg.method)) < MaxMethodName
        /\ Len(SerializeMethodName(msg.method)) < MaxLineLength
        /\ IsFiniteSet(DOMAIN msg.data)
        /\ DOMAIN msg.data \subseteq Seq(Char)
        /\ msg.data \in [DOMAIN msg.data -> Seq(Char) \ {<<>>}]
        /\ \A attr \in DOMAIN msg.data : Len(FieldLine(msg, attr)) < MaxLineLength

\* Too long, no method, or a field without a value.
Malformed(i, line) ==
    \/ Len(line) >= MaxLineLength
    \/ i = 1 /\ (Len(line) >= MaxMethodName \/ ParseMethodName(line) = ParsingFailed)
    \/ i > 1 /\ \A k \in 1 .. Len(line) - 1 : line[k] # Colon

\* Junk has such a line.
ASSUME JunkAssumption ==
    \A lines \in Junk : lines \in Seq(Line) /\ \E i \in DOMAIN lines : Malformed(i, lines[i])

Stream == FlattenSeq([i \in DOMAIN sent |-> sent[i].text])

\* How many characters the first k of the texts have.
EndOf(k) == Len(FlattenSeq([i \in 1..k |-> sent[i].text]))

WithinEnd(r) ==
    \E k \in DOMAIN sent : EndOf(k) - Len(END_SEQUENCE) < r /\ r < EndOf(k)

-----------------------------------------------------------------------------
(* The parser *)

\* Where the delimiter is found from a position on.
Found(s, delimiter, from) ==
    {i \in from .. Len(s) - Len(delimiter) + 1 :
        SubSeq(s, i, i + Len(delimiter) - 1) = delimiter}

\* Mutant: the rest after the last delimiter is dropped.
SplitWhole(s, delimiter) ==
    LET pieces[from \in 1 .. Len(s) + 1] ==
            LET next == Min(Found(s, delimiter, from)) + Len(delimiter)
            IN  IF Found(s, delimiter, from) = {} THEN <<>>
                ELSE <<SubSeq(s, from, next - 1)>> \o pieces[next]
    IN  pieces[1]

\* The pieces of s, each with the delimiter it ends with; an empty rest is no piece.
Split(s, delimiter) ==
    LET pieces[from \in 1 .. Len(s) + 1] ==
            LET found == Found(s, delimiter, from)
                next == Min(found) + Len(delimiter)
            IN  IF from > Len(s) THEN <<>>
                ELSE IF found = {} THEN <<SubSeq(s, from, Len(s))>>
                ELSE <<SubSeq(s, from, next - 1)>> \o pieces[next]
    IN  pieces[1]

\* The members savedMethod, savedData, savedLine and isSavedLineFirst, with what
\* the current parse has found and whether it has thrown.
NewParser ==
    [method |-> Uninitialized, data |-> <<>>, line |-> <<>>, first |-> TRUE,
     out |-> <<>>, threw |-> FALSE]

\* Mutant: the fields stay for the next message.
KeepData(p) == [p EXCEPT !.line = <<>>, !.first = TRUE, !.method = Uninitialized]

ClearCache(p) ==
    [p EXCEPT !.line = <<>>, !.first = TRUE, !.method = Uninitialized, !.data = <<>>]

Throw(p) == [p EXCEPT !.threw = TRUE]

SetField(data, attr, value) ==
    [a \in DOMAIN data \cup {attr} |-> IF a = attr THEN value ELSE data[a]]

\* The name ends with the colon. Of the rest only what reaches to the next colon,
\* and that colon with it, becomes the value.
ParseField(p, fields) ==
    [p EXCEPT !.data = SetField(@, Front(fields[1]), fields[2])]

\* The first line is the method, the others are fields.
ParseFullLine(p, line) ==
    LET fields == Split(line, LINE_DELIMITER)
    IN  IF p.first
        THEN IF ParseMethodName(line) = ParsingFailed THEN Throw(p)
             ELSE [p EXCEPT !.method = ParseMethodName(line), !.first = FALSE]
        ELSE IF Len(fields) < 2 THEN Throw(p) ELSE ParseField(p, fields)

\* Mutant: only the first line has a limit.
TooLongFirst(p, length) == p.first /\ length > MaxMethodName

TooLong(p, length) == length > MaxLineLength \/ (p.first /\ length > MaxMethodName)

\* A line without its end is saved, one that is complete is added to what is saved.
ParseLine(p, line) ==
    LET length == Len(p.line) + Len(line)
    IN  IF p.threw THEN p
        ELSE IF TooLong(p, length) THEN Throw(p)
        ELSE IF Last(line) # LF THEN [p EXCEPT !.line = @ \o line]
        ELSE ParseFullLine([p EXCEPT !.line = <<>>], p.line \o Front(line))

ParseMsgLines(p, lines) ==
    LET after[i \in 0 .. Len(lines)] ==
            IF i = 0 THEN p ELSE ParseLine(after[i - 1], lines[i])
    IN  after[Len(lines)]

\* One piece of the fragment: lines of a message, and its end if that is there.
ParsePiece(p, piece) ==
    LET text == SubSeq(piece, 1, Len(piece) - Len(END_SEQUENCE))
        q == ParseMsgLines(p, Split(text, END_OF_LINE))
    IN  IF piece # text \o END_SEQUENCE THEN ParseMsgLines(p, Split(piece, END_OF_LINE))
        ELSE IF q.threw THEN q
        ELSE ClearCache([q EXCEPT !.out = Append(@, [method |-> q.method, data |-> q.data])])

Parse(p, data) ==
    LET messages == Split(data, END_SEQUENCE)
        after[i \in 0 .. Len(messages)] ==
            IF i = 0 THEN [p EXCEPT !.out = <<>>] ELSE ParsePiece(after[i - 1], messages[i])
    IN  after[Len(messages)]

-----------------------------------------------------------------------------
(* The connection *)

Init ==
    /\ sent \in UNION {[1..n -> Sendable] : n \in 1..MaxSent}
    /\ received = 0
    /\ cut = FALSE
    /\ parser = NewParser
    /\ output = <<>>

\* ProtocolClient::receiveMsg: one read, of any length. An exception closes the
\* connection, and what the same read has completed before it is lost.
ReceiveMsg(n) ==
    /\ ~parser.threw
    /\ received + n <= Len(Stream)
    /\ received' = received + n
    /\ cut' = (cut \/ WithinEnd(received'))
    /\ parser' = Parse(parser, SubSeq(Stream, received + 1, received'))
    /\ output' = IF parser'.threw THEN output ELSE output \o parser'.out
    /\ UNCHANGED sent

Next == \E n \in 1..Len(Stream) : ReceiveMsg(n)

Spec == Init /\ [][Next]_vars

-----------------------------------------------------------------------------
(* Properties *)

TypeOK ==
    /\ sent \in Seq(Sendable)
    /\ received \in 0..Len(Stream) /\ cut \in BOOLEAN
    /\ parser.method \in Method /\ parser.line \in Text
    /\ parser.first \in BOOLEAN /\ parser.threw \in BOOLEAN
    /\ Len(parser.line) <= MaxLineLength

\* The texts that have been received completely.
Complete == {k \in DOMAIN sent : EndOf(k) <= received}

IsMessage(k) == sent[k].msg # NoMessage

\* A message that is incomplete, or has not begun, is no reason to throw: only one that
\* is formatted incorrectly is. This is false where a read ends within an end sequence.
IncompleteIsStored ==
    parser.threw => \E k \in DOMAIN sent : ~IsMessage(k) /\ EndOf(k - 1) < received

\* As long as parse has not thrown, it has returned the messages that have been
\* received completely, each once, in their order and as they were sent.
OutputExact ==
    ~parser.threw =>
        output = FlattenSeq([k \in 1..Cardinality(Complete) |->
                    IF IsMessage(k) THEN <<sent[k].msg>> ELSE <<>>])

\* Parse throws on nothing but junk and an end sequence that was cut, and lets
\* neither pass once the rest has been received.
ThrowsOnlyOnJunk ==
    /\ ~cut => IncompleteIsStored
    /\ (cut /\ ~WithinEnd(received)) \/ (\E k \in Complete : ~IsMessage(k)) => parser.threw
=============================================================================
