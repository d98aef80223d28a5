------------------------------ MODULE JsonPeek ------------------------------
(***************************************************************************)
(* The peek at a top-level field of an incoming frame, which decides       *)
(* whether the frame is a heartbeat or an acknowledgement before anything  *)
(* is parsed.  The bytes of a frame are of few kinds: the structure        *)
(* "{" "}" "[" "]" "," ":", the quote "q", the backslash "b", "k" for the  *)
(* text of the key looked for, "v" for other text and "n" for a scalar.    *)
(* The frames are the JSON documents, written by their grammar, with what  *)
(* a parser would find kept beside them.                                   *)
(***************************************************************************)
EXTENDS Integers, Sequences

CONSTANTS
    JpKeys,    \* what the keys of a document may spell: a set of byte sequences
    JpTexts,   \* the same for its string values
    JpTokens,  \* bound: tokens of a document
    JpDepth    \* bound: nesting

ASSUME PeekAssumption == JpKeys \cup JpTexts \subseteq Seq({"k", "v", "b", "q"}) /\ {JpTokens, JpDepth} \subseteq Nat

VARIABLES
    jpDoc,    \* the bytes so far
    jpSize,   \* its tokens
    jpStack,  \* open brackets
    jpWant,   \* "key", "value", "more", "end": what the grammar expects
    jpUsed,   \* keys of the outermost object
    jpTruth,  \* the string value of the key, or nothing: <<>> or <<value>>
    jpDecoy   \* a string value of the outermost object spells the key before it

jpVars == <<jpDoc, jpSize, jpStack, jpWant, jpUsed, jpTruth, jpDecoy>>

JpKey == <<"k">>
Nothing == <<>>

-----------------------------------------------------------------------------
(* json_peek.go: an index past the end of the data is a miss.              *)

RECURSIVE ClosingQuote(_, _)
ClosingQuote(data, i) ==
    IF i > Len(data) THEN 0
    ELSE IF data[i] = "b" THEN ClosingQuote(data, i + 2)
    ELSE IF data[i] = "q" THEN i ELSE ClosingQuote(data, i + 1)

\* scanJSONString: where the string that starts at pos ends, 0 if it does not.
scanJSONString(data, pos) == IF pos > Len(data) \/ data[pos] # "q" THEN 0 ELSE ClosingQuote(data, pos + 1)

\* readJSONStringValueAfterKey: the string after the colon, unless it needs unescaping.
readJSONStringValueAfterKey(data, pos) ==
    LET end == IF pos > Len(data) \/ data[pos] # ":" THEN 0 ELSE scanJSONString(data, pos + 1)
        text == SubSeq(data, pos + 2, end - 1)
    IN  IF end = 0 \/ (\E j \in DOMAIN text : text[j] = "b") THEN Nothing ELSE <<text>>

RECURSIVE ScanFrom(_, _, _)
ScanFrom(data, i, depth) ==
    IF i > Len(data) THEN Nothing
    ELSE CASE data[i] \in {"{", "["} -> ScanFrom(data, i + 1, depth + 1)
           [] data[i] \in {"}", "]"} -> IF depth = 0 THEN Nothing ELSE ScanFrom(data, i + 1, depth - 1)
           [] data[i] = "q" ->
                LET end == scanJSONString(data, i)
                IN  IF end = 0 THEN Nothing
                    ELSE IF depth = 0 /\ SubSeq(data, i + 1, end - 1) = JpKey THEN readJSONStringValueAfterKey(data, end + 1)
                    ELSE ScanFrom(data, end + 1, depth)
           [] OTHER -> ScanFrom(data, i + 1, depth)

RECURSIVE ScanFlat(_, _)
ScanFlat(data, i) ==
    IF i > Len(data) THEN Nothing
    ELSE IF data[i] # "q" THEN ScanFlat(data, i + 1)
    ELSE LET end == scanJSONString(data, i)
         IN  IF end = 0 THEN Nothing
             ELSE IF SubSeq(data, i + 1, end - 1) = JpKey THEN readJSONStringValueAfterKey(data, end + 1)
             ELSE ScanFlat(data, end + 1)

jsonPeekTopLevelString_AnyDepth(data) == IF data = <<>> \/ data[1] # "{" THEN Nothing ELSE ScanFlat(data, 2)

\* jsonPeekTopLevelString: <<value>>, or Nothing for a miss.
jsonPeekTopLevelString(data) == IF data = <<>> \/ data[1] # "{" THEN Nothing ELSE ScanFrom(data, 2, 0)

-----------------------------------------------------------------------------
(* The documents.                                                          *)

JpInit == jpDoc = <<"{">> /\ jpSize = 1 /\ jpStack = <<"{">> /\ jpWant = "key" /\ jpUsed = {} /\ jpTruth = Nothing /\ jpDecoy = FALSE

Quoted(t) == <<"q">> \o t \o <<"q">>
Writes(s, n) == jpSize + n <= JpTokens /\ jpSize' = jpSize + n /\ jpDoc' = jpDoc \o s
Outermost == Len(jpStack) = 1

\* Keys of the outermost object are distinct, as json.Marshal writes them.
WriteKey(t) ==
    /\ jpWant = "key" /\ jpWant' = "value" /\ Writes(Quoted(t) \o <<":">>, 2)
    /\ Outermost => t \notin jpUsed
    /\ jpUsed' = IF Outermost THEN jpUsed \cup {t} ELSE jpUsed
    /\ UNCHANGED <<jpStack, jpTruth, jpDecoy>>

\* The last key written to the outermost object is the one looked for.
AfterKey == Outermost /\ Len(jpDoc) >= 4 /\ SubSeq(jpDoc, Len(jpDoc) - 3, Len(jpDoc)) = Quoted(JpKey) \o <<":">>

WriteText(t) ==
    /\ jpWant = "value" /\ jpWant' = "more" /\ Writes(Quoted(t), 1)
    /\ jpTruth' = IF AfterKey THEN <<t>> ELSE jpTruth
    /\ jpDecoy' = (jpDecoy \/ (Outermost /\ t = JpKey /\ JpKey \notin jpUsed))
    /\ UNCHANGED <<jpStack, jpUsed>>

WriteScalar ==
    /\ jpWant = "value" /\ jpWant' = "more" /\ Writes(<<"n">>, 1)
    /\ UNCHANGED <<jpStack, jpUsed, jpTruth, jpDecoy>>

OpenBracket(c) ==
    /\ jpWant = "value" /\ Len(jpStack) < JpDepth /\ Writes(<<c>>, 1) /\ jpStack' = Append(jpStack, c)
    /\ jpWant' = IF c = "{" THEN "key" ELSE "value"
    /\ UNCHANGED <<jpUsed, jpTruth, jpDecoy>>

WriteComma ==
    /\ jpWant = "more" /\ Writes(<<",">>, 1)
    /\ jpWant' = IF jpStack[Len(jpStack)] = "{" THEN "key" ELSE "value"
    /\ UNCHANGED <<jpStack, jpUsed, jpTruth, jpDecoy>>

CloseBracket ==
    /\ jpWant = "more" /\ Writes(<<IF jpStack[Len(jpStack)] = "{" THEN "}" ELSE "]">>, 1)
    /\ jpStack' = SubSeq(jpStack, 1, Len(jpStack) - 1) /\ jpWant' = IF Outermost THEN "end" ELSE "more"
    /\ UNCHANGED <<jpUsed, jpTruth, jpDecoy>>

JpNext ==
    \/ \E t \in JpKeys : WriteKey(t)
    \/ \E t \in JpTexts : WriteText(t)
    \/ \E c \in {"{", "["} : OpenBracket(c)
    \/ WriteScalar \/ WriteComma \/ CloseBracket

-----------------------------------------------------------------------------
(* Properties                                                              *)

\* On every document the peek finds the value a parser would, or nothing: no nested key,
\* no text of a value and no escaped quote makes it find another (jsonPeekTopLevelString).
\* It misses a value only where it has to be unescaped, or where a value before it
\* spells the key.
PeekIsRight ==
    jpWant = "end" =>
        LET found == jsonPeekTopLevelString(jpDoc)
            plain == jpTruth # Nothing /\ \A j \in DOMAIN jpTruth[1] : jpTruth[1][j] # "b"
        IN  found = IF plain /\ ~ jpDecoy THEN jpTruth ELSE Nothing
=============================================================================
