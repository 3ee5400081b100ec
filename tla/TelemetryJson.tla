----------------------------- MODULE TelemetryJson -----------------------------
(***************************************************************************)
(* json_parser.cpp: the fields of a packet are searched for in the text of *)
(* a body, each on its own, and no parser knows the structure around them. *)
(*                                                                         *)
(* A text is a sequence of symbols.  The name of a member is one symbol    *)
(* that stands for it between its two quotes; every other symbol is one    *)
(* character, or some that no step below looks into.  No string value is   *)
(* exactly a member's name, or ends with one behind an escaped quote.      *)
(***************************************************************************)
EXTENDS Integers, SequencesExt

CONSTANTS
    Word,           \* 2^64 in the code
    None            \* std::nullopt, which is no number and no text

ASSUME WordAssumption == Word \in Nat \ {0} /\ None \notin Nat \cup Seq(STRING)

Required == <<"deviceId", "timestamp", "telemetry", "hash", "signature">>
Optional == {"pubKeyId", "transport", "batchCode"}

\* The members of packets, answers and events.
Names ==
    ToSet(Required) \cup Optional \cup
    {"recordId", "receipt", "txHash", "blockHeight", "submittedAt", "type", "message",
     "accepted", "processingMs", "error"}

Quote   == "\""
HasQuote(s) == s = Quote \/ s \in Names
Spaces  == {" ", "\r", "\n"}
Numerals == <<"0", "1", "2", "3", "4", "5", "6", "7", "8", "9">>
IsDigit(s) == s \in ToSet(Numerals)

-----------------------------------------------------------------------------
(* Positions in a text, 0 for none *)

At(text, i) == IF i \in DOMAIN text THEN text[i] ELSE ""

Find(text, from, s) == SelectInSubSeq(text, from, Len(text), LAMBDA x : x = s)

\* find, behind another position that find gave.
FindAfter(text, i, s) == IF i = 0 THEN 0 ELSE Find(text, i + 1, s)

\* The first position from which the symbol is not in this class.
PastAll(text, from, In(_)) ==
    LET i == SelectInSubSeq(text, from, Len(text), LAMBDA x : ~In(x))
    IN  IF i = 0 THEN Len(text) + 1 ELSE i

SkipSpaces(text, from) == PastAll(text, from, LAMBDA x : x \in Spaces)

\* Where the value of a name at i begins: "\s*:\s*".
ValueAt(text, i) ==
    LET colon == SkipSpaces(text, i + 1)
    IN  IF At(text, colon) = ":" THEN SkipSpaces(text, colon + 1) ELSE 0

\* The first place where the key has a value of this form, as regex_search.
SearchValue(text, key, Form(_)) ==
    LET found == {i \in DOMAIN text : text[i] = key /\ Form(ValueAt(text, i))}
    IN  IF found = {} THEN 0 ELSE ValueAt(text, Min(found))

-----------------------------------------------------------------------------
(* Numbers *)

DigitsAt(text, i) == SubSeq(text, i, PastAll(text, i, IsDigit) - 1)

DigitValue(s) == SelectInSeq(Numerals, LAMBDA x : x = s) - 1

NumberOf(digits) ==
    LET number[i \in 0 .. Len(digits)] ==
            IF i = 0 THEN 0 ELSE 10 * number[i - 1] + DigitValue(digits[i])
    IN  number[Len(digits)]

\* stoull, of digits: an overflow throws, which the callers catch.
ParseUnsigned(digits) ==
    LET n == NumberOf(digits) IN IF n < Word THEN n ELSE None

\* std::to_string
Decimal[n \in Nat] ==
    IF n < 10 THEN <<Numerals[n + 1]>> ELSE Append(Decimal[n \div 10], Numerals[(n % 10) + 1])

-----------------------------------------------------------------------------
(* ParseTelemetryPacketJson *)

ClosingQuote(text, i) == SelectInSubSeq(text, i, Len(text), HasQuote)

\* Mistakes in the steps below; each breaks one of the properties.
ExtractUnclosedValue(text, key) ==      \* a string need not end
    LET begin == SearchValue(text, key, LAMBDA v : At(text, v) = Quote)
    IN  IF begin = 0 THEN None
        ELSE SubSeq(text, begin + 1, PastAll(text, begin + 1, LAMBDA s : ~HasQuote(s)) - 1)

ExtractStringValue(text, key) ==
    LET begin == SearchValue(text, key, LAMBDA v : /\ At(text, v) = Quote
                                                   /\ ClosingQuote(text, v + 1) # 0)
    IN  IF begin = 0 THEN None
        ELSE SubSeq(text, begin + 1, ClosingQuote(text, begin + 1) - 1)

ExtractUnsignedUnchecked(text, key) ==  \* a number of any size
    LET begin == SearchValue(text, key, LAMBDA v : IsDigit(At(text, v)))
    IN  IF begin = 0 THEN None
        ELSE NumberOf(DigitsAt(text, begin))

ExtractToBrace(text, key) ==            \* any brace ends the object
    LET colon == FindAfter(text, Find(text, 1, key), ":")
        start == FindAfter(text, colon, "{")
        end   == FindAfter(text, start, "}")
    IN  IF end = 0 THEN None ELSE SubSeq(text, start, end)

ExtractUnsignedValue(text, key) ==
    LET begin == SearchValue(text, key, LAMBDA v : IsDigit(At(text, v)))
    IN  IF begin = 0 THEN None ELSE ParseUnsigned(DigitsAt(text, begin))

\* One symbol of the scan; the quotes of a name open and close a string, and
\* only the second does if the first is escaped.
ScanSymbol(scan, s) ==
    IF scan.escape
    THEN [scan EXCEPT !.escape = FALSE, !.inString = IF s \in Names THEN ~@ ELSE @]
    ELSE IF s = "\\" THEN [scan EXCEPT !.escape = TRUE]
    ELSE IF s = Quote THEN [scan EXCEPT !.inString = ~@]
    ELSE IF scan.inString THEN scan
    ELSE IF s = "{" THEN [scan EXCEPT !.depth = @ + 1]
    ELSE IF s = "}" THEN [scan EXCEPT !.depth = @ - 1]
    ELSE scan

ScanStart == [depth |-> 0, inString |-> FALSE, escape |-> FALSE, end |-> 0]

\* The end of the object that opens at start: where the depth is 0 again.
ObjectEnd(text, start) ==
    LET scan[i \in start - 1 .. Len(text)] ==
            IF i = start - 1 THEN ScanStart
            ELSE LET before == scan[i - 1]
                     next   == ScanSymbol(before, text[i])
                 IN  IF before.end # 0 THEN before
                     ELSE IF next.depth = 0 THEN [next EXCEPT !.end = i] ELSE next
    IN  scan[Len(text)].end

\* A text that the scan reads as one object.
IsObject(text) == text[1] = "{" /\ ObjectEnd(text, 1) = Len(text)

ExtractObjectValue(text, key) ==
    LET colon == FindAfter(text, Find(text, 1, key), ":")
        start == FindAfter(text, colon, "{")
        end   == IF start = 0 THEN 0 ELSE ObjectEnd(text, start)
    IN  IF end = 0 THEN None ELSE SubSeq(text, start, end)

Extract(text, key) ==
    CASE key = "timestamp" -> ExtractUnsignedValue(text, key)
      [] key = "telemetry" -> ExtractObjectValue(text, key)
      [] OTHER             -> ExtractStringValue(text, key)

\* A packet that was parsed.
Packet ==
    [deviceId : Seq(STRING), timestamp : Nat, telemetryJson : Seq(STRING),
     hashHex : Seq(STRING), signature : Seq(STRING), pubKeyId : Seq(STRING),
     transport : Seq(STRING), batchCode : Seq(STRING)]

ValueOr(value, default) == IF value = None THEN default ELSE value

\* The packet, or the first of the required members that was not found.
ParseTelemetryPacketJson(text) ==
    LET missing == SelectInSeq(Required, LAMBDA key : Extract(text, key) = None)
    IN  IF missing # 0 THEN [ok |-> FALSE, error |-> Required[missing]]
        ELSE [ok |-> TRUE,
              packet |->
                  [deviceId      |-> Extract(text, "deviceId"),
                   timestamp     |-> Extract(text, "timestamp"),
                   telemetryJson |-> Extract(text, "telemetry"),
                   hashHex       |-> Extract(text, "hash"),
                   signature     |-> Extract(text, "signature"),
                   pubKeyId      |-> ValueOr(Extract(text, "pubKeyId"), <<"default-pubkey">>),
                   transport     |-> ValueOr(Extract(text, "transport"), <<"wifi">>),
                   batchCode     |-> ValueOr(Extract(text, "batchCode"), <<>>)]]

-----------------------------------------------------------------------------
(* Texts that the gateway writes *)

\* A mistake in JsonEscape: the backslash itself is not escaped.
JsonEscapeQuotes(value) ==
    FlattenSeq([i \in DOMAIN value |->
                   IF value[i] = Quote THEN <<"\\", value[i]>> ELSE <<value[i]>>])

\* Control characters, which are escaped alike, are left out.
JsonEscape(value) ==
    FlattenSeq([i \in DOMAIN value |->
                   IF value[i] \in {Quote, "\\"} THEN <<"\\", value[i]>> ELSE <<value[i]>>])

\* A mistake in HashedText: the fields are not kept apart.
HashedTextJoined(p) == p.deviceId \o Decimal[p.timestamp] \o p.telemetryJson

\* What Ingest computes the digest of.
HashedText(p) ==
    p.deviceId \o <<"|">> \o Decimal[p.timestamp] \o <<"|">> \o p.telemetryJson
==============================================================================
