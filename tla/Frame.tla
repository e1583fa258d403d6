------------------------------- MODULE Frame -------------------------------
(***************************************************************************)
(* The wire format of mini-redis: Frame::check and Frame::parse            *)
(* (src/frame.rs), Connection::parse_frame on top of them, and the         *)
(* encoding of Connection::write_frame (src/connection.rs).                *)
(*                                                                         *)
(* The bytes are "+", "-", ":", "$", "*", the digits, "cr", "lf", and      *)
(* whatever else an instance puts into a frame; "ff" stands for bytes that *)
(* are not UTF-8.  A position is that of the next byte, counted from 1.    *)
(***************************************************************************)
EXTENDS Integers, SequencesExt

CONSTANT Bytes  \* all bytes

Digits == <<"0", "1", "2", "3", "4", "5", "6", "7", "8", "9">>

ASSUME BytesAssumption ==
    {"+", "-", ":", "$", "*", "cr", "lf"} \cup Range(Digits) \subseteq Bytes

Simple(text) == [kind |-> "simple", value |-> text]
Error(text) == [kind |-> "error", value |-> text]
Integer(n) == [kind |-> "integer", value |-> <<n>>]
Bulk(bytes) == [kind |-> "bulk", value |-> bytes]
Null == [kind |-> "null", value |-> <<>>]
Array(frames) == [kind |-> "array", value |-> frames]

\* What a function returns: Ok with the position it left the cursor at, or
\* Error::Incomplete, or Error::Other.
Ok(next) == [status |-> "ok", next |-> next]
Incomplete == [status |-> "incomplete", next |-> 0]
Invalid == [status |-> "invalid", next |-> 0]

Parsed(next, frame) == [status |-> "ok", next |-> next, frame |-> frame]

-----------------------------------------------------------------------------
(***************************************************************************)
(* Helpers on the cursor.                                                  *)
(***************************************************************************)

\* get_line: the position of the CR that ends the line starting at p.
LineEnds(b, p) == {e \in p..(Len(b) - 1) : b[e] = "cr" /\ b[e + 1] = "lf"}

\* Mutant: the search goes from the end of the buffer.
LineEndLast(b, p) == Max(LineEnds(b, p))

LineEnd(b, p) == Min(LineEnds(b, p))

Line(b, p) == SubSeq(b, p, LineEnd(b, p) - 1)

CheckLine(b, p) == IF LineEnds(b, p) = {} THEN Incomplete ELSE Ok(LineEnd(b, p) + 2)

\* atoi: the number the line begins with; what follows it is ignored.
LeadingDigits(line) ==
    Max({k \in 0..Len(line) : \A i \in 1..k : line[i] \in Range(Digits)})

DecimalValue(line) ==
    LET value[k \in 0..LeadingDigits(line)] ==
          IF k = 0 THEN 0 ELSE 10 * value[k - 1] + (CHOOSE d \in 0..9 : Digits[d + 1] = line[k])
    IN  value[LeadingDigits(line)]

CheckDecimal(b, p) ==
    IF LineEnds(b, p) # {} /\ LeadingDigits(Line(b, p)) = 0 THEN Invalid ELSE CheckLine(b, p)

Decimal(b, p) == DecimalValue(Line(b, p))

Skip(b, p, n) == IF Len(b) - p + 1 < n THEN Incomplete ELSE Ok(p + n)

-----------------------------------------------------------------------------
(***************************************************************************)
(* Frame::check: is there a frame at p, and where does it end?             *)
(***************************************************************************)

\* Mutant: the line end after the bytes of a bulk string is not counted.
CheckBulkShort(b, p) ==
    IF p > Len(b) THEN Incomplete
    ELSE IF b[p] = "-" THEN Skip(b, p, 4)
    ELSE LET length == CheckDecimal(b, p)
         IN IF length.status # "ok" THEN length ELSE Skip(b, length.next, Decimal(b, p))

\* After "$": "-1" and a line end by their length, or a length and its bytes.
CheckBulk(b, p) ==
    IF p > Len(b) THEN Incomplete
    ELSE IF b[p] = "-" THEN Skip(b, p, 4)
    ELSE LET length == CheckDecimal(b, p)
         IN IF length.status # "ok" THEN length ELSE Skip(b, length.next, Decimal(b, p) + 2)

\* Mutant: what has no known type is taken for a line.
CheckEntryLenient(b, p, check) ==
    IF p > Len(b) THEN Incomplete
    ELSE CASE b[p] = ":" -> CheckDecimal(b, p + 1)
           [] b[p] = "$" -> CheckBulk(b, p + 1)
           [] b[p] = "*" -> LET length == CheckDecimal(b, p + 1)
                            IN IF length.status # "ok" THEN length
                               ELSE check[length.next][Decimal(b, p + 1)]
           [] OTHER -> CheckLine(b, p + 1)

\* The frame at p, where check[q][n] is what check finds of n frames at q.
CheckEntry(b, p, check) ==
    IF p > Len(b) THEN Incomplete
    ELSE CASE b[p] \in {"+", "-"} -> CheckLine(b, p + 1)
           [] b[p] = ":" -> CheckDecimal(b, p + 1)
           [] b[p] = "$" -> CheckBulk(b, p + 1)
           [] b[p] = "*" -> LET length == CheckDecimal(b, p + 1)
                            IN IF length.status # "ok" THEN length
                               ELSE check[length.next][Decimal(b, p + 1)]
           [] OTHER -> Invalid

CheckEntries(b) ==
    LET check[p \in 1..Len(b) + 1] ==
          [n \in Nat |->
             IF n = 0 THEN Ok(p)
             ELSE LET entry == CheckEntry(b, p, check)
                  IN IF entry.status # "ok" THEN entry ELSE check[entry.next][n - 1]]
    IN  check

Check(b, p) == CheckEntry(b, p, CheckEntries(b))

-----------------------------------------------------------------------------
(***************************************************************************)
(* Frame::parse: the frame at p.  An unknown type is unimplemented!().     *)
(***************************************************************************)

ParseText(b, p, kind) ==
    LET line == CheckLine(b, p)
    IN IF line.status # "ok" THEN line
       ELSE IF "ff" \in Range(Line(b, p)) THEN Invalid
       ELSE Parsed(line.next, [kind |-> kind, value |-> Line(b, p)])

ParseInteger(b, p) ==
    LET line == CheckDecimal(b, p)
    IN IF line.status # "ok" THEN line ELSE Parsed(line.next, Integer(Decimal(b, p)))

ParseNull(b, p) ==
    LET line == CheckLine(b, p)
    IN IF line.status # "ok" THEN line
       ELSE IF Line(b, p) # <<"-", "1">> THEN Invalid
       ELSE Parsed(line.next, Null)

ParseBytes(b, p) ==
    LET length == CheckDecimal(b, p)
        bytes == Skip(b, length.next, Decimal(b, p) + 2)
    IN IF length.status # "ok" THEN length
       ELSE IF bytes.status # "ok" THEN bytes
       ELSE Parsed(bytes.next, Bulk(SubSeq(b, length.next, bytes.next - 3)))

ParseBulk(b, p) ==
    IF p > Len(b) THEN Incomplete
    ELSE IF b[p] = "-" THEN ParseNull(b, p) ELSE ParseBytes(b, p)

\* The frame at p, where parse[q][n] is the array of n frames at q.
ParseEntry(b, p, parse) ==
    IF p > Len(b) THEN Incomplete
    ELSE CASE b[p] = "+" -> ParseText(b, p + 1, "simple")
           [] b[p] = "-" -> ParseText(b, p + 1, "error")
           [] b[p] = ":" -> ParseInteger(b, p + 1)
           [] b[p] = "$" -> ParseBulk(b, p + 1)
           [] b[p] = "*" -> LET length == CheckDecimal(b, p + 1)
                            IN IF length.status # "ok" THEN length
                               ELSE parse[length.next][Decimal(b, p + 1)]
           [] OTHER -> [status |-> "panic", next |-> 0]

\* An entry before the rest of its array.
Before(entry, rest) ==
    IF rest.status # "ok" THEN rest
    ELSE Parsed(rest.next, Array(<<entry.frame>> \o rest.frame.value))

ParseEntries(b) ==
    LET parse[p \in 1..Len(b) + 1] ==
          [n \in Nat |->
             IF n = 0 THEN Parsed(p, Array(<<>>))
             ELSE LET entry == ParseEntry(b, p, parse)
                  IN IF entry.status # "ok" THEN entry
                     ELSE Before(entry, parse[entry.next][n - 1])]
    IN  parse

Parse(b, p) == ParseEntry(b, p, ParseEntries(b))

-----------------------------------------------------------------------------
(***************************************************************************)
(* Connection::parse_frame on a read buffer: what it returns, and the      *)
(* bytes it leaves in the buffer.                                          *)
(***************************************************************************)

ParseFrame(buffer) ==
    LET checked == Check(buffer, 1)
        parsed == Parse(buffer, 1)
    IN IF checked.status = "incomplete" THEN [result |-> "none"]
       ELSE IF checked.status = "invalid" THEN [result |-> "error"]
       ELSE CASE parsed.status = "ok" ->
                   [result |-> "frame", frame |-> parsed.frame, length |-> checked.next - 1]
              [] parsed.status = "panic" -> [result |-> "panic"]
              [] OTHER -> [result |-> "error"]

-----------------------------------------------------------------------------
(***************************************************************************)
(* Connection::write_frame.                                                *)
(***************************************************************************)

CRLF == <<"cr", "lf">>

\* write_decimal
Numeral(n) ==
    LET numeral[k \in 0..n] ==
          IF k < 10 THEN <<Digits[k + 1]>>
          ELSE Append(numeral[k \div 10], Digits[(k % 10) + 1])
    IN  numeral[n]

EncodeDecimal(n) == Numeral(n) \o CRLF

\* Mutant: a bulk string ends with its last byte.
EncodeBulkBare(frame) ==
    IF frame.kind = "bulk" THEN <<"$">> \o EncodeDecimal(Len(frame.value)) \o frame.value
    ELSE IF frame.kind = "null" THEN <<"$", "-", "1">> \o CRLF
    ELSE IF frame.kind = "integer" THEN <<":">> \o EncodeDecimal(frame.value[1])
    ELSE <<IF frame.kind = "simple" THEN "+" ELSE "-">> \o frame.value \o CRLF

\* write_value; an array inside an array is unreachable!().
EncodeValue(frame) ==
    CASE frame.kind = "simple" -> <<"+">> \o frame.value \o CRLF
      [] frame.kind = "error" -> <<"-">> \o frame.value \o CRLF
      [] frame.kind = "integer" -> <<":">> \o EncodeDecimal(frame.value[1])
      [] frame.kind = "null" -> <<"$", "-", "1">> \o CRLF
      [] frame.kind = "bulk" ->
           <<"$">> \o EncodeDecimal(Len(frame.value)) \o frame.value \o CRLF

Encode(frame) ==
    IF frame.kind = "array"
    THEN <<"*">> \o EncodeDecimal(Len(frame.value))
         \o FlattenSeq([i \in DOMAIN frame.value |-> EncodeValue(frame.value[i])])
    ELSE EncodeValue(frame)

\* The frames write_frame can encode.
Encodable(frame) == frame.kind = "array" => \A entry \in Range(frame.value) : entry.kind # "array"

\* A text that is a line of its own.
IsLine(text) ==
    /\ \A i \in 1..Len(text) - 1 : ~ (text[i] = "cr" /\ text[i + 1] = "lf")
    /\ "ff" \notin Range(text)

\* The frames that are written such that a reader can tell where they end.
Literal ==
    [kind : {"simple", "error"}, value : {text \in Seq(Bytes) : IsLine(text)}]
    \cup [kind : {"integer"}, value : [1..1 -> Nat]]
    \cup [kind : {"bulk"}, value : Seq(Bytes)]
    \cup {Null}

Writable == Literal \cup [kind : {"array"}, value : Seq(Literal)]
=============================================================================
