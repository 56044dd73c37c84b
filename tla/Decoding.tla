------------------------------ MODULE Decoding ------------------------------
(***************************************************************************)
(* What the bindings make of a cell, [is_null, text], and the type of its  *)
(* column: decode_value of Rust, convertResultValue of Node and            *)
(* _decode_result_value of Python.  An answer is the kind of value the     *)
(* program gets and the value it stands for.  A float is what its digits   *)
(* say: Node and Python keep those of a float32 in 64 bits.                *)
(***************************************************************************)
EXTENDS Values

Value(kind, of) == [kind |-> kind, of |-> of]

Null == Value("null", <<>>)

\* The text as it is.
AsText(text) == Value("text", text.of)

\* "true", "1", "false" and "0"
IsBoolean(text) ==
  \/ text.form = "bool"
  \/ text.form = "int" /\ ~text.of[1] /\ text.of[2] \in {0, 1}

Boolean(text) ==
  Value("boolean", IF text.form = "bool" THEN text.of ELSE <<text.of[2] = 1>>)

\* Digits are hexadecimal digits too.
IsHex(text) ==
  \/ text.form = "hex"
  \/ text.form = "int" /\ ~text.of[1] /\ text.of[3]

IsFloat(text) == text.form \in {"float", "int"}

-----------------------------------------------------------------------------
(* Rust *)

\* ColumnType::from_raw
ColumnTypeFromRaw(code) ==
  CASE code = 1 -> "boolean"  [] code = 2 -> "int64"   [] code = 3 -> "float64"
    [] code = 4 -> "text"     [] code = 5 -> "binary"  [] code = 6 -> "decimal"
    [] code = 7 -> "timestamp" [] code = 8 -> "json"   [] code = 9 -> "date"
    [] code = 10 -> "time"    [] code = 11 -> "interval" [] code = 12 -> "uuid"
    [] code = 13 -> "array"   [] code = 14 -> "map"    [] code = 15 -> "struct"
    [] code = 16 -> "int8"    [] code = 17 -> "uint8"  [] code = 18 -> "int16"
    [] code = 19 -> "uint16"  [] code = 20 -> "int32"  [] code = 21 -> "uint32"
    [] code = 22 -> "uint64"  [] code = 23 -> "float16" [] code = 24 -> "float32"
    [] code = 25 -> "duration" [] OTHER -> "unknown"

\* A pointer and a length; no bytes are no string.
BytesToString(text) == IF text = EmptyText THEN <<>> ELSE <<text>>

\* Mutated form of ParseInteger: every integer is read as an i32.
ParseIntegerAsI32(text, type) ==
  IF text.form = "int" /\ Fits(text.of, "int32") THEN Value(type, text.of) ELSE AsText(text)

\* parse() into i8 to u64, by the type of the column.
ParseInteger(text, type) ==
  IF text.form = "int" /\ Fits(text.of, type) THEN Value(type, text.of) ELSE AsText(text)

\* Mutated form of DecodeHex: a digit left over is dropped.
DecodeHexDropsDigit(text) ==
  IF text.form = "hex" \/ (text.form = "int" /\ ~text.of[1])
    THEN Value("binary", text.of) ELSE AsText(text)

DecodeHex(text) == IF IsHex(text) THEN Value("binary", text.of) ELSE AsText(text)

DecodeText(text, type) ==
  CASE type = "boolean" -> IF IsBoolean(text) THEN Boolean(text) ELSE AsText(text)
    [] type \in IntegerTypes -> ParseInteger(text, type)
    [] type \in {"float16", "float32"} ->
         IF IsFloat(text) THEN Value("float32", text.of) ELSE AsText(text)
    [] type = "float64" -> IF IsFloat(text) THEN Value("float64", text.of) ELSE AsText(text)
    [] type = "binary" -> DecodeHex(text)
    [] OTHER -> AsText(text)

\* What ResultSet::value makes of a cell and the code of its column's type.
RustValue(cell, code) ==
  LET raw_value == IF cell.is_null THEN <<>> ELSE BytesToString(cell.text)
  IN IF raw_value = <<>> THEN Null ELSE DecodeText(raw_value[1], ColumnTypeFromRaw(code))

-----------------------------------------------------------------------------
(* Node and Python.  A text that does not parse stays a text, but          *)
(* JavaScript's Number reads "" as 0 and inf as NaN, and its Buffer.from   *)
(* stops at the first pair that is not hexadecimal.                        *)

JsonTypes == {"json", "array", "map", "struct"}

\* Number(): digits and nan are what they say, and the infinities, which JavaScript spells
\* otherwise, are no number.
JsNumber(text) ==
  IF text = EmptyText THEN <<"zero">>
  ELSE IF IsFloat(text) /\ text.of # <<"inf">> THEN text.of ELSE <<"nan">>

NodeValue(cell, type) ==
  LET text == cell.text
      empty == text = EmptyText
      Parsed(ok, kind) == IF ok THEN Value(kind, text.of) ELSE AsText(text)
  IN IF cell.is_null THEN Null
     ELSE CASE type = "boolean" -> IF IsBoolean(text) THEN Boolean(text) ELSE AsText(text)
            [] type \in IntegerTypes -> Parsed(text.form = "int" \/ empty, type)
            [] type \in FloatTypes -> Value("float", JsNumber(text))
            [] type = "binary" -> Value("binary", IF IsHex(text) THEN text.of ELSE <<>>)
            [] type \in JsonTypes -> Parsed(IsJson(text), "json")
            [] OTHER -> AsText(text)

\* The years Python's date has.
HasPythonYear(date) == date.year \in 1..9999

PythonValue(cell, type) ==
  LET text == cell.text
      empty == text = EmptyText
      Parsed(ok, kind) == IF ok THEN Value(kind, text.of) ELSE AsText(text)
  IN IF cell.is_null THEN Null
     ELSE CASE type = "boolean" -> IF IsBoolean(text) THEN Boolean(text) ELSE AsText(text)
            [] type \in IntegerTypes -> Parsed(text.form = "int", type)
            [] type \in FloatTypes -> Parsed(IsFloat(text), "float")
            [] type = "binary" -> Parsed(IsHex(text) \/ empty, "binary")
            [] type = "decimal" -> Parsed(text.form \in {"decimal", "int"}, "decimal")
            [] type \in JsonTypes -> Parsed(IsJson(text), "json")
            [] type \in {"date", "timestamp"} ->
                 Parsed(text.form = type /\ HasPythonYear(text.of[1]), type)
            [] type = "time" -> Parsed(text.form = "time" /\ text.of[1] < 24, "time")
            [] type = "uuid" -> Parsed(text.form \in {"uuid", "hex"}, "uuid")
            [] OTHER -> AsText(text)
=============================================================================
