------------------------------- MODULE Values -------------------------------
(***************************************************************************)
(* A value on its way from an Arrow array (src/core/adbc_backend.zig) to   *)
(* a program in Rust, Python or JavaScript: the type its column gets, the  *)
(* text it becomes, and what each binding reads from that text.            *)
(*                                                                         *)
(* A schema is a record                                                    *)
(*   [format, typname, extension, dictionary, child]                       *)
(* with the Arrow format code ("d256" for a decimal wider than 128 bits),  *)
(* the PostgreSQL type name and Arrow extension of its metadata ("" for    *)
(* none), and a sequence of no or one schema of its dictionary and of its  *)
(* elements.  A value is a tuple: <<negative, bits, even>> for the integer *)
(* -2^bits or 2^bits - 1, whose digits are even in number or not;          *)
(* <<b>> for a Boolean; <<"nan">>, <<"inf">> for an infinity of either     *)
(* sign, or another value for a float; <<"">> for no bytes; a count for    *)
(* dates and the like.  A text is its form and the value it was made from. *)
(***************************************************************************)
EXTENDS Calendar, Sequences

ByteFormats == {"u", "U", "vu", "z", "Z", "vz", "w"}
ListFormats == {"+l", "+L", "+vl", "+vL", "+w"}

\* Widths: how many bits the largest integer of a type has.
Width == [int8 |-> 7, uint8 |-> 8, int16 |-> 15, uint16 |-> 16,
          int32 |-> 31, uint32 |-> 32, int64 |-> 63, uint64 |-> 64]

IntegerTypes == DOMAIN Width
FloatTypes == {"float16", "float32", "float64"}

Fits(int, type) ==
  /\ int[2] <= Width[type]
  /\ int[1] => type \in {"int8", "int16", "int32", "int64"}

-----------------------------------------------------------------------------
(* The type of a column *)

\* mapArrowFormatToColumnType
FormatType(format) ==
  CASE format = "b" -> "boolean"
    [] format = "c" -> "int8"   [] format = "C" -> "uint8"
    [] format = "s" -> "int16"  [] format = "S" -> "uint16"
    [] format = "i" -> "int32"  [] format = "I" -> "uint32"
    [] format = "l" -> "int64"  [] format = "L" -> "uint64"
    [] format = "e" -> "float16" [] format = "f" -> "float32" [] format = "g" -> "float64"
    [] format \in {"u", "U", "vu"} -> "text"
    [] format \in {"z", "Z", "vz", "w"} -> "binary"
    [] format \in {"d", "d256"} -> "decimal"
    [] format \in {"tdD", "tdm"} -> "date"
    [] format \in {"tts", "ttm", "ttu", "ttn"} -> "time"
    [] format \in {"tss", "tsm", "tsu", "tsn", "T"} -> "timestamp"
    [] format \in {"tDs", "tDm", "tDu", "tDn"} -> "duration"
    [] format \in {"tiM", "tiD", "tin"} -> "interval"
    [] format \in ListFormats -> "array"
    [] format = "+s" -> "struct"
    [] format = "+m" -> "map"
    [] OTHER -> "unknown"

\* isUnsupportedPostgresSemanticType and isPostgresOidLikeType, a few names of each.
UnsupportedTypnames == {"xml", "inet", "tsquery"}
OidLikeTypnames == {"oid", "regclass"}

\* mapArrowSchemaToColumnType of a schema without dictionary.
PlainType(schema) ==
  IF schema.extension = "arrow.json" THEN "json"
  ELSE IF schema.extension = "arrow.uuid" THEN "uuid"
  ELSE CASE schema.typname \in {"date", "interval", "uuid"} -> schema.typname
         [] schema.typname \in {"time", "timetz"} -> "time"
         [] schema.typname \in UnsupportedTypnames -> "unknown"
         [] schema.typname \in {"json", "jsonb"} -> "json"
         [] schema.typname = "_int4" -> "array"
         [] OTHER -> FormatType(schema.format)

ColumnType(schema) ==
  PlainType(IF schema.dictionary = <<>> THEN schema ELSE schema.dictionary[1])

\* The number types.zig gives a type, which is what the C ABI hands over.
ColumnTypeCode(type) ==
  LET types == <<"boolean", "int64", "float64", "text", "binary", "decimal", "timestamp", "json",
                 "date", "time", "interval", "uuid", "array", "map", "struct", "int8", "uint8",
                 "int16", "uint16", "int32", "uint32", "uint64", "float16", "float32",
                 "duration">>
  IN IF type = "unknown" THEN 0 ELSE CHOOSE code \in 1..25 : types[code] = type

-----------------------------------------------------------------------------
(* The text of a cell *)

Text(form, value) == [form |-> form, of |-> value]

EmptyText == Text("empty", <<>>)

\* extractOpaqueValueText: bytes whose PostgreSQL type the backend knows.
IsOpaque(schema) ==
  /\ schema.format \in ByteFormats
  /\ schema.typname \in {"uuid"} \cup UnsupportedTypnames \cup OidLikeTypnames

OpaqueText(schema, value) ==
  CASE schema.typname = "uuid" -> Text("uuid", value)
    [] schema.typname \in OidLikeTypnames -> Text("int", value)
    [] OTHER -> IF value = <<"">> THEN EmptyText ELSE Text("chars", value)

\* Mutated form of ScalarText: fixed-size binaries are copied like text.
ScalarTextCopiesBinary(schema, value) ==
  CASE schema.format = "b" -> Text("bool", value)
    [] FormatType(schema.format) \in IntegerTypes \/ schema.format = "T" -> Text("int", value)
    [] schema.format \in {"f", "g"} -> Text("float", value)
    [] schema.format \in ByteFormats ->
         IF value = <<"">> THEN EmptyText
         ELSE Text(IF schema.format \in {"u", "U", "vu", "w"} THEN "chars" ELSE "hex", value)
    [] schema.format = "d256" -> Text("hex", value)
    [] schema.format = "d" -> Text("decimal", value)
    [] OTHER -> EmptyText

\* extractArrowValueText of the formats that are neither temporal nor nested; a format no
\* branch is for gives an empty text.
ScalarText(schema, value) ==
  CASE schema.format = "b" -> Text("bool", value)
    [] FormatType(schema.format) \in IntegerTypes \/ schema.format = "T" -> Text("int", value)
    [] schema.format \in {"f", "g"} -> Text("float", value)
    [] schema.format \in ByteFormats ->
         IF value = <<"">> THEN EmptyText
         ELSE Text(IF schema.format \in {"u", "U", "vu"} THEN "chars" ELSE "hex", value)
    [] schema.format = "d256" -> Text("hex", value)
    [] schema.format = "d" -> Text("decimal", value)
    [] OTHER -> EmptyText

UnitOf(format) ==
  CASE format \in {"tts", "tss", "tDs"} -> "s"
    [] format \in {"ttm", "tsm", "tDm", "tiD"} -> "m"
    [] format \in {"ttu", "tsu", "tDu"} -> "u"
    [] OTHER -> "n"

\* formatArrowDate, formatArrowTime, formatArrowTimestamp, formatArrowDuration and
\* formatArrowInterval; a tuple of one number, of three for an interval of several.
TemporalText(format, value) ==
  LET unit == UnitOf(format)
      count == value[1]
      Printed(form, v) == IF v = Panic THEN Text("panic", <<>>) ELSE Text(form, v)
  IN CASE format = "tdD" -> Text("date", <<CivilFromDays(count)>>)
       [] format = "tdm" ->
            Text("date", <<CivilFromDays(count \div (UnitsPerSecond["m"] * seconds_per_day))>>)
       [] FormatType(format) = "time" -> Printed("time", FormatTimeOfDay(count, unit))
       [] FormatType(format) = "timestamp" -> Text("timestamp", FormatTimestampValue(count, unit))
       [] FormatType(format) = "duration" ->
            IF format = "tDs" THEN Text("seconds", value)
            ELSE Printed("interval", FormatArrowDuration(count, unit))
       [] format = "tiM" -> Printed("interval", FormatInterval(count, 0, 0, "n"))
       [] format = "tiD" -> Printed("interval", FormatInterval(0, value[2], value[3], "m"))
       [] format = "tin" -> Printed("interval", FormatInterval(count, value[2], value[3], "n"))

TemporalTypes == {"date", "time", "timestamp", "duration", "interval"}

IsTemporal(schema) == FormatType(schema.format) \in TemporalTypes /\ schema.format # "T"

\* cellFromArrow of a value that is not null, with neither dictionary nor elements.
PlainText(schema, value) ==
  IF IsOpaque(schema) THEN OpaqueText(schema, value)
  ELSE IF IsTemporal(schema) THEN TemporalText(schema.format, value)
  ELSE ScalarText(schema, value)

-----------------------------------------------------------------------------
(* Elements of lists, and members of structs and maps, as JSON *)

\* appendArrowJsonValue writes the texts of these types without quotes.
BareTypes == IntegerTypes \cup FloatTypes
               \cup {"boolean", "decimal", "json", "array", "map", "struct"}

\* The floats that JSON cannot write, printed as nan, inf and -inf.
NotFinite == {<<"nan">>, <<"inf">>}

\* Whether a text written without quotes is JSON.
IsJson(text) ==
  \/ text.form \in {"bool", "int", "decimal", "json"}
  \/ text.form = "float" /\ text.of \notin NotFinite

\* Whether what is written for an element is JSON: quotes make it so.
IsJsonElement(schema, value) ==
  ColumnType(schema) \in BareTypes => IsJson(PlainText(schema, value))

NestedText(schema, value) ==
  Text(IF IsJsonElement(schema.child[1], value) THEN "json" ELSE "broken", value)

\* cellFromArrow of a value that is not null.
CellText(schema, value) ==
  IF schema.dictionary # <<>> THEN PlainText(schema.dictionary[1], value)
  ELSE IF schema.child # <<>> THEN NestedText(schema, value)
  ELSE PlainText(schema, value)
=============================================================================
