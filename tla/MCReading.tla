------------------------------ MODULE MCReading ------------------------------
(***************************************************************************)
(* A small instance of Reading: every format alone, in a dictionary and in *)
(* a list, and the metadata PostgreSQL and DuckDB drivers attach.          *)
(***************************************************************************)
EXTENDS Reading

\* Seconds have few milli-, micro- and nanoseconds here: only their ratios matter.
MCUnitsPerSecond == [s |-> 1, m |-> 2, u |-> 3, n |-> 6]

Formats ==
  {"b", "c", "C", "s", "S", "i", "I", "l", "L", "e", "f", "g", "u", "U", "vu",
   "z", "Z", "vz", "w", "d", "d256", "T", "n", "+u", "tdD", "tdm", "tts", "ttm", "ttu",
   "ttn", "tss", "tsm", "tsu", "tsn", "tDs", "tDm", "tDu", "tDn", "tiM", "tiD", "tin"}

Bare(format) ==
  [format |-> format, typname |-> "", extension |-> "", dictionary |-> <<>>, child |-> <<>>]

MCSchemas ==
  {Bare(f) : f \in Formats}
    \cup {[Bare("i") EXCEPT !.dictionary = <<Bare(f)>>] : f \in {"u", "z", "C", "l", "b", "tdD"}}
    \cup {[Bare(f) EXCEPT !.child = <<Bare(c)>>] :
            f \in {"+l", "+vl", "+w", "+s", "+m"}, c \in {"i", "u", "z", "e", "f", "d", "d256"}}
    \cup {[Bare("z") EXCEPT !.typname = t] :
            t \in {"uuid", "xml", "inet", "oid", "date", "timetz", "json", "jsonb",
                  "_int4"}}
    \cup {[Bare(p[1]) EXCEPT !.typname = p[2]] :
            p \in {<<"tdD", "date">>, <<"ttu", "time">>, <<"tin", "interval">>,
                   <<"i", "oid">>, <<"u", "jsonb">>}}
    \cup {[Bare(p[1]) EXCEPT !.extension = p[2]] :
            p \in {<<"w", "arrow.uuid">>, <<"u", "arrow.json">>}}

IntegersOf(type) ==
  {<<negative, bits, even>> :
     negative \in (IF type \in {"int8", "int16", "int32", "int64"} THEN BOOLEAN ELSE {FALSE}),
     bits \in {b \in {0, 1, 7, 8, 15, 16, 31, 32, 63, 64} : b <= Width[type]},
     even \in BOOLEAN}

Days == -719500..-719440 \cup -720..740 \cup 10950..11030
          \cup {-1000000, -865567, -865566, -865565, 47540, 2932896}

\* Counts of units near the ends of days, some of them before 1970.
Counts == {-1, 0, 1, 86399, 86400, 172799, 518399, 518400, -86400, -86401}

\* What slots hold, by what prints them.
MCValuesOf(schema) ==
  LET inner == IF schema.child # <<>> THEN schema.child[1]
               ELSE IF schema.dictionary # <<>> THEN schema.dictionary[1] ELSE schema
      type == FormatType(inner.format)
  IN CASE inner.typname = "oid" /\ inner.format = "z" -> IntegersOf("uint32")
       [] inner.format = "b" -> {<<TRUE>>, <<FALSE>>}
       [] type \in IntegerTypes -> IntegersOf(type)
       [] inner.format = "T" -> IntegersOf("int64")
       [] type \in FloatTypes -> {<<"finite">>, <<"nan">>, <<"inf">>}
       [] type = "date" -> IF inner.format = "tdD" THEN {<<d>> : d \in Days}
                           ELSE {<<d * 172800 + 1>> : d \in {-730, -366, -1, 0, 59, 730}}
       [] type \in {"time", "timestamp", "duration"} -> {<<n>> : n \in Counts}
       [] type = "interval" -> {<<m, d, n>> : m \in {-1, 1}, d \in {-1, 1}, n \in {-1, 0, 7200}}
       [] OTHER -> IF PlainType(inner) \in {"uuid", "json"} THEN {<<"x">>} ELSE {<<"">>, <<"x">>}

Vendors == {"postgresql", "redshift", "exasol", "snowflake", "duckdb", "mssql", "trino",
            "databricks", "bigquery", "mysql", "sqlite", "clickhouse"}

Cells == {NoCell, [is_null |-> FALSE, text |-> EmptyText],
          [is_null |-> FALSE, text |-> Text("chars", <<"x">>)]}

MCTables == [vendor : Vendors, cells : [1..3 -> Cells]]
=============================================================================
