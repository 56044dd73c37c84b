------------------------------- MODULE Reading -------------------------------
(***************************************************************************)
(* A row of a result set, from the Arrow array of a driver to the program: *)
(* the backend builds the row (src/core/adbc_backend.zig), the C ABI hands *)
(* it over (src/ffi/c_api.zig), a binding reads it.  One call asks for a   *)
(* value; another for the qualified name of the table a row of get_tables  *)
(* is about, which takes ten reads of the result set, each under the       *)
(* manager's lock, while another thread may close it.                      *)
(*                                                                         *)
(* The driver delivers a column of three slots, of which the array's       *)
(* offset and the offset of the struct around it make one the first row;   *)
(* or a row of tables: vendor, and the cells of catalog, namespace and     *)
(* table.                                                                  *)
(***************************************************************************)
EXTENDS Decoding

CONSTANTS Schemas,        \* the schemas of the columns a query may bring
          ValuesOf(_),    \* schema -> the values a slot of it may hold
          Tables,         \* [vendor, cells]: the rows get_tables may bring
          Absent          \* no column, or no row of get_tables

\* The schema a value is printed by.
Printed(schema) == IF schema.dictionary = <<>> THEN schema ELSE schema.dictionary[1]

NestedFormats == ListFormats \cup {"+s", "+m"}
TextFormats == {"u", "U", "vu"}
BinaryFormats == ByteFormats \ TextFormats

(* Arrow's own rules: a column of nulls has no values a dictionary could   *)
(* hold, and the nested types are those with elements.  Elements are of    *)
(* Arrow's own types, and neither they nor the values of a dictionary are  *)
(* nested themselves.                                                      *)
ASSUME SchemasAssumption ==
  \A schema \in Schemas :
    /\ schema.format = "n" => schema.dictionary = <<>>
    /\ schema.child # <<>> <=> schema.format \in NestedFormats
    /\ schema.dictionary # <<>> =>
         Printed(schema).child = <<>> /\ Printed(schema).format \notin NestedFormats
    /\ schema.child # <<>> =>
         LET child == schema.child[1]
         IN /\ child.format \notin NestedFormats /\ child.dictionary = <<>>
            /\ child.typname = "" /\ child.extension = ""

(* The formats of the columns a PostgreSQL type name is attached to, next  *)
(* to those of plain bytes (docs/type-mapping.md:162-173): the driver      *)
(* delivers a type as Arrow has it, or as it came over the wire.           *)
TypnameFormats ==
  [t \in {"date", "time", "timetz", "interval", "uuid", "json", "jsonb", "_int4"}
           \cup OidLikeTypnames |->
     CASE t = "date" -> {"tdD", "tdm"}
       [] t \in {"time", "timetz"} -> {"tts", "ttm", "ttu", "ttn"}
       [] t = "interval" -> {"tiM", "tiD", "tin"}
       [] t \in {"json", "jsonb"} -> TextFormats
       [] t = "_int4" -> ListFormats
       [] t \in OidLikeTypnames -> {"c", "C", "s", "S", "i", "I", "l", "L"}
       [] OTHER -> {}]

(* Arrow defines arrow.json as an extension of its string types.           *)
ASSUME MetadataAssumption ==
  \A schema \in Schemas :
    LET printed == Printed(schema)
    IN /\ printed.typname \in DOMAIN TypnameFormats =>
            printed.format \in BinaryFormats \cup TypnameFormats[printed.typname]
       /\ printed.extension = "arrow.json" => printed.format \in TextFormats

(* A slot is as wide as its format, and counts dates and times; no bytes   *)
(* are no JSON.                                                            *)
ASSUME ValuesAssumption ==
  \A schema \in Schemas : \A value \in ValuesOf(schema) :
    LET printed == Printed(schema)
        type == FormatType(printed.format)
    IN /\ type \in IntegerTypes => Fits(value, type)
       /\ IsTemporal(printed) => value[1] \in Int
       /\ printed.format \in {"tiD", "tin"} => value[3] \in Int
       /\ PlainType(printed) = "json" => value # <<"">>

ASSUME TablesAssumption ==
  \A t \in Tables : t.cells = <<t.cells[1], t.cells[2], t.cells[3]>>

VARIABLES
  column,   \* [schema, slots, offset, root_offset]: the Arrow column, or Absent
  table,    \* the row of get_tables, or Absent
  stage,    \* "driver", "built", "closed": the life of the result set
  row,      \* the row as the backend stored it
  reader,   \* [call, step, index]: what the reading thread is in, how far, for which row
  copied,   \* what it has copied to its stack of the cells of a row
  name,     \* the caller's aq_qualified_name
  answer    \* [status, value] the call returned

vars == <<column, table, stage, row, reader, copied, name, answer>>

NoCell == [is_null |-> TRUE, text |-> EmptyText]

Cleared == [parts |-> <<>>, formatted |-> <<>>]

\* A name whose texts have been freed.
Dangling(parts) ==
  [parts |-> [i \in DOMAIN parts |-> [parts[i] EXCEPT !.text = Text("freed", <<>>)]],
   formatted |-> <<Text("freed", <<>>)>>]

Idle == [call |-> "none", step |-> 0, index |-> 0]

NoAnswer == [status |-> "none", value |-> Null]

\* The first row holds the item; what is in the other slots must not be read for it.
Column(schema, item, offset, root_offset) ==
  [schema |-> schema, offset |-> offset, root_offset |-> root_offset,
   slots |-> [i \in 1..3 |-> IF i = 1 + offset + root_offset THEN item
                            ELSE [null |-> ~item.null,
                                  value |-> CHOOSE v \in ValuesOf(schema) : TRUE]]]

Init ==
  /\ \/ /\ \E schema \in Schemas, offset, root_offset \in {0, 1} :
             \E value \in ValuesOf(schema), null \in BOOLEAN :
               /\ schema.format = "n" => null
               /\ column = Column(schema, [null |-> null, value |-> value],
                                  offset, root_offset)
        /\ table = Absent
     \/ column = Absent /\ table \in Tables
  /\ stage = "driver"
  /\ row = <<>>
  /\ reader = Idle
  /\ copied = <<>>
  /\ name = Cleared
  /\ answer = NoAnswer

-----------------------------------------------------------------------------
(* The backend builds a row *)

\* isNullAt; a column of type null has no bitmap to look at.
IsNullAt(col) == col.schema.format # "n" /\ col.slots[1 + col.offset].null

\* Where the first row is read: fixed-size lists and structs leave out the offset.
SlotOf(col) == 1 + (IF col.schema.format \in {"+w", "+s"} THEN 0 ELSE col.offset)

\* cellFromArrow
CellFromArrow(col) ==
  [is_null |-> IsNullAt(col),
   text |-> IF IsNullAt(col) THEN EmptyText
            ELSE CellText(col.schema, col.slots[SlotOf(col)].value)]

\* appendRowsFromArray of an array of one column
BuildValue ==
  /\ column # Absent
  /\ stage = "driver"
  /\ row' = <<CellFromArrow(column)>>
  /\ stage' = "built"
  /\ UNCHANGED <<column, table, reader, copied, name, answer>>

\* The numbers the roles of the parts of a name have in the C ABI, and back in Rust.
RoleCode(role) ==
  LET roles == <<"catalog", "database", "schema", "dataset", "namespace", "object">>
  IN CHOOSE code \in 0..5 : roles[code + 1] = role

RoleFromRaw(code) ==
  CASE code = 0 -> <<"catalog">> [] code = 1 -> <<"database">> [] code = 2 -> <<"schema">>
    [] code = 3 -> <<"dataset">> [] code = 4 -> <<"namespace">> [] code = 5 -> <<"object">>
    [] OTHER -> <<>>

SchemaVendors == {"postgresql", "redshift", "exasol", "snowflake"}

\* Mutated form of TableNamespaceRole: the role the inspection gives.
TableNamespaceRoleByInspection(vendor) ==
  IF vendor \in SchemaVendors \cup {"duckdb", "mssql", "trino", "databricks"} THEN "schema"
  ELSE IF vendor = "bigquery" THEN "dataset" ELSE "database"

TableNamespaceRole(vendor) ==
  IF vendor \in SchemaVendors THEN "schema"
  ELSE IF vendor = "bigquery" THEN "dataset" ELSE "database"

MetadataNamespaceRole(vendor) ==
  IF vendor \in SchemaVendors \cup {"duckdb", "mssql", "trino", "databricks"} THEN "schema"
  ELSE IF vendor = "bigquery" THEN "dataset" ELSE "database"

IsFilled(cell) == ~cell.is_null /\ cell.text # EmptyText

\* The texts of a name, in order; the dots between them are left out.
Texts(parts) == [i \in DOMAIN parts |-> parts[i].text]

\* Those parts of a name, of which there are three at most, that stand at some places.
Selected(parts, places) ==
  LET Part(i) == IF i \in places THEN <<parts[i]>> ELSE <<>>
  IN Part(1) \o Part(2) \o Part(3)

\* QualifiedName.format and format_qualified_name_parts
Format(parts) == Texts(Selected(parts, {i \in DOMAIN parts : parts[i].text # EmptyText}))

\* The cells that are filled, with their roles.
PartsOf(cells, roles) ==
  Selected([i \in 1..3 |-> [role |-> roles[i], text |-> cells[i].text]],
           {i \in 1..3 : IsFilled(cells[i])})

\* formatTableQualifiedName
FormatTableQualifiedName(vendor, cells) ==
  Format(PartsOf(cells, <<"catalog", TableNamespaceRole(vendor), "object">>))

\* appendTableQualifiedNames; every cell of text, so the name is one as well.
BuildTable ==
  /\ table # Absent
  /\ stage = "driver"
  /\ row' = table.cells \o
              <<[is_null |-> FALSE, text |-> TableNamespaceRole(table.vendor)],
                [is_null |-> FALSE,
                 text |-> FormatTableQualifiedName(table.vendor, table.cells)]>>
  /\ stage' = "built"
  /\ UNCHANGED <<column, table, reader, copied, name, answer>>

\* aq_result_set_close, of any thread.
CloseResultSet ==
  /\ stage = "built"
  /\ stage' = "closed"
  /\ UNCHANGED <<column, table, row, reader, copied, name, answer>>

-----------------------------------------------------------------------------
(* Reading a value *)

Return(status, value) ==
  /\ reader' = [Idle EXCEPT !.call = "returned"]
  /\ answer' = [status |-> status, value |-> value]

\* ResultSet::value of Rust, whose handles stay on one thread: its calls see one state.
ReadValue ==
  /\ reader = Idle
  /\ column # Absent
  /\ \/ /\ stage = "built"
        /\ Return("ok", RustValue(row[1], ColumnTypeCode(ColumnType(column.schema))))
     \/ stage = "built" /\ Return("row_index_out_of_bounds", Null)
     \/ stage = "closed" /\ Return("result_set_not_found", Null)
  /\ UNCHANGED <<column, table, stage, row, copied, name>>

-----------------------------------------------------------------------------
(* aq_result_set_table_qualified_name *)

StartName ==
  /\ reader = Idle
  /\ stage # "driver"
  /\ \E index \in {0, 1} : reader' = [call |-> "columns", step |-> 0, index |-> index]
  /\ name' = Cleared
  /\ UNCHANGED <<column, table, stage, row, copied, answer>>

\* findResultSetColumnIndex of catalog_name, database_name, table_name, namespace_kind and
\* qualified_name in turn.  Any failure is answered with invalid_argument.
FindColumn ==
  /\ reader.call = "columns"
  /\ \/ /\ stage = "built" /\ table # Absent
        /\ reader' = IF reader.step < 4 THEN [reader EXCEPT !.step = @ + 1]
                     ELSE [reader EXCEPT !.call = "cells", !.step = 0]
        /\ UNCHANGED answer
     \/ stage = "closed" /\ Return("invalid_argument", Null)
     \/ column # Absent /\ Return("invalid_argument", Null)
  /\ UNCHANGED <<column, table, stage, row, copied, name>>

\* Mutated form of ReadCell: a part is handed over as soon as it has been read.
ReadCellHandsOver ==
  /\ reader.call = "cells"
  /\ \/ /\ stage = "built" /\ reader.index = 0
        /\ copied' = Append(copied, row[reader.step + 1])
        /\ reader' = IF reader.step < 4 THEN [reader EXCEPT !.step = @ + 1]
                     ELSE [reader EXCEPT !.call = "fill"]
        /\ name' = [name EXCEPT !.parts =
                      IF reader.step < 3 THEN Append(@, [role |-> 0, text |-> EmptyText]) ELSE @]
        /\ UNCHANGED answer
     \/ /\ \/ stage = "closed" /\ Return("result_set_not_found", Null)
           \/ stage = "built" /\ reader.index > 0 /\ Return("row_index_out_of_bounds", Null)
        /\ UNCHANGED <<copied, name>>
  /\ UNCHANGED <<column, table, stage, row>>

\* resultSetCell of the five columns in turn.
ReadCell ==
  /\ reader.call = "cells"
  /\ \/ /\ stage = "built" /\ reader.index = 0
        /\ copied' = Append(copied, row[reader.step + 1])
        /\ reader' = IF reader.step < 4 THEN [reader EXCEPT !.step = @ + 1]
                     ELSE [reader EXCEPT !.call = "fill"]
        /\ UNCHANGED answer
     \/ /\ \/ stage = "closed" /\ Return("result_set_not_found", Null)
           \/ stage = "built" /\ reader.index > 0 /\ Return("row_index_out_of_bounds", Null)
        /\ UNCHANGED copied
  /\ UNCHANGED <<column, table, stage, row, name>>

\* The parts that are there, and the name as the backend wrote it.  What was copied are
\* pointers and lengths: after a close the role is read from memory that has been freed.
Fill ==
  /\ reader.call = "fill"
  /\ \/ /\ stage = "built"
        /\ name' = [parts |-> PartsOf(copied, <<RoleCode("catalog"), RoleCode(copied[4].text),
                                                RoleCode("object")>>),
                    formatted |-> copied[5].text]
        /\ Return("ok", Null)
     \/ /\ stage = "closed"
        /\ \E role \in 0..5 :
             name' = Dangling(PartsOf(copied, <<RoleCode("catalog"), role, RoleCode("object")>>))
        /\ Return("ok", Null)
     \/ stage = "closed" /\ Return("invalid_argument", Null) /\ UNCHANGED name
  /\ UNCHANGED <<column, table, stage, row, copied>>

\* qualified_name_from_raw: parts of an unknown role are left out, and without a formatted
\* name the parts make one.
QualifiedNameFromRaw(raw) ==
  LET known == Selected(raw.parts,
                        {i \in DOMAIN raw.parts : RoleFromRaw(raw.parts[i].role) # <<>>})
      parts == [i \in DOMAIN known |-> [known[i] EXCEPT !.role = RoleFromRaw(@)[1]]]
  IN [parts |-> parts,
      formatted |-> IF raw.formatted # <<>> THEN raw.formatted ELSE Format(parts)]

Next ==
  \/ BuildValue \/ BuildTable \/ CloseResultSet
  \/ ReadValue
  \/ StartName \/ FindColumn \/ ReadCell \/ Fill

Spec == Init /\ [][Next]_vars

-----------------------------------------------------------------------------
(* Properties *)

\* The slot Arrow calls the first row.
Item(col) == col.slots[1 + col.root_offset + col.offset]

\* What docs/type-mapping.md:102-118 says of the texts of a type.
DocumentedForms(type) ==
  CASE type = "boolean" -> {"bool"}
    [] type \in IntegerTypes -> {"int"}
    [] type \in FloatTypes -> {"float"}
    [] type = "text" -> {"chars", "empty"}
    [] type = "binary" -> {"hex", "empty"}
    [] type = "decimal" -> {"decimal", "hex"}
    [] type = "json" -> {"chars", "json"}
    [] type \in {"duration", "interval"} -> {"interval"}
    [] type \in {"timestamp", "date", "time", "uuid"} -> {type}
    [] type \in {"array", "map", "struct"} -> {"json"}

\* Negative and over-long counts no time of day can be made of.
IsUnprintable(schema, value) ==
  /\ IsTemporal(schema)
  /\ \/ FormatType(schema.format) = "time" /\ value[1] < 0
     \/ schema.format \in {"tDm", "tDu", "tDn"} /\ value[1] < 0
     \/ schema.format = "tDu"
          /\ value[1] * (UnitsPerSecond["n"] \div UnitsPerSecond["u"]) > MaxI64
     \/ schema.format \in {"tiD", "tin"} /\ value[3] < 0

\* The columns whose text is not what their type promises.
Misfits(schema, value) ==
  LET bytes == schema.format \in BinaryFormats
  IN \/ schema.format = "e"                                  \* no branch prints it
     \/ schema.extension = "arrow.uuid" /\ schema.typname # "uuid"  \* hexadecimal digits
     \/ schema.format = "T"                                  \* a bare count
     \/ schema.format = "tDs"                                \* PT5S, without the D
     \/ bytes /\ schema.typname \in {"date", "time", "timetz", "interval", "json", "jsonb",
                                   "_int4"}
     \/ bytes /\ schema.typname \in OidLikeTypnames          \* digits in a binary column
     \/ schema.child # <<>> /\ \/ schema.child[1].format \in {"e", "d256"}
                               \/ schema.child[1].format \in {"f", "g"} /\ value \in NotFinite
     \/ IsUnprintable(schema, value)

\* The offsets under which the backend reads the slot Arrow means: it leaves out that of
\* the enclosing struct always, and its own for fixed-size lists and structs.
OffsetsAreRead(col) ==
  /\ col.root_offset = 0
  /\ col.schema.format \in {"+w", "+s"} => col.offset = 0

\* Two tables written apart, one for the type of a column and one for the text of its
\* cells, agree for every format and all metadata but the misfits: a program may read
\* the text by the type.
TextFitsType ==
  column # Absent /\ stage # "driver" /\ ~row[1].is_null =>
    LET type == ColumnType(column.schema)
        value == column.slots[SlotOf(column)].value
    IN type # "unknown" =>
         (row[1].text.form \in DocumentedForms(type)
            <=> ~Misfits(Printed(column.schema), value))

\* A program in Rust reads Null for what is null, or has no bytes, and for nothing else; a
\* boolean, number or binary arrives as a value of the column's own type that equals the
\* one in the array, at the limits of every width, through dictionaries and slices.
RustKeepsValues ==
  column # Absent /\ answer.status = "ok" /\ OffsetsAreRead(column) =>
    LET item == Item(column)
        type == ColumnType(column.schema)
        misfit == Misfits(Printed(column.schema), item.value)
    IN /\ ~misfit /\ type # "unknown" =>
            (answer.value = Null <=> item.null \/ row[1].text = EmptyText)
       /\ ~misfit /\ answer.value # Null =>
            /\ type \in IntegerTypes \cup {"boolean", "binary", "float64"} =>
                 answer.value = Value(type, item.value)
            /\ type \in {"float16", "float32"} => answer.value = Value("float32", item.value)
            /\ type \notin IntegerTypes \cup FloatTypes \cup {"boolean", "binary"} =>
                 answer.value = AsText(row[1].text)

\* The three bindings read the same boolean, number or binary from every cell with a text,
\* misfits included, unless digits stand in a binary column, which JavaScript cuts and Rust
\* and Python leave alone, or a float is an infinity, which JavaScript reads as NaN.
BindingsReadAlike ==
  column # Absent /\ stage # "driver" /\ row[1].text # EmptyText =>
    LET type == ColumnType(column.schema)
        rust == RustValue(row[1], ColumnTypeCode(type))
        node == NodeValue(row[1], type)
        python == PythonValue(row[1], type)
    IN /\ type \in IntegerTypes \cup {"boolean", "binary", "text"} =>
            /\ rust = python
            /\ rust = node <=> ~(type = "binary" /\ rust.kind = "text")
       /\ type \in FloatTypes => 
            /\ rust.of = python.of
            /\ rust.of = node.of <=> row[1].text.of # <<"inf">>

\* Dates and timestamps are those of the Gregorian calendar for every day from 0000-02-29
\* on, and of the days before it only for the last of each era of 146097.
DatesAreRight ==
  column # Absent /\ stage # "driver" /\ ~row[1].is_null
      /\ row[1].text.form \in {"date", "timestamp"} =>
    LET schema == Printed(column.schema)
        count == column.slots[SlotOf(column)].value[1]
        unit == CASE schema.format = "tdD" -> 1
                  [] schema.format = "tdm" -> UnitsPerSecond["m"] * seconds_per_day
                  [] OTHER -> UnitsPerSecond[UnitOf(schema.format)] * seconds_per_day
        date == row[1].text.of[1]
        days == count \div unit
    IN EraIsFound(days) <=> IsDate(date) /\ DayNumber(date) = days

\* Three places join or split a name: the backend's text, the parts of the C ABI and what
\* the binding shows are about the same catalog, namespace and table, without the empty
\* ones.  The namespace has the role the inspection of a connection gives it, but for the
\* vendors whose schemas get_tables calls databases.
NamesAgree ==
  reader.call = "returned" /\ answer.status = "ok" /\ table # Absent /\ stage = "built" =>
    LET read == QualifiedNameFromRaw(name)
        namespaces == {i \in DOMAIN read.parts :
                         read.parts[i].role = TableNamespaceRole(table.vendor)}
    IN /\ read.formatted = Texts(read.parts)
       /\ read.formatted = Texts(Selected(table.cells, {i \in 1..3 : IsFilled(table.cells[i])}))
       /\ Texts(Selected(read.parts, namespaces))
            = IF IsFilled(table.cells[2]) THEN <<table.cells[2].text>> ELSE <<>>
       /\ TableNamespaceRole(table.vendor) = MetadataNamespaceRole(table.vendor)
            <=> table.vendor \notin {"duckdb", "mssql", "trino", "databricks"}

\* A name is handed over whole or not at all, as long as nobody closes the result set.  A
\* caller that loses the race against a close is told so by result_set_not_found or
\* invalid_argument, or gets a name that is gone; no other caller gets any of these for a
\* row of get_tables.
NamesAreWhole ==
  reader.call = "returned" /\ table # Absent =>
    /\ answer.status # "ok" => name = Cleared
    /\ answer.status \in {"invalid_argument", "result_set_not_found"} => stage = "closed"
    /\ answer.status = "ok" /\ stage = "built" =>
         name = [parts |-> PartsOf(table.cells,
                                   <<RoleCode("catalog"),
                                     RoleCode(TableNamespaceRole(table.vendor)),
                                     RoleCode("object")>>),
                 formatted |-> FormatTableQualifiedName(table.vendor, table.cells)]

=============================================================================
