-------------------------------- MODULE Dsn --------------------------------
(***************************************************************************)
(* From settings to a driver's options: build_dsn of the three bindings    *)
(* writes a DSN, parseDsn of the ADBC backend (src/core/adbc_backend.zig)  *)
(* reads it back.                                                          *)
(*                                                                         *)
(* A text is a sequence of tokens: words, and the characters that mean     *)
(* something to one of the two sides.  Settings are lower-case names with  *)
(* a text each.  Rust and Node take another database than the configured   *)
(* one if their caller gives them one.                                     *)
(***************************************************************************)
EXTENDS Integers, Sequences

CONSTANTS
  Token,      \* the words and signs texts are made of
  Sections,   \* names of configuration sections
  Settings,   \* configurations: field -> text
  Overrides   \* databases a caller asks for in place of the configured one, or None

\* Signs by their names, where a name is easier to see.
Semicolon == ";"
Blank == " "

Text == Seq(Token)

UriFields == {"scheme", "host", "port", "user", "password", "database"}

OptionFields == {"driver", "entrypoint", "additional_manifest_search_path_list"}

\* The other names settings may have; the bindings sort them.
ExtraFields == {"path", "sslmode"}

(* What texts are made of, beyond the settings: signs, what is put in the   *)
(* place of signs, names and defaults.                                     *)
ASSUME TokenAssumption ==
  /\ {"=", Semicolon, "?", "&", "/", ":", "@", "#", Blank, "!"} \subseteq Token
  /\ {"%3D", "%3B", "%3F", "%26", "%2F", "%3A", "%40", "%23", "%20", "%21"} \subseteq Token
  /\ {"uri"} \cup OptionFields \cup ExtraFields \subseteq Token
  /\ {"postgresql", "postgres", "mysql", "information_schema", "127.0.0.1"} \subseteq Token

None == <<"(none)">>

ASSUME SectionsAssumption == Sections \subseteq Token \ {"=", Semicolon, Blank}

ASSUME SettingsAssumption ==
  \A settings \in Settings :
    /\ DOMAIN settings \subseteq {"dsn", "uri"} \cup UriFields \cup OptionFields \cup ExtraFields
    /\ \A field \in DOMAIN settings : settings[field] \in Text

ASSUME OverridesAssumption == Overrides \subseteq Text \cup {None}

VARIABLES
  section,
  config,
  override,
  stage,      \* "settings", "built", "parsing", "parsed"
  dsn,        \* the text a binding built
  place,      \* where parseDsn is in it
  parsed      \* what parseDsn made of it

vars == <<section, config, override, stage, dsn, place, parsed>>

\* encodeURIComponent, percent_encode_dsn_part and quote(safe=""); "!" is one of those
\* that only the last two escape.
Escape ==
  [sign \in {"=", Semicolon, "?", "&", "/", ":", "@", "#", Blank} |->
     CASE sign = "=" -> "%3D" [] sign = Semicolon -> "%3B" [] sign = "?" -> "%3F"
       [] sign = "&" -> "%26" [] sign = "/" -> "%2F" [] sign = ":" -> "%3A"
       [] sign = "@" -> "%40" [] sign = "#" -> "%23" [] sign = Blank -> "%20"]

EscapeAll ==
  [sign \in DOMAIN Escape \cup {"!"} |-> IF sign = "!" THEN "%21" ELSE Escape[sign]]

Quote(text, escape) ==
  [i \in DOMAIN text |-> IF text[i] \in DOMAIN escape THEN escape[text[i]] ELSE text[i]]

\* What a reader of the URI takes a part for.
Unquote(text) == [i \in DOMAIN text |-> IF text[i] = "%21" THEN "!" ELSE text[i]]

Has(settings, field) == field \in DOMAIN settings

Contains(text, sign) == \E i \in DOMAIN text : text[i] = sign

\* A setting among others, each with a separator before it; the first loses its own.
Assign(separator, field, text) == <<separator, field, "=">> \o text

Part(separator, settings, field) ==
  IF Has(settings, field) THEN Assign(separator, field, settings[field]) ELSE <<>>

-----------------------------------------------------------------------------
(* build_dsn *)

DefaultScheme(name) ==
  CASE name \in {"postgres", "postgresql"} -> <<"postgresql">>
    [] name \in {"starrocks", "mysql", "singlestore"} -> <<"mysql">>
    [] OTHER -> <<name>>

DefaultDatabase(name) ==
  CASE name \in {"postgres", "postgresql"} -> <<"postgres">>
    [] name \in {"starrocks", "mysql", "singlestore"} -> <<"information_schema">>
    [] OTHER -> <<>>

Query(settings, escape) ==
  LET quoted == [field \in DOMAIN settings |-> Quote(settings[field], escape)]
      pairs == Part("&", quoted, "path") \o Part("&", quoted, "sslmode")
  IN  IF pairs = <<>> THEN <<>> ELSE <<"?">> \o Tail(pairs)

PathPart(database, escape) ==
  IF database = <<>> THEN <<>> ELSE <<"/">> \o Quote(database, escape)

Credentials(user, settings, escape) ==
  IF user = <<>> THEN <<>>
  ELSE Quote(user, escape)
         \o (IF Has(settings, "password")
               THEN <<":">> \o Quote(settings["password"], escape) ELSE <<>>)
         \o <<"@">>

\* The URI itself: the part the three bindings share.
Uri(scheme, user, settings, host, port, database, escape) ==
  scheme \o <<":", "/", "/">> \o Credentials(user, settings, escape) \o host \o port
    \o PathPart(database, escape) \o Query(settings, escape)

\* A setting that is there, empty or not.
Given(settings, field, default) == IF Has(settings, field) THEN settings[field] ELSE default

\* A setting that is there and not empty (JavaScript's || and Python's or).
NonEmpty(settings, field, default) ==
  IF Has(settings, field) /\ settings[field] # <<>> THEN settings[field] ELSE default

\* What an override leaves of the configured database.
Database(configured, other) == IF other = None THEN configured ELSE other

\* The first of some signs at or after a place, or the end of the text.
FirstOf(signs, text, from, end) ==
  CHOOSE i \in from..end : /\ i = end \/ text[i] \in signs
                           /\ \A j \in from..(i - 1) : text[j] \notin signs

\* The places after "://".
Authorities(uri) ==
  {i \in 4..(Len(uri) + 1) : uri[i - 3] = ":" /\ uri[i - 2] = "/" /\ uri[i - 1] = "/"}

\* override_uri_database of Rust: fragment and query are cut off, and of the rest only the
\* authority stays.
RustOverride(uri, other) ==
  IF other = None \/ Authorities(uri) = {} THEN uri
  ELSE LET start == CHOOSE i \in Authorities(uri) : \A j \in Authorities(uri) : i <= j
           fragment == FirstOf({"#"}, uri, start, Len(uri) + 1)
           query == FirstOf({"?"}, uri, start, fragment)
           path == FirstOf({"/"}, uri, start, query)
       IN  SubSeq(uri, 1, path - 1) \o PathPart(other, EscapeAll) \o SubSeq(uri, query, Len(uri))

\* A URI with an authority and a path, as a URL object reads it.
IsUrl(uri) == 5 \in Authorities(uri) /\ uri[1] \notin DOMAIN EscapeAll

\* overrideUriDatabase of Node, which has a URL object replace the path.  A text that is
\* no URL stays, and so does one whose path is not hierarchical.
NodeOverride(uri, other) ==
  IF other = None \/ ~IsUrl(uri) THEN uri
  ELSE LET path == FirstOf({"/", "?", "#"}, uri, 5, Len(uri) + 1)
           rest == FirstOf({"?", "#"}, uri, path, Len(uri) + 1)
       IN  SubSeq(uri, 1, path - 1) \o PathPart(other, Escape) \o SubSeq(uri, rest, Len(uri))

PortPart(port) == IF port = <<>> THEN <<>> ELSE <<":">> \o port

\* build_uri_dsn of Rust
RustUri(name, settings, other) ==
  IF Has(settings, "uri") THEN RustOverride(settings["uri"], other)
  ELSE Uri(Given(settings, "scheme", DefaultScheme(name)), Given(settings, "user", <<>>),
           settings, Given(settings, "host", <<"127.0.0.1">>),
           IF Has(settings, "port") THEN <<":">> \o settings["port"] ELSE <<>>,
           Database(Given(settings, "database", DefaultDatabase(name)), other), EscapeAll)

\* buildUriDsn of Node
NodeUri(name, settings, other) ==
  IF Has(settings, "uri") THEN NodeOverride(settings["uri"], other)
  ELSE Uri(NonEmpty(settings, "scheme", DefaultScheme(name)), Given(settings, "user", <<>>),
           settings, NonEmpty(settings, "host", <<"127.0.0.1">>),
           PortPart(Given(settings, "port", <<>>)),
           Database(NonEmpty(settings, "database", DefaultDatabase(name)), other), Escape)

\* _build_uri_dsn of Python, which leaves the defaults of a section to its caller.
PythonUri(settings) ==
  IF Has(settings, "uri") THEN settings["uri"]
  ELSE Uri(settings["scheme"], Given(settings, "user", <<>>), settings,
           NonEmpty(settings, "host", <<"127.0.0.1">>),
           PortPart(Given(settings, "port", <<>>)),
           Given(settings, "database", <<>>), EscapeAll)

HasUriComponents(settings) == \E field \in UriFields : Has(settings, field)

IsOptionString(settings) ==
  Has(settings, "uri") \/ \E field \in OptionFields : Has(settings, field)

\* build_option_string_dsn: a URI, if there is one, takes the place of the other settings.
OptionString(settings, uri) ==
  Tail(Part(Semicolon, settings, "driver") \o Part(Semicolon, settings, "entrypoint")
         \o Part(Semicolon, settings, "additional_manifest_search_path_list")
         \o (IF Has(settings, "uri") \/ HasUriComponents(settings) THEN Assign(Semicolon, "uri", uri)
             ELSE Part(Semicolon, settings, "path") \o Part(Semicolon, settings, "sslmode")))

RustDsn(name, settings, other) ==
  IF Has(settings, "dsn") /\ other = None THEN settings["dsn"]
  ELSE IF IsOptionString(settings) THEN OptionString(settings, RustUri(name, settings, other))
  ELSE RustUri(name, settings, other)

NodeDsn(name, settings, other) ==
  IF Has(settings, "dsn") /\ settings["dsn"] # <<>> /\ other = None THEN settings["dsn"]
  ELSE IF IsOptionString(settings) THEN OptionString(settings, NodeUri(name, settings, other))
  ELSE NodeUri(name, settings, other)

\* Mutated form of SectionDefaults: a section's defaults are always applied.
SectionDefaultsAlways(name, settings) ==
  [field \in DOMAIN settings \cup {"scheme", "database"} |->
     Given(settings, field,
           IF field = "scheme" THEN DefaultScheme(name) ELSE DefaultDatabase(name))]

\* _should_apply_section_defaults and its use, what a Python program does with a section.
SectionDefaults(name, settings) ==
  IF \/ Has(settings, "dsn") \/ Has(settings, "uri")
     \/ ~HasUriComponents(settings) /\ IsOptionString(settings)
    THEN settings
    ELSE [field \in DOMAIN settings \cup {"scheme", "database"} |->
            Given(settings, field,
                  IF field = "scheme" THEN DefaultScheme(name) ELSE DefaultDatabase(name))]

PythonDsn(name, settings) ==
  LET given == SectionDefaults(name, settings)
  IN  IF Has(given, "dsn") /\ given["dsn"] # <<>> THEN given["dsn"]
      ELSE IF IsOptionString(given)
        THEN OptionString(given, IF Has(given, "uri") \/ HasUriComponents(given)
                                   THEN PythonUri(given) ELSE <<>>)
      ELSE PythonUri(given)

-----------------------------------------------------------------------------
(* parseDsn *)

NoOptions == [driver |-> None, entrypoint |-> None, additional_search_path |-> None,
              uri |-> None, options |-> <<>>]

Trim(text) ==
  LET solid == {i \in DOMAIN text : text[i] # Blank}
  IN  IF solid = {} THEN <<>>
      ELSE SubSeq(text, CHOOSE i \in solid : \A j \in solid : i <= j,
                        CHOOSE i \in solid : \A j \in solid : j <= i)

\* Mutated form of Equals: the last equals sign of a segment divides it.
EqualsLast(segment) ==
  CHOOSE i \in DOMAIN segment :
    segment[i] = "=" /\ \A j \in (i + 1)..Len(segment) : segment[j] # "="

\* The first equals sign of a segment that has one.
Equals(segment) == FirstOf({"="}, segment, 1, Len(segment))

Key(segment) == Trim(SubSeq(segment, 1, Equals(segment) - 1))

Value(segment) == Trim(SubSeq(segment, Equals(segment) + 1, Len(segment)))

Assigned(options, segment) ==
  CASE Key(segment) = <<"driver">> -> [options EXCEPT !.driver = Value(segment)]
    [] Key(segment) = <<"uri">> -> [options EXCEPT !.uri = Value(segment)]
    [] Key(segment) = <<"entrypoint">> -> [options EXCEPT !.entrypoint = Value(segment)]
    [] Key(segment) = <<"additional_manifest_search_path_list">> ->
         [options EXCEPT !.additional_search_path = Value(segment)]
    [] OTHER -> [options EXCEPT !.options = Append(@, <<Key(segment), Value(segment)>>)]

\* Schemes of vendors, and the two that have another name.
VendorSchemes ==
  {"postgresql", "sqlite", "snowflake", "flightsql", "mysql", "bigquery", "mssql", "redshift",
   "trino", "databricks", "clickhouse", "exasol", "singlestore"}

Vendors ==
  [scheme \in VendorSchemes \cup {"postgres", "sqlserver"} |->
     IF scheme = "postgres" THEN "postgresql" ELSE IF scheme = "sqlserver" THEN "mssql" ELSE scheme]

NoVendor == "none"

\* inferDriverName: the word before the first colon.
InferDriverName(text) ==
  IF Len(text) > 1 /\ text[2] = ":" /\ text[1] \in DOMAIN Vendors THEN Vendors[text[1]]
                                                                  ELSE NoVendor

\* Mutated form of InferredDriver: only the URI is looked at.
InferredDriverFromUri(options, text) == InferDriverName(options.uri)

\* resolveVendorDriverPath: the vendor whose driver is loaded when the DSN names none.
InferredDriver(options, text) ==
  InferDriverName(IF options.uri = None THEN text ELSE options.uri)

-----------------------------------------------------------------------------

Init ==
  /\ section \in Sections
  /\ config \in Settings
  /\ override \in Overrides
  /\ stage = "settings"
  /\ dsn = <<>>
  /\ place = 1
  /\ parsed = NoOptions

\* One of the bindings builds the text.  Python's has no override.
Build ==
  /\ stage = "settings"
  /\ stage' = "built"
  /\ \/ dsn' \in {RustDsn(section, config, override), NodeDsn(section, config, override)}
     \/ override = None /\ dsn' = PythonDsn(section, config)
  /\ UNCHANGED <<section, config, override, place, parsed>>

\* parseDsn: a text without an equals sign is the URI.
ParseDsn ==
  /\ stage = "built"
  /\ IF Contains(dsn, "=") THEN stage' = "parsing" /\ UNCHANGED parsed
     ELSE stage' = "parsed" /\ parsed' = [parsed EXCEPT !.uri = dsn]
  /\ UNCHANGED <<section, config, override, dsn, place>>

\* A turn of its loop, for the segment up to the next semicolon.  One without an equals sign
\* makes the whole text the URI, and what the segments before it have set stays set, the
\* free options excepted.
ReadSegment ==
  /\ stage = "parsing"
  /\ LET end == FirstOf({Semicolon}, dsn, place, Len(dsn) + 1)
         segment == Trim(SubSeq(dsn, place, end - 1))
         strange == segment # <<>> /\ ~Contains(segment, "=")
     IN  /\ parsed' = IF segment = <<>> THEN parsed
                      ELSE IF strange THEN [parsed EXCEPT !.uri = dsn, !.options = <<>>]
                      ELSE Assigned(parsed, segment)
         /\ place' = end + 1
         /\ stage' = IF strange \/ end > Len(dsn) THEN "parsed" ELSE "parsing"
  /\ UNCHANGED <<section, config, override, dsn>>

Next == Build \/ ParseDsn \/ ReadSegment

Spec == Init /\ [][Next]_vars

-----------------------------------------------------------------------------
(* Properties *)

NoBlanks(field) == Has(config, field) => ~Contains(config[field], Blank)

\* Settings without an empty text give the same DSN in the three bindings, up to the
\* escaping of a character whose escaping says nothing; with the database replaced, in the
\* two that can, unless it is that of a URI whose first "://" is not behind its scheme
\* (jdbc:mysql://db/app): there Rust replaces what Node takes for no path.
\* A URI with blanks is none; a URL object escapes them.
BindingsAgree ==
  (\A field \in DOMAIN config : config[field] # <<>>) /\ NoBlanks("uri") =>
    /\ override = None \/ ~Has(config, "uri")
         \/ Authorities(config["uri"]) = {} \/ IsUrl(config["uri"]) =>
         Unquote(RustDsn(section, config, override)) = Unquote(NodeDsn(section, config, override))
    /\ override = None => RustDsn(section, config, override) = PythonDsn(section, config)

\* A text the option-string form can carry.
Plain(text) ==
  /\ text # <<>> /\ ~Contains(text, Semicolon)
  /\ text[1] # Blank /\ text[Len(text)] # Blank

ReadBack(field, value) == value = Given(config, field, None)

Free(field) == IF Has(config, field) THEN <<<<<<field>>, config[field]>>>> ELSE <<>>

\* An option string is read back as it was meant: driver, entrypoint and search path as
\* set, and either the URI as a binding made it, whatever signs the settings contain, or
\* the other settings.
OptionStringIsReadBack ==
  stage = "parsed" /\ ~Has(config, "dsn") /\ IsOptionString(config) /\ NoBlanks("uri")
    /\ (\A field \in DOMAIN config : Plain(config[field])) =>
    /\ ReadBack("driver", parsed.driver)
    /\ ReadBack("entrypoint", parsed.entrypoint)
    /\ ReadBack("additional_manifest_search_path_list", parsed.additional_search_path)
    /\ IF Has(config, "uri") \/ HasUriComponents(config)
         THEN /\ parsed.uri \in {RustUri(section, config, override),
                                NodeUri(section, config, override)}
              /\ parsed.options = <<>>
         ELSE parsed.uri = None /\ parsed.options = Free("path") \o Free("sslmode")

\* The driver that is loaded is the one of the URI's scheme, in whatever form and with
\* whatever query the URI comes.
SchemeChoosesDriver ==
  stage = "parsed" /\ ~Has(config, "dsn") /\ ~Has(config, "uri")
    /\ (\A field \in DOMAIN config : Plain(config[field]))
    /\ ~Contains(Given(config, "scheme", <<>>), "=")
    /\ (HasUriComponents(config) \/ ~IsOptionString(config)) =>
    InferredDriver(parsed, dsn) = InferDriverName(NodeUri(section, config, override))

\* What tests/README.md recommends: a DSN that is one URI, with its query parameters,
\* reaches the driver as its URI.
UriReachesDriver ==
  stage = "parsed" /\ InferDriverName(dsn) # NoVendor => parsed.uri = dsn
=============================================================================
