------------------------------- MODULE MCDsn -------------------------------
(***************************************************************************)
(* Configurations for Dsn: every combination of settings with one or two   *)
(* values for each field, among them values full of signs and empty ones.  *)
(***************************************************************************)
EXTENDS Dsn, FiniteSetsExt, TLC

MCToken == STRING

MCSections == {"postgres", "singlestore", "flightsql"}

QueryUri == <<"postgresql", ":", "/", "/", "db", "/", "app", "?", "sslmode", "=", "require">>

TextsOf ==
  [ dsn |-> {<<"sqlite", ":", "x">>},
    driver |-> {<<"/", "lib.so">>},
    entrypoint |-> {<<"AdbcDriverInit">>},
    uri |-> {QueryUri, <<"mysql", ":", "/", "/", "db", "#", "a", "/", "b">>, <<"db">>,
             <<"jdbc", ":", "mysql", ":", "/", "/", "db", "/", "app">>},
    scheme |-> {<<"flightsql">>, <<>>},
    host |-> {<<"db">>, <<>>},
    port |-> {<<"5432">>},
    user |-> {<<"alice">>},
    password |-> {<<"p", "@", ";", "!", "=">>, <<"p", "!">>},
    database |-> {<<"app">>, <<>>},
    path |-> {<<"x", ";", "y">>, <<"x">>},
    sslmode |-> {<<"require">>} ]

MCOverrides == {None, <<>>, <<"a", "/", "b">>}

NoOverrides == {None}

\* At most MaxFields fields are set.
MaxFields == 4

MCSettings ==
  UNION { {s \in [fields -> UNION {TextsOf[f] : f \in fields}] :
             \A f \in fields : s[f] \in TextsOf[f]}
          : fields \in UNION {kSubset(k, DOMAIN TextsOf) : k \in 0..MaxFields} }

\* The Flight SQL entry of tests/README.md, and the same without its query.
FlightSql ==
  <<"flightsql", ":", "/", "/", "user", ":", "password", "@", "127.0.0.1", ":", "8815", "/",
    "postgres">>

DsnSettings ==
  {("dsn" :> text) : text \in {FlightSql, FlightSql \o <<"?", "useEncryption", "=", "false">>}}
=============================================================================
