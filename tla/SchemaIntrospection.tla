------------------------ MODULE SchemaIntrospection ------------------------
(***************************************************************************)
(* What a table of the database looks like, what the program expects of    *)
(* it, and how the two are compared                                        *)
(* (backend/app/core/schema_introspect.py).  There are three hand-written  *)
(* descriptions of the same schema: the migrations that build it           *)
(* (backend/alembic/versions), the legacy fingerprint of adopt_legacy.py   *)
(* and the startup guard's list in schema_check.py.                        *)
(*                                                                         *)
(* A table has columns, a primary key, unique constraints and foreign      *)
(* keys.  Columns of a table that all three descriptions treat alike are   *)
(* one: "data" the plain required ones, "note" the nullable texts,         *)
(* "flags" the required ones that must have no default, "stamps" the       *)
(* timestamps.  A type includes its length, precision and scale.           *)
(***************************************************************************)
EXTENDS Integers, FiniteSets

Tables == {"admins", "settings", "applications", "metrics", "capabilities", "keys"}
LegacyNames == {"admins", "settings", "applications", "metrics"}

\* A column as it is; `default` is that of the server.
Column(name, type, nullable, default) ==
    [name |-> name, type |-> type, nullable |-> nullable, default |-> default]

\* A foreign key by its column; it always refers to an id.
ForeignKey(on, schema, table, ondelete) ==
    [on |-> on, schema |-> schema, table |-> table, ondelete |-> ondelete]

Table(cols, uniques, fks) ==
    [cols |-> cols, pk |-> {"id"}, uniques |-> uniques, fks |-> fks]

\* The ids in a table and the sequence behind its id column: whether PostgreSQL
\* takes the sequence for the column's own, whether the default draws from that
\* one, whether it counts integers upwards by one without cycling, and its state.
FreshSequence ==
    [owned |-> TRUE, same |-> TRUE, ordinary |-> TRUE,
     last |-> 1, called |-> FALSE, maxId |-> 0]

\* The next value of the sequence.
NextValue(s) == IF s.called THEN s.last + 1 ELSE s.last

-----------------------------------------------------------------------------

\* A column as it should be; `default` says whether it must have one.
Expect(name, type, nullable, default) ==
    [name |-> name, type |-> type, nullable |-> nullable, default |-> default,
     serial |-> FALSE]

Serial == [name |-> "id", type |-> "int", nullable |-> FALSE, default |-> "yes",
           serial |-> TRUE]

Names(cols) == {c.name : c \in cols}

\* Mutant: the next value taken to be the last one whether it was drawn or not.
SerialProblemsLastValue(default, s) ==
    IF s.last < s.maxId THEN {"behind"} ELSE {}

\* _serial_sequence_problems; maxId = 0 is an empty table.
SerialProblems(default, s) ==
    IF default = "none" THEN {}
    ELSE IF default # "nextval" THEN {"not a sequence"}
    ELSE IF ~s.owned THEN {"not owned"}
    ELSE IF ~s.same THEN {"another sequence"}
    ELSE {p \in {"odd", "behind"} :
            \/ p = "odd" /\ ~s.ordinary
            \/ p = "behind" /\ s.maxId > 0 /\ NextValue(s) <= s.maxId}

\* Columns of `cols` that `spec` speaks of: at most one.
Named(cols, spec) == {c \in cols : c.name = spec.name}

ColumnProblems(actual, spec, s) ==
    {p \in {"type", "nullable", "default"} :
        \/ p = "type" /\ actual.type # spec.type
        \/ p = "nullable" /\ actual.nullable # spec.nullable
        \/ /\ p = "default" /\ spec.default # "any"
           /\ (actual.default # "none") # (spec.default = "yes")}
    \union (IF spec.serial THEN SerialProblems(actual.default, s) ELSE {})

\* A key of the right reference is looked at for what a deletion does, unless
\* the spec does not care ("any").
ForeignKeyProblems(fks, spec) ==
    LET found == {f \in fks : f.on = spec.on}
        f == CHOOSE g \in found : TRUE
    IN
    IF found = {} THEN {"missing key"}
    ELSE IF f.schema # spec.schema \/ f.table # spec.table THEN {"reference"}
    ELSE IF spec.ondelete # "any" /\ f.ondelete # spec.ondelete THEN {"ondelete"}
    ELSE {}

\* Mutant: what is not expected is not looked at.
TableProblemsLenient(t, spec, s) ==
    UNION {UNION {ColumnProblems(c, e, s) : c \in Named(t.cols, e)} : e \in spec.cols}

\* describe_table_problems.  A unique constraint or a foreign key that nobody
\* expects is not a problem; a column is.
TableProblems(t, spec, s) ==
    (IF Names(t.cols) \ Names(spec.cols) # {} THEN {"unexpected column"} ELSE {})
    \union (IF Names(spec.cols) \ Names(t.cols) # {} THEN {"missing column"} ELSE {})
    \union (UNION {UNION {ColumnProblems(c, e, s) : c \in Named(t.cols, e)} : e \in spec.cols})
    \union (IF t.pk # spec.pk THEN {"primary key"} ELSE {})
    \union (IF spec.uniques \ t.uniques # {} THEN {"missing unique"} ELSE {})
    \union (UNION {ForeignKeyProblems(t.fks, k) : k \in spec.fks})

-----------------------------------------------------------------------------

\* What the migrations build.
Id == Column("id", "int", FALSE, "nextval")
Required(name, type) == Column(name, type, FALSE, "none")
Optional(name, type) == Column(name, type, TRUE, "none")
Now == Column("stamps", "timestamptz", FALSE, "constant")

\* 0001_legacy_baseline.
Baseline ==
    [admins |->
        Table({Id, Required("username", "v150"), Required("data", "v255"),
               Required("flags", "boolean"), Now}, {{"username"}}, {}),
     settings |->
        Table({Id, Required("data", "fields"), Optional("note", "text"),
               Required("flags", "boolean"), Now}, {}, {}),
     applications |->
        Table({Id, Required("data", "fields"), Optional("note", "text"),
               Now}, {}, {}),
     metrics |->
        Table({Id, Required("application_id", "int"),
               Required("flags", "counts"), Now}, {{"application_id"}},
              {ForeignKey("application_id", "public", "applications", "CASCADE")})]

\* 0002_stage1a_capability.
CapabilityTable ==
    Table({Id, Required("application_id", "int"), Required("data", "v64"),
           Optional("used_at", "timestamptz"), Now},
          {{"application_id"}, {"data"}},
          {ForeignKey("application_id", "public", "applications", "CASCADE")})

\* 0003_stage1b_service_idemp: a key without ON DELETE, and the claims.
ServiceKey == ForeignKey("service_id", "public", "settings", "NO ACTION")
KeysTable ==
    Table({Id, Required("key_hash", "v64"), Required("data", "v64"),
           Optional("application_id", "int"), Now}, {{"key_hash"}},
          {ForeignKey("application_id", "public", "applications", "CASCADE")})

\* `table` with one more column.
WithColumn(table, column) == [table EXCEPT !.cols = @ \union {column}]

\* A table that does not exist.
Absent == Table({}, {}, {})

Add(tables, name, table) == [tables EXCEPT ![name] = table]

CreateBaseline(tables) ==
    [tables EXCEPT !["admins"] = Baseline.admins, !["settings"] = Baseline.settings,
                   !["applications"] = Baseline.applications,
                   !["metrics"] = Baseline.metrics]

AddCapabilities(tables) == Add(tables, "capabilities", CapabilityTable)

AddServiceKeys(tables) ==
    LET apps == WithColumn(tables["applications"], Optional("service_id", "int")) IN
    Add(Add(tables, "applications", [apps EXCEPT !.fks = @ \union {ServiceKey}]),
        "keys", KeysTable)

\* 0004_stage4_priority_score.
Score == Column("priority_score", "int", FALSE, "constant")
AddScore(tables) ==
    Add(tables, "applications", WithColumn(tables["applications"], Score))

Newest == 4
Empty == [admins |-> Absent, settings |-> Absent, applications |-> Absent,
          metrics |-> Absent, capabilities |-> Absent, keys |-> Absent]

\* The migrations after revision v, up to revision w.
Upgraded(tables, v, w) ==
    LET one   == IF v < 1 /\ 1 <= w THEN CreateBaseline(tables) ELSE tables
        two   == IF v < 2 /\ 2 <= w THEN AddCapabilities(one) ELSE one
        three == IF v < 3 /\ 3 <= w THEN AddServiceKeys(two) ELSE two
    IN  IF v < 4 /\ 4 <= w THEN AddScore(three) ELSE three

\* The schema at revision v.
SchemaAt(v) == Upgraded(Empty, 0, v)

Existing(tables) == {t \in Tables : tables[t] # Absent}

-----------------------------------------------------------------------------

\* _LEGACY_TABLES of adopt_legacy.py.
LegacyTables ==
    [admins |->
        Table({Serial, Expect("username", "v150", FALSE, "any"),
               Expect("data", "v255", FALSE, "any"),
               Expect("flags", "boolean", FALSE, "no"),
               Expect("stamps", "timestamptz", FALSE, "yes")}, {{"username"}}, {}),
     settings |->
        Table({Serial, Expect("data", "fields", FALSE, "any"),
               Expect("note", "text", TRUE, "no"),
               Expect("flags", "boolean", FALSE, "no"),
               Expect("stamps", "timestamptz", FALSE, "yes")}, {}, {}),
     applications |->
        Table({Serial, Expect("data", "fields", FALSE, "any"),
               Expect("note", "text", TRUE, "any"),
               Expect("stamps", "timestamptz", FALSE, "yes")}, {}, {}),
     metrics |->
        Table({Serial, Expect("application_id", "int", FALSE, "any"),
               Expect("flags", "counts", FALSE, "no"),
               Expect("stamps", "timestamptz", FALSE, "yes")}, {{"application_id"}},
              {ForeignKey("application_id", "public", "applications", "CASCADE")})]

\* _CURRENT_TABLES of schema_check.py: no column is checked as a serial one.
Plain(spec) ==
    [spec EXCEPT !.cols = {Expect(c.name, c.type, c.nullable, c.default) : c \in @}]

ExpectedServiceKey == ForeignKey("service_id", "public", "settings", "NO ACTION")

CurrentTables ==
    [admins |-> Plain(LegacyTables.admins),
     settings |-> Plain(LegacyTables.settings),
     applications |->
        Table({Expect("id", "int", FALSE, "yes"), Expect("data", "fields", FALSE, "any"),
               Expect("note", "text", TRUE, "any"),
               Expect("stamps", "timestamptz", FALSE, "yes"),
               Expect("service_id", "int", TRUE, "any"),
               Expect("priority_score", "int", FALSE, "yes")}, {}, {ExpectedServiceKey}),
     metrics |-> Plain(LegacyTables.metrics),
     capabilities |->
        Table({Expect("id", "int", FALSE, "yes"), Expect("application_id", "int", FALSE, "any"),
               Expect("data", "v64", FALSE, "any"),
               Expect("used_at", "timestamptz", TRUE, "no"),
               Expect("stamps", "timestamptz", FALSE, "yes")},
              {{"application_id"}, {"data"}},
              {ForeignKey("application_id", "public", "applications", "CASCADE")}),
     keys |->
        Table({Expect("id", "int", FALSE, "yes"), Expect("key_hash", "v64", FALSE, "any"),
               Expect("data", "v64", FALSE, "any"),
               Expect("application_id", "int", TRUE, "any"),
               Expect("stamps", "timestamptz", FALSE, "yes")}, {{"key_hash"}},
              {ForeignKey("application_id", "public", "applications", "CASCADE")})]

-----------------------------------------------------------------------------

\* A table serves where `reference` is expected: the same columns, every default
\* the program relies on, every constraint it relies on.
Fits(t, reference) ==
    /\ Names(t.cols) = Names(reference.cols)
    /\ \A c \in t.cols, r \in reference.cols : c.name = r.name =>
          /\ c.type = r.type /\ c.nullable = r.nullable
          /\ r.default # "none" => c.default # "none"
    /\ t.pk = reference.pk
    /\ reference.uniques \subseteq t.uniques
    /\ reference.fks \subseteq t.fks

ShapeFits(shape, v) ==
    \A t \in Tables : IF SchemaAt(v)[t] = Absent THEN shape[t] = Absent
                      ELSE Fits(shape[t], SchemaAt(v)[t])

\* Tables and foreign keys are records as Table and ForeignKey build them.
WellFormed(t) ==
    /\ t = [cols |-> t.cols, pk |-> t.pk, uniques |-> t.uniques, fks |-> t.fks]
    /\ \A f \in t.fks : f = ForeignKey(f.on, f.schema, f.table, f.ondelete)
=============================================================================
