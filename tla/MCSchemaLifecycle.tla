-------------------------- MODULE MCSchemaLifecycle --------------------------
(***************************************************************************)
(* Databases for SchemaLifecycle: empty ones, legacy ones, databases under *)
(* Alembic at each revision, and ones with a single thing wrong, as a      *)
(* restored dump or a change by hand leaves them.                          *)
(***************************************************************************)
EXTENDS SchemaLifecycle

Database(shape, revision, sequence, image) ==
    [tables |-> shape, version |-> revision, seq |-> sequence, image |-> image]

Drawn(last, maxId) == [FreshSequence EXCEPT !.last = last, !.called = TRUE, !.maxId = maxId]

Managed == {Database(SchemaAt(v), v, FreshSequence, "old") : v \in {1, 3}}
    \union {Database(SchemaAt(4), 4, Drawn(1, 1), "new")}

Legacy(sequence) == Database(SchemaAt(1), 0, sequence, "old")

LegacyDatabases == {Legacy(FreshSequence), Legacy(Drawn(1, 1))}

\* `shape` with table t changed.
With(shape, t, table) == [shape EXCEPT ![t] = table]

Recolumn(table, column) ==
    [table EXCEPT !.cols = {c \in @ : c.name # column.name} \union {column}]

\* One thing wrong with the table of orders or of metrics.
WrongTables(shape) ==
    {With(shape, "applications", table) : table \in
        {Recolumn(shape["applications"], Column("id", "int", FALSE, "constant")),
         Recolumn(shape["applications"], Column("data", "fields", TRUE, "none")),
         Recolumn(shape["applications"], Column("stamps", "timestamptz", FALSE, "none")),
         WithColumn(shape["applications"], Optional("extra", "text"))}}
    \union
    {With(shape, "metrics", table) : table \in
        {[shape["metrics"] EXCEPT !.uniques = {}],
         [shape["metrics"] EXCEPT !.pk = {}],
         [shape["metrics"] EXCEPT !.fks = {}],
         [shape["metrics"] EXCEPT
            !.fks = {ForeignKey("application_id", "shadow", "applications", "CASCADE")}],
         [shape["metrics"] EXCEPT
            !.fks = {ForeignKey("application_id", "public", "applications", "NO ACTION")}],
         Recolumn(shape["metrics"], Column("application_id", "bigint", FALSE, "none"))}}
    \union {With(shape, "metrics", Absent)}

\* What the checks let pass: a constraint more, a default more.
HarmlessTables(shape) ==
    {With(shape, "settings", [shape["settings"] EXCEPT !.uniques = {{"data"}}]),
     With(shape, "admins", Recolumn(shape["admins"], Column("data", "v255", FALSE, "constant")))}

WrongSequences ==
    {[FreshSequence EXCEPT !.maxId = 1], Drawn(1, 2),
     [FreshSequence EXCEPT !.owned = FALSE], [FreshSequence EXCEPT !.same = FALSE],
     [FreshSequence EXCEPT !.ordinary = FALSE]}

FaultyDatabases ==
    {Database(shape, 0, FreshSequence, "old") :
        shape \in WrongTables(SchemaAt(1)) \union HarmlessTables(SchemaAt(1))}
    \union {Legacy(s) : s \in WrongSequences}
    \union {Database(SchemaAt(2), 0, FreshSequence, "old")}
    \union {Database(shape, 0, FreshSequence, "none") :
        shape \in {SchemaAt(4)} \union WrongTables(SchemaAt(4)) \union HarmlessTables(SchemaAt(4))
              \union {With(SchemaAt(4), "applications",
                        [SchemaAt(4)["applications"] EXCEPT
                            !.fks = {ForeignKey("service_id", "public", "settings", "CASCADE")}]),
                      With(SchemaAt(4), "keys", [SchemaAt(4)["keys"] EXCEPT !.uniques = {}])}}

MCDatabases == {Database(Empty, 0, FreshSequence, "none")}
    \union LegacyDatabases \union Managed \union FaultyDatabases
=============================================================================
