---------------------------- MODULE SchemaProofs ----------------------------
(***************************************************************************)
(* Proofs about SchemaLifecycle for every database it may find: whatever   *)
(* is wrong with the tables, wherever programs are interrupted.            *)
(*                                                                         *)
(* The argument has three parts.  The legacy fingerprint and the guard's   *)
(* list accept only tables that fit the revision they stand for            *)
(* (AcceptedFits, with the hand-written lists compared column by column    *)
(* in FingerprintMatches and GuardMatches).  The migrations take tables    *)
(* that fit a revision to tables that fit the newest (UpgradeFits).  An    *)
(* invariant of the whole system carries this over every step.             *)
(***************************************************************************)
EXTENDS SchemaLifecycle, TLAPS

\* What the two later migrations make of the table of orders.
Serviced(table) ==
    [WithColumn(table, Optional("service_id", "int")) EXCEPT !.fks = @ \union {ServiceKey}]
Scored(table) == WithColumn(table, Score)

\* `spec` asks at least for what `reference`, no column of which is there twice, has.
Matches(spec, reference) ==
    /\ Names(spec.cols) = Names(reference.cols)
    /\ \A e \in spec.cols, r \in reference.cols : e.name = r.name =>
          /\ e.type = r.type /\ e.nullable = r.nullable
          /\ r.default # "none" => e.default = "yes"
    /\ \A c, r \in reference.cols : c.name = r.name => c = r
    /\ spec.pk = reference.pk
    /\ reference.uniques \subseteq spec.uniques
    /\ reference.fks \subseteq spec.fks
    /\ \A k \in spec.fks :
          k = ForeignKey(k.on, k.schema, k.table, k.ondelete) /\ k.ondelete # "any"

(* A column that is there and about which nothing is found is as expected.   *)
LEMMA AcceptedColumn ==
    ASSUME NEW c, NEW e, NEW s, ColumnProblems(c, e, s) = {}
    PROVE  /\ c.type = e.type /\ c.nullable = e.nullable
           /\ e.default = "yes" => c.default # "none"
           /\ e.serial => SerialProblems(c.default, s) = {}
<1> DEFINE found == {p \in {"type", "nullable", "default"} :
        \/ p = "type" /\ c.type # e.type
        \/ p = "nullable" /\ c.nullable # e.nullable
        \/ /\ p = "default" /\ e.default # "any"
           /\ (c.default # "none") # (e.default = "yes")}
<1>1. found = {} /\ (IF e.serial THEN SerialProblems(c.default, s) ELSE {}) = {}
  BY DEF ColumnProblems
<1>2. "type" \notin found /\ "nullable" \notin found /\ "default" \notin found
  BY <1>1
<1>3. c.type = e.type /\ c.nullable = e.nullable
  BY <1>2
<1>4. e.default = "yes" => c.default # "none"
  <2>1. SUFFICES ASSUME e.default = "yes", c.default = "none" PROVE FALSE
    OBVIOUS
  <2>2. (c.default # "none") # (e.default = "yes")
    BY <2>1
  <2> QED BY <1>2, <2>1, <2>2
<1> QED BY <1>1, <1>3, <1>4

(* A foreign key about which nothing is found is there.                      *)
LEMMA AcceptedKey ==
    ASSUME NEW t, WellFormed(t), NEW k,
           k = ForeignKey(k.on, k.schema, k.table, k.ondelete), k.ondelete # "any",
           ForeignKeyProblems(t.fks, k) = {}
    PROVE  k \in t.fks
<1> DEFINE found == {f \in t.fks : f.on = k.on}
           f == CHOOSE g \in found : TRUE
<1>1. found # {} /\ f.schema = k.schema /\ f.table = k.table /\ f.ondelete = k.ondelete
  BY DEF ForeignKeyProblems
<1>2. f \in t.fks /\ f.on = k.on
  BY <1>1
<1>3. f = ForeignKey(f.on, f.schema, f.table, f.ondelete)
  BY <1>2 DEF WellFormed
<1> HIDE DEF f
<1> QED BY <1>1, <1>2, <1>3 DEF ForeignKey

(* No problems with a table: each of the parts found nothing.                *)
LEMMA NoProblems ==
    ASSUME NEW t, NEW spec, NEW s, TableProblems(t, spec, s) = {}
    PROVE  /\ Names(t.cols) = Names(spec.cols)
           /\ \A e \in spec.cols, c \in t.cols :
                 c.name = e.name => ColumnProblems(c, e, s) = {}
           /\ t.pk = spec.pk
           /\ spec.uniques \subseteq t.uniques
           /\ \A k \in spec.fks : ForeignKeyProblems(t.fks, k) = {}
<1> DEFINE A == IF Names(t.cols) \ Names(spec.cols) # {} THEN {"unexpected column"} ELSE {}
           B == IF Names(spec.cols) \ Names(t.cols) # {} THEN {"missing column"} ELSE {}
           C == UNION {UNION {ColumnProblems(c, e, s) : c \in Named(t.cols, e)} : e \in spec.cols}
           D == IF t.pk # spec.pk THEN {"primary key"} ELSE {}
           E == IF spec.uniques \ t.uniques # {} THEN {"missing unique"} ELSE {}
           F == UNION {ForeignKeyProblems(t.fks, k) : k \in spec.fks}
<1>1. A \union B \union C \union D \union E \union F = {}
  BY DEF TableProblems
<1>2. A = {} /\ B = {} /\ C = {} /\ D = {} /\ E = {} /\ F = {}
  <2> HIDE DEF A, B, C, D, E, F
  <2> QED BY <1>1
<1>3. Names(t.cols) \ Names(spec.cols) = {} /\ Names(spec.cols) \ Names(t.cols) = {}
  BY <1>2
<1>4. t.pk = spec.pk /\ spec.uniques \ t.uniques = {}
  BY <1>2
<1>5. \A k \in spec.fks : ForeignKeyProblems(t.fks, k) = {}
  BY <1>2
<1>6. ASSUME NEW e \in spec.cols, NEW c \in t.cols, c.name = e.name
      PROVE  ColumnProblems(c, e, s) = {}
  <2>1. c \in Named(t.cols, e)
    BY <1>6 DEF Named
  <2> DEFINE G == UNION {ColumnProblems(d, e, s) : d \in Named(t.cols, e)}
  <2>2. G \subseteq C
    OBVIOUS
  <2>3. ColumnProblems(c, e, s) \subseteq G
    BY <2>1
  <2> QED BY <1>2, <2>2, <2>3
<1>7. Names(t.cols) = Names(spec.cols)
  BY <1>3
<1>8. spec.uniques \subseteq t.uniques
  BY <1>4
<1> QED BY <1>4, <1>5, <1>6, <1>7, <1>8

(* A table with no problems against a list that asks for what the reference  *)
(* has fits the reference.                                                   *)
LEMMA AcceptedFits ==
    ASSUME NEW t, WellFormed(t), NEW spec, NEW reference, NEW s,
           Matches(spec, reference), TableProblems(t, spec, s) = {}
    PROVE  Fits(t, reference)
<1>1. Names(t.cols) = Names(reference.cols)
  BY NoProblems DEF Matches
<1>2. ASSUME NEW c \in t.cols, NEW r \in reference.cols, c.name = r.name
      PROVE  /\ c.type = r.type /\ c.nullable = r.nullable
             /\ r.default # "none" => c.default # "none"
  <2>1. PICK e \in spec.cols : e.name = c.name
    <3>1. c.name \in Names(spec.cols)
      BY NoProblems DEF Names
    <3> QED BY <3>1 DEF Names
  <2>2. ColumnProblems(c, e, s) = {}
    BY <2>1, NoProblems
  <2>3. c.type = e.type /\ c.nullable = e.nullable /\ (e.default = "yes" => c.default # "none")
    BY <2>2, AcceptedColumn
  <2>4. e.type = r.type /\ e.nullable = r.nullable /\ (r.default # "none" => e.default = "yes")
    BY <1>2, <2>1 DEF Matches
  <2> QED BY <2>3, <2>4
<1>3. t.pk = reference.pk /\ reference.uniques \subseteq t.uniques
  BY NoProblems DEF Matches
<1>4. ASSUME NEW k \in reference.fks PROVE k \in t.fks
  <2>1. k \in spec.fks
    BY DEF Matches
  <2>2. k = ForeignKey(k.on, k.schema, k.table, k.ondelete) /\ k.ondelete # "any"
    BY <2>1 DEF Matches
  <2>3. ForeignKeyProblems(t.fks, k) = {}
    BY <2>1, NoProblems
  <2> QED BY <2>2, <2>3, AcceptedKey
<1> QED BY <1>1, <1>2, <1>3, <1>4 DEF Fits

-----------------------------------------------------------------------------

(* The migrations, table by table.                                           *)
LEMMA UpgradedTables ==
    ASSUME NEW shape, DOMAIN shape = Tables, NEW v \in 0 .. Newest, NEW w \in v .. Newest
    PROVE  LET up == Upgraded(shape, v, w) IN
           /\ DOMAIN up = Tables
           /\ \A t \in {"admins", "settings", "metrics"} :
                 up[t] = IF v < 1 /\ 1 <= w THEN Baseline[t] ELSE shape[t]
           /\ up["capabilities"] = IF v < 2 /\ 2 <= w THEN CapabilityTable
                                   ELSE shape["capabilities"]
           /\ up["keys"] = IF v < 3 /\ 3 <= w THEN KeysTable ELSE shape["keys"]
           /\ up["applications"] =
                LET one   == IF v < 1 /\ 1 <= w THEN Baseline["applications"]
                             ELSE shape["applications"]
                    three == IF v < 3 /\ 3 <= w THEN Serviced(one) ELSE one
                IN  IF v < 4 /\ 4 <= w THEN Scored(three) ELSE three
<1> DEFINE one == IF v < 1 /\ 1 <= w THEN CreateBaseline(shape) ELSE shape
           two == IF v < 2 /\ 2 <= w THEN AddCapabilities(one) ELSE one
           three == IF v < 3 /\ 3 <= w THEN AddServiceKeys(two) ELSE two
           four == IF v < 4 /\ 4 <= w THEN AddScore(three) ELSE three
<1>0. Upgraded(shape, v, w) = four
  BY DEF Upgraded
<1>1. /\ DOMAIN one = Tables
      /\ \A t \in LegacyNames : one[t] = IF v < 1 /\ 1 <= w THEN Baseline[t] ELSE shape[t]
      /\ one["capabilities"] = shape["capabilities"] /\ one["keys"] = shape["keys"]
  BY DEF CreateBaseline, Tables, LegacyNames
<1> HIDE DEF one
<1>2. /\ DOMAIN two = Tables
      /\ \A t \in LegacyNames : two[t] = one[t]
      /\ two["capabilities"] = IF v < 2 /\ 2 <= w THEN CapabilityTable
                               ELSE shape["capabilities"]
      /\ two["keys"] = shape["keys"]
  BY <1>1 DEF AddCapabilities, Add, Tables, LegacyNames
<1> HIDE DEF two
<1>3. /\ DOMAIN three = Tables
      /\ \A t \in {"admins", "settings", "metrics", "capabilities"} : three[t] = two[t]
      /\ three["keys"] = IF v < 3 /\ 3 <= w THEN KeysTable ELSE shape["keys"]
      /\ three["applications"] = IF v < 3 /\ 3 <= w THEN Serviced(two["applications"])
                                 ELSE two["applications"]
  BY <1>2 DEF AddServiceKeys, Serviced, Add, Tables, LegacyNames
<1> HIDE DEF three
<1>4. /\ DOMAIN four = Tables
      /\ \A t \in Tables \ {"applications"} : four[t] = three[t]
      /\ four["applications"] = IF v < 4 /\ 4 <= w THEN Scored(three["applications"])
                                ELSE three["applications"]
  BY <1>3 DEF AddScore, Scored, Add, Tables
<1> HIDE DEF four
<1> QED BY <1>0, <1>1, <1>2, <1>3, <1>4 DEF Tables, LegacyNames

(* The tables of each revision.                                              *)
LEMMA SchemaTables ==
    ASSUME NEW v \in 1 .. Newest
    PROVE  /\ \A t \in {"admins", "settings", "metrics"} : SchemaAt(v)[t] = Baseline[t]
           /\ SchemaAt(v)["capabilities"] = IF v < 2 THEN Absent ELSE CapabilityTable
           /\ SchemaAt(v)["keys"] = IF v < 3 THEN Absent ELSE KeysTable
           /\ SchemaAt(v)["applications"] =
                IF v < 3 THEN Baseline["applications"]
                ELSE IF v < 4 THEN Serviced(Baseline["applications"])
                ELSE Scored(Serviced(Baseline["applications"]))
<1>1. DOMAIN Empty = Tables /\ Empty["capabilities"] = Absent /\ Empty["keys"] = Absent
  BY DEF Empty, Tables
<1>2. 0 \in 0 .. Newest /\ v \in 0 .. Newest /\ v \in Int /\ 1 <= v /\ v <= 4
  BY DEF Newest
<1> QED BY <1>1, <1>2, UpgradedTables DEF SchemaAt, Newest

(* The table of orders at revisions 0003 and 0004.                           *)
LEMMA LaterOrders ==
    /\ Serviced(Baseline["applications"]) =
          Table({Id, Required("data", "fields"), Optional("note", "text"), Now,
                 Optional("service_id", "int")}, {}, {ServiceKey})
    /\ Scored(Serviced(Baseline["applications"])) =
          Table({Id, Required("data", "fields"), Optional("note", "text"), Now,
                 Optional("service_id", "int"),
                 Score}, {}, {ServiceKey})
<1>1. Baseline["applications"] =
        Table({Id, Required("data", "fields"), Optional("note", "text"), Now}, {}, {})
  BY DEF Baseline
<1>2. ASSUME NEW cols, NEW fks, NEW c
      PROVE  WithColumn(Table(cols, {}, fks), c) = Table(cols \union {c}, {}, fks)
  BY DEF WithColumn, Table
<1>3. ASSUME NEW cols
      PROVE  [Table(cols, {}, {}) EXCEPT !.fks = @ \union {ServiceKey}]
               = Table(cols, {}, {ServiceKey})
  BY DEF Table
<1> DEFINE orders == Baseline["applications"]
           with == WithColumn(orders, Optional("service_id", "int"))
           served == Serviced(orders)
           columns == {Id, Required("data", "fields"), Optional("note", "text"), Now}
<1>4. served = Table(columns \union {Optional("service_id", "int")}, {}, {ServiceKey})
  <2>1. with = Table(columns \union {Optional("service_id", "int")}, {}, {})
    BY <1>1, <1>2
  <2>2. served = [with EXCEPT !.fks = @ \union {ServiceKey}]
    BY DEF Serviced
  <2> HIDE DEF with, served
  <2> QED BY <1>3, <2>1, <2>2
<1>5. Scored(served) = Table((columns \union {Optional("service_id", "int")}) \union {Score},
                             {}, {ServiceKey})
  <2> HIDE DEF served, columns
  <2>1. Scored(served) = WithColumn(served, Score)
    BY DEF Scored
  <2> QED BY <1>2, <1>4, <2>1
<1>6. /\ {Id, Required("data", "fields"), Optional("note", "text"), Now}
            \union {Optional("service_id", "int")}
         = {Id, Required("data", "fields"), Optional("note", "text"), Now,
            Optional("service_id", "int")}
      /\ {Id, Required("data", "fields"), Optional("note", "text"), Now,
          Optional("service_id", "int")}
            \union {Score}
         = {Id, Required("data", "fields"), Optional("note", "text"), Now,
            Optional("service_id", "int"),
            Score}
  OBVIOUS
<1> QED BY <1>4, <1>5, <1>6

(* A table with a column is not absent.                                      *)
LEMMA ColumnsPresent ==
    /\ \A t \in LegacyNames : Baseline[t] # Absent
    /\ CapabilityTable # Absent /\ KeysTable # Absent
    /\ Serviced(Baseline["applications"]) # Absent
    /\ Scored(Serviced(Baseline["applications"])) # Absent
<1>1. ASSUME NEW cols, NEW uniques, NEW fks, Id \in cols
      PROVE  Table(cols, uniques, fks) # Absent
  BY <1>1 DEF Table, Absent
<1>2. \A t \in LegacyNames : Baseline[t] # Absent
  BY <1>1 DEF Baseline, LegacyNames
<1>3. CapabilityTable # Absent /\ KeysTable # Absent
  BY <1>1 DEF CapabilityTable, KeysTable
<1>4. /\ Serviced(Baseline["applications"]) # Absent
      /\ Scored(Serviced(Baseline["applications"])) # Absent
  BY <1>1, LaterOrders
<1> QED BY <1>2, <1>3, <1>4

(* Each revision has the legacy tables, later ones more.                     *)
LEMMA PresentAt ==
    ASSUME NEW v \in 1 .. Newest
    PROVE  /\ \A t \in LegacyNames : SchemaAt(v)[t] # Absent
           /\ SchemaAt(v)["capabilities"] = Absent <=> v < 2
           /\ SchemaAt(v)["keys"] = Absent <=> v < 3
<1>1. v \in Int /\ 1 <= v /\ v <= 4
  BY DEF Newest
<1> QED BY <1>1, SchemaTables, ColumnsPresent DEF LegacyNames

\* A column as e asks for serves where r is expected.
Serves(e, r) ==
    /\ e.type = r.type /\ e.nullable = r.nullable
    /\ r.default # "none" => e.default = "yes"

(* The legacy fingerprint asks for what revision 0001 builds.                *)
LEMMA FingerprintMatches ==
    \A t \in LegacyNames : Matches(LegacyTables[t], Baseline[t])
<1>1. Matches(LegacyTables["admins"], Baseline["admins"])
  <2> DEFINE spec == LegacyTables["admins"]
             ref == Baseline["admins"]
             e1 == Serial
             e2 == Expect("username", "v150", FALSE, "any")
             e3 == Expect("data", "v255", FALSE, "any")
             e4 == Expect("flags", "boolean", FALSE, "no")
             e5 == Expect("stamps", "timestamptz", FALSE, "yes")
             r1 == Id
             r2 == Required("username", "v150")
             r3 == Required("data", "v255")
             r4 == Required("flags", "boolean")
             r5 == Now
  <2>1. spec.cols = {e1, e2, e3, e4, e5}
    BY DEF LegacyTables, Table
  <2>2. ref.cols = {r1, r2, r3, r4, r5}
    BY DEF Baseline, Table
  <2>3. /\ spec.pk = ref.pk /\ spec.uniques = ref.uniques
        /\ spec.fks = {} /\ ref.fks = {}
    BY DEF Baseline, LegacyTables, Table
  <2>5. /\ e1.name = "id" /\ e2.name = "username" /\ e3.name = "data"
        /\ e4.name = "flags" /\ e5.name = "stamps" /\ r1.name = "id"
        /\ r2.name = "username" /\ r3.name = "data" /\ r4.name = "flags"
        /\ r5.name = "stamps"
    BY DEF Serial, Expect, Id, Required, Optional, Now, Score, Column
  <2>6. /\ Serves(e1, r1) /\ Serves(e2, r2) /\ Serves(e3, r3) /\ Serves(e4, r4)
        /\ Serves(e5, r5)
    BY DEF Serves, Serial, Expect, Id, Required, Optional, Now, Score, Column
  <2> HIDE DEF spec, ref, e1, e2, e3, e4, e5, r1, r2, r3, r4, r5
  <2>7. Names(spec.cols) = {"id", "username", "data", "flags", "stamps"}
    BY <2>1, <2>5 DEF Names
  <2>8. Names(ref.cols) = {"id", "username", "data", "flags", "stamps"}
    BY <2>2, <2>5 DEF Names
  <2>9. \A e \in spec.cols, r \in ref.cols : e.name = r.name => Serves(e, r)
    BY <2>1, <2>2, <2>5, <2>6
  <2>12. \A c, r \in ref.cols : c.name = r.name => c = r
    BY <2>2, <2>5
  <2>10. Names(spec.cols) = Names(ref.cols)
    BY <2>7, <2>8
  <2>11. Matches(spec, ref)
    BY <2>3, <2>9, <2>10, <2>12 DEF Matches, Serves
  <2> QED BY <2>11 DEF spec, ref
<1>2. Matches(LegacyTables["settings"], Baseline["settings"])
  <2> DEFINE spec == LegacyTables["settings"]
             ref == Baseline["settings"]
             e1 == Serial
             e2 == Expect("data", "fields", FALSE, "any")
             e3 == Expect("note", "text", TRUE, "no")
             e4 == Expect("flags", "boolean", FALSE, "no")
             e5 == Expect("stamps", "timestamptz", FALSE, "yes")
             r1 == Id
             r2 == Required("data", "fields")
             r3 == Optional("note", "text")
             r4 == Required("flags", "boolean")
             r5 == Now
  <2>1. spec.cols = {e1, e2, e3, e4, e5}
    BY DEF LegacyTables, Table
  <2>2. ref.cols = {r1, r2, r3, r4, r5}
    BY DEF Baseline, Table
  <2>3. /\ spec.pk = ref.pk /\ spec.uniques = ref.uniques
        /\ spec.fks = {} /\ ref.fks = {}
    BY DEF Baseline, LegacyTables, Table
  <2>5. /\ e1.name = "id" /\ e2.name = "data" /\ e3.name = "note" /\ e4.name = "flags"
        /\ e5.name = "stamps" /\ r1.name = "id" /\ r2.name = "data" /\ r3.name = "note"
        /\ r4.name = "flags" /\ r5.name = "stamps"
    BY DEF Serial, Expect, Id, Required, Optional, Now, Score, Column
  <2>6. /\ Serves(e1, r1) /\ Serves(e2, r2) /\ Serves(e3, r3) /\ Serves(e4, r4)
        /\ Serves(e5, r5)
    BY DEF Serves, Serial, Expect, Id, Required, Optional, Now, Score, Column
  <2> HIDE DEF spec, ref, e1, e2, e3, e4, e5, r1, r2, r3, r4, r5
  <2>7. Names(spec.cols) = {"id", "data", "note", "flags", "stamps"}
    BY <2>1, <2>5 DEF Names
  <2>8. Names(ref.cols) = {"id", "data", "note", "flags", "stamps"}
    BY <2>2, <2>5 DEF Names
  <2>9. \A e \in spec.cols, r \in ref.cols : e.name = r.name => Serves(e, r)
    BY <2>1, <2>2, <2>5, <2>6
  <2>12. \A c, r \in ref.cols : c.name = r.name => c = r
    BY <2>2, <2>5
  <2>10. Names(spec.cols) = Names(ref.cols)
    BY <2>7, <2>8
  <2>11. Matches(spec, ref)
    BY <2>3, <2>9, <2>10, <2>12 DEF Matches, Serves
  <2> QED BY <2>11 DEF spec, ref
<1>3. Matches(LegacyTables["applications"], Baseline["applications"])
  <2> DEFINE spec == LegacyTables["applications"]
             ref == Baseline["applications"]
             e1 == Serial
             e2 == Expect("data", "fields", FALSE, "any")
             e3 == Expect("note", "text", TRUE, "any")
             e4 == Expect("stamps", "timestamptz", FALSE, "yes")
             r1 == Id
             r2 == Required("data", "fields")
             r3 == Optional("note", "text")
             r4 == Now
  <2>1. spec.cols = {e1, e2, e3, e4}
    BY DEF LegacyTables, Table
  <2>2. ref.cols = {r1, r2, r3, r4}
    BY DEF Baseline, Table
  <2>3. /\ spec.pk = ref.pk /\ spec.uniques = ref.uniques
        /\ spec.fks = {} /\ ref.fks = {}
    BY DEF Baseline, LegacyTables, Table
  <2>5. /\ e1.name = "id" /\ e2.name = "data" /\ e3.name = "note" /\ e4.name = "stamps"
        /\ r1.name = "id" /\ r2.name = "data" /\ r3.name = "note" /\ r4.name = "stamps"
    BY DEF Serial, Expect, Id, Required, Optional, Now, Score, Column
  <2>6. Serves(e1, r1) /\ Serves(e2, r2) /\ Serves(e3, r3) /\ Serves(e4, r4)
    BY DEF Serves, Serial, Expect, Id, Required, Optional, Now, Score, Column
  <2> HIDE DEF spec, ref, e1, e2, e3, e4, r1, r2, r3, r4
  <2>7. Names(spec.cols) = {"id", "data", "note", "stamps"}
    BY <2>1, <2>5 DEF Names
  <2>8. Names(ref.cols) = {"id", "data", "note", "stamps"}
    BY <2>2, <2>5 DEF Names
  <2>9. \A e \in spec.cols, r \in ref.cols : e.name = r.name => Serves(e, r)
    BY <2>1, <2>2, <2>5, <2>6
  <2>12. \A c, r \in ref.cols : c.name = r.name => c = r
    BY <2>2, <2>5
  <2>10. Names(spec.cols) = Names(ref.cols)
    BY <2>7, <2>8
  <2>11. Matches(spec, ref)
    BY <2>3, <2>9, <2>10, <2>12 DEF Matches, Serves
  <2> QED BY <2>11 DEF spec, ref
<1>4. Matches(LegacyTables["metrics"], Baseline["metrics"])
  <2> DEFINE spec == LegacyTables["metrics"]
             ref == Baseline["metrics"]
             e1 == Serial
             e2 == Expect("application_id", "int", FALSE, "any")
             e3 == Expect("flags", "counts", FALSE, "no")
             e4 == Expect("stamps", "timestamptz", FALSE, "yes")
             r1 == Id
             r2 == Required("application_id", "int")
             r3 == Required("flags", "counts")
             r4 == Now
  <2>1. spec.cols = {e1, e2, e3, e4}
    BY DEF LegacyTables, Table
  <2>2. ref.cols = {r1, r2, r3, r4}
    BY DEF Baseline, Table
  <2> DEFINE key == ForeignKey("application_id", "public", "applications", "CASCADE")
  <2>3. /\ spec.pk = ref.pk /\ spec.uniques = ref.uniques
        /\ spec.fks = {key} /\ ref.fks = {key}
    BY DEF Baseline, LegacyTables, Table
  <2>4. key = ForeignKey(key.on, key.schema, key.table, key.ondelete) /\ key.ondelete # "any"
    BY DEF ForeignKey
  <2>5. /\ e1.name = "id" /\ e2.name = "application_id" /\ e3.name = "flags"
        /\ e4.name = "stamps" /\ r1.name = "id" /\ r2.name = "application_id"
        /\ r3.name = "flags" /\ r4.name = "stamps"
    BY DEF Serial, Expect, Id, Required, Optional, Now, Score, Column
  <2>6. Serves(e1, r1) /\ Serves(e2, r2) /\ Serves(e3, r3) /\ Serves(e4, r4)
    BY DEF Serves, Serial, Expect, Id, Required, Optional, Now, Score, Column
  <2> HIDE DEF spec, ref, key, e1, e2, e3, e4, r1, r2, r3, r4
  <2>7. Names(spec.cols) = {"id", "application_id", "flags", "stamps"}
    BY <2>1, <2>5 DEF Names
  <2>8. Names(ref.cols) = {"id", "application_id", "flags", "stamps"}
    BY <2>2, <2>5 DEF Names
  <2>9. \A e \in spec.cols, r \in ref.cols : e.name = r.name => Serves(e, r)
    BY <2>1, <2>2, <2>5, <2>6
  <2>12. \A c, r \in ref.cols : c.name = r.name => c = r
    BY <2>2, <2>5
  <2>10. Names(spec.cols) = Names(ref.cols)
    BY <2>7, <2>8
  <2>11. Matches(spec, ref)
    BY <2>3, <2>9, <2>10, <2>12, <2>4 DEF Matches, Serves
  <2> QED BY <2>11 DEF spec, ref
<1> QED BY <1>1, <1>2, <1>3, <1>4 DEF LegacyNames

(* The startup guard asks for what the newest revision has.                  *)
LEMMA GuardMatches ==
    \A t \in Tables : Matches(CurrentTables[t], SchemaAt(Newest)[t])
<1>0. /\ \A t \in {"admins", "settings", "metrics"} : SchemaAt(Newest)[t] = Baseline[t]
      /\ SchemaAt(Newest)["capabilities"] = CapabilityTable
      /\ SchemaAt(Newest)["keys"] = KeysTable
      /\ SchemaAt(Newest)["applications"] = Scored(Serviced(Baseline["applications"]))
  BY SchemaTables, Newest \in 1 .. Newest DEF Newest
<1>1. Matches(CurrentTables["admins"], Baseline["admins"])
  <2> DEFINE spec == CurrentTables["admins"]
             ref == Baseline["admins"]
             e1 == Expect("id", "int", FALSE, "yes")
             e2 == Expect("username", "v150", FALSE, "any")
             e3 == Expect("data", "v255", FALSE, "any")
             e4 == Expect("flags", "boolean", FALSE, "no")
             e5 == Expect("stamps", "timestamptz", FALSE, "yes")
             r1 == Id
             r2 == Required("username", "v150")
             r3 == Required("data", "v255")
             r4 == Required("flags", "boolean")
             r5 == Now
  <2>1. spec.cols = {e1, e2, e3, e4, e5}
    <3> DEFINE strip(c) == Expect(c.name, c.type, c.nullable, c.default)
               s1 == Serial
    <3>1. spec.cols = {strip(c) : c \in {s1, e2, e3, e4, e5}}
      BY DEF CurrentTables, LegacyTables, Table, Plain
    <3>2. strip(s1) = e1
      BY DEF Serial, Expect
    <3>3. strip(e2) = e2 /\ strip(e3) = e3 /\ strip(e4) = e4 /\ strip(e5) = e5
      BY DEF Expect
    <3> HIDE DEF strip, spec, s1, e1, e2, e3, e4, e5
    <3> QED BY <3>1, <3>2, <3>3
  <2>2. ref.cols = {r1, r2, r3, r4, r5}
    BY DEF Baseline, Table
  <2>3. /\ spec.pk = ref.pk /\ spec.uniques = ref.uniques
        /\ spec.fks = {} /\ ref.fks = {}
    BY DEF Baseline, CurrentTables, Plain, LegacyTables, Table
  <2>5. /\ e1.name = "id" /\ e2.name = "username" /\ e3.name = "data"
        /\ e4.name = "flags" /\ e5.name = "stamps" /\ r1.name = "id"
        /\ r2.name = "username" /\ r3.name = "data" /\ r4.name = "flags"
        /\ r5.name = "stamps"
    BY DEF Serial, Expect, Id, Required, Optional, Now, Score, Column
  <2>6. /\ Serves(e1, r1) /\ Serves(e2, r2) /\ Serves(e3, r3) /\ Serves(e4, r4)
        /\ Serves(e5, r5)
    BY DEF Serves, Serial, Expect, Id, Required, Optional, Now, Score, Column
  <2> HIDE DEF spec, ref, e1, e2, e3, e4, e5, r1, r2, r3, r4, r5
  <2>7. Names(spec.cols) = {"id", "username", "data", "flags", "stamps"}
    BY <2>1, <2>5 DEF Names
  <2>8. Names(ref.cols) = {"id", "username", "data", "flags", "stamps"}
    BY <2>2, <2>5 DEF Names
  <2>9. \A e \in spec.cols, r \in ref.cols : e.name = r.name => Serves(e, r)
    BY <2>1, <2>2, <2>5, <2>6
  <2>12. \A c, r \in ref.cols : c.name = r.name => c = r
    BY <2>2, <2>5
  <2>10. Names(spec.cols) = Names(ref.cols)
    BY <2>7, <2>8
  <2>11. Matches(spec, ref)
    BY <2>3, <2>9, <2>10, <2>12 DEF Matches, Serves
  <2> QED BY <2>11 DEF spec, ref
<1>2. Matches(CurrentTables["settings"], Baseline["settings"])
  <2> DEFINE spec == CurrentTables["settings"]
             ref == Baseline["settings"]
             e1 == Expect("id", "int", FALSE, "yes")
             e2 == Expect("data", "fields", FALSE, "any")
             e3 == Expect("note", "text", TRUE, "no")
             e4 == Expect("flags", "boolean", FALSE, "no")
             e5 == Expect("stamps", "timestamptz", FALSE, "yes")
             r1 == Id
             r2 == Required("data", "fields")
             r3 == Optional("note", "text")
             r4 == Required("flags", "boolean")
             r5 == Now
  <2>1. spec.cols = {e1, e2, e3, e4, e5}
    <3> DEFINE strip(c) == Expect(c.name, c.type, c.nullable, c.default)
               s1 == Serial
    <3>1. spec.cols = {strip(c) : c \in {s1, e2, e3, e4, e5}}
      BY DEF CurrentTables, LegacyTables, Table, Plain
    <3>2. strip(s1) = e1
      BY DEF Serial, Expect
    <3>3. strip(e2) = e2 /\ strip(e3) = e3 /\ strip(e4) = e4 /\ strip(e5) = e5
      BY DEF Expect
    <3> HIDE DEF strip, spec, s1, e1, e2, e3, e4, e5
    <3> QED BY <3>1, <3>2, <3>3
  <2>2. ref.cols = {r1, r2, r3, r4, r5}
    BY DEF Baseline, Table
  <2>3. /\ spec.pk = ref.pk /\ spec.uniques = ref.uniques
        /\ spec.fks = {} /\ ref.fks = {}
    BY DEF Baseline, CurrentTables, Plain, LegacyTables, Table
  <2>5. /\ e1.name = "id" /\ e2.name = "data" /\ e3.name = "note" /\ e4.name = "flags"
        /\ e5.name = "stamps" /\ r1.name = "id" /\ r2.name = "data" /\ r3.name = "note"
        /\ r4.name = "flags" /\ r5.name = "stamps"
    BY DEF Serial, Expect, Id, Required, Optional, Now, Score, Column
  <2>6. /\ Serves(e1, r1) /\ Serves(e2, r2) /\ Serves(e3, r3) /\ Serves(e4, r4)
        /\ Serves(e5, r5)
    BY DEF Serves, Serial, Expect, Id, Required, Optional, Now, Score, Column
  <2> HIDE DEF spec, ref, e1, e2, e3, e4, e5, r1, r2, r3, r4, r5
  <2>7. Names(spec.cols) = {"id", "data", "note", "flags", "stamps"}
    BY <2>1, <2>5 DEF Names
  <2>8. Names(ref.cols) = {"id", "data", "note", "flags", "stamps"}
    BY <2>2, <2>5 DEF Names
  <2>9. \A e \in spec.cols, r \in ref.cols : e.name = r.name => Serves(e, r)
    BY <2>1, <2>2, <2>5, <2>6
  <2>12. \A c, r \in ref.cols : c.name = r.name => c = r
    BY <2>2, <2>5
  <2>10. Names(spec.cols) = Names(ref.cols)
    BY <2>7, <2>8
  <2>11. Matches(spec, ref)
    BY <2>3, <2>9, <2>10, <2>12 DEF Matches, Serves
  <2> QED BY <2>11 DEF spec, ref
<1>3. Matches(CurrentTables["metrics"], Baseline["metrics"])
  <2> DEFINE spec == CurrentTables["metrics"]
             ref == Baseline["metrics"]
             e1 == Expect("id", "int", FALSE, "yes")
             e2 == Expect("application_id", "int", FALSE, "any")
             e3 == Expect("flags", "counts", FALSE, "no")
             e4 == Expect("stamps", "timestamptz", FALSE, "yes")
             r1 == Id
             r2 == Required("application_id", "int")
             r3 == Required("flags", "counts")
             r4 == Now
  <2>1. spec.cols = {e1, e2, e3, e4}
    <3> DEFINE strip(c) == Expect(c.name, c.type, c.nullable, c.default)
               s1 == Serial
    <3>1. spec.cols = {strip(c) : c \in {s1, e2, e3, e4}}
      BY DEF CurrentTables, LegacyTables, Table, Plain
    <3>2. strip(s1) = e1
      BY DEF Serial, Expect
    <3>3. strip(e2) = e2 /\ strip(e3) = e3 /\ strip(e4) = e4
      BY DEF Expect
    <3> HIDE DEF strip, spec, s1, e1, e2, e3, e4
    <3> QED BY <3>1, <3>2, <3>3
  <2>2. ref.cols = {r1, r2, r3, r4}
    BY DEF Baseline, Table
  <2> DEFINE key == ForeignKey("application_id", "public", "applications", "CASCADE")
  <2>3. /\ spec.pk = ref.pk /\ spec.uniques = ref.uniques
        /\ spec.fks = {key} /\ ref.fks = {key}
    BY DEF Baseline, CurrentTables, Plain, LegacyTables, Table
  <2>4. key = ForeignKey(key.on, key.schema, key.table, key.ondelete) /\ key.ondelete # "any"
    BY DEF ForeignKey
  <2>5. /\ e1.name = "id" /\ e2.name = "application_id" /\ e3.name = "flags"
        /\ e4.name = "stamps" /\ r1.name = "id" /\ r2.name = "application_id"
        /\ r3.name = "flags" /\ r4.name = "stamps"
    BY DEF Serial, Expect, Id, Required, Optional, Now, Score, Column
  <2>6. Serves(e1, r1) /\ Serves(e2, r2) /\ Serves(e3, r3) /\ Serves(e4, r4)
    BY DEF Serves, Serial, Expect, Id, Required, Optional, Now, Score, Column
  <2> HIDE DEF spec, ref, key, e1, e2, e3, e4, r1, r2, r3, r4
  <2>7. Names(spec.cols) = {"id", "application_id", "flags", "stamps"}
    BY <2>1, <2>5 DEF Names
  <2>8. Names(ref.cols) = {"id", "application_id", "flags", "stamps"}
    BY <2>2, <2>5 DEF Names
  <2>9. \A e \in spec.cols, r \in ref.cols : e.name = r.name => Serves(e, r)
    BY <2>1, <2>2, <2>5, <2>6
  <2>12. \A c, r \in ref.cols : c.name = r.name => c = r
    BY <2>2, <2>5
  <2>10. Names(spec.cols) = Names(ref.cols)
    BY <2>7, <2>8
  <2>11. Matches(spec, ref)
    BY <2>3, <2>9, <2>10, <2>12, <2>4 DEF Matches, Serves
  <2> QED BY <2>11 DEF spec, ref
<1>4. Matches(CurrentTables["applications"], Scored(Serviced(Baseline["applications"])))
  <2> DEFINE spec == CurrentTables["applications"]
             ref == Scored(Serviced(Baseline["applications"]))
             e1 == Expect("id", "int", FALSE, "yes")
             e2 == Expect("data", "fields", FALSE, "any")
             e3 == Expect("note", "text", TRUE, "any")
             e4 == Expect("stamps", "timestamptz", FALSE, "yes")
             e5 == Expect("service_id", "int", TRUE, "any")
             e6 == Expect("priority_score", "int", FALSE, "yes")
             r1 == Id
             r2 == Required("data", "fields")
             r3 == Optional("note", "text")
             r4 == Now
             r5 == Optional("service_id", "int")
             r6 == Score
  <2>1. spec.cols = {e1, e2, e3, e4, e5, e6}
    BY DEF CurrentTables, Table
  <2> DEFINE key == ServiceKey
  <2>2. ref.cols = {r1, r2, r3, r4, r5, r6}
    BY LaterOrders DEF Table
  <2>3. /\ spec.pk = ref.pk /\ spec.uniques = {} /\ ref.uniques = {}
        /\ spec.fks = {key} /\ ref.fks = {key}
    <3>1. key = ExpectedServiceKey
      BY DEF ServiceKey, ExpectedServiceKey
    <3> HIDE DEF key, e1, e2, e3, e4, e5, e6
    <3>2. spec = Table({e1, e2, e3, e4, e5, e6}, {}, {key})
      BY <3>1 DEF CurrentTables, e1, e2, e3, e4, e5, e6
    <3>3. ref = Table({Id, Required("data", "fields"), Optional("note", "text"), Now,
                       Optional("service_id", "int"), Score}, {}, {key})
      BY LaterOrders DEF key
    <3> HIDE DEF spec, ref
    <3> QED BY <3>2, <3>3 DEF Table
  <2>4. key = ForeignKey(key.on, key.schema, key.table, key.ondelete) /\ key.ondelete # "any"
    BY DEF ServiceKey, ForeignKey
  <2>5. /\ e1.name = "id" /\ e2.name = "data" /\ e3.name = "note" /\ e4.name = "stamps"
        /\ e5.name = "service_id" /\ e6.name = "priority_score" /\ r1.name = "id"
        /\ r2.name = "data" /\ r3.name = "note" /\ r4.name = "stamps"
        /\ r5.name = "service_id" /\ r6.name = "priority_score"
    BY DEF Serial, Expect, Id, Required, Optional, Now, Score, Column
  <2>6. /\ Serves(e1, r1) /\ Serves(e2, r2) /\ Serves(e3, r3) /\ Serves(e4, r4)
        /\ Serves(e5, r5) /\ Serves(e6, r6)
    BY DEF Serves, Serial, Expect, Id, Required, Optional, Now, Score, Column
  <2> HIDE DEF spec, ref, key, e1, e2, e3, e4, e5, e6, r1, r2, r3, r4, r5, r6
  <2>7. Names(spec.cols) = {"id", "data", "note", "stamps", "service_id", "priority_score"}
    BY <2>1, <2>5 DEF Names
  <2>8. Names(ref.cols) = {"id", "data", "note", "stamps", "service_id", "priority_score"}
    BY <2>2, <2>5 DEF Names
  <2>9. \A e \in spec.cols, r \in ref.cols : e.name = r.name => Serves(e, r)
    BY <2>1, <2>2, <2>5, <2>6
  <2>12. \A c, r \in ref.cols : c.name = r.name => c = r
    BY <2>2, <2>5
  <2>10. Names(spec.cols) = Names(ref.cols)
    BY <2>7, <2>8
  <2>11. Matches(spec, ref)
    BY <2>3, <2>9, <2>10, <2>12, <2>4 DEF Matches, Serves
  <2> QED BY <2>11 DEF spec, ref
<1>5. Matches(CurrentTables["capabilities"], CapabilityTable)
  <2> DEFINE spec == CurrentTables["capabilities"]
             ref == CapabilityTable
             e1 == Expect("id", "int", FALSE, "yes")
             e2 == Expect("application_id", "int", FALSE, "any")
             e3 == Expect("data", "v64", FALSE, "any")
             e4 == Expect("used_at", "timestamptz", TRUE, "no")
             e5 == Expect("stamps", "timestamptz", FALSE, "yes")
             r1 == Id
             r2 == Required("application_id", "int")
             r3 == Required("data", "v64")
             r4 == Optional("used_at", "timestamptz")
             r5 == Now
  <2>1. spec.cols = {e1, e2, e3, e4, e5}
    BY DEF CurrentTables, Table
  <2>2. ref.cols = {r1, r2, r3, r4, r5}
    BY DEF CapabilityTable, Table
  <2> DEFINE key == ForeignKey("application_id", "public", "applications", "CASCADE")
  <2>3. /\ spec.pk = ref.pk /\ spec.uniques = ref.uniques
        /\ spec.fks = {key} /\ ref.fks = {key}
    BY DEF CapabilityTable, CurrentTables, Table
  <2>4. key = ForeignKey(key.on, key.schema, key.table, key.ondelete) /\ key.ondelete # "any"
    BY DEF ForeignKey
  <2>5. /\ e1.name = "id" /\ e2.name = "application_id" /\ e3.name = "data"
        /\ e4.name = "used_at" /\ e5.name = "stamps" /\ r1.name = "id"
        /\ r2.name = "application_id" /\ r3.name = "data" /\ r4.name = "used_at"
        /\ r5.name = "stamps"
    BY DEF Serial, Expect, Id, Required, Optional, Now, Score, Column
  <2>6. /\ Serves(e1, r1) /\ Serves(e2, r2) /\ Serves(e3, r3) /\ Serves(e4, r4)
        /\ Serves(e5, r5)
    BY DEF Serves, Serial, Expect, Id, Required, Optional, Now, Score, Column
  <2> HIDE DEF spec, ref, key, e1, e2, e3, e4, e5, r1, r2, r3, r4, r5
  <2>7. Names(spec.cols) = {"id", "application_id", "data", "used_at", "stamps"}
    BY <2>1, <2>5 DEF Names
  <2>8. Names(ref.cols) = {"id", "application_id", "data", "used_at", "stamps"}
    BY <2>2, <2>5 DEF Names
  <2>9. \A e \in spec.cols, r \in ref.cols : e.name = r.name => Serves(e, r)
    BY <2>1, <2>2, <2>5, <2>6
  <2>12. \A c, r \in ref.cols : c.name = r.name => c = r
    BY <2>2, <2>5
  <2>10. Names(spec.cols) = Names(ref.cols)
    BY <2>7, <2>8
  <2>11. Matches(spec, ref)
    BY <2>3, <2>9, <2>10, <2>12, <2>4 DEF Matches, Serves
  <2> QED BY <2>11 DEF spec, ref
<1>6. Matches(CurrentTables["keys"], KeysTable)
  <2> DEFINE spec == CurrentTables["keys"]
             ref == KeysTable
             e1 == Expect("id", "int", FALSE, "yes")
             e2 == Expect("key_hash", "v64", FALSE, "any")
             e3 == Expect("data", "v64", FALSE, "any")
             e4 == Expect("application_id", "int", TRUE, "any")
             e5 == Expect("stamps", "timestamptz", FALSE, "yes")
             r1 == Id
             r2 == Required("key_hash", "v64")
             r3 == Required("data", "v64")
             r4 == Optional("application_id", "int")
             r5 == Now
  <2>1. spec.cols = {e1, e2, e3, e4, e5}
    BY DEF CurrentTables, Table
  <2>2. ref.cols = {r1, r2, r3, r4, r5}
    BY DEF KeysTable, Table
  <2> DEFINE key == ForeignKey("application_id", "public", "applications", "CASCADE")
  <2>3. /\ spec.pk = ref.pk /\ spec.uniques = ref.uniques
        /\ spec.fks = {key} /\ ref.fks = {key}
    BY DEF KeysTable, CurrentTables, Table
  <2>4. key = ForeignKey(key.on, key.schema, key.table, key.ondelete) /\ key.ondelete # "any"
    BY DEF ForeignKey
  <2>5. /\ e1.name = "id" /\ e2.name = "key_hash" /\ e3.name = "data"
        /\ e4.name = "application_id" /\ e5.name = "stamps" /\ r1.name = "id"
        /\ r2.name = "key_hash" /\ r3.name = "data" /\ r4.name = "application_id"
        /\ r5.name = "stamps"
    BY DEF Serial, Expect, Id, Required, Optional, Now, Score, Column
  <2>6. /\ Serves(e1, r1) /\ Serves(e2, r2) /\ Serves(e3, r3) /\ Serves(e4, r4)
        /\ Serves(e5, r5)
    BY DEF Serves, Serial, Expect, Id, Required, Optional, Now, Score, Column
  <2> HIDE DEF spec, ref, key, e1, e2, e3, e4, e5, r1, r2, r3, r4, r5
  <2>7. Names(spec.cols) = {"id", "key_hash", "data", "application_id", "stamps"}
    BY <2>1, <2>5 DEF Names
  <2>8. Names(ref.cols) = {"id", "key_hash", "data", "application_id", "stamps"}
    BY <2>2, <2>5 DEF Names
  <2>9. \A e \in spec.cols, r \in ref.cols : e.name = r.name => Serves(e, r)
    BY <2>1, <2>2, <2>5, <2>6
  <2>12. \A c, r \in ref.cols : c.name = r.name => c = r
    BY <2>2, <2>5
  <2>10. Names(spec.cols) = Names(ref.cols)
    BY <2>7, <2>8
  <2>11. Matches(spec, ref)
    BY <2>3, <2>9, <2>10, <2>12, <2>4 DEF Matches, Serves
  <2> QED BY <2>11 DEF spec, ref
<1> QED BY <1>0, <1>1, <1>2, <1>3, <1>4, <1>5, <1>6 DEF Tables

-----------------------------------------------------------------------------

(* A table of a list fits itself.                                            *)
LEMMA SelfFits ==
    ASSUME NEW spec, NEW reference, Matches(spec, reference)
    PROVE  Fits(reference, reference)
<1>1. \A c, r \in reference.cols : c.name = r.name => c = r
  BY DEF Matches
<1> QED BY <1>1 DEF Fits

LEMMA RevisionTablesFit ==
    /\ \A t \in LegacyNames : Fits(Baseline[t], Baseline[t])
    /\ Fits(CapabilityTable, CapabilityTable) /\ Fits(KeysTable, KeysTable)
<1>1. \A t \in LegacyNames : Fits(Baseline[t], Baseline[t])
  BY FingerprintMatches, SelfFits
<1>2. SchemaAt(Newest)["capabilities"] = CapabilityTable /\ SchemaAt(Newest)["keys"] = KeysTable
  BY SchemaTables, Newest \in 1 .. Newest DEF Newest
<1>3. {"capabilities", "keys"} \subseteq Tables
  BY DEF Tables
<1> QED BY <1>1, <1>2, <1>3, GuardMatches, SelfFits

(* One column more on both sides, or one foreign key.                        *)
LEMMA ColumnAdded ==
    ASSUME NEW t, WellFormed(t), NEW r, WellFormed(r), NEW col
    PROVE  /\ WithColumn(t, col).cols = t.cols \union {col}
           /\ WellFormed(WithColumn(t, col))
           /\ Names(WithColumn(t, col).cols) = Names(t.cols) \union {col.name}
           /\ col.name \notin Names(r.cols) /\ Fits(t, r) =>
                 Fits(WithColumn(t, col), WithColumn(r, col))
<1>1. ASSUME NEW u, WellFormed(u)
      PROVE  WithColumn(u, col) = [cols |-> u.cols \union {col}, pk |-> u.pk,
                                   uniques |-> u.uniques, fks |-> u.fks]
  <2> DEFINE cols == u.cols
             pk == u.pk
             uniques == u.uniques
             fks == u.fks
  <2>1. u = [cols |-> cols, pk |-> pk, uniques |-> uniques, fks |-> fks]
    BY <1>1 DEF WellFormed
  <2> HIDE DEF cols, pk, uniques, fks
  <2>2. WithColumn(u, col) = [cols |-> cols \union {col}, pk |-> pk, uniques |-> uniques,
                              fks |-> fks]
    BY <2>1 DEF WithColumn
  <2> QED BY <2>2 DEF cols, pk, uniques, fks
<1> DEFINE tc == WithColumn(t, col)
           rc == WithColumn(r, col)
<1>2. /\ tc.cols = t.cols \union {col} /\ tc.pk = t.pk
      /\ tc.uniques = t.uniques /\ tc.fks = t.fks
      /\ tc = [cols |-> tc.cols, pk |-> tc.pk, uniques |-> tc.uniques, fks |-> tc.fks]
  BY <1>1
<1>3. /\ rc.cols = r.cols \union {col} /\ rc.pk = r.pk
      /\ rc.uniques = r.uniques /\ rc.fks = r.fks
  BY <1>1
<1> HIDE DEF tc, rc
<1>4. Names(tc.cols) = Names(t.cols) \union {col.name}
  BY <1>2 DEF Names
<1>5. Names(rc.cols) = Names(r.cols) \union {col.name}
  BY <1>3 DEF Names
<1>6. WellFormed(tc)
  BY <1>2 DEF WellFormed
<1>7. ASSUME col.name \notin Names(r.cols), Fits(t, r)
      PROVE  Fits(tc, rc)
  <2>1. Names(t.cols) = Names(r.cols)
    BY <1>7 DEF Fits
  <2>2. ASSUME NEW c \in tc.cols, NEW d \in rc.cols, c.name = d.name
        PROVE  /\ c.type = d.type /\ c.nullable = d.nullable
               /\ d.default # "none" => c.default # "none"
    <3>1. CASE c \in t.cols /\ d \in r.cols
      BY <1>7, <2>2, <3>1 DEF Fits
    <3>2. CASE c = col \/ d = col
      <4>1. \A x \in t.cols : x.name # col.name
        BY <1>7, <2>1 DEF Names
      <4>2. \A x \in r.cols : x.name # col.name
        BY <1>7 DEF Names
      <4> QED BY <1>2, <1>3, <2>2, <3>2, <4>1, <4>2
    <3> QED BY <1>2, <1>3, <3>1, <3>2
  <2>3. Names(tc.cols) = Names(rc.cols)
    BY <1>4, <1>5, <2>1
  <2>4. tc.pk = rc.pk /\ rc.uniques \subseteq tc.uniques /\ rc.fks \subseteq tc.fks
    BY <1>2, <1>3, <1>7 DEF Fits
  <2> QED BY <2>2, <2>3, <2>4 DEF Fits
<1> QED BY <1>2, <1>4, <1>6, <1>7 DEF tc, rc

LEMMA KeyAdded ==
    ASSUME NEW t, WellFormed(t), NEW r, WellFormed(r)
    PROVE  LET tk == [t EXCEPT !.fks = @ \union {ServiceKey}]
               rk == [r EXCEPT !.fks = @ \union {ServiceKey}]
           IN  /\ tk.cols = t.cols /\ WellFormed(tk)
               /\ Fits(t, r) => Fits(tk, rk)
<1>1. ASSUME NEW u, WellFormed(u)
      PROVE  [u EXCEPT !.fks = @ \union {ServiceKey}]
               = [cols |-> u.cols, pk |-> u.pk, uniques |-> u.uniques,
                  fks |-> u.fks \union {ServiceKey}]
  <2> DEFINE cols == u.cols
             pk == u.pk
             uniques == u.uniques
             fks == u.fks
  <2>1. u = [cols |-> cols, pk |-> pk, uniques |-> uniques, fks |-> fks]
    BY <1>1 DEF WellFormed
  <2> HIDE DEF cols, pk, uniques, fks
  <2>2. [u EXCEPT !.fks = @ \union {ServiceKey}]
          = [cols |-> cols, pk |-> pk, uniques |-> uniques, fks |-> fks \union {ServiceKey}]
    BY <2>1
  <2> QED BY <2>2 DEF cols, pk, uniques, fks
<1> DEFINE tk == [t EXCEPT !.fks = @ \union {ServiceKey}]
           rk == [r EXCEPT !.fks = @ \union {ServiceKey}]
<1>2. /\ tk.cols = t.cols /\ tk.pk = t.pk
      /\ tk.uniques = t.uniques /\ tk.fks = t.fks \union {ServiceKey}
      /\ tk = [cols |-> tk.cols, pk |-> tk.pk, uniques |-> tk.uniques, fks |-> tk.fks]
  BY <1>1
<1>3. /\ rk.cols = r.cols /\ rk.pk = r.pk
      /\ rk.uniques = r.uniques /\ rk.fks = r.fks \union {ServiceKey}
  BY <1>1
<1>4. ServiceKey = ForeignKey(ServiceKey.on, ServiceKey.schema, ServiceKey.table,
                              ServiceKey.ondelete)
  BY DEF ServiceKey, ForeignKey
<1> HIDE DEF tk, rk
<1>5. WellFormed(tk)
  BY <1>2, <1>4 DEF WellFormed
<1>6. Fits(t, r) => Fits(tk, rk)
  BY <1>2, <1>3 DEF Fits
<1> QED BY <1>2, <1>5, <1>6 DEF tk, rk

(* What the migrations build is well formed.                                 *)
LEMMA BuiltWellFormed ==
    /\ \A t \in LegacyNames : WellFormed(Baseline[t])
    /\ WellFormed(CapabilityTable) /\ WellFormed(KeysTable)
    /\ WellFormed(Serviced(Baseline["applications"]))
    /\ Names(Baseline["applications"].cols) = {"id", "data", "note", "stamps"}
    /\ Names(Serviced(Baseline["applications"]).cols)
         = {"id", "data", "note", "stamps", "service_id"}
<1>1. ASSUME NEW cols, NEW uniques, NEW fks,
             \A f \in fks : f = ForeignKey(f.on, f.schema, f.table, f.ondelete)
      PROVE  WellFormed(Table(cols, uniques, fks))
  BY <1>1 DEF WellFormed, Table
<1> DEFINE key == ForeignKey("application_id", "public", "applications", "CASCADE")
<1>2. key = ForeignKey(key.on, key.schema, key.table, key.ondelete)
  BY DEF ForeignKey
<1>3. \A t \in LegacyNames : WellFormed(Baseline[t])
  <2>1. \A t \in {"admins", "settings", "applications"} : WellFormed(Baseline[t])
    BY <1>1 DEF Baseline
  <2>2. Baseline["metrics"] = Table({Id, Required("application_id", "int"),
            Required("flags", "counts"), Now}, {{"application_id"}}, {key})
    BY DEF Baseline
  <2> HIDE DEF key
  <2>3. WellFormed(Baseline["metrics"])
    BY <1>1, <1>2, <2>2
  <2> QED BY <2>1, <2>3 DEF LegacyNames
<1>4. WellFormed(CapabilityTable) /\ WellFormed(KeysTable)
  BY <1>1, <1>2 DEF CapabilityTable, KeysTable
<1> DEFINE orders == Baseline["applications"]
           column == Optional("service_id", "int")
           with == WithColumn(orders, column)
<1>5. WellFormed(with) /\ Names(with.cols) = Names(orders.cols) \union {column.name}
  BY <1>3, ColumnAdded DEF LegacyNames
<1>6. /\ WellFormed(Serviced(orders))
      /\ Serviced(orders).cols = with.cols
  BY <1>5, KeyAdded DEF Serviced
<1>7. Names(orders.cols) = {"id", "data", "note", "stamps"}
  <2>1. orders.cols = {Id, Required("data", "fields"), Optional("note", "text"), Now}
    BY DEF Baseline, Table
  <2> HIDE DEF orders
  <2> QED BY <2>1 DEF Names, Id, Required, Optional, Now, Column
<1>8. column.name = "service_id"
  BY DEF Optional, Column
<1> HIDE DEF orders, column, with
<1>9. Names(Serviced(orders).cols) = {"id", "data", "note", "stamps", "service_id"}
  BY <1>5, <1>6, <1>7, <1>8
<1> QED BY <1>3, <1>4, <1>6, <1>7, <1>9 DEF orders

(* The migrations keep tables well formed and complete what is there.        *)
LEMMA UpgradeFits ==
    ASSUME NEW shape, DOMAIN shape = Tables, \A t \in Tables : WellFormed(shape[t]),
           NEW v \in 0 .. Newest, v > 0 => ShapeFits(shape, v)
    PROVE  LET up == Upgraded(shape, v, Newest) IN
           /\ DOMAIN up = Tables
           /\ \A t \in Tables : WellFormed(up[t])
           /\ ShapeFits(up, Newest)
<1> DEFINE up == Upgraded(shape, v, Newest)
           orders == Baseline["applications"]
           one == IF v < 1 THEN orders ELSE shape["applications"]
           three == IF v < 3 THEN Serviced(one) ELSE one
<1>1. v \in Int /\ 0 <= v /\ v <= 4 /\ Newest = 4 /\ Newest \in v .. Newest
  BY DEF Newest
<1>2. /\ DOMAIN up = Tables
      /\ \A t \in {"admins", "settings", "metrics"} :
            up[t] = IF v < 1 THEN Baseline[t] ELSE shape[t]
      /\ up["capabilities"] = IF v < 2 THEN CapabilityTable ELSE shape["capabilities"]
      /\ up["keys"] = IF v < 3 THEN KeysTable ELSE shape["keys"]
      /\ up["applications"] = IF v < 4 THEN Scored(three) ELSE three
  BY <1>1, UpgradedTables
<1> HIDE DEF up
<1>3. /\ \A t \in {"admins", "settings", "metrics"} : SchemaAt(4)[t] = Baseline[t]
      /\ SchemaAt(4)["capabilities"] = CapabilityTable
      /\ SchemaAt(4)["keys"] = KeysTable
      /\ SchemaAt(4)["applications"] = Scored(Serviced(orders))
  BY SchemaTables DEF Newest
<1>4. \A t \in Tables : SchemaAt(4)[t] # Absent
  BY <1>3, ColumnsPresent DEF Tables, LegacyNames
<1>5. v > 0 => /\ \A t \in {"admins", "settings", "metrics"} : Fits(shape[t], Baseline[t])
               /\ v >= 2 => Fits(shape["capabilities"], CapabilityTable)
               /\ v >= 3 => Fits(shape["keys"], KeysTable)
               /\ v < 3 => Fits(shape["applications"], orders)
               /\ v = 3 => Fits(shape["applications"], Serviced(orders))
               /\ v = 4 => Fits(shape["applications"], Scored(Serviced(orders)))
  <2>1. SUFFICES ASSUME v > 0
        PROVE  /\ \A t \in {"admins", "settings", "metrics"} : Fits(shape[t], Baseline[t])
               /\ v >= 2 => Fits(shape["capabilities"], CapabilityTable)
               /\ v >= 3 => Fits(shape["keys"], KeysTable)
               /\ v < 3 => Fits(shape["applications"], orders)
               /\ v = 3 => Fits(shape["applications"], Serviced(orders))
               /\ v = 4 => Fits(shape["applications"], Scored(Serviced(orders)))
    OBVIOUS
  <2>2. v \in 1 .. Newest
    BY <1>1, <2>1
  <2>3. \A t \in Tables : SchemaAt(v)[t] # Absent => Fits(shape[t], SchemaAt(v)[t])
    BY <2>1 DEF ShapeFits
  <2> QED BY <1>1, <2>2, <2>3, SchemaTables, ColumnsPresent DEF Tables, LegacyNames
<1>6. WellFormed(one) /\ WellFormed(orders) /\ (v < 3 => Fits(one, orders))
  <2>1. "applications" \in Tables /\ "applications" \in LegacyNames
    BY DEF Tables, LegacyNames
  <2> QED BY <1>1, <1>5, <2>1, BuiltWellFormed, RevisionTablesFit
<1>7. WellFormed(three) /\ WellFormed(Serviced(orders))
      /\ (v < 4 => Fits(three, Serviced(orders)))
  <2>1. CASE v >= 3
    BY <1>1, <1>5, <1>6, <2>1, BuiltWellFormed
  <2>2. CASE v < 3
    <3> DEFINE column == Optional("service_id", "int")
               with == WithColumn(one, column)
               base == WithColumn(orders, column)
    <3>1. column.name = "service_id"
      BY DEF Optional, Column
    <3>2. Serviced(one) = [with EXCEPT !.fks = @ \union {ServiceKey}]
          /\ Serviced(orders) = [base EXCEPT !.fks = @ \union {ServiceKey}]
      BY DEF Serviced
    <3>3. column.name \notin Names(orders.cols)
      BY <3>1, BuiltWellFormed
    <3> HIDE DEF one, orders, column
    <3>4. WellFormed(with) /\ WellFormed(base) /\ Fits(with, base)
      BY <1>6, <2>2, <3>3, ColumnAdded
    <3> HIDE DEF with, base
    <3>5. LET tk == [with EXCEPT !.fks = @ \union {ServiceKey}]
              rk == [base EXCEPT !.fks = @ \union {ServiceKey}]
          IN  WellFormed(tk) /\ Fits(tk, rk)
      BY <3>4, KeyAdded
    <3>6. WellFormed(Serviced(one)) /\ Fits(Serviced(one), Serviced(orders))
      BY <3>2, <3>5
    <3> QED BY <2>2, <3>6, BuiltWellFormed DEF orders
  <2> QED BY <1>1, <2>1, <2>2
<1>8. WellFormed(up["applications"]) /\ Fits(up["applications"], SchemaAt(4)["applications"])
  <2>1. CASE v = 4
    BY <1>1, <1>2, <1>3, <1>5, <1>7, <2>1
  <2>2. CASE v < 4
    <3>1. Score.name = "priority_score"
      BY DEF Score, Column
    <3>2. Score.name \notin Names(Serviced(orders).cols)
      BY <3>1, BuiltWellFormed
    <3> HIDE DEF three, orders
    <3>3. WellFormed(Scored(three)) /\ Fits(Scored(three), Scored(Serviced(orders)))
      BY <1>7, <2>2, <3>2, ColumnAdded DEF Scored
    <3> QED BY <1>2, <1>3, <2>2, <3>3
  <2> QED BY <1>1, <2>1, <2>2
<1>9. \A t \in Tables \ {"applications"} : WellFormed(up[t]) /\ Fits(up[t], SchemaAt(4)[t])
  <2>1. \A t \in {"admins", "settings", "metrics"} :
            WellFormed(up[t]) /\ Fits(up[t], SchemaAt(4)[t])
    BY <1>1, <1>2, <1>3, <1>5, BuiltWellFormed, RevisionTablesFit DEF Tables, LegacyNames
  <2>2. \A t \in {"capabilities", "keys"} : WellFormed(up[t]) /\ Fits(up[t], SchemaAt(4)[t])
    BY <1>1, <1>2, <1>3, <1>5, BuiltWellFormed, RevisionTablesFit DEF Tables
  <2> QED BY <2>1, <2>2 DEF Tables
<1>10. ShapeFits(up, Newest)
  BY <1>1, <1>4, <1>8, <1>9 DEF ShapeFits
<1> QED BY <1>2, <1>8, <1>9, <1>10 DEF up

(* A table that fits one with an id is there.                                *)
LEMMA PresentTables ==
    ASSUME NEW shape, NEW v \in 1 .. Newest, ShapeFits(shape, v)
    PROVE  /\ LegacyNames \subseteq Existing(shape)
           /\ "capabilities" \in Existing(shape) <=> v >= 2
           /\ "keys" \in Existing(shape) <=> v >= 3
           /\ v = Newest => Existing(shape) = Tables
<1>1. v \in Int /\ 1 <= v /\ v <= 4 /\ Newest = 4
  BY DEF Newest
<1>2. ASSUME NEW t \in Tables, SchemaAt(v)[t] # Absent PROVE shape[t] # Absent
  <2>1. Fits(shape[t], SchemaAt(v)[t])
    BY <1>2 DEF ShapeFits
  <2>2. Names(SchemaAt(v)[t].cols) # {}
    <3>1. Id \in SchemaAt(v)[t].cols
      <4>1. \A s \in LegacyNames : Id \in Baseline[s].cols
        BY DEF Baseline, LegacyNames, Table
      <4>2. Id \in CapabilityTable.cols /\ Id \in KeysTable.cols
        BY DEF CapabilityTable, KeysTable, Table
      <4>3. /\ Id \in Serviced(Baseline["applications"]).cols
            /\ Id \in Scored(Serviced(Baseline["applications"])).cols
        BY LaterOrders DEF Table
      <4> QED BY <1>1, <1>2, <4>1, <4>2, <4>3, SchemaTables DEF Tables, LegacyNames
    <3> QED BY <3>1 DEF Names
  <2>3. Names(Absent.cols) = {}
    BY DEF Names, Absent, Table
  <2> QED BY <2>1, <2>2, <2>3 DEF Fits
<1>3. \A t \in Tables : SchemaAt(v)[t] = Absent => shape[t] = Absent
  BY DEF ShapeFits
<1>4. \A t \in Tables : t \in Existing(shape) <=> SchemaAt(v)[t] # Absent
  BY <1>2, <1>3 DEF Existing
<1> QED BY <1>1, <1>4, PresentAt DEF Tables, LegacyNames, Existing

\* Every table of the database is well formed.
TablesOK == DOMAIN tables = Tables /\ \A t \in Tables : WellFormed(tables[t])

(* What the guard lets pass is the newest schema, whatever the database.     *)
LEMMA GuardTells ==
    ASSUME TablesOK, DatabaseReady PROVE FitsRevision(Newest)
<1>1. \A t \in Tables : Fits(tables[t], SchemaAt(Newest)[t])
  BY GuardMatches, AcceptedFits DEF TablesOK, DatabaseReady
<1>2. \A t \in Tables : tables[t] # Absent
  BY DEF DatabaseReady, Existing
<1>3. \A t \in Tables : SchemaAt(Newest)[t] # Absent
  BY SchemaTables, ColumnsPresent, Newest \in 1 .. Newest DEF Newest, Tables, LegacyNames
<1> QED BY <1>1, <1>3 DEF FitsRevision, ShapeFits

(* What the fingerprint lets pass is the legacy schema, and the next id of   *)
(* its orders is free.                                                       *)
LEMMA FingerprintTells ==
    ASSUME TablesOK, NEW s, Fingerprint(s)
    PROVE  /\ Existing(tables) = LegacyNames
           /\ FitsRevision(1)
           /\ s.maxId > 0 => ~ (NextValue(s) <= s.maxId)
<1>1. /\ Existing(tables) = LegacyNames
      /\ \A t \in LegacyNames :
            TableProblems(tables[t], LegacyTables[t], SequenceOf(t, s)) = {}
  BY DEF Fingerprint
<1>2. FitsRevision(1)
  <2>1. 1 \in 1 .. Newest
    BY DEF Newest
  <2>2. /\ \A t \in LegacyNames : SchemaAt(1)[t] = Baseline[t]
        /\ SchemaAt(1)["capabilities"] = Absent /\ SchemaAt(1)["keys"] = Absent
    BY <2>1, SchemaTables DEF LegacyNames
  <2>3. \A t \in LegacyNames : Fits(tables[t], Baseline[t])
    BY <1>1, FingerprintMatches, AcceptedFits DEF TablesOK, Tables, LegacyNames
  <2>4. tables["capabilities"] = Absent /\ tables["keys"] = Absent
    BY <1>1 DEF Existing, Tables, LegacyNames
  <2> QED BY <2>2, <2>3, <2>4, ColumnsPresent DEF FitsRevision, ShapeFits, Tables, LegacyNames
<1>3. s.maxId > 0 => ~ (NextValue(s) <= s.maxId)
  <2> DEFINE orders == tables["applications"]
             spec == LegacyTables["applications"]
  <2>1. TableProblems(orders, spec, s) = {}
    BY <1>1 DEF SequenceOf, LegacyNames
  <2>2. Serial \in spec.cols
    BY DEF LegacyTables, Table
  <2> HIDE DEF orders, spec
  <2>3. PICK c \in orders.cols : c.name = Serial.name
    <3>1. Serial.name \in Names(orders.cols)
      BY <2>1, <2>2, NoProblems DEF Names
    <3> QED BY <3>1 DEF Names
  <2>4. ColumnProblems(c, Serial, s) = {}
    BY <2>1, <2>2, <2>3, NoProblems
  <2>5. c.default # "none" /\ SerialProblems(c.default, s) = {}
    BY <2>4, AcceptedColumn DEF Serial
  <2>6. "behind" \notin SerialProblems(c.default, s)
    BY <2>5
  <2>7. c.default = "nextval" /\ s.owned /\ s.same
    BY <2>5 DEF SerialProblems
  <2> QED BY <2>5, <2>6, <2>7 DEF SerialProblems
<1> QED BY <1>1, <1>2, <1>3

-----------------------------------------------------------------------------

(* The script's statements by their places.                                  *)
LEMMA ScriptIs ==
    /\ Len(Script) = 11
    /\ Script[1] = "migration role" /\ Script[2] = "migration password"
    /\ Script[3] = "app role" /\ Script[4] = "app password" /\ Script[5] = "open schema"
    /\ Script[6] = "future tables" /\ Script[7] = "future sequences"
    /\ Script[8] = "grant tables" /\ Script[9] = "grant sequences"
    /\ Script[10] = "look" /\ Script[11] = "revoke"
BY DEF Script

(* It looks for alembic_version only when the grants are made.               *)
LEMMA LooksLate == \A at \in 1 .. 9 : Script[at] # "look"
<1> SUFFICES ASSUME NEW at \in 1 .. 9 PROVE Script[at] # "look"
  OBVIOUS
<1>1. \/ at = 1 \/ at = 2 \/ at = 3 \/ at = 4 \/ at = 5 \/ at = 6 \/ at = 7
      \/ at = 8 \/ at = 9
  OBVIOUS
<1> QED BY <1>1, ScriptIs

(* What one statement changes.                                               *)
LEMMA StatementLeaves ==
    ASSUME NEW a \in Access, NEW at \in 1 .. 11
    PROVE  LET b == After(Script[at], a) IN
           /\ b \in Access
           /\ a.future \subseteq b.future /\ a.draws \subseteq b.draws
           /\ a.crud \intersect Tables \subseteq b.crud
           /\ at = 6 => "tables" \in b.future
           /\ at = 7 => "sequences" \in b.future
           /\ at = 8 => Existing(tables) \subseteq b.crud
           /\ at = 9 => Existing(tables) \subseteq b.draws
           /\ at = 11 => VersionTable \notin b.crud
<1> DEFINE b == After(Script[at], a)
<1>0. /\ a = [role |-> a.role, opened |-> a.opened, future |-> a.future,
              crud |-> a.crud, draws |-> a.draws]
      /\ a.role \in [{"migration", "app"} -> {"absent", "bare", "ready"}]
      /\ a.opened \in BOOLEAN /\ a.future \subseteq Rights
      /\ a.crud \subseteq Tables \union {VersionTable} /\ a.draws \subseteq Tables
  BY DEF Access
<1>1. VersionTable \notin Tables /\ Existing(tables) \subseteq Tables
  BY DEF VersionTable, Tables, Existing
<1>2. CASE at \in {1, 3}
  <2>1. PICK r \in {"migration", "app"} : b = RoleCreated(a, r)
    BY <1>2, ScriptIs DEF After
  <2> DEFINE made == IF a.role[r] = "absent" THEN "bare" ELSE a.role[r]
  <2>2. b = [a EXCEPT !.role = [a.role EXCEPT ![r] = made]]
    BY <2>1, <1>0 DEF RoleCreated
  <2>3. [a.role EXCEPT ![r] = made] \in [{"migration", "app"} -> {"absent", "bare", "ready"}]
    BY <1>0
  <2> HIDE DEF b, made
  <2>4. b \in Access /\ b.future = a.future /\ b.crud = a.crud /\ b.draws = a.draws
    BY <1>0, <2>2, <2>3 DEF Access
  <2> QED BY <1>2, <2>4 DEF b
<1>3. CASE at \in {2, 4}
  <2>1. PICK r \in {"migration", "app"} : b = [a EXCEPT !.role[r] = "ready"]
    BY <1>3, ScriptIs DEF After
  <2>2. b = [a EXCEPT !.role = [a.role EXCEPT ![r] = "ready"]]
    BY <2>1, <1>0
  <2>3. [a.role EXCEPT ![r] = "ready"]
           \in [{"migration", "app"} -> {"absent", "bare", "ready"}]
    BY <1>0
  <2> HIDE DEF b
  <2>4. b \in Access /\ b.future = a.future /\ b.crud = a.crud /\ b.draws = a.draws
    BY <1>0, <2>2, <2>3 DEF Access
  <2> QED BY <1>3, <2>4 DEF b
<1>4. CASE at = 5
  <2>1. b = [a EXCEPT !.opened = TRUE]
    BY <1>4, ScriptIs DEF After
  <2> HIDE DEF b
  <2>2. b \in Access /\ b.future = a.future /\ b.crud = a.crud /\ b.draws = a.draws
    BY <1>0, <2>1 DEF Access
  <2> QED BY <1>4, <2>2 DEF b
<1>5. CASE at \in {6, 7}
  <2>1. PICK right \in Rights : /\ b = [a EXCEPT !.future = a.future \union {right}]
                                /\ at = 6 => right = "tables"
                                /\ at = 7 => right = "sequences"
    BY <1>5, ScriptIs DEF After, Rights
  <2> HIDE DEF b
  <2>2. b \in Access /\ b.future = a.future \union {right} /\ b.crud = a.crud /\ b.draws = a.draws
    BY <1>0, <2>1 DEF Access
  <2> QED BY <1>5, <2>1, <2>2 DEF b
<1>6. CASE at = 8
  <2> DEFINE all == Existing(tables) \union (IF version > 0 THEN {VersionTable} ELSE {})
  <2>1. b = [a EXCEPT !.crud = a.crud \union all]
    BY <1>6, ScriptIs DEF After
  <2>2. Existing(tables) \subseteq all /\ all \subseteq Tables \union {VersionTable}
    BY <1>1
  <2> HIDE DEF b, all
  <2>3. /\ b \in Access /\ b.future = a.future /\ b.crud = a.crud \union all
        /\ b.draws = a.draws
    BY <1>0, <2>1, <2>2 DEF Access
  <2> QED BY <1>6, <2>2, <2>3 DEF b
<1>7. CASE at = 9
  <2>1. b = [a EXCEPT !.draws = a.draws \union Existing(tables)]
    BY <1>7, ScriptIs DEF After
  <2> HIDE DEF b
  <2>2. /\ b \in Access /\ b.future = a.future /\ b.crud = a.crud
        /\ b.draws = a.draws \union Existing(tables)
    BY <1>0, <1>1, <2>1 DEF Access
  <2> QED BY <1>7, <2>2 DEF b
<1>8. CASE at = 10
  BY <1>8, ScriptIs DEF After
<1>9. CASE at = 11
  <2>1. b = [a EXCEPT !.crud = a.crud \ {VersionTable}]
    BY <1>9, ScriptIs DEF After
  <2> HIDE DEF b
  <2>2. /\ b \in Access /\ b.future = a.future /\ b.crud = a.crud \ {VersionTable}
        /\ b.draws = a.draws
    BY <1>0, <2>1 DEF Access
  <2> QED BY <1>1, <1>9, <2>2 DEF b
<1> HIDE DEF b
<1> QED BY <1>2, <1>3, <1>4, <1>5, <1>6, <1>7, <1>8, <1>9

(* What the runtime role gets on new tables.                                 *)
LEMMA InheritedLeaves ==
    ASSUME NEW a \in Access, NEW created \in SUBSET (Tables \union {VersionTable})
    PROVE  LET b == Inherited(a, created) IN
           /\ b \in Access
           /\ b.future = a.future /\ b.role = a.role /\ b.opened = a.opened
           /\ a.crud \subseteq b.crud /\ a.draws \subseteq b.draws
           /\ a.future = Rights => /\ created \subseteq b.crud
                                   /\ created \ {VersionTable} \subseteq b.draws
<1> DEFINE more == IF "tables" \in a.future THEN created ELSE {}
           ids == IF "sequences" \in a.future THEN created \ {VersionTable} ELSE {}
           b == Inherited(a, created)
<1>1. /\ a = [role |-> a.role, opened |-> a.opened, future |-> a.future,
              crud |-> a.crud, draws |-> a.draws]
      /\ a.role \in [{"migration", "app"} -> {"absent", "bare", "ready"}]
      /\ a.opened \in BOOLEAN /\ a.future \subseteq Rights
      /\ a.crud \subseteq Tables \union {VersionTable} /\ a.draws \subseteq Tables
  BY DEF Access
<1>2. b = [[a EXCEPT !.crud = a.crud \union more] EXCEPT !.draws = a.draws \union ids]
  BY <1>1 DEF Inherited
<1>3. /\ more \subseteq Tables \union {VersionTable} /\ ids \subseteq Tables
      /\ a.future = Rights => more = created /\ ids = created \ {VersionTable}
  BY DEF Rights
<1> HIDE DEF more, ids, b
<1>4. /\ b.role = a.role /\ b.opened = a.opened /\ b.future = a.future
      /\ b.crud = a.crud \union more /\ b.draws = a.draws \union ids
      /\ b \in Access
  BY <1>1, <1>2, <1>3 DEF Access
<1> QED BY <1>3, <1>4 DEF b

LEMMA CreatesIs ==
    /\ Creates(0) = Tables /\ Creates(Newest) = {}
    /\ \A v \in 1 .. Newest : /\ Creates(v) \intersect LegacyNames = {}
                              /\ "capabilities" \in Creates(v) <=> v < 2
                              /\ "keys" \in Creates(v) <=> v < 3
    /\ \A v \in 0 .. Newest : Creates(v) \subseteq Tables
BY DEF Creates, Tables, LegacyNames, Newest

LEMMA SequenceFacts ==
    /\ FreshSequence \in Sequence
    /\ \A s \in Sequence : NextValue(s) \in Nat \ {0} /\ s.maxId \in Nat
BY BoundsAssumption DEF FreshSequence, Sequence, NextValue

(* Placing an order moves the sequence on.                                   *)
LEMMA PlacedSequence ==
    ASSUME LifecycleTypeOK, PlaceOrder
    PROVE  /\ seq' \in Sequence
           /\ NextValue(seq') = NextValue(seq) + 1
           /\ seq'.maxId = IF NextValue(seq) > seq.maxId THEN NextValue(seq) ELSE seq.maxId
<1> DEFINE id == NextValue(seq)
           top == IF id > seq.maxId THEN id ELSE seq.maxId
<1>1. seq' = [[[seq EXCEPT !.last = id] EXCEPT !.called = TRUE] EXCEPT !.maxId = top]
      /\ id <= MaxId
  BY DEF PlaceOrder
<1>2. /\ seq = [owned |-> seq.owned, same |-> seq.same, ordinary |-> seq.ordinary,
                last |-> seq.last, called |-> seq.called, maxId |-> seq.maxId]
      /\ seq.owned \in BOOLEAN /\ seq.same \in BOOLEAN /\ seq.ordinary \in BOOLEAN
      /\ seq.last \in 1 .. MaxId /\ seq.maxId \in 0 .. MaxId /\ seq \in Sequence
  BY DEF LifecycleTypeOK, Sequence
<1>3. id \in 1 .. MaxId /\ top \in 0 .. MaxId
  BY <1>1, <1>2, SequenceFacts, BoundsAssumption
<1> HIDE DEF id, top
<1>4. /\ seq'.owned = seq.owned /\ seq'.same = seq.same /\ seq'.ordinary = seq.ordinary
      /\ seq'.last = id /\ seq'.called = TRUE /\ seq'.maxId = top
      /\ seq' \in Sequence
  BY <1>1, <1>2, <1>3 DEF Sequence
<1> QED BY <1>4 DEF NextValue, id, top

LEMMA RestingFacts ==
    /\ Resting.pc = "idle" /\ Resting.todo = {} /\ Resting.saw = FreshSequence
    /\ Resting \in [pc : {"idle", "check", "verify", "compare", "own", "stamp"},
                    todo : SUBSET LegacyNames, saw : Sequence]
BY SequenceFacts DEF Resting

(* A step of the system keeps the types.                                     *)
LEMMA TypeStep ==
    ASSUME LifecycleTypeOK, TablesOK, version > 0 => FitsRevision(version), LifecycleNext
    PROVE  LifecycleTypeOK' /\ TablesOK'
<1> USE DEF LifecycleTypeOK, TablesOK
<1>0. Len(Script) = 11
  BY ScriptIs
<1> DEFINE Phases == {"idle", "check", "verify", "compare", "own", "stamp"}
           Adoptions == [pc : Phases, todo : SUBSET LegacyNames, saw : Sequence]
           Links == [link : {"idle", "bootstrap", "migrate", "finalize", "start"},
                     at : 1 .. 11]
<1>1. CASE StartChain
  BY <1>0, <1>1 DEF StartChain
<1>2. CASE RunStatement
  <2>1. access' \in Access
    BY <1>0, <1>2, StatementLeaves DEF RunStatement
  <2>2. chain' \in Links
    <3>1. CASE Ends
      BY <1>2, <3>1 DEF RunStatement
    <3>2. CASE ~Ends
      <4>1. chain' = [chain EXCEPT !.at = chain.at + 1] /\ chain.at # 11
        BY <1>0, <1>2, <3>2 DEF RunStatement, Ends
      <4> QED BY <1>0, <4>1
    <3> QED BY <3>1, <3>2
  <2> QED BY <1>0, <1>2, <2>1, <2>2 DEF RunStatement
<1>3. CASE Migrate
  <2>1. chain' \in Links /\ UNCHANGED <<seq, adoption, backend, crashes>>
    BY <1>3 DEF Migrate
  <2>2. CASE UNCHANGED <<tables, owner, version, access>>
    BY <1>0, <2>1, <2>2
  <2>3. CASE /\ tables' = Upgraded(tables, version, Newest)
             /\ owner' = CreatedByMigration(Creates(version))
             /\ version' = Newest
             /\ access' = Inherited(access, Creates(version) \union
                                       (IF version = 0 THEN {VersionTable} ELSE {}))
    <3>1. DOMAIN tables' = Tables /\ \A t \in Tables : WellFormed(tables'[t])
      BY <2>3, UpgradeFits DEF FitsRevision
    <3>2. owner' \in [Tables -> {"admin", "migration"}]
      BY <2>3 DEF CreatedByMigration
    <3>3. version' \in 0 .. Newest
      BY <2>3 DEF Newest
    <3>4. access' \in Access
      <4> DEFINE created == Creates(version) \union
                              (IF version = 0 THEN {VersionTable} ELSE {})
      <4>1. created \in SUBSET (Tables \union {VersionTable})
        BY CreatesIs
      <4> HIDE DEF created
      <4>2. Inherited(access, created) \in Access
        BY <4>1, InheritedLeaves
      <4> QED BY <2>3, <4>2 DEF created
    <3> QED BY <1>0, <2>1, <3>1, <3>2, <3>3, <3>4
  <2> QED BY <1>3, <2>2, <2>3 DEF Migrate
<1>4. CASE ReplaceBackend
  BY <1>0, <1>4 DEF ReplaceBackend
<1>5. CASE StartAdoption \/ CheckAdopted \/ VerifyShape
  <2>1. adoption' \in Adoptions
    BY <1>5, SequenceFacts, RestingFacts DEF StartAdoption, CheckAdopted, VerifyShape, Go
  <2> QED BY <1>5, <2>1 DEF StartAdoption, CheckAdopted, VerifyShape
<1>6. CASE VerifyIds
  <2>1. adoption' \in Adoptions
    <3>1. ToReassign \subseteq LegacyNames
      BY DEF ToReassign
    <3> QED BY <1>6, <3>1, SequenceFacts, RestingFacts DEF VerifyIds, Go
  <2> QED BY <1>6, <2>1 DEF VerifyIds
<1>7. CASE Reassign
  <2>1. PICK t \in adoption.todo :
          IF access.role["migration"] = "absent"
          THEN adoption' = Resting /\ UNCHANGED owner
          ELSE /\ owner' = [owner EXCEPT ![t] = "migration"]
               /\ LET todo == adoption.todo \ {t} IN
                  Go(IF todo = {} THEN "stamp" ELSE "own", todo, FreshSequence)
    BY <1>7 DEF Reassign
  <2>2. adoption.todo \subseteq LegacyNames
    OBVIOUS
  <2>3. adoption' \in Adoptions
    BY <2>1, <2>2, SequenceFacts, RestingFacts DEF Go
  <2>4. owner' \in [Tables -> {"admin", "migration"}]
    BY <2>1
  <2> QED BY <1>7, <2>3, <2>4 DEF Reassign
<1>8. CASE Stamp
  <2>1. version' \in 0 .. Newest
    BY <1>8 DEF Stamp, Newest
  <2>2. access' \in Access
    <3> DEFINE created == IF version = 0 THEN {VersionTable} ELSE {}
    <3>1. created \in SUBSET (Tables \union {VersionTable})
      OBVIOUS
    <3> HIDE DEF created
    <3>2. Inherited(access, created) \in Access
      BY <3>1, InheritedLeaves
    <3> QED BY <1>8, <3>2 DEF Stamp, created
  <2> QED BY <1>8, <2>1, <2>2, RestingFacts DEF Stamp
<1>9. CASE ReplaceEarly
  BY <1>9 DEF ReplaceEarly
<1>10. CASE Boot
  <2>1. backend' = [backend EXCEPT !.up = TRUE]
    BY <1>10 DEF Boot
  <2>2. backend' \in [image : {"none", "old", "new"}, up : BOOLEAN]
    BY <2>1
  <2> QED BY <1>10, <2>2 DEF Boot
<1>11. CASE PlaceOrder
  BY <1>11, PlacedSequence DEF PlaceOrder
<1>12. CASE Interrupt
  <2>1. crashes' \in 0 .. MaxCrashes
    BY <1>12, BoundsAssumption DEF Interrupt
  <2>2. chain' \in Links
    BY <1>0, <1>12 DEF Interrupt
  <2>3. adoption' \in Adoptions
    BY <1>12, RestingFacts DEF Interrupt
  <2>4. backend' \in [image : {"none", "old", "new"}, up : BOOLEAN]
    <3>1. [backend EXCEPT !.up = FALSE] \in [image : {"none", "old", "new"}, up : BOOLEAN]
      OBVIOUS
    <3> QED BY <1>12, <3>1 DEF Interrupt
  <2> QED BY <1>0, <1>12, <2>1, <2>2, <2>3, <2>4 DEF Interrupt
<1> QED BY <1>1, <1>2, <1>3, <1>4, <1>5, <1>6, <1>7, <1>8, <1>9, <1>10, <1>11, <1>12
        DEF LifecycleNext, ChainStep, AdoptionStep

-----------------------------------------------------------------------------

\* An adoption that has passed its checks works on a legacy database; one that
\* checks may have been overtaken by the first migration.
AdoptionFits ==
    /\ adoption.pc \in {"verify", "compare"} => version \in {0, Newest}
    /\ adoption.pc \in {"own", "stamp"} =>
          /\ version = 0 /\ Existing(tables) = LegacyNames /\ FitsRevision(1)
          /\ \A t \in LegacyNames \ adoption.todo : owner[t] = "migration"
    /\ adoption.pc = "stamp" => adoption.todo = {}

\* What a later migration alters belongs to the migration role.
LegacyOwned == version \in 1 .. Newest - 1 => \A t \in LegacyNames : owner[t] = "migration"

\* Ids are counted from the first order on; what an adoption saw is no later than
\* what is, and what it accepted stays true while orders come in.
IdsAhead ==
    /\ IdsStayFree
    /\ tables["applications"] = Absent => seq.maxId = 0
    /\ adoption.pc = "compare" => NextValue(adoption.saw) <= NextValue(seq)
    /\ adoption.pc \in {"own", "stamp"} => NextValue(seq) > seq.maxId

\* How far the script has come, and what a migrated database grants.
RightsGiven ==
    /\ version = Newest => Tables \subseteq access.crud \intersect access.draws
    /\ chain.link = "bootstrap" =>
          /\ chain.at > 6 => "tables" \in access.future
          /\ chain.at > 7 => "sequences" \in access.future
          /\ chain.at > 8 => Existing(tables) \subseteq access.crud
          /\ chain.at > 9 => Existing(tables) \subseteq access.draws
    /\ chain.link = "migrate" =>
          access.future = Rights /\ Existing(tables) \subseteq access.crud \intersect access.draws
    /\ chain.link = "finalize" => version > 0

SchemaInv == /\ VersionTellsSchema /\ OnlyLegacyChangesHands /\ ServingMeansHead
             /\ AdoptionFits /\ LegacyOwned

LifecycleInv == LifecycleTypeOK /\ TablesOK /\ SchemaInv /\ IdsAhead /\ RightsGiven

LEMMA InitInv == LifecycleInit => LifecycleInv
<1> SUFFICES ASSUME LifecycleInit PROVE LifecycleInv
  OBVIOUS
<1>1. PICK d \in Databases :
          /\ tables = d.tables /\ version = d.version /\ seq = d.seq
          /\ backend = [image |-> d.image, up |-> d.image # "none"]
          /\ owner = [t \in Tables |-> IF d.version > 0 THEN "migration" ELSE "admin"]
          /\ access = IF d.version > 0 THEN FullAccess(Existing(d.tables)) ELSE NoAccess
  BY DEF LifecycleInit
<1>2. /\ chain = [link |-> "idle", at |-> 1] /\ adoption = Resting /\ crashes = 0
  BY DEF LifecycleInit
<1>3. /\ DOMAIN d.tables = Tables /\ \A t \in Tables : WellFormed(d.tables[t])
      /\ d.version \in 0 .. Newest /\ d.seq \in Sequence
      /\ d.image \in {"none", "old", "new"}
      /\ d.version > 0 => ShapeFits(d.tables, d.version) /\ NextValue(d.seq) > d.seq.maxId
      /\ d.tables["applications"] = Absent => d.seq.maxId = 0
      /\ d.image = "new" => d.version = Newest
  BY DatabasesAssumption
<1>4. Existing(d.tables) \subseteq Tables
  BY DEF Existing
<1>5. access \in Access
  <2>1. [r \in {"migration", "app"} |-> "absent"]
           \in [{"migration", "app"} -> {"absent", "bare", "ready"}]
    OBVIOUS
  <2>2. [r \in {"migration", "app"} |-> "ready"]
           \in [{"migration", "app"} -> {"absent", "bare", "ready"}]
    OBVIOUS
  <2>3. NoAccess \in Access
    BY <2>1 DEF NoAccess, Access
  <2>4. FullAccess(Existing(d.tables)) \in Access
    BY <1>4, <2>2 DEF FullAccess, Access
  <2> QED BY <1>1, <2>3, <2>4
<1>6. LifecycleTypeOK
  <2>1. owner \in [Tables -> {"admin", "migration"}]
    BY <1>1
  <2>2. backend \in [image : {"none", "old", "new"}, up : BOOLEAN]
    BY <1>1, <1>3
  <2>3. 1 \in 1 .. Len(Script) /\ 0 \in 0 .. MaxCrashes
    <3>1. Len(Script) = 11
      BY ScriptIs
    <3>2. 1 \in 1 .. 11
      OBVIOUS
    <3> QED BY <3>1, <3>2, BoundsAssumption
  <2> QED BY <1>1, <1>2, <1>3, <1>5, <2>1, <2>2, <2>3, RestingFacts DEF LifecycleTypeOK
<1>7. TablesOK
  BY <1>1, <1>3 DEF TablesOK
<1>8. Newest > 0 /\ Newest \in 1 .. Newest
  BY DEF Newest
<1>9. SchemaInv
  <2>1. VersionTellsSchema
    BY <1>1, <1>3 DEF VersionTellsSchema, FitsRevision
  <2>2. OnlyLegacyChangesHands
    BY <1>1 DEF OnlyLegacyChangesHands
  <2>3. ServingMeansHead
    BY <1>1, <1>3, <1>8 DEF ServingMeansHead, FitsRevision
  <2>4. AdoptionFits
    BY <1>2, RestingFacts DEF AdoptionFits
  <2>5. LegacyOwned
    BY <1>1, <1>3 DEF LegacyOwned, Tables, LegacyNames, Newest
  <2> QED BY <2>1, <2>2, <2>3, <2>4, <2>5 DEF SchemaInv
<1>10. IdsAhead
  BY <1>1, <1>2, <1>3, RestingFacts DEF IdsAhead, IdsStayFree
<1>11. RightsGiven
  <2>1. version = Newest => Tables \subseteq access.crud \intersect access.draws
    <3>1. SUFFICES ASSUME version = Newest
                   PROVE  Tables \subseteq access.crud \intersect access.draws
      OBVIOUS
    <3>2. access = FullAccess(Existing(d.tables)) /\ ShapeFits(d.tables, Newest)
      BY <1>1, <1>3, <1>8, <3>1
    <3>3. Existing(d.tables) = Tables
      BY <1>8, <3>2, PresentTables
    <3> QED BY <3>2, <3>3 DEF FullAccess
  <2> QED BY <1>2, <2>1 DEF RightsGiven
<1> QED BY <1>6, <1>7, <1>9, <1>10, <1>11 DEF LifecycleInv

(* Where migrations apply from, and what they leave.                         *)
LEMMA MigrateLeaves ==
    ASSUME LifecycleTypeOK, TablesOK, SchemaInv, Migrate, version' # version
    PROVE  /\ Applies /\ version' = Newest /\ FitsRevision(Newest)'
           /\ tables' = Upgraded(tables, version, Newest)
           /\ access' = Inherited(access, Creates(version) \union
                                     (IF version = 0 THEN {VersionTable} ELSE {}))
           /\ chain' = [link |-> "finalize", at |-> 1]
<1>1. /\ Applies /\ version' = Newest
      /\ tables' = Upgraded(tables, version, Newest)
      /\ access' = Inherited(access, Creates(version) \union
                                (IF version = 0 THEN {VersionTable} ELSE {}))
      /\ chain' = [link |-> "finalize", at |-> 1]
  BY DEF Migrate
<1>2. version \in 0 .. Newest /\ (version > 0 => ShapeFits(tables, version))
  BY DEF LifecycleTypeOK, SchemaInv, VersionTellsSchema, FitsRevision
<1>3. ShapeFits(tables', Newest)
  BY <1>1, <1>2, UpgradeFits DEF TablesOK
<1> QED BY <1>1, <1>3 DEF FitsRevision

(* Neither does a migration run while an adoption owns the database, nor an  *)
(* adoption begin to own one that was migrated.                              *)
LEMMA SchemaStep ==
    ASSUME LifecycleTypeOK, TablesOK, SchemaInv, LifecycleNext
    PROVE  SchemaInv'
<1> USE DEF SchemaInv, VersionTellsSchema, OnlyLegacyChangesHands, ServingMeansHead,
            AdoptionFits, LegacyOwned
<1>0. Newest = 4 /\ version \in 0 .. 4 /\ LegacyNames # Tables
  BY DEF LifecycleTypeOK, Newest, LegacyNames, Tables
<1>1. CASE UNCHANGED <<tables, owner, version, adoption>> /\ ~ Boot
  <2>1. UNCHANGED backend \/ backend'.up = FALSE
    <3>1. CASE ReplaceBackend \/ ReplaceEarly
      BY <3>1 DEF ReplaceBackend, ReplaceEarly
    <3>2. CASE Interrupt
      <4>1. [backend EXCEPT !.up = FALSE].up = FALSE
        BY DEF LifecycleTypeOK
      <4> QED BY <3>2, <4>1 DEF Interrupt
    <3>3. CASE Migrate
      BY <3>3 DEF Migrate
    <3>4. CASE StartChain \/ RunStatement \/ PlaceOrder
      BY <3>4 DEF StartChain, RunStatement, PlaceOrder
    <3>5. CASE StartAdoption \/ AdoptionStep
      BY <3>5 DEF AdoptionStep, StartAdoption, CheckAdopted, VerifyShape, VerifyIds,
                  Reassign, Stamp
    <3> QED BY <1>1, <3>1, <3>2, <3>3, <3>4, <3>5 DEF LifecycleNext, ChainStep
  <2> QED BY <1>1, <2>1 DEF FitsRevision
<1>2. CASE Boot
  <2>1. backend' = [backend EXCEPT !.up = TRUE]
        /\ UNCHANGED <<tables, owner, version, adoption>>
    BY <1>2 DEF Boot
  <2>2. backend.image = "new" => FitsRevision(Newest)
    BY <1>2, GuardTells DEF Boot
  <2>3. backend'.image = backend.image
    BY <2>1 DEF LifecycleTypeOK
  <2> QED BY <2>1, <2>2, <2>3 DEF FitsRevision
<1>3. CASE Migrate /\ version' # version
  <2>1. Applies /\ version' = 4 /\ FitsRevision(4)' /\ UNCHANGED <<adoption, backend>>
    BY <1>0, <1>3, MigrateLeaves DEF Migrate
  <2>2. adoption.pc \notin {"own", "stamp"}
    <3>1. version = 0 => LegacyNames \intersect Existing(tables) = {}
      BY <2>1, CreatesIs DEF Applies, LegacyNames, Tables
    <3> QED BY <3>1 DEF LegacyNames
  <2> QED BY <1>0, <2>1, <2>2
<1>4. CASE Migrate /\ version' = version
  <2>1. UNCHANGED <<adoption, backend>>
    BY <1>4 DEF Migrate
  <2>2. CASE UNCHANGED <<tables, owner>>
    BY <1>4, <2>1, <2>2 DEF FitsRevision
  <2>3. CASE /\ Applies /\ version' = Newest
             /\ tables' = Upgraded(tables, version, Newest)
             /\ owner' = CreatedByMigration(Creates(version))
    <3>1. version = 4
      BY <1>0, <1>4, <2>3
    <3>2. ShapeFits(tables', 4)
      BY <1>0, <2>3, <3>1, UpgradeFits DEF TablesOK, FitsRevision
    <3> QED BY <1>0, <1>4, <2>1, <3>1, <3>2 DEF FitsRevision
  <2> QED BY <1>4, <2>2, <2>3 DEF Migrate
<1>5. CASE StartAdoption \/ CheckAdopted \/ VerifyShape
  <2>1. UNCHANGED <<tables, owner, version, backend>>
        /\ adoption'.pc \notin {"own", "stamp"}
    BY <1>5, RestingFacts DEF StartAdoption, CheckAdopted, VerifyShape, Go
  <2>2. adoption'.pc \in {"verify", "compare"} => version' \in {0, 4}
    BY <1>0, <1>5, RestingFacts DEF StartAdoption, CheckAdopted, VerifyShape, Go
  <2> QED BY <1>0, <2>1, <2>2 DEF FitsRevision
<1>6. CASE VerifyIds
  <2>1. UNCHANGED <<tables, owner, version, backend>>
    BY <1>6 DEF VerifyIds
  <2>2. CASE adoption' = Resting
    BY <2>1, <2>2, RestingFacts DEF FitsRevision
  <2>3. CASE /\ Fingerprint([adoption.saw EXCEPT !.maxId = seq.maxId])
             /\ Go("own", ToReassign, FreshSequence)
    <3>1. Existing(tables) = LegacyNames /\ FitsRevision(1)
      BY <2>3, FingerprintTells
    <3>2. version \in {0, 4}
      BY <1>0, <1>6 DEF VerifyIds
    <3>3. version # 4
      <4>1. SUFFICES ASSUME version = 4 PROVE FALSE
        OBVIOUS
      <4>2. ShapeFits(tables, Newest) /\ Newest \in 1 .. Newest
        BY <1>0, <4>1 DEF FitsRevision
      <4>3. Existing(tables) = Tables
        BY <4>2, PresentTables
      <4> QED BY <1>0, <3>1, <4>3
    <3>4. adoption'.pc = "own" /\ adoption'.todo = LegacyNames
      BY <2>3 DEF Go, ToReassign
    <3> QED BY <2>1, <3>1, <3>2, <3>3, <3>4 DEF FitsRevision
  <2> QED BY <1>6, <2>2, <2>3 DEF VerifyIds
<1>7. CASE Reassign
  <2>1. PICK t \in adoption.todo :
          IF access.role["migration"] = "absent"
          THEN adoption' = Resting /\ UNCHANGED owner
          ELSE /\ owner' = [owner EXCEPT ![t] = "migration"]
               /\ LET todo == adoption.todo \ {t} IN
                  Go(IF todo = {} THEN "stamp" ELSE "own", todo, FreshSequence)
    BY <1>7 DEF Reassign
  <2>2. UNCHANGED <<tables, version, backend>> /\ adoption.pc = "own"
    BY <1>7 DEF Reassign
  <2>3. version = 0 /\ Existing(tables) = LegacyNames /\ FitsRevision(1)
        /\ \A u \in LegacyNames \ adoption.todo : owner[u] = "migration"
    BY <2>2
  <2>4. CASE adoption' = Resting /\ UNCHANGED owner
    BY <2>2, <2>4, RestingFacts DEF FitsRevision
  <2>5. CASE /\ owner' = [owner EXCEPT ![t] = "migration"]
             /\ LET todo == adoption.todo \ {t} IN
                Go(IF todo = {} THEN "stamp" ELSE "own", todo, FreshSequence)
    <3>1. /\ adoption'.todo = adoption.todo \ {t}
          /\ adoption'.pc \in {"own", "stamp"}
          /\ adoption'.pc = "stamp" => adoption'.todo = {}
      BY <2>5 DEF Go
    <3>2. \A u \in LegacyNames \ adoption'.todo : owner'[u] = "migration"
      BY <2>3, <2>5, <3>1 DEF LifecycleTypeOK, Tables, LegacyNames
    <3> QED BY <2>2, <2>3, <3>1, <3>2 DEF FitsRevision
  <2> QED BY <2>1, <2>4, <2>5
<1>8. CASE Stamp
  <2>1. adoption.pc = "stamp" /\ UNCHANGED <<tables, owner, backend>> /\ adoption' = Resting
        /\ version' \in {1, version}
    BY <1>8 DEF Stamp
  <2>2. version = 0 /\ FitsRevision(1) /\ \A t \in LegacyNames : owner[t] = "migration"
    BY <2>1
  <2> QED BY <1>0, <2>1, <2>2, RestingFacts DEF FitsRevision
<1>9. CASE Interrupt /\ adoption' # adoption
  <2>1. adoption' = Resting /\ UNCHANGED <<tables, owner, version, backend>>
    BY <1>9 DEF Interrupt
  <2> QED BY <2>1, RestingFacts DEF FitsRevision
<1> QED
  <2>1. CASE Migrate
    BY <2>1, <1>3, <1>4
  <2>2. CASE Interrupt
    BY <2>2, <1>1, <1>2, <1>9 DEF Interrupt
  <2>3. CASE StartChain \/ RunStatement \/ ReplaceBackend \/ ReplaceEarly \/ PlaceOrder
    BY <2>3, <1>1, <1>2 DEF StartChain, RunStatement, ReplaceBackend, ReplaceEarly, PlaceOrder
  <2> QED BY <2>1, <2>2, <2>3, <1>2, <1>5, <1>6, <1>7, <1>8
          DEF LifecycleNext, ChainStep, AdoptionStep

(* Ids stay ahead: between the two reads of an adoption the sequence only    *)
(* moves on, and a migration from nothing finds no orders.                   *)
LEMMA IdsStep ==
    ASSUME LifecycleTypeOK, TablesOK, SchemaInv, IdsAhead, LifecycleNext
    PROVE  IdsAhead'
<1> USE DEF IdsAhead, IdsStayFree
<1>0. /\ seq \in Sequence /\ adoption.saw \in Sequence /\ version \in 0 .. 4 /\ Newest = 4
      /\ NextValue(seq) \in Nat \ {0} /\ seq.maxId \in Nat
      /\ NextValue(adoption.saw) \in Nat
  BY SequenceFacts DEF LifecycleTypeOK, Newest
<1>1. CASE UNCHANGED <<tables, version, seq, adoption>>
  BY <1>1
<1>2. CASE PlaceOrder
  <2>1. /\ NextValue(seq') = NextValue(seq) + 1
        /\ seq'.maxId = IF NextValue(seq) > seq.maxId THEN NextValue(seq) ELSE seq.maxId
    BY <1>2, PlacedSequence
  <2>2. tables["applications"] # Absent /\ UNCHANGED <<tables, version, adoption>>
    BY <1>2 DEF PlaceOrder, Existing
  <2> QED BY <1>0, <2>1, <2>2
<1>3. CASE Migrate
  <2>1. CASE UNCHANGED <<tables, owner, version, access>>
    BY <1>1, <1>3, <2>1 DEF Migrate
  <2>2. CASE Applies /\ tables' = Upgraded(tables, version, Newest) /\ version' = Newest
    <3>1. UNCHANGED <<seq, adoption>>
      BY <1>3 DEF Migrate
    <3>2. version = 0 => tables["applications"] = Absent
      BY <2>2, CreatesIs DEF Applies, Existing, Tables
    <3>3. NextValue(seq) > seq.maxId
      BY <1>0, <3>2
    <3>4. ShapeFits(tables', 4)
      BY <1>0, <2>2, UpgradeFits DEF TablesOK, SchemaInv, VersionTellsSchema, FitsRevision
    <3>5. "applications" \in Existing(tables')
      BY <1>0, <3>4, PresentTables DEF LegacyNames
    <3> QED BY <2>2, <3>1, <3>3, <3>5 DEF Existing
  <2> QED BY <1>3, <2>1, <2>2 DEF Migrate
<1>4. CASE StartAdoption \/ CheckAdopted \/ VerifyShape
  <2>1. /\ UNCHANGED <<tables, version, seq>> /\ adoption'.pc \notin {"own", "stamp"}
        /\ adoption'.pc = "compare" => adoption'.saw = seq
    BY <1>4, RestingFacts DEF StartAdoption, CheckAdopted, VerifyShape, Go
  <2> QED BY <1>0, <2>1
<1>5. CASE VerifyIds
  <2>1. UNCHANGED <<tables, version, seq>> /\ adoption.pc = "compare"
    BY <1>5 DEF VerifyIds
  <2>2. CASE adoption' = Resting
    BY <2>1, <2>2, RestingFacts
  <2>3. CASE /\ Fingerprint([adoption.saw EXCEPT !.maxId = seq.maxId])
             /\ Go("own", ToReassign, FreshSequence)
    <3> DEFINE saw == adoption.saw
               seen == [saw EXCEPT !.maxId = seq.maxId]
    <3>1. seen.maxId = seq.maxId /\ NextValue(seen) = NextValue(saw)
      BY <1>0 DEF Sequence, NextValue
    <3> HIDE DEF seen
    <3>2. seen.maxId > 0 => ~ (NextValue(seen) <= seen.maxId)
      BY <2>3, FingerprintTells DEF seen
    <3>3. NextValue(seq) > seq.maxId
      BY <1>0, <2>1, <3>1, <3>2
    <3> QED BY <2>1, <2>3, <3>3 DEF Go
  <2> QED BY <1>5, <2>2, <2>3 DEF VerifyIds
<1>6. CASE Reassign
  <2>1. adoption.pc = "own" /\ UNCHANGED <<tables, version, seq>>
        /\ adoption'.pc # "compare"
    BY <1>6, RestingFacts DEF Reassign, Go
  <2> QED BY <2>1
<1>7. CASE Stamp
  <2>1. adoption.pc = "stamp" /\ UNCHANGED <<tables, seq>> /\ adoption' = Resting
    BY <1>7 DEF Stamp
  <2> QED BY <2>1, RestingFacts
<1>8. CASE Interrupt
  <2>1. UNCHANGED <<tables, version, seq>> /\ (adoption' = Resting \/ UNCHANGED adoption)
    BY <1>8 DEF Interrupt
  <2> QED BY <2>1, RestingFacts
<1> QED
  <2>1. CASE StartChain \/ RunStatement \/ ReplaceBackend \/ ReplaceEarly \/ Boot
    BY <2>1, <1>1 DEF StartChain, RunStatement, ReplaceBackend, ReplaceEarly, Boot
  <2> QED BY <2>1, <1>2, <1>3, <1>4, <1>5, <1>6, <1>7, <1>8
          DEF LifecycleNext, ChainStep, AdoptionStep

(* The runtime role has its rights on every table once a migration has run:  *)
(* the script came first, default privileges do the rest.                    *)
LEMMA RightsStep ==
    ASSUME LifecycleTypeOK, TablesOK, SchemaInv, RightsGiven, LifecycleNext
    PROVE  RightsGiven'
<1> USE DEF RightsGiven
<1>0. /\ access \in Access /\ version \in 0 .. 4 /\ Newest = 4 /\ Len(Script) = 11
      /\ chain.at \in 1 .. 11 /\ Existing(tables) \subseteq Tables
      /\ chain = [link |-> chain.link, at |-> chain.at]
  BY ScriptIs DEF LifecycleTypeOK, Newest, Existing
<1>1. CASE UNCHANGED <<tables, version, access, chain>>
  BY <1>1
<1>2. CASE StartChain
  BY <1>2 DEF StartChain
<1>3. CASE RunStatement
  <2> DEFINE at == chain.at
             after == After(Script[at], access)
  <2>1. /\ after \in Access
        /\ access.future \subseteq after.future /\ access.draws \subseteq after.draws
        /\ access.crud \intersect Tables \subseteq after.crud
        /\ at = 6 => "tables" \in after.future
        /\ at = 7 => "sequences" \in after.future
        /\ at = 8 => Existing(tables) \subseteq after.crud
        /\ at = 9 => Existing(tables) \subseteq after.draws
    BY <1>0, StatementLeaves
  <2>2. /\ access' = after /\ UNCHANGED <<tables, version>>
        /\ chain' = IF Ends
                    THEN [link |-> IF chain.link = "bootstrap" THEN "migrate" ELSE "start",
                          at |-> 1]
                    ELSE [chain EXCEPT !.at = at + 1]
        /\ chain.link \in {"bootstrap", "finalize"}
    BY <1>3 DEF RunStatement
  <2> HIDE DEF after
  <2>3. Ends => at \in {10, 11}
    BY <1>0, LooksLate DEF Ends
  <2>4. version = 4 => Tables \subseteq access'.crud \intersect access'.draws
    BY <1>0, <2>1, <2>2
  <2>5. CASE chain.link = "bootstrap" /\ Ends
    <3>1. /\ {"tables", "sequences"} \subseteq access'.future /\ access'.future \subseteq Rights
          /\ Existing(tables) \subseteq access'.crud \intersect access'.draws
      BY <1>0, <2>1, <2>2, <2>3, <2>5 DEF Access
    <3>2. access'.future = Rights
      BY <3>1 DEF Rights
    <3> QED BY <1>0, <2>2, <2>4, <2>5, <3>1, <3>2
  <2>6. CASE chain.link = "bootstrap" /\ ~Ends
    <3>1. chain'.at = at + 1 /\ chain'.link = "bootstrap"
      BY <1>0, <2>2, <2>6
    <3>2. /\ chain'.at > 6 => "tables" \in access'.future
          /\ chain'.at > 7 => "sequences" \in access'.future
      BY <1>0, <2>1, <2>2, <2>6, <3>1
    <3>3. chain'.at > 8 => Existing(tables) \subseteq access'.crud
      BY <1>0, <2>1, <2>2, <2>6, <3>1
    <3>4. chain'.at > 9 => Existing(tables) \subseteq access'.draws
      BY <1>0, <2>1, <2>2, <2>6, <3>1
    <3> QED BY <1>0, <2>2, <2>4, <3>1, <3>2, <3>3, <3>4
  <2>7. CASE chain.link = "finalize"
    <3>1. chain'.link \in {"start", "finalize"}
      BY <1>0, <2>2, <2>7
    <3> QED BY <1>0, <2>2, <2>4, <2>7, <3>1
  <2> QED BY <2>2, <2>5, <2>6, <2>7
<1>4. CASE Migrate
  <2>1. CASE chain' = [link |-> "idle", at |-> 1] /\ UNCHANGED <<tables, owner, version, access>>
    BY <2>1
  <2> DEFINE created == Creates(version) \union (IF version = 0 THEN {VersionTable} ELSE {})
  <2>2. CASE /\ Applies /\ tables' = Upgraded(tables, version, Newest) /\ version' = Newest
             /\ access' = Inherited(access, created)
             /\ chain' = [link |-> "finalize", at |-> 1]
    <3>1. created \in SUBSET (Tables \union {VersionTable}) /\ VersionTable \notin Tables
      BY <1>0, CreatesIs DEF Tables, VersionTable
    <3>2. Tables \subseteq created \union Existing(tables)
      <4>1. CASE version = 0
        BY <4>1, CreatesIs
      <4>2. CASE version > 0
        <5>1. version \in 1 .. Newest /\ ShapeFits(tables, version)
          BY <1>0, <4>2 DEF SchemaInv, VersionTellsSchema, FitsRevision
        <5>2. /\ LegacyNames \subseteq Existing(tables)
              /\ "capabilities" \in Existing(tables) <=> version >= 2
              /\ "keys" \in Existing(tables) <=> version >= 3
          BY <5>1, PresentTables
        <5>3. ("capabilities" \in Creates(version) <=> version < 2)
              /\ ("keys" \in Creates(version) <=> version < 3)
          BY <5>1, CreatesIs
        <5> QED BY <1>0, <5>2, <5>3 DEF Tables, LegacyNames
      <4> QED BY <1>0, <4>1, <4>2
    <3> HIDE DEF created
    <3>3. /\ access.crud \subseteq access'.crud /\ access.draws \subseteq access'.draws
          /\ access.future = Rights => created \subseteq access'.crud
                /\ created \ {VersionTable} \subseteq access'.draws
      BY <1>0, <2>2, <3>1, InheritedLeaves
    <3>4. access.future = Rights /\ Existing(tables) \subseteq access.crud \intersect access.draws
      BY <1>4 DEF Migrate
    <3>5. Tables \subseteq access'.crud \intersect access'.draws
      BY <3>1, <3>2, <3>3, <3>4
    <3> QED BY <1>0, <2>2, <3>5
  <2> QED BY <1>4, <2>1, <2>2 DEF Migrate
<1>5. CASE ReplaceBackend \/ Interrupt
  <2>1. UNCHANGED <<tables, version, access>>
        /\ (UNCHANGED chain \/ chain' = [link |-> "idle", at |-> 1])
    BY <1>5 DEF ReplaceBackend, Interrupt
  <2> QED BY <2>1
<1>6. CASE Stamp
  <2>1. UNCHANGED <<tables, chain>> /\ version' \in {version, 1} /\ adoption.pc = "stamp"
        /\ access' \in {access, Inherited(access, IF version = 0 THEN {VersionTable} ELSE {})}
    BY <1>6 DEF Stamp
  <2>2. version = 0
    BY <2>1 DEF SchemaInv, AdoptionFits
  <2>3. /\ access'.future = access.future
        /\ access.crud \subseteq access'.crud /\ access.draws \subseteq access'.draws
    <3>1. (IF version = 0 THEN {VersionTable} ELSE {}) \in SUBSET (Tables \union {VersionTable})
      OBVIOUS
    <3> QED BY <1>0, <2>1, <3>1, InheritedLeaves
  <2> QED BY <1>0, <2>1, <2>2, <2>3
<1> QED
  <2>1. CASE StartAdoption \/ CheckAdopted \/ VerifyShape \/ VerifyIds \/ Reassign
    BY <2>1, <1>1 DEF StartAdoption, CheckAdopted, VerifyShape, VerifyIds, Reassign
  <2>2. CASE ReplaceEarly \/ Boot \/ PlaceOrder
    BY <2>2, <1>1 DEF ReplaceEarly, Boot, PlaceOrder
  <2> QED BY <2>1, <2>2, <1>2, <1>3, <1>4, <1>5, <1>6 DEF LifecycleNext, ChainStep, AdoptionStep

-----------------------------------------------------------------------------

(* The invariant holds of every database at every moment: types, what a      *)
(* revision means, who owns what, which ids are free, what was granted.      *)
THEOREM LifecycleInvariance == LifecycleSpec => []LifecycleInv
<1>1. LifecycleInv /\ [LifecycleNext]_lifecycleVars => LifecycleInv'
  <2> SUFFICES ASSUME LifecycleInv, [LifecycleNext]_lifecycleVars PROVE LifecycleInv'
    OBVIOUS
  <2>1. CASE LifecycleNext
    <3>1. version > 0 => FitsRevision(version)
      BY DEF LifecycleInv, SchemaInv, VersionTellsSchema
    <3>2. LifecycleTypeOK' /\ TablesOK'
      BY <2>1, <3>1, TypeStep DEF LifecycleInv
    <3> QED BY <2>1, <3>2, SchemaStep, IdsStep, RightsStep DEF LifecycleInv
  <2>2. CASE UNCHANGED lifecycleVars
    <3>1. UNCHANGED <<tables, owner, version, seq, access, chain, adoption, backend, crashes>>
      BY <2>2 DEF lifecycleVars
    <3>2. LifecycleTypeOK' /\ TablesOK'
      BY <3>1 DEF LifecycleInv, LifecycleTypeOK, TablesOK
    <3>3. SchemaInv'
      BY <3>1 DEF LifecycleInv, SchemaInv, VersionTellsSchema, OnlyLegacyChangesHands,
                  ServingMeansHead, AdoptionFits, LegacyOwned, FitsRevision
    <3>4. IdsAhead' /\ RightsGiven'
      BY <3>1 DEF LifecycleInv, IdsAhead, IdsStayFree, RightsGiven
    <3> QED BY <3>2, <3>3, <3>4 DEF LifecycleInv
  <2> QED BY <2>1, <2>2
<1> QED BY <1>1, InitInv, PTL DEF LifecycleSpec

(* alembic_version tells the truth about the schema, whatever was found,     *)
(* interrupted and rerun.                                                    *)
THEOREM StampTellsTruth == LifecycleSpec => []VersionTellsSchema
<1>1. LifecycleInv => VersionTellsSchema
  BY DEF LifecycleInv, SchemaInv
<1> QED BY <1>1, LifecycleInvariance, PTL

(* Tables of a database without version change hands only if it is exactly   *)
(* the legacy one.                                                           *)
THEOREM RefusalChangesNothing == LifecycleSpec => []OnlyLegacyChangesHands
<1>1. LifecycleInv => OnlyLegacyChangesHands
  BY DEF LifecycleInv, SchemaInv
<1> QED BY <1>1, LifecycleInvariance, PTL

(* The next id of a database under Alembic is free, although an adoption     *)
(* reads the sequence and the ids while orders come in.                      *)
THEOREM NextIdIsFree == LifecycleSpec => []IdsStayFree
<1>1. LifecycleInv => IdsStayFree
  BY DEF LifecycleInv, IdsAhead
<1> QED BY <1>1, LifecycleInvariance, PTL

(* The next upgrade of a database under Alembic can always run.              *)
THEOREM UpgradeCanRun == LifecycleSpec => []UpgradeNeverBlocked
<1>1. LifecycleInv => UpgradeNeverBlocked
  <2> SUFFICES ASSUME LifecycleInv, version > 0 PROVE Applies
    BY DEF UpgradeNeverBlocked
  <2>1. version \in 1 .. 4 /\ Newest = 4
    BY DEF LifecycleInv, LifecycleTypeOK, Newest
  <2>2. ShapeFits(tables, version)
    BY DEF LifecycleInv, SchemaInv, VersionTellsSchema, FitsRevision
  <2>3. /\ "capabilities" \in Existing(tables) <=> version >= 2
        /\ "keys" \in Existing(tables) <=> version >= 3
    BY <2>1, <2>2, PresentTables
  <2>4. /\ Creates(version) \subseteq {"capabilities", "keys"}
        /\ "capabilities" \in Creates(version) <=> version < 2
        /\ "keys" \in Creates(version) <=> version < 3
    BY <2>1, CreatesIs DEF Tables, LegacyNames
  <2>5. Creates(version) \intersect Existing(tables) = {}
    BY <2>1, <2>3, <2>4
  <2> QED BY <2>1, <2>5 DEF Applies, LifecycleInv, SchemaInv, LegacyOwned
<1> QED BY <1>1, LifecycleInvariance, PTL

(* A backend of this release serves on the full current schema only,         *)
(* whatever the database it was pointed at.                                  *)
THEOREM ServesOnHeadOnly == LifecycleSpec => []ServingMeansHead
<1>1. LifecycleInv => ServingMeansHead
  BY DEF LifecycleInv, SchemaInv
<1> QED BY <1>1, LifecycleInvariance, PTL

(* No table fits revision 0003 and the newest, so one under Alembic that     *)
(* fits the newest is at the newest.                                         *)
LEMMA FitsNewestOnly ==
    ASSUME NEW shape, NEW v \in 1 .. Newest, ShapeFits(shape, v), ShapeFits(shape, Newest)
    PROVE  v = Newest
<1>1. Newest = 4 /\ Newest \in 1 .. Newest /\ v \in 1 .. 4
  BY DEF Newest
<1>2. v >= 3
  BY <1>1, PresentTables DEF Tables
<1>3. v # 3
  <2>1. SUFFICES ASSUME v = 3 PROVE FALSE
    OBVIOUS
  <2> DEFINE served == Serviced(Baseline["applications"])
  <2>2. SchemaAt(3)["applications"] = served /\ SchemaAt(4)["applications"] = Scored(served)
    BY <1>1, <2>1, SchemaTables
  <2>3. Fits(shape["applications"], served) /\ Fits(shape["applications"], Scored(served))
    BY <1>1, <2>1, <2>2, ColumnsPresent DEF ShapeFits, Tables
  <2>4. Names(served.cols) = {"id", "data", "note", "stamps", "service_id"}
        /\ WellFormed(served)
    BY BuiltWellFormed
  <2> HIDE DEF served
  <2>5. Names(Scored(served).cols) = Names(served.cols) \union {Score.name}
    BY <2>4, ColumnAdded DEF Scored
  <2>6. Score.name = "priority_score"
    BY DEF Score, Column
  <2> QED BY <2>3, <2>4, <2>5, <2>6 DEF Fits
<1> QED BY <1>1, <1>2, <1>3

(* ... and on a database under Alembic with its rights on every table.       *)
THEOREM ServesWithRights == LifecycleSpec => []ServingCanWrite
<1>1. LifecycleInv => ServingCanWrite
  <2> SUFFICES ASSUME LifecycleInv, backend.up, backend.image = "new", version > 0
               PROVE  Tables \subseteq access.crud \intersect access.draws
    BY DEF ServingCanWrite
  <2>1. version \in 1 .. Newest
    BY DEF LifecycleInv, LifecycleTypeOK, Newest
  <2>2. ShapeFits(tables, version) /\ ShapeFits(tables, Newest)
    BY DEF LifecycleInv, SchemaInv, VersionTellsSchema, ServingMeansHead, FitsRevision
  <2>3. version = Newest
    BY <2>1, <2>2, FitsNewestOnly
  <2> QED BY <2>3 DEF LifecycleInv, RightsGiven
<1> QED BY <1>1, LifecycleInvariance, PTL

(* Every run of the chain that reaches the backend has taken alembic_version *)
(* away from the runtime role: finalize never ends at the look.              *)
THEOREM ChainSeals == LifecycleSpec => FinalizeSeals
<1>1. LifecycleInv /\ [LifecycleNext]_lifecycleVars
        => [(chain.link = "finalize" /\ chain'.link = "start")
               => VersionTable \notin access'.crud]_lifecycleVars
  <2> SUFFICES ASSUME LifecycleInv, LifecycleNext,
                      chain.link = "finalize", chain'.link = "start"
               PROVE  VersionTable \notin access'.crud
    BY DEF lifecycleVars
  <2>1. RunStatement
    <3>1. ~ StartChain /\ ~ Migrate /\ ~ ReplaceBackend
      <4>1. chain.link \notin {"idle", "migrate", "start"}
        OBVIOUS
      <4> QED BY <4>1 DEF StartChain, Migrate, ReplaceBackend
    <3>2. ~ Interrupt
      <4>1. Interrupt => chain' = chain \/ chain'.link = "idle"
        BY DEF Interrupt
      <4> QED BY <4>1
    <3>3. ~ StartAdoption /\ ~ AdoptionStep
      BY DEF StartAdoption, AdoptionStep, CheckAdopted, VerifyShape, VerifyIds, Reassign,
             Stamp
    <3>4. ~ ReplaceEarly /\ ~ Boot /\ ~ PlaceOrder
      BY DEF ReplaceEarly, Boot, PlaceOrder
    <3> QED BY <3>1, <3>2, <3>3, <3>4 DEF LifecycleNext, ChainStep
  <2>2. /\ chain.at \in 1 .. 11 /\ Len(Script) = 11 /\ access \in Access /\ version > 0
        /\ version \in Int
    <3>1. Len(Script) = 11
      BY ScriptIs
    <3>2. chain.at \in 1 .. 11 /\ access \in Access
      BY <3>1 DEF LifecycleInv, LifecycleTypeOK
    <3>3. version > 0 /\ version \in Int
      BY DEF LifecycleInv, LifecycleTypeOK, RightsGiven, Newest
    <3> QED BY <3>1, <3>2, <3>3
  <2>3. Ends
    <3>1. SUFFICES ASSUME ~Ends PROVE FALSE
      OBVIOUS
    <3>2. chain' = [chain EXCEPT !.at = @ + 1]
      BY <2>1, <3>1 DEF RunStatement
    <3>3. chain'.link = chain.link
      BY <3>2 DEF LifecycleInv, LifecycleTypeOK
    <3> QED BY <3>3
  <2>4. chain.at = 11
    BY <2>2, <2>3 DEF Ends
  <2>5. VersionTable \notin After(Script[11], access).crud
    BY <2>2, StatementLeaves
  <2> QED BY <2>1, <2>4, <2>5 DEF RunStatement
<1> QED BY <1>1, LifecycleInvariance, PTL DEF LifecycleSpec, FinalizeSeals

(* The revision never goes back.                                             *)
THEOREM RevisionOnlyRises == LifecycleSpec => VersionNeverFalls
<1>1. LifecycleInv /\ [LifecycleNext]_lifecycleVars => [version' >= version]_lifecycleVars
  <2> SUFFICES ASSUME LifecycleInv, LifecycleNext PROVE version' >= version
    BY DEF lifecycleVars
  <2>1. version \in 0 .. 4 /\ Newest = 4
    BY DEF LifecycleInv, LifecycleTypeOK, Newest
  <2>2. CASE UNCHANGED version
    BY <2>1, <2>2
  <2>3. CASE Migrate
    BY <2>1, <2>3 DEF Migrate
  <2>4. CASE Stamp
    <3>1. adoption.pc = "stamp" /\ version' \in {1, version}
      BY <2>4 DEF Stamp
    <3>2. version = 0
      BY <3>1 DEF LifecycleInv, SchemaInv, AdoptionFits
    <3> QED BY <3>1, <3>2
  <2>5. Migrate \/ Stamp \/ UNCHANGED version
    BY DEF LifecycleNext, ChainStep, AdoptionStep, StartChain, RunStatement, ReplaceBackend,
           StartAdoption, CheckAdopted, VerifyShape, VerifyIds, Reassign,
           ReplaceEarly, Boot, PlaceOrder, Interrupt
  <2> QED BY <2>2, <2>3, <2>4, <2>5
<1> QED BY <1>1, LifecycleInvariance, PTL DEF LifecycleSpec, VersionNeverFalls
=============================================================================
