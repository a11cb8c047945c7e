--------------------------- MODULE ServiceCatalog ---------------------------
(***************************************************************************)
(* The admin-managed service catalog: the rows of admin_settings and the   *)
(* admin requests that create, patch and delete them                       *)
(* (backend/app/crud/admin_setting.py).                                    *)
(*                                                                         *)
(* Requests run concurrently, each in a READ COMMITTED transaction of its  *)
(* own, so a handler is split at its database calls: the unlocked SELECT   *)
(* that loads the row, the UPDATE or DELETE with its COMMIT, and the       *)
(* refresh that re-reads the row in a new transaction.  The UPDATE and the *)
(* COMMIT are one step: between them the transaction holds only the row    *)
(* lock of its service and waits for nobody.                               *)
(*                                                                         *)
(* A row keeps what the other components depend on: whether its name is    *)
(* non-blank, whether it is active, and its budget range.                  *)
(***************************************************************************)
EXTENDS Naturals

CONSTANTS
    Services,   \* ids of admin_settings; SERIAL, so an id is never reused
    Editors,    \* admin requests, each sent at most once
    Jobs,       \* what an admin request may ask for
    MaxAmount   \* largest budget amount, in the column's smallest unit

Amounts == 0 .. MaxAmount
Columns == {"named", "active", "min", "max"}
Row == [named : BOOLEAN, active : BOOLEAN, min : Amounts, max : Amounts]

\* Values of the columns `cols` for the service `sid`; a "delete" ignores them.
Job == [op : {"create", "patch", "delete"}, sid : Services,
        cols : SUBSET Columns, val : Row]

Ordered(row) == row.min <= row.max

\* The request schemas: a name that is sent is not blank, and two bounds sent
\* together are in order (a create sends every column).
WellFormed(j) ==
    /\ "named" \in j.cols => j.val.named
    /\ {"min", "max"} \subseteq j.cols => Ordered(j.val)
    /\ j.op = "create" => j.cols = Columns

ASSUME MaxAmountAssumption == MaxAmount \in Nat
ASSUME JobsAssumption == Jobs \subseteq {j \in Job : WellFormed(j)}

VARIABLES
    setting,    \* the row of each service, as committed
    job,        \* what each admin request asks for; never changes
    edit        \* how far each admin request has come

catalogVars == <<setting, job, edit>>

Setting == [status : {"unborn", "live", "gone"}, row : Row]
Edit == [pc : {"idle", "flush", "refresh", "done"}, dirty : SUBSET Columns,
         reply : {"none", "ok", "missing", "rejected", "conflict", "error"}]

CatalogTypeOK ==
    /\ setting \in [Services -> Setting]
    /\ job \in [Editors -> Jobs]
    /\ edit \in [Editors -> Edit]

Live(s) == setting[s].status = "live"

\* Mutant: an UPDATE that writes back the whole payload.
OverwriteAll(row, cols, val) == val

\* `row` with the columns `cols` taken from `val`.
Overwrite(row, cols, val) ==
    [named  |-> IF "named"  \in cols THEN val.named  ELSE row.named,
     active |-> IF "active" \in cols THEN val.active ELSE row.active,
     min    |-> IF "min"    \in cols THEN val.min    ELSE row.min,
     max    |-> IF "max"    \in cols THEN val.max    ELSE row.max]

\* Columns whose value the PATCH really changes: the ORM's UPDATE sets no other.
Changed(row, cols, val) == {c \in cols : row[c] # val[c]}

-----------------------------------------------------------------------------

\* A row written before names were validated may be blank; every write path
\* has always compared the two bounds.
CatalogInit ==
    /\ setting \in [Services -> {x \in Setting : x.status # "gone"}]
    /\ \A s \in Services : Live(s) => Ordered(setting[s].row)
    /\ \A s \in Services : ~Live(s) => setting[s].row =
            [named |-> FALSE, active |-> FALSE, min |-> 0, max |-> 0]
    /\ job \in [Editors -> Jobs]
    /\ edit = [e \in Editors |-> [pc |-> "idle", dirty |-> {}, reply |-> "none"]]

Answer(e, reply) ==
    edit' = [edit EXCEPT ![e] = [pc |-> "done", dirty |-> {}, reply |-> reply]]

GoOn(e, pc, dirty) ==
    edit' = [edit EXCEPT ![e] = [pc |-> pc, dirty |-> dirty, reply |-> "none"]]

\* create_admin_setting: INSERT and COMMIT under a fresh id.
Create(e) ==
    LET s == job[e].sid IN
    /\ edit[e].pc = "idle" /\ job[e].op = "create"
    /\ setting[s].status = "unborn"
    /\ setting' = [setting EXCEPT ![s] = [status |-> "live", row |-> job[e].val]]
    /\ GoOn(e, "refresh", {})
    /\ UNCHANGED job

\* Mutant: the range check looks at the payload only, as the schema does.
MergedPayloadOnly(row, j) == j.val

\* What the row becomes if nobody else writes it: setattr on the loaded row.
Merged(row, j) == Overwrite(row, j.cols, j.val)

\* update_admin_setting up to the commit: the row is read without a lock and
\* the merged range is checked against that copy.
LoadPatch(e) ==
    LET j == job[e]
        row == setting[j.sid].row
    IN
    /\ edit[e].pc = "idle" /\ j.op = "patch"
    /\ \/ ~Live(j.sid) /\ Answer(e, "missing")
       \/ Live(j.sid) /\ ~Ordered(Merged(row, j)) /\ Answer(e, "rejected")
       \/ /\ Live(j.sid) /\ Ordered(Merged(row, j))
          /\ LET dirty == Changed(row, j.cols, j.val) IN
             GoOn(e, IF dirty = {} THEN "refresh" ELSE "flush", dirty)
    /\ UNCHANGED <<setting, job>>

\* delete_admin_setting up to the DELETE.
LoadDelete(e) ==
    /\ edit[e].pc = "idle" /\ job[e].op = "delete"
    /\ \/ ~Live(job[e].sid) /\ Answer(e, "missing")
       \/ Live(job[e].sid) /\ GoOn(e, "flush", {})
    /\ UNCHANGED <<setting, job>>

\* Mutant: an UPDATE that inserts the row when it is gone.
MatchesAlways(s) == TRUE

\* The row an UPDATE ... WHERE id = s finds.
Matches(s) == Live(s)

\* The UPDATE waits for the row lock (`locked`) and then applies to the row as
\* it is by then; a row deleted meanwhile is a StaleDataError, a 500.
FlushPatch(e, locked) ==
    LET s == job[e].sid IN
    /\ edit[e].pc = "flush" /\ job[e].op = "patch"
    /\ s \notin locked
    /\ \/ /\ Matches(s)
          /\ setting' = [setting EXCEPT ![s].row =
                            Overwrite(@, edit[e].dirty, job[e].val)]
          /\ GoOn(e, "refresh", {})
       \/ ~Matches(s) /\ Answer(e, "error") /\ UNCHANGED setting
    /\ UNCHANGED job

\* The DELETE waits for the row lock; the foreign key of applications refuses
\* it while the service is `referenced`, and its check waits for the deletion of
\* an order to end (`awaited`).  Zero rows matched is only a warning.
FlushDelete(e, locked, referenced, awaited) ==
    LET s == job[e].sid IN
    /\ edit[e].pc = "flush" /\ job[e].op = "delete"
    /\ s \notin locked \union awaited
    /\ \/ Live(s) /\ s \in referenced /\ Answer(e, "conflict") /\ UNCHANGED setting
       \/ /\ Live(s) /\ s \notin referenced
          /\ setting' = [setting EXCEPT ![s].status = "gone"]
          /\ Answer(e, "ok")
       \/ ~Live(s) /\ Answer(e, "ok") /\ UNCHANGED setting
    /\ UNCHANGED job

\* db.refresh: the row may have been deleted since the commit.
Refresh(e) ==
    /\ edit[e].pc = "refresh"
    /\ Answer(e, IF Live(job[e].sid) THEN "ok" ELSE "error")
    /\ UNCHANGED <<setting, job>>

\* The connection or the process dies: an open transaction rolls back and the
\* caller gets an error, whatever was committed stays.
FailEdit(e) ==
    /\ edit[e].pc \in {"flush", "refresh"}
    /\ Answer(e, "error")
    /\ UNCHANGED <<setting, job>>

EditorStep(e, locked, referenced, awaited) ==
    \/ Create(e)
    \/ LoadPatch(e)
    \/ LoadDelete(e)
    \/ FlushPatch(e, locked)
    \/ FlushDelete(e, locked, referenced, awaited)
    \/ Refresh(e)

\* A request to create a service whose id the sequence has passed is never sent.
EditorQuiet(e) ==
    \/ edit[e].pc = "done"
    \/ edit[e].pc = "idle" /\ job[e].op = "create"
                           /\ setting[job[e].sid].status # "unborn"

CatalogTerminating ==
    /\ \A e \in Editors : EditorQuiet(e)
    /\ UNCHANGED catalogVars

\* The catalog alone: nobody holds a row lock and no order refers to a service.
CatalogNext ==
    \/ \E e \in Editors : EditorStep(e, {}, {}, {}) \/ FailEdit(e)
    \/ CatalogTerminating

CatalogSpec ==
    /\ CatalogInit /\ [][CatalogNext]_catalogVars
    /\ \A e \in Editors :
          WF_catalogVars(edit[e].pc # "idle" /\ EditorStep(e, {}, {}, {}))

-----------------------------------------------------------------------------

(* The merged check of a PATCH keeps every stored budget range in order,     *)
(* which clampToRange (frontend/src/utils/format.ts) takes for granted.      *)
(* True while concurrent PATCHes move one bound only; with PATCHes that move *)
(* either bound it fails, because the check reads an unlocked copy.          *)
BudgetRangeOrdered == \A s \in Services : Live(s) => Ordered(setting[s].row)

(* A PATCH works from a stale copy, yet never writes a column it was not     *)
(* sent back to its old value: what another admin changed in between stays.  *)
NoCollateralWrite ==
    [][\A e \in Editors :
          LET s == job[e].sid IN
          (edit[e].pc = "flush" /\ setting'[s] # setting[s] /\ edit'[e] # edit[e]
             /\ job[e].op = "patch") =>
             \A c \in Columns \ job[e].cols :
                setting'[s].row[c] = setting[s].row[c]]_catalogVars

(* Once deleted, a service never changes again: a PATCH that loaded the row  *)
(* before the DELETE does not bring it back.                                 *)
DeletedStaysDeleted ==
    [][\A s \in Services :
          setting[s].status = "gone" => setting'[s] = setting[s]]_catalogVars
=============================================================================
