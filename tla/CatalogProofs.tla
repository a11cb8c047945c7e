--------------------------- MODULE CatalogProofs ----------------------------
(***************************************************************************)
(* When the stored budget ranges stay in order, that a PATCH writes only   *)
(* what it was sent, and that a deleted service stays deleted: for any     *)
(* number of services and concurrent admins.                               *)
(***************************************************************************)
EXTENDS ServiceCatalog, TLAPS

\* No PATCH that is ever sent moves the lower bound, or none moves the upper one.
OneBoundMoves ==
    \/ \A j \in Jobs : j.op = "patch" => "min" \notin j.cols
    \/ \A j \in Jobs : j.op = "patch" => "max" \notin j.cols

\* A PATCH about to write has seen its service live, and the bound it moves is
\* in order with the bound stored now, which nobody else moves.
PendingBoundsOrdered ==
    \A e \in Editors :
        (edit[e].pc = "flush" /\ job[e].op = "patch") =>
            /\ setting[job[e].sid].status # "unborn"
            /\ edit[e].dirty \subseteq job[e].cols
            /\ Ordered(Overwrite(setting[job[e].sid].row, edit[e].dirty, job[e].val))

CatalogInv == CatalogTypeOK /\ BudgetRangeOrdered /\ PendingBoundsOrdered

LEMMA OverwriteFields ==
    ASSUME NEW row \in Row, NEW cols \in SUBSET Columns, NEW val \in Row
    PROVE  /\ Overwrite(row, cols, val) \in Row
           /\ Overwrite(row, cols, val).min = (IF "min" \in cols THEN val.min ELSE row.min)
           /\ Overwrite(row, cols, val).max = (IF "max" \in cols THEN val.max ELSE row.max)
  BY DEF Overwrite, Row

(* The columns that really change carry the whole effect of a PATCH on the   *)
(* row it was loaded from.                                                   *)
LEMMA ChangedSuffices ==
    ASSUME NEW row \in Row, NEW cols \in SUBSET Columns, NEW val \in Row
    PROVE  /\ Changed(row, cols, val) \in SUBSET Columns
           /\ Changed(row, cols, val) \subseteq cols
           /\ Overwrite(row, Changed(row, cols, val), val) = Overwrite(row, cols, val)
  BY DEF Overwrite, Changed, Row, Columns

LEMMA EditorKeepsInv ==
    ASSUME OneBoundMoves, CatalogInv, NEW e \in Editors,
           NEW locked, NEW referenced, NEW awaited,
           EditorStep(e, locked, referenced, awaited) \/ FailEdit(e)
    PROVE  CatalogInv'
  <1> DEFINE s == job[e].sid
  <1>0. /\ job[e] \in Job /\ job[e] \in Jobs /\ WellFormed(job[e])
        /\ s \in Services /\ job[e].cols \in SUBSET Columns /\ job[e].val \in Row
        /\ setting[s].row \in Row /\ edit[e].dirty \in SUBSET Columns
        /\ setting \in [Services -> Setting] /\ edit \in [Editors -> Edit]
        /\ job \in [Editors -> Jobs]
    BY JobsAssumption DEF CatalogInv, CatalogTypeOK, Job, Setting, Edit
  <1>1. ASSUME UNCHANGED <<setting, job>>,
               NEW x \in Edit, edit' = [edit EXCEPT ![e] = x],
               x.pc = "flush" /\ job[e].op = "patch" =>
                  /\ setting[s].status # "unborn"
                  /\ x.dirty \subseteq job[e].cols
                  /\ Ordered(Overwrite(setting[s].row, x.dirty, job[e].val))
        PROVE  CatalogInv'
    BY <1>0, <1>1 DEF CatalogInv, CatalogTypeOK, BudgetRangeOrdered, PendingBoundsOrdered,
                      Live, Ordered, Overwrite
  <1>2. CASE UNCHANGED setting /\ \E reply \in {"ok", "missing", "rejected", "conflict", "error"} :
                 Answer(e, reply) /\ UNCHANGED job
    BY <1>0, <1>1, <1>2 DEF Answer, Edit
  <1>3. CASE Create(e)
    <2>1. /\ setting' = [setting EXCEPT ![s] = [status |-> "live", row |-> job[e].val]]
          /\ setting[s].status = "unborn" /\ UNCHANGED job /\ Ordered(job[e].val)
          /\ edit' = [edit EXCEPT ![e] = [pc |-> "refresh", dirty |-> {}, reply |-> "none"]]
      BY <1>0, <1>3 DEF Create, GoOn, WellFormed, Columns
    <2>2. CatalogTypeOK'
      BY <1>0, <2>1 DEF CatalogTypeOK, Setting, Edit
    <2>3. BudgetRangeOrdered'
      BY <1>0, <2>1 DEF CatalogInv, BudgetRangeOrdered, Live, Ordered
    <2>4. PendingBoundsOrdered'
      BY <1>0, <2>1 DEF CatalogInv, PendingBoundsOrdered, Ordered, Overwrite
    <2> QED
      BY <2>2, <2>3, <2>4 DEF CatalogInv
  <1>4. CASE LoadPatch(e)
    <2>1. CASE ~Live(s) \/ ~Ordered(Merged(setting[s].row, job[e]))
      BY <1>2, <1>4, <2>1 DEF LoadPatch
    <2>2. CASE Live(s) /\ Ordered(Merged(setting[s].row, job[e]))
      <3> DEFINE dirty == Changed(setting[s].row, job[e].cols, job[e].val)
      <3>1. Ordered(Overwrite(setting[s].row, dirty, job[e].val))
            /\ dirty \in SUBSET Columns /\ dirty \subseteq job[e].cols
        BY <1>0, <2>2, ChangedSuffices DEF Merged
      <3>2. PICK pc \in {"refresh", "flush"} :
              edit' = [edit EXCEPT ![e] = [pc |-> pc, dirty |-> dirty, reply |-> "none"]]
        BY <1>4, <2>2 DEF LoadPatch, GoOn
      <3>3. [pc |-> pc, dirty |-> dirty, reply |-> "none"] \in Edit
        BY <3>1 DEF Edit
      <3>4. UNCHANGED <<setting, job>> /\ setting[s].status # "unborn"
        BY <1>4, <2>2 DEF LoadPatch, Live
      <3> HIDE DEF dirty
      <3> QED
        BY <1>1, <3>1, <3>2, <3>3, <3>4
    <2> QED
      BY <2>1, <2>2
  <1>5. CASE LoadDelete(e)
    BY <1>0, <1>1, <1>5 DEF LoadDelete, Answer, GoOn, Edit
  <1>6. CASE FlushPatch(e, locked)
    <2>1. CASE ~Matches(s)
      BY <1>2, <1>6, <2>1 DEF FlushPatch
    <2>2. CASE Matches(s)
      <3> DEFINE new == Overwrite(setting[s].row, edit[e].dirty, job[e].val)
      <3>0. new \in Row /\ Ordered(new) /\ job[e].op = "patch"
            /\ edit[e].dirty \subseteq job[e].cols
        BY <1>0, <1>6, OverwriteFields DEF FlushPatch, CatalogInv, PendingBoundsOrdered
      <3>1. /\ setting' = [setting EXCEPT ![s].row = new] /\ UNCHANGED job
            /\ edit' = [edit EXCEPT ![e] = [pc |-> "refresh", dirty |-> {}, reply |-> "none"]]
        BY <1>6, <2>2 DEF FlushPatch, GoOn
      <3>2. new.min = setting[s].row.min \/ new.max = setting[s].row.max
        BY <1>0, <3>0, OverwriteFields DEF OneBoundMoves
      <3>n. /\ new.min = (IF "min" \in edit[e].dirty THEN job[e].val.min ELSE setting[s].row.min)
            /\ new.max = (IF "max" \in edit[e].dirty THEN job[e].val.max ELSE setting[s].row.max)
        BY <1>0, OverwriteFields
      <3> HIDE DEF new
      <3>3. CatalogTypeOK' /\ BudgetRangeOrdered'
        BY <1>0, <3>0, <3>1 DEF CatalogTypeOK, Setting, Edit, CatalogInv,
           BudgetRangeOrdered, Live
      <3>4. ASSUME NEW f \in Editors, edit'[f].pc = "flush", job[f].op = "patch", job[f].sid = s
            PROVE  Ordered(Overwrite(new, edit[f].dirty, job[f].val))
        <4>1. /\ f # e /\ edit[f].pc = "flush" /\ job[f] \in Jobs
              /\ job[f].val \in Row /\ edit[f].dirty \in SUBSET Columns
              /\ edit[f].dirty \subseteq job[f].cols
              /\ Ordered(Overwrite(setting[s].row, edit[f].dirty, job[f].val))
          BY <1>0, <3>1, <3>4, JobsAssumption DEF CatalogInv, PendingBoundsOrdered, Edit, Job
        <4>2. /\ Overwrite(new, edit[f].dirty, job[f].val).min =
                   (IF "min" \in edit[f].dirty THEN job[f].val.min ELSE new.min)
              /\ Overwrite(new, edit[f].dirty, job[f].val).max =
                   (IF "max" \in edit[f].dirty THEN job[f].val.max ELSE new.max)
          BY <3>0, <4>1, OverwriteFields
        <4>3. /\ Overwrite(setting[s].row, edit[f].dirty, job[f].val).min =
                   (IF "min" \in edit[f].dirty THEN job[f].val.min ELSE setting[s].row.min)
              /\ Overwrite(setting[s].row, edit[f].dirty, job[f].val).max =
                   (IF "max" \in edit[f].dirty THEN job[f].val.max ELSE setting[s].row.max)
          BY <1>0, <4>1, OverwriteFields
        <4>4. CASE \A j \in Jobs : j.op = "patch" => "min" \notin j.cols
          <5>1. "min" \notin edit[f].dirty /\ "min" \notin edit[e].dirty
            BY <1>0, <3>0, <3>4, <4>1, <4>4
          <5> QED
            BY <3>0, <3>n, <4>1, <4>2, <4>3, <5>1 DEF Ordered
        <4>5. CASE \A j \in Jobs : j.op = "patch" => "max" \notin j.cols
          <5>1. "max" \notin edit[f].dirty /\ "max" \notin edit[e].dirty
            BY <1>0, <3>0, <3>4, <4>1, <4>5
          <5> QED
            BY <3>0, <3>n, <4>1, <4>2, <4>3, <5>1 DEF Ordered
        <4> QED
          BY <4>4, <4>5 DEF OneBoundMoves
      <3>5. PendingBoundsOrdered'
        BY <1>0, <3>1, <3>4 DEF CatalogInv, PendingBoundsOrdered, Setting, Overwrite, Ordered
      <3> QED
        BY <3>3, <3>5 DEF CatalogInv
    <2> QED
      BY <2>1, <2>2
  <1>7. CASE FlushDelete(e, locked, referenced, awaited)
    <2>1. CASE UNCHANGED setting
      BY <1>2, <1>7, <2>1 DEF FlushDelete
    <2>2. CASE setting' = [setting EXCEPT ![s].status = "gone"]
               /\ Answer(e, "ok") /\ UNCHANGED job
      BY <1>0, <2>2 DEF CatalogInv, CatalogTypeOK, BudgetRangeOrdered, PendingBoundsOrdered,
         Answer, Live, Setting, Edit, Ordered, Overwrite
    <2> QED
      BY <1>7, <2>1, <2>2 DEF FlushDelete
  <1>8. CASE Refresh(e) \/ FailEdit(e)
    BY <1>2, <1>8 DEF Refresh, FailEdit
  <1> QED
    BY <1>3, <1>4, <1>5, <1>6, <1>7, <1>8 DEF EditorStep

(* Ranges stay in order however many admins work at once, provided that no   *)
(* two of them can move opposite bounds.                                     *)
THEOREM RangesStayOrdered ==
    ASSUME OneBoundMoves PROVE CatalogSpec => []BudgetRangeOrdered
  <1>1. CatalogInit => CatalogInv
    BY DEF CatalogInit, CatalogInv, CatalogTypeOK, BudgetRangeOrdered,
           PendingBoundsOrdered, Edit
  <1>2. CatalogInv /\ [CatalogNext]_catalogVars => CatalogInv'
    <2> SUFFICES ASSUME CatalogInv, [CatalogNext]_catalogVars PROVE CatalogInv'
      OBVIOUS
    <2>1. CASE UNCHANGED catalogVars
      BY <2>1 DEF catalogVars, CatalogInv, CatalogTypeOK, BudgetRangeOrdered,
                  PendingBoundsOrdered, Live, Ordered, Overwrite
    <2> QED
      BY <2>1, EditorKeepsInv, OneBoundMoves DEF CatalogNext, CatalogTerminating
  <1>3. CatalogInv => BudgetRangeOrdered
    BY DEF CatalogInv
  <1> QED
    BY <1>1, <1>2, <1>3, PTL DEF CatalogSpec

-----------------------------------------------------------------------------
(* What needs no assumption on the PATCHes.                                  *)

\* What a PATCH is about to write it was sent.
WritesWhatWasSent ==
    /\ CatalogTypeOK
    /\ \A e \in Editors :
          (edit[e].pc = "flush" /\ job[e].op = "patch") => edit[e].dirty \subseteq job[e].cols

LEMMA EditorKeepsTypes ==
    ASSUME CatalogTypeOK, NEW e \in Editors,
           NEW locked, NEW referenced, NEW awaited,
           EditorStep(e, locked, referenced, awaited) \/ FailEdit(e)
    PROVE  /\ CatalogTypeOK'
           /\ UNCHANGED job
           /\ \A d \in Editors \ {e} : edit'[d] = edit[d]
  <1> USE DEF CatalogTypeOK, Answer, GoOn, Edit, Setting
  <1>0. job[e] \in Job /\ job[e].sid \in Services /\ job[e].val \in Row
    BY JobsAssumption DEF Job
  <1>1. CASE Create(e)
    BY <1>0, <1>1 DEF Create
  <1>2. CASE LoadPatch(e)
    <2>1. Changed(setting[job[e].sid].row, job[e].cols, job[e].val) \in SUBSET Columns
      BY <1>0 DEF Changed, Job
    <2> QED
      BY <1>2, <2>1 DEF LoadPatch
  <1>3. CASE LoadDelete(e)
    BY <1>3 DEF LoadDelete
  <1>4. CASE FlushPatch(e, locked)
    <2>0. setting[job[e].sid].row \in Row /\ edit[e].dirty \in SUBSET Columns
      BY <1>0
    <2>1. Overwrite(setting[job[e].sid].row, edit[e].dirty, job[e].val) \in Row
      BY <1>0, <2>0, OverwriteFields
    <2>2. setting' \in [Services -> Setting]
      <3> DEFINE s == job[e].sid
                 new == Overwrite(setting[s].row, edit[e].dirty, job[e].val)
      <3>1. setting' = setting \/ setting' = [setting EXCEPT ![s].row = new]
        BY <1>4 DEF FlushPatch
      <3>2. s \in Services /\ new \in Row
        BY <1>0, <2>1
      <3> HIDE DEF s, new
      <3> QED
        BY <3>1, <3>2
    <2>3. UNCHANGED job /\ edit' \in [Editors -> Edit]
      BY <1>4 DEF FlushPatch
    <2>4. \A d \in Editors \ {e} : edit'[d] = edit[d]
      BY <1>4 DEF FlushPatch
    <2> QED
      BY <2>2, <2>3, <2>4
  <1>5. CASE FlushDelete(e, locked, referenced, awaited)
    BY <1>0, <1>5 DEF FlushDelete
  <1>6. CASE Refresh(e)
    BY <1>6 DEF Refresh
  <1>7. CASE FailEdit(e)
    BY <1>7 DEF FailEdit
  <1> QED
    BY <1>1, <1>2, <1>3, <1>4, <1>5, <1>6, <1>7 DEF EditorStep

LEMMA EditorWritesWhatWasSent ==
    ASSUME WritesWhatWasSent, NEW e \in Editors,
           EditorStep(e, {}, {}, {}) \/ FailEdit(e)
    PROVE  WritesWhatWasSent'
  <1>1. CatalogTypeOK' /\ UNCHANGED job /\ \A d \in Editors \ {e} : edit'[d] = edit[d]
    BY EditorKeepsTypes DEF WritesWhatWasSent
  <1>2. ASSUME edit'[e].pc = "flush", job[e].op = "patch"
        PROVE  edit'[e].dirty \subseteq job[e].cols
    <2>0. job[e] \in Job /\ setting[job[e].sid].row \in Row
      BY JobsAssumption DEF WritesWhatWasSent, CatalogTypeOK, Job, Setting
    <2>1. LoadPatch(e)
      BY <1>2 DEF EditorStep, Create, LoadDelete, FlushPatch, FlushDelete, Refresh,
                  FailEdit, Answer, GoOn, WritesWhatWasSent, CatalogTypeOK, Edit
    <2>2. edit'[e].dirty = Changed(setting[job[e].sid].row, job[e].cols, job[e].val)
      BY <1>2, <2>1 DEF LoadPatch, Answer, GoOn, WritesWhatWasSent, CatalogTypeOK
    <2> QED
      BY <2>2 DEF Changed
  <1> QED
    BY <1>1, <1>2 DEF WritesWhatWasSent

LEMMA WritesWhatWasSentAlways == CatalogSpec => []WritesWhatWasSent
  <1>1. CatalogInit => WritesWhatWasSent
    BY DEF CatalogInit, WritesWhatWasSent, CatalogTypeOK, Edit
  <1>2. WritesWhatWasSent /\ [CatalogNext]_catalogVars => WritesWhatWasSent'
    <2>1. ASSUME WritesWhatWasSent, UNCHANGED catalogVars PROVE WritesWhatWasSent'
      BY <2>1 DEF catalogVars, WritesWhatWasSent, CatalogTypeOK
    <2> QED
      BY <2>1, EditorWritesWhatWasSent DEF CatalogNext, CatalogTerminating
  <1> QED
    BY <1>1, <1>2, PTL DEF CatalogSpec

(* The catalog is well typed.                                                *)
THEOREM CatalogTypes == CatalogSpec => []CatalogTypeOK
  <1>1. WritesWhatWasSent => CatalogTypeOK
    BY DEF WritesWhatWasSent
  <1> QED
    BY <1>1, WritesWhatWasSentAlways, PTL

(* A PATCH leaves alone what it was not sent, however stale its copy is.     *)
THEOREM NothingCollateral == CatalogSpec => NoCollateralWrite
  <1>1. WritesWhatWasSent /\ [CatalogNext]_catalogVars =>
          [\A e \in Editors :
              LET s == job[e].sid IN
              (edit[e].pc = "flush" /\ setting'[s] # setting[s] /\ edit'[e] # edit[e]
                 /\ job[e].op = "patch") =>
                 \A c \in Columns \ job[e].cols :
                    setting'[s].row[c] = setting[s].row[c]]_catalogVars
    <2> SUFFICES ASSUME WritesWhatWasSent, CatalogNext, NEW e \in Editors,
                        edit[e].pc = "flush", setting'[job[e].sid] # setting[job[e].sid],
                        edit'[e] # edit[e], job[e].op = "patch",
                        NEW c \in Columns \ job[e].cols
                 PROVE  setting'[job[e].sid].row[c] = setting[job[e].sid].row[c]
      OBVIOUS
    <2>0. /\ job[e].sid \in Services /\ job[e].val \in Row
          /\ setting[job[e].sid].row \in Row /\ edit[e].dirty \subseteq job[e].cols
          /\ setting \in [Services -> Setting]
      BY JobsAssumption DEF WritesWhatWasSent, CatalogTypeOK, Job, Setting
    <2>1. EditorStep(e, {}, {}, {}) \/ FailEdit(e)
      BY EditorKeepsTypes DEF CatalogNext, CatalogTerminating, catalogVars, WritesWhatWasSent
    <2>2. FlushPatch(e, {})
      BY <2>1 DEF EditorStep, Create, LoadPatch, LoadDelete, FlushDelete, Refresh, FailEdit
    <2>3. setting'[job[e].sid].row
            = Overwrite(setting[job[e].sid].row, edit[e].dirty, job[e].val)
      BY <2>0, <2>2 DEF FlushPatch, Setting
    <2> QED
      BY <2>0, <2>3 DEF Overwrite, Columns, Row
  <1> QED
    BY <1>1, WritesWhatWasSentAlways, PTL DEF CatalogSpec, NoCollateralWrite

(* A deleted service never comes back.                                       *)
THEOREM DeletedForGood == CatalogSpec => DeletedStaysDeleted
  <1>1. WritesWhatWasSent /\ [CatalogNext]_catalogVars =>
          [\A s \in Services : setting[s].status = "gone" => setting'[s] = setting[s]]_catalogVars
    <2> SUFFICES ASSUME WritesWhatWasSent, NEW e \in Editors,
                        EditorStep(e, {}, {}, {}) \/ FailEdit(e),
                        NEW s \in Services, setting[s].status = "gone"
                 PROVE  setting'[s] = setting[s]
      BY DEF CatalogNext, CatalogTerminating, catalogVars
    <2>0. job[e].sid \in Services /\ setting \in [Services -> Setting]
      BY JobsAssumption DEF WritesWhatWasSent, CatalogTypeOK, Job
    <2> QED
      BY <2>0 DEF EditorStep, Create, LoadPatch, LoadDelete, FlushPatch, FlushDelete,
                  Refresh, FailEdit, Matches, Live
  <1> QED
    BY <1>1, WritesWhatWasSentAlways, PTL DEF CatalogSpec, DeletedStaysDeleted

=============================================================================
