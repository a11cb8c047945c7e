---------------------------- MODULE PriorityBoard ----------------------------
(***************************************************************************)
(* The stored priority score of applications and the admin's list that is  *)
(* sorted and filtered by it: PATCH and DELETE /applications/{id},         *)
(* GET /applications/prioritized (backend/app/crud/application.py,         *)
(* models/application.py, routes/applications.py).                         *)
(*                                                                         *)
(* A worker serves one PATCH or DELETE after another, a reader one page    *)
(* after another; workers and readers run concurrently, each request in a  *)
(* READ COMMITTED transaction.  A PATCH loads the row without a lock; the  *)
(* flush recomputes the score from that copy and its UPDATE sets only the  *)
(* columns that differ from the copy.  UPDATE and COMMIT are one step, as  *)
(* in ServiceCatalog.  A reader's COUNT and its SELECT are two statements, *)
(* each with a snapshot of its own.                                        *)
(*                                                                         *)
(* Ids follow the order of creation, so the tie-break by created_at and id *)
(* is a tie-break by id.  The text search narrows the list like the level  *)
(* does and is left out.  The free texts count as one column, by the       *)
(* markers found in them.                                                  *)
(***************************************************************************)
EXTENDS ApplicationScoring, FiniteSetsExt, SequencesExt

CONSTANTS
    Ids,        \* applications
    Workers,    \* requests that change applications, each one at a time
    Readers,    \* requests that list them, each one at a time
    Contents,   \* contents an application may have
    Patches,    \* what a PATCH may set
    Queries     \* what a list request may ask for

Columns == {"deadline", "size", "scope", "type", "niche", "role", "budget",
            "markers", "complete"}
Patch == [id : Ids, cols : SUBSET Columns, val : Application]
Query == [level : Levels \union {"all"}, skip : Nat, limit : Nat]

ASSUME IdsAssumption == Ids \subseteq Nat /\ IsFiniteSet(Ids)
ASSUME ContentsAssumption == Contents \subseteq Application
ASSUME PatchesAssumption == Patches \subseteq Patch
ASSUME QueriesAssumption == Queries \subseteq Query

VARIABLES
    board,      \* the row of each application, as committed
    worker,     \* what each worker is doing
    reader      \* what each reader has seen

boardVars == <<board, worker, reader>>

Row == [status : {"none", "live", "gone"}, data : Application, score : MinScore .. MaxScore]
Idle == [pc |-> "idle"]
Worker == {Idle} \union [pc : {"flush"}, job : Patches, copy : Row]
Listed == [id : Ids, data : Application]
Reader == {Idle}
    \union [pc : {"page"}, query : Queries, total : 0 .. Cardinality(Ids)]
    \union [pc : {"done"}, query : Queries, total : 0 .. Cardinality(Ids),
            items : Seq(Listed)]

BoardTypeOK ==
    /\ board \in [Ids -> Row]
    /\ worker \in [Workers -> Worker]
    /\ reader \in [Readers -> Reader]

Live(i) == board[i].status = "live"

-----------------------------------------------------------------------------

\* The columns `cols` of `data` replaced by those of `val`.
Overwrite(data, cols, val) ==
    [c \in Columns |-> IF c \in cols THEN val[c] ELSE data[c]]

\* Columns whose value the PATCH really changes.
Changed(data, j) == {c \in j.cols : data[c] # j.val[c]}

\* Mutant: the score recomputed only when a PATCH changes an answer.
SyncedScoreIfChanged(copy, j) ==
    IF Changed(copy.data, j) = {} THEN copy.score
    ELSE Score(Overwrite(copy.data, j.cols, j.val))

\* _sync_priority_score, before the UPDATE: the score of the copy as patched.
SyncedScore(copy, j) == Score(Overwrite(copy.data, j.cols, j.val))

\* create_application: the score is computed before the INSERT.
Insert(i) ==
    /\ board[i].status = "none"
    /\ board' = [board EXCEPT ![i].status = "live", ![i].score = Score(board[i].data)]
    /\ UNCHANGED <<worker, reader>>

\* update_application up to the commit.  A payload without a field, or a row that
\* is not there, changes nothing.
LoadPatch(w) ==
    /\ worker[w].pc = "idle"
    /\ \E j \in Patches :
          /\ j.cols # {} /\ Live(j.id)
          /\ worker' = [worker EXCEPT ![w] =
                           [pc |-> "flush", job |-> j, copy |-> board[j.id]]]
    /\ UNCHANGED <<board, reader>>

\* The UPDATE sets the columns that differ from the copy, the score among them,
\* on the row as it is by now; a row deleted meanwhile is a 500.  The refresh
\* that follows only decides what is answered.
FlushPatch(w) ==
    LET j == worker[w].job
        copy == worker[w].copy
        score == SyncedScore(copy, j)
    IN
    /\ worker[w].pc = "flush"
    /\ board' = IF Live(j.id)
                THEN [board EXCEPT
                        ![j.id].data = Overwrite(@, Changed(copy.data, j), j.val),
                        ![j.id].score = IF score # copy.score THEN score ELSE @]
                ELSE board
    /\ worker' = [worker EXCEPT ![w] = Idle]
    /\ UNCHANGED reader

\* The request dies before its commit.
FailPatch(w) ==
    /\ worker[w].pc = "flush"
    /\ worker' = [worker EXCEPT ![w] = Idle]
    /\ UNCHANGED <<board, reader>>

\* delete_application: a DELETE that finds no row left is only a warning.  What it
\* does to the key and the capability is in OrderIntake.
Delete(w, i) ==
    /\ worker[w].pc = "idle"
    /\ Live(i)
    /\ board' = [board EXCEPT ![i].status = "gone"]
    /\ UNCHANGED <<worker, reader>>

-----------------------------------------------------------------------------

\* The rows a query's WHERE clause selects.
Selected(q) ==
    {i \in Ids : Live(i) /\ (q.level # "all" => InBand(board[i].score, q.level))}

\* Mutant: ascending order.
OutranksBackwards(i, k) ==
    \/ board[i].score < board[k].score
    \/ board[i].score = board[k].score /\ i < k

\* ORDER BY priority_score DESC, created_at, id.
Outranks(i, k) ==
    \/ board[i].score > board[k].score
    \/ board[i].score = board[k].score /\ i < k

\* ... OFFSET skip LIMIT limit: the rows by how many outrank them.
PageOf(q) ==
    LET rows == Selected(q)
        Ahead(i) == Cardinality({k \in rows : Outranks(k, i)})
        last == IF q.skip + q.limit < Cardinality(rows) THEN q.skip + q.limit
                ELSE Cardinality(rows)
    IN  [n \in 1 .. last - q.skip |-> CHOOSE i \in rows : Ahead(i) = q.skip + n - 1]

\* The SELECT COUNT(*).
Count(r) ==
    /\ reader[r].pc # "page"
    /\ \E q \in Queries :
          reader' = [reader EXCEPT ![r] = [pc |-> "page", query |-> q,
                        total |-> Cardinality(Selected(q))]]
    /\ UNCHANGED <<board, worker>>

\* The SELECT of the page; the badges are computed from the rows it returns.
Page(r) ==
    /\ reader[r].pc = "page"
    /\ LET page == PageOf(reader[r].query) IN
       reader' = [reader EXCEPT ![r] =
          [pc |-> "done", query |-> @.query, total |-> @.total,
           items |-> [n \in DOMAIN page |-> [id |-> page[n], data |-> board[page[n]].data]]]]
    /\ UNCHANGED <<board, worker>>

-----------------------------------------------------------------------------

\* A board of applications that are there or were deleted, each with its score, and
\* of applications whose form is yet to be sent.
Filled(status, data) ==
    [i \in Ids |-> [status |-> status[i], data |-> data[i],
                    score |-> IF status[i] = "none" THEN MinScore ELSE Score(data[i])]]

BoardInit ==
    /\ \E status \in [Ids -> {"none", "live", "gone"}], data \in [Ids -> Contents] :
          board = Filled(status, data)
    /\ worker = [w \in Workers |-> Idle]
    /\ reader = [r \in Readers |-> Idle]

BoardNext ==
    \/ \E i \in Ids : Insert(i)
    \/ \E w \in Workers :
          LoadPatch(w) \/ FlushPatch(w) \/ FailPatch(w) \/ \E i \in Ids : Delete(w, i)
    \/ \E r \in Readers : Count(r) \/ Page(r)

BoardSpec == BoardInit /\ [][BoardNext]_boardVars

-----------------------------------------------------------------------------
(* Properties of the score.                                                  *)

(* The filter by level and the badge agree on every score, at the borders    *)
(* too: a score lies in the band of its level and in no other ("can never    *)
(* drift out of sync", priority_score_bounds).                               *)
BandsMatchLevels ==
    \A i \in Ids : \A level \in Levels :
        LET s == Score(board[i].data) IN InBand(s, level) <=> level = Level(s)

(* A preparation for sale that says "before sale" in its text earns no more  *)
(* than one that does not, and any other sign of urgency still counts.       *)
SaleNotPaidTwice ==
    \A i \in Ids :
        LET a == board[i].data IN
        a.type = "presale" =>
            RawScore(a) = RawScore([a EXCEPT !.markers = @ \ {"beforeSale"}])

\* Options that a table pays at least as well.
AtLeast(table, options, option) == {o \in options : Points(table, o) >= Points(table, option)}

\* `a` with one answer replaced by one worth as much or more.  The type of the task
\* is not among them: it decides whether "before sale" counts too.
Improved(a) ==
    {[a EXCEPT !.deadline = o] : o \in AtLeast(DeadlinePoints, Deadlines, a.deadline)}
    \union {[a EXCEPT !.size = o] : o \in AtLeast(SizePoints, Sizes, a.size)}
    \union {[a EXCEPT !.scope = o] : o \in AtLeast(ScopePoints, Scopes, a.scope)}
    \union {[a EXCEPT !.niche = o] : o \in AtLeast(NichePoints, Niches, a.niche)}
    \union {[a EXCEPT !.role = o] : o \in AtLeast(RolePoints, Roles, a.role)}
    \union {[a EXCEPT !.budget = b] :
               b \in {BudgetTiers[t][1] : t \in DOMAIN BudgetTiers} \ 0 .. a.budget - 1}

(* An answer worth more, or a higher budget, never costs an application      *)
(* points, its personal manager or the fleet team: the tables of points, the *)
(* sets of fleet sizes and corporate niches and the budget tiers agree.      *)
BetterAnswersNeverCost ==
    \A i \in Ids :
        LET a == board[i].data IN
        \A b \in Improved(a) :
            /\ Score(b) >= Score(a)
            /\ NeedsManager(a) => NeedsManager(b)
            /\ Team(a) = "fleets" => Team(b) = "fleets"

-----------------------------------------------------------------------------
(* Properties of the board.                                                  *)

(* The stored score is the score of the row ("a materialized, always-in-sync *)
(* copy", models/application.py).  It holds as long as no two PATCHes of an  *)
(* application overlap, and fails when they do: each UPDATE carries a score  *)
(* computed without the other's change.                                      *)
ScoreInSync == \A i \in Ids : Live(i) => board[i].score = Score(board[i].data)

(* Whatever happened before, a PATCH that nobody overlaps leaves the right   *)
(* score behind, even one that changes no answer.                            *)
QuietPatchHeals ==
    [][\A w \in Workers :
          (FlushPatch(w) /\ Live(worker[w].job.id)
             /\ worker[w].copy = board[worker[w].job.id]) =>
             LET i == worker[w].job.id IN
             board'[i].score = Score(board'[i].data)]_boardVars

InSync(i) == board[i].score = Score(board[i].data)

(* The first page shows the applications with the highest scores, as the     *)
(* badges give them: none that is left out beats one that is shown, unless   *)
(* the score of one of the two is out of sync.                               *)
PageShowsTop ==
    [][\A r \in Readers :
          (reader[r].pc = "page" /\ reader[r].query.skip = 0 /\ reader'[r].pc = "done") =>
             LET shown == {reader'[r].items[n].id : n \in DOMAIN reader'[r].items} IN
             \A i \in shown, k \in Selected(reader[r].query) \ shown :
                InSync(i) /\ InSync(k) => Score(board[i].data) >= Score(board[k].data)]_boardVars
=============================================================================
