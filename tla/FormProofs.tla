----------------------------- MODULE FormProofs ------------------------------
(***************************************************************************)
(* What the order form may rely on when it sends an order again: for any   *)
(* number of services, budgets, texts and POSTs, lost, late or answered in *)
(* any order.                                                              *)
(***************************************************************************)
EXTENDS HomeForm, CatalogProofs

HomeTypes ==
    /\ CatalogTypeOK
    /\ form \in Form
    /\ try \in [Tries -> Try]

\* A refusal that the page has been told of.
ToldNo(c) == try[c].pc = "told" /\ try[c].answer \in {"refused", "mismatch"}

\* Control against data: which tries exist, and what the handler holds where.
PathKnown ==
    /\ \A t \in Tries : Sent(t) <=> t <= form.count
    /\ \A t \in Tries : Sent(t) => (try[t].pc = "flight" <=> try[t].answer = "none")
    /\ form.pc = "checking" => form.held # NoCard /\ form.count < MaxTries
    /\ form.pc = "sending" => form.count # 0 /\ form.key # 0
    /\ form.pc = "sent" => form.count # 0 /\ try[form.count].answer \in {"created", "replayed"}

\* The key at hand is that of the last try, unless that try was told no.
KeyKnown ==
    /\ form.key # 0 => form.count # 0 /\ form.key = try[form.count].key
    /\ (form.key = 0 /\ form.count # 0) => ToldNo(form.count)
    /\ \A t \in Tries : Sent(t) => try[t].key <= t

\* Between two tries under different keys the earlier key was told no.
KeysChangeForReason ==
    \A t, u \in Tries :
        (Sent(t) /\ Sent(u) /\ t < u /\ try[t].key # try[u].key) =>
            \E c \in t .. u - 1 : ToldNo(c) /\ try[c].key = try[t].key

\* What an answer says of the order placed under its key.
AnswersTrue ==
    /\ \A c \in Tries : Sent(c) /\ try[c].answer = "replayed" =>
          \E t \in Placed : try[t].key = try[c].key /\ try[t].want = try[c].want
    /\ \A c \in Tries : Sent(c) /\ try[c].answer = "mismatch" =>
          \E t \in Placed : try[t].key = try[c].key /\ try[t].want # try[c].want
    /\ \A t, u \in Placed : try[t].key = try[u].key => t = u

FormInv == HomeTypes /\ PathKnown /\ KeyKnown /\ KeysChangeForReason /\ AnswersTrue

-----------------------------------------------------------------------------
(* The catalog's step, seen from the form.                                   *)

\* No admin has changed the catalog yet.
Untouched == \A e \in Editors : edit[e].pc \in {"idle", "flush"}

(* Whoever has changed the catalog changes it no more.                       *)
LEMMA CatalogStepTypes ==
    ASSUME CatalogTypeOK, NEW e \in Editors, CatalogStep(e)
    PROVE  /\ CatalogTypeOK'
           /\ \A d \in Editors \ {e} : edit'[d] = edit[d]
           /\ setting' # setting => edit[e].pc \in {"idle", "flush"}
                                    /\ edit'[e].pc \in {"refresh", "done"}
           /\ edit[e].pc \notin {"idle", "flush"} => edit'[e].pc \notin {"idle", "flush"}
  <1> DEFINE referenced == {try[t].want.sid : t \in Placed}
  <1>1. EditorStep(e, {}, referenced, {}) \/ FailEdit(e)
    BY DEF CatalogStep
  <1> HIDE DEF referenced
  <1>2. CatalogTypeOK' /\ \A d \in Editors \ {e} : edit'[d] = edit[d]
    BY <1>1, EditorKeepsTypes
  <1>3. setting' # setting => Create(e) \/ FlushPatch(e, {})
                              \/ FlushDelete(e, {}, referenced, {})
    BY <1>1 DEF EditorStep, LoadPatch, LoadDelete, Refresh, FailEdit
  <1>4. setting' # setting => edit[e].pc \in {"idle", "flush"}
                              /\ edit'[e].pc \in {"refresh", "done"}
    BY <1>3 DEF Create, FlushPatch, FlushDelete, GoOn, Answer, CatalogTypeOK
  <1>5. edit[e].pc \notin {"idle", "flush"} => edit'[e].pc \notin {"idle", "flush"}
    BY <1>1 DEF EditorStep, Create, LoadPatch, LoadDelete, FlushPatch, FlushDelete,
                Refresh, FailEdit, GoOn, Answer, CatalogTypeOK
  <1> QED
    BY <1>2, <1>4, <1>5

-----------------------------------------------------------------------------
(* Types.                                                                    *)

LEMMA ListedCards ==
    ASSUME CatalogTypeOK PROVE Listed \subseteq Card
  BY DEF CatalogTypeOK, Listed, Offered, Card, Setting, Row

LEMMA ClampAmount ==
    ASSUME NEW b \in Amounts, NEW min \in Amounts, NEW max \in Amounts
    PROVE  /\ ClampToRange(b, min, max) \in Amounts
           /\ min <= max => min <= ClampToRange(b, min, max)
                            /\ ClampToRange(b, min, max) <= max
  BY MaxAmountAssumption DEF ClampToRange, Amounts

LEMMA OrderType ==
    ASSUME HomeTypes, form.held # NoCard
    PROVE  /\ Order \in Want
           /\ form.held \in Card
  <1>1. form.held \in Card /\ form.budget \in Amounts /\ form.text \in Texts
    BY DEF HomeTypes, Form
  <1>2. ClampToRange(form.budget, form.held.min, form.held.max) \in Amounts
    BY <1>1, ClampAmount DEF Card
  <1> QED
    BY <1>1, <1>2 DEF Order, Want, Card

(* A step of the user, who sends nothing.                                    *)
LEMMA UserStepTypes ==
    ASSUME HomeTypes, UserStep, UNCHANGED catalogVars
    PROVE  /\ HomeTypes'
           /\ UNCHANGED try
           /\ form'.key = form.key /\ form'.count = form.count
           /\ \/ form'.pc = form.pc /\ form'.held = form.held
              \/ /\ form.pc = "idle" /\ form'.pc = "checking"
                 /\ form'.held = form.pick /\ form'.held # NoCard /\ form.count < MaxTries
  <1> USE DEF HomeTypes
  <1>0. CatalogTypeOK'
    BY DEF catalogVars, CatalogTypeOK
  <1>1. CASE LoadServices
    <2>1. Listed \subseteq Card
      BY ListedCards
    <2>2. form' \in Form
      BY <1>1, <2>1 DEF LoadServices, Form
    <2> QED
      BY <1>0, <1>1, <2>2 DEF LoadServices, Form
  <1>2. CASE Submit
    BY <1>0, <1>2 DEF Submit, Form
  <1>3. ASSUME NEW c \in form.cards \union {form.pick}, NEW b \in Amounts, SelectService(c, b)
        PROVE  form' \in Form /\ form' = [form EXCEPT !.pick = c,
                                            !.budget = ClampToRange(b, c.min, c.max)]
    <2>1. c \in Card
      BY <1>3 DEF SelectService, Form
    <2>2. ClampToRange(b, c.min, c.max) \in Amounts
      BY <2>1, ClampAmount DEF Card
    <2> QED
      BY <1>3, <2>1, <2>2 DEF SelectService, Form
  <1>4. ASSUME NEW text \in Texts, Type(text)
        PROVE  form' \in Form /\ form' = [form EXCEPT !.text = text]
    BY <1>4 DEF Type, Form
  <1>5. CASE \E c \in form.cards \union {form.pick}, b \in Amounts : SelectService(c, b)
    BY <1>0, <1>3, <1>5 DEF SelectService, Form
  <1>6. CASE \E text \in Texts : Type(text)
    BY <1>0, <1>4, <1>6 DEF Type, Form
  <1> QED
    BY <1>1, <1>2, <1>5, <1>6 DEF UserStep

(* A POST that leaves the page.                                              *)
LEMMA SendTypes ==
    ASSUME HomeTypes, PathKnown, CheckPasses
    PROVE  /\ form' \in Form /\ try' \in [Tries -> Try]
           /\ form.count + 1 \in Tries /\ ~Sent(form.count + 1)
           /\ KeyOfTry(form.count + 1) \in Tries
           /\ Order \in Want /\ form.held \in Card
           /\ try'[form.count + 1] = [pc |-> "flight", key |-> KeyOfTry(form.count + 1),
                                      want |-> Order, shown |-> form.pick, answer |-> "none"]
           /\ \A t \in Tries \ {form.count + 1} : try'[t] = try[t]
           /\ form' = [form EXCEPT !.pc = "sending", !.count = form.count + 1,
                                   !.key = KeyOfTry(form.count + 1)]
  <1> DEFINE n == form.count + 1
             new == [pc |-> "flight", key |-> KeyOfTry(n), want |-> Order,
                     shown |-> form.pick, answer |-> "none"]
  <1>1. form.count \in 0 .. MaxTries /\ form.key \in 0 .. MaxTries
        /\ form.pick \in Card \union {NoCard}
    BY DEF HomeTypes, Form
  <1>2. n \in Tries /\ KeyOfTry(n) \in Tries /\ n > form.count
    BY <1>1, TriesAssumption DEF PathKnown, CheckPasses, Tries, KeyOfTry
  <1>3. ~Sent(n)
    BY <1>1, <1>2 DEF PathKnown, Tries
  <1>4. Order \in Want /\ form.held \in Card
    BY OrderType DEF PathKnown, CheckPasses
  <1>5. new \in Try
    BY <1>1, <1>2, <1>4 DEF Try
  <1>6. try' = [try EXCEPT ![n] = new]
        /\ form' = [form EXCEPT !.pc = "sending", !.count = n, !.key = KeyOfTry(n)]
    BY DEF CheckPasses
  <1> HIDE DEF n, new
  <1>7. try' \in [Tries -> Try] /\ try'[n] = new /\ \A t \in Tries \ {n} : try'[t] = try[t]
    BY <1>2, <1>5, <1>6 DEF HomeTypes
  <1>z. n \in 0 .. MaxTries /\ KeyOfTry(n) \in 0 .. MaxTries
    BY <1>2, TriesAssumption DEF Tries
  <1>8. form' \in Form
    BY <1>z, <1>6 DEF HomeTypes, Form
  <1> QED
    BY <1>2, <1>3, <1>4, <1>6, <1>7, <1>8 DEF n, new

LEMMA RecordUpdate ==
    ASSUME NEW x \in Try, x.pc # "unsent", NEW pc, NEW answer
    PROVE  /\ [x EXCEPT !.pc = pc] = [pc |-> pc, key |-> x.key, want |-> x.want,
                                      shown |-> x.shown, answer |-> x.answer]
           /\ [x EXCEPT !.pc = pc, !.answer = answer] =
                 [pc |-> pc, key |-> x.key, want |-> x.want,
                  shown |-> x.shown, answer |-> answer]
  <1>1. x \in [pc : {"flight", "served", "told"}, key : Tries, want : Want,
               shown : Card \union {NoCard},
               answer : {"none", "created", "replayed", "refused", "mismatch"}]
    BY DEF Try, Unsent
  <1>2. PICK a, k, w, c, b : x = [pc |-> a, key |-> k, want |-> w, shown |-> c, answer |-> b]
    BY <1>1
  <1>3. [x EXCEPT !.pc = pc] = [pc |-> pc, key |-> x.key, want |-> x.want,
                                shown |-> x.shown, answer |-> x.answer]
    BY <1>2
  <1>4. [x EXCEPT !.pc = pc, !.answer = answer] =
           [pc |-> pc, key |-> x.key, want |-> x.want, shown |-> x.shown, answer |-> answer]
    <2> DEFINE y == [x EXCEPT !.pc = pc]
    <2>1. y = [pc |-> pc, key |-> k, want |-> w, shown |-> c, answer |-> b]
      BY <1>2
    <2>2. [x EXCEPT !.pc = pc, !.answer = answer] = [y EXCEPT !.answer = answer]
      OBVIOUS
    <2>3. x.key = k /\ x.want = w /\ x.shown = c
      BY <1>2
    <2> HIDE DEF y
    <2>4. [y EXCEPT !.answer = answer]
            = [pc |-> pc, key |-> k, want |-> w, shown |-> c, answer |-> answer]
      BY <2>1
    <2> QED
      BY <2>2, <2>3, <2>4
  <1> QED
    BY <1>3, <1>4

(* The fields of a try that was sent.                                        *)
LEMMA SentFields ==
    ASSUME HomeTypes, NEW t \in Tries, Sent(t)
    PROVE  /\ try[t].pc \in {"flight", "served", "told"} /\ try[t].key \in Tries
           /\ try[t].want \in Want
           /\ try[t].answer \in {"none", "created", "replayed", "refused", "mismatch"}
           /\ try[t] = [pc |-> try[t].pc, key |-> try[t].key, want |-> try[t].want,
                        shown |-> try[t].shown, answer |-> try[t].answer]
           /\ try[t].shown \in Card \union {NoCard}
  BY DEF HomeTypes, Sent, Try, Unsent

(* A POST that reaches the server.                                           *)
ServedAnswer(t) ==
    LET holder == {u \in Placed : try[u].key = try[t].key} IN
    IF holder # {} THEN IF \A u \in holder : SameOrder(t, u) THEN "replayed" ELSE "mismatch"
    ELSE IF Admits(try[t].want) THEN "created" ELSE "refused"

LEMMA ServeTypes ==
    ASSUME HomeTypes, NEW t \in Tries, Serve(t)
    PROVE  /\ try' \in [Tries -> Try] /\ form' = form /\ Sent(t) /\ try[t].pc = "flight"
           /\ try'[t] = [pc |-> "served", key |-> try[t].key, want |-> try[t].want,
                         shown |-> try[t].shown, answer |-> ServedAnswer(t)]
           /\ \A u \in Tries \ {t} : try'[u] = try[u]
           /\ ServedAnswer(t) \in {"created", "replayed", "refused", "mismatch"}
  <1>1. Sent(t) /\ try[t].pc = "flight" /\ form' = form
    BY DEF Serve, Sent
  <1>2. try' = [try EXCEPT ![t].pc = "served", ![t].answer = ServedAnswer(t)]
    BY DEF Serve, ServedAnswer
  <1>3. ServedAnswer(t) \in {"created", "replayed", "refused", "mismatch"}
    BY DEF ServedAnswer
  <1> DEFINE answer == ServedAnswer(t)
  <1> HIDE DEF answer
  <1>r. [try[t] EXCEPT !.pc = "served", !.answer = answer] = [pc |-> "served",
           key |-> try[t].key, want |-> try[t].want, shown |-> try[t].shown, answer |-> answer]
    BY <1>1, RecordUpdate DEF HomeTypes, Sent
  <1>4. try' = [try EXCEPT ![t] = [pc |-> "served", key |-> try[t].key, want |-> try[t].want,
                                   shown |-> try[t].shown, answer |-> answer]]
    BY <1>2, <1>r DEF HomeTypes, answer
  <1>5. [pc |-> "served", key |-> try[t].key, want |-> try[t].want,
         shown |-> try[t].shown, answer |-> answer] \in Try
    BY <1>1, <1>3, SentFields DEF Try, answer
  <1>6. try' \in [Tries -> Try]
    BY <1>4, <1>5 DEF HomeTypes
  <1>7. try'[t] = [pc |-> "served", key |-> try[t].key, want |-> try[t].want,
                   shown |-> try[t].shown, answer |-> answer]
        /\ \A u \in Tries \ {t} : try'[u] = try[u]
    BY <1>4 DEF HomeTypes
  <1> QED
    BY <1>1, <1>3, <1>6, <1>7 DEF answer

(* The page that learns the answer of its last POST.                         *)
LEMMA LearnTypes ==
    ASSUME HomeTypes, PathKnown, Learn
    PROVE  /\ form' \in Form /\ try' \in [Tries -> Try]
           /\ form.count \in Tries /\ Sent(form.count)
           /\ try'[form.count] = [pc |-> "told", key |-> try[form.count].key,
                 want |-> try[form.count].want, shown |-> try[form.count].shown,
                 answer |-> try[form.count].answer]
           /\ \A t \in Tries \ {form.count} : try'[t] = try[t]
           /\ try[form.count].pc = "served"
           /\ form' = [form EXCEPT
                 !.pc = IF try[form.count].answer \in {"created", "replayed"}
                        THEN "sent" ELSE "idle",
                 !.key = IF DropsKey(try[form.count].answer) THEN 0 ELSE @]
  <1> DEFINE n == form.count
  <1>1. n \in Tries
    BY TriesAssumption DEF HomeTypes, Form, PathKnown, Learn, Tries
  <1>2. Sent(n) /\ try[n].pc = "served"
    BY DEF Learn, Sent
  <1>3. try' = [try EXCEPT ![n].pc = "told"]
    BY DEF Learn
  <1>f. form' = [form EXCEPT
                 !.pc = IF try[n].answer \in {"created", "replayed"} THEN "sent" ELSE "idle",
                 !.key = IF DropsKey(try[n].answer) THEN 0 ELSE @]
    BY DEF Learn
  <1> HIDE DEF n
  <1>r. [try[n] EXCEPT !.pc = "told"] = [pc |-> "told", key |-> try[n].key,
           want |-> try[n].want, shown |-> try[n].shown, answer |-> try[n].answer]
    BY <1>1, <1>2, RecordUpdate DEF HomeTypes, Sent
  <1>4. try' = [try EXCEPT ![n] = [pc |-> "told", key |-> try[n].key, want |-> try[n].want,
                                   shown |-> try[n].shown, answer |-> try[n].answer]]
    BY <1>3, <1>r
  <1>5. [pc |-> "told", key |-> try[n].key, want |-> try[n].want,
         shown |-> try[n].shown, answer |-> try[n].answer] \in Try
    BY <1>1, <1>2, SentFields DEF Try
  <1>6. try' \in [Tries -> Try]
    BY <1>1, <1>4, <1>5 DEF HomeTypes
  <1>z. 0 \in 0 .. MaxTries
    BY TriesAssumption
  <1>7. form' \in Form
    BY <1>f, <1>z DEF HomeTypes, Form
  <1>8. try'[n] = [pc |-> "told", key |-> try[n].key, want |-> try[n].want,
                   shown |-> try[n].shown, answer |-> try[n].answer]
        /\ \A t \in Tries \ {n} : try'[t] = try[t]
    BY <1>1, <1>4 DEF HomeTypes
  <1> QED
    BY <1>1, <1>2, <1>f, <1>6, <1>7, <1>8 DEF n

-----------------------------------------------------------------------------
(* The invariant.                                                            *)

(* A step that sends, serves and tells nothing.                              *)
LEMMA QuietStep ==
    ASSUME FormInv, HomeTypes', UNCHANGED try,
           form'.key = form.key, form'.count = form.count,
           form'.pc = "checking" => form'.held # NoCard /\ form'.count < MaxTries,
           form'.pc \in {"sending", "sent"} => form'.pc = form.pc
    PROVE  FormInv'
  <1> USE DEF FormInv
  <1>1. PathKnown'
    BY DEF PathKnown, Sent
  <1>2. KeyKnown' /\ KeysChangeForReason'
    BY DEF KeyKnown, KeysChangeForReason, Sent, ToldNo
  <1>3. AnswersTrue'
    BY DEF AnswersTrue, Sent, Placed
  <1> QED
    BY <1>1, <1>2, <1>3

LEMMA SendStep ==
    ASSUME FormInv, CheckPasses, UNCHANGED catalogVars PROVE FormInv'
  <1> DEFINE n == form.count + 1
             new == [pc |-> "flight", key |-> KeyOfTry(n), want |-> Order,
                     shown |-> form.pick, answer |-> "none"]
  <1>0. HomeTypes /\ PathKnown /\ KeyKnown /\ KeysChangeForReason /\ AnswersTrue
    BY DEF FormInv
  <1>1. /\ form' \in Form /\ try' \in [Tries -> Try] /\ n \in Tries /\ ~Sent(n)
        /\ KeyOfTry(n) \in Tries /\ try'[n] = new
        /\ \A t \in Tries \ {n} : try'[t] = try[t]
        /\ form' = [form EXCEPT !.pc = "sending", !.count = n, !.key = KeyOfTry(n)]
    BY <1>0, SendTypes
  <1>2. HomeTypes'
    BY <1>0, <1>1 DEF HomeTypes, catalogVars, CatalogTypeOK
  <1>3. form.count \in 0 .. MaxTries /\ form.key \in 0 .. MaxTries /\ form \in Form
    BY <1>0 DEF HomeTypes, Form
  <1>4. /\ form'.pc = "sending" /\ form'.count = n /\ form'.key = KeyOfTry(n)
        /\ n = form.count + 1 /\ n # 0 /\ KeyOfTry(n) # 0
    BY <1>1, <1>3, TriesAssumption DEF Form, Tries
  <1>5. /\ new.pc = "flight" /\ new.key = KeyOfTry(n) /\ new.answer = "none"
    OBVIOUS
  <1>k. /\ form.key = 0 => KeyOfTry(n) = n
        /\ form.key # 0 => KeyOfTry(n) = form.key
    BY DEF KeyOfTry
  <1> HIDE DEF n, new
  <1>6. \A t \in Tries : /\ Sent(t)' <=> Sent(t) \/ t = n
                         /\ Sent(t) => t # n /\ t < n /\ t <= form.count
    BY <1>0, <1>1, <1>3, <1>4, <1>5 DEF Sent, PathKnown, Tries
  <1>7. PathKnown'
    <2>1. \A t \in Tries : Sent(t)' <=> t <= n
      BY <1>0, <1>3, <1>4, <1>6 DEF PathKnown, Tries
    <2>2. \A t \in Tries : Sent(t)' => (try'[t].pc = "flight" <=> try'[t].answer = "none")
      BY <1>0, <1>1, <1>5, <1>6 DEF PathKnown
    <2> QED
      BY <2>1, <2>2, <1>4 DEF PathKnown
  <1>8. KeyKnown'
    <2>1. \A t \in Tries : Sent(t)' => try'[t].key <= t
      <3>1. ASSUME NEW t \in Tries, Sent(t)', t # n PROVE try'[t].key <= t
        BY <1>0, <1>1, <1>6, <3>1 DEF KeyKnown
      <3>2. try'[n].key <= n
        <4>1. CASE form.key = 0
          BY <1>1, <1>3, <1>4, <1>5, <1>k, <4>1
        <4>2. CASE form.key # 0
          <5>1. form.count # 0 /\ form.key = try[form.count].key /\ form.count \in Tries
            BY <1>0, <1>3, <4>2, TriesAssumption DEF KeyKnown, Tries
          <5>2. Sent(form.count)
            BY <1>0, <1>3, <5>1 DEF PathKnown
          <5>3. form.key <= form.count
            BY <1>0, <5>1, <5>2 DEF KeyKnown
          <5> QED
            BY <1>1, <1>3, <1>4, <1>5, <1>k, <4>2, <5>3
        <4> QED
          BY <4>1, <4>2
      <3> QED
        BY <3>1, <3>2
    <2>2. form'.key = try'[form'.count].key
      BY <1>1, <1>4, <1>5
    <2> QED
      BY <2>1, <2>2, <1>4 DEF KeyKnown
  <1>9. KeysChangeForReason'
    <2> SUFFICES ASSUME NEW t \in Tries, NEW u \in Tries, Sent(t)', Sent(u)', t < u,
                        try'[t].key # try'[u].key
                 PROVE  \E c \in t .. u - 1 : ToldNo(c)' /\ try'[c].key = try'[t].key
      BY DEF KeysChangeForReason
    <2>0. t \in Nat /\ u \in Nat /\ u <= n /\ t # n /\ Sent(t) /\ try'[t] = try[t]
      BY <1>1, <1>3, <1>4, <1>6 DEF Tries
    <2>1. \A c \in t .. u - 1 : c \in Tries /\ c # n /\ try'[c] = try[c]
      BY <1>1, <1>3, <1>4, <2>0, TriesAssumption DEF Tries
    <2>2. CASE u # n
      <3>1. Sent(u) /\ try'[u] = try[u]
        BY <1>1, <1>6, <2>2
      <3>2. PICK c \in t .. u - 1 : ToldNo(c) /\ try[c].key = try[t].key
        BY <1>0, <2>0, <3>1 DEF KeysChangeForReason
      <3> QED
        BY <2>0, <2>1, <3>2 DEF ToldNo
    <2>3. CASE u = n
      <3>1. /\ form.count \in Tries /\ t <= form.count /\ form.count # 0
            /\ Sent(form.count) /\ form.count \in Nat /\ u - 1 = form.count
        BY <1>0, <1>3, <1>4, <1>6, <2>0, <2>3, TriesAssumption DEF PathKnown, Tries
      <3>2. CASE try[t].key = try[form.count].key
        <4>1. form.key = 0
          BY <1>0, <1>1, <1>5, <1>k, <2>0, <2>3, <3>2 DEF KeyKnown
        <4>2. ToldNo(form.count)
          BY <1>0, <3>1, <4>1 DEF KeyKnown
        <4>3. form.count \in t .. u - 1
          BY <2>0, <3>1
        <4> QED
          BY <2>0, <2>1, <3>2, <4>2, <4>3 DEF ToldNo
      <3>3. CASE try[t].key # try[form.count].key
        <4>1. t < form.count
          BY <2>0, <3>1, <3>3
        <4>2. PICK c \in t .. form.count - 1 : ToldNo(c) /\ try[c].key = try[t].key
          BY <1>0, <2>0, <3>1, <3>3, <4>1 DEF KeysChangeForReason
        <4>3. c \in t .. u - 1
          BY <2>0, <3>1, <4>2
        <4> QED
          BY <2>0, <2>1, <4>2, <4>3 DEF ToldNo
      <3> QED
        BY <3>2, <3>3
    <2> QED
      BY <2>2, <2>3
  <1>10. AnswersTrue'
    <2>1. Placed' = Placed
      BY <1>1, <1>5, <1>6 DEF Placed, Sent
    <2>2. \A t \in Placed : t # n /\ t \in Tries /\ try'[t] = try[t]
      BY <1>1, <1>6 DEF Placed
    <2>3. \A c \in Tries : Sent(c)' /\ try'[c].answer # "none" => Sent(c) /\ try'[c] = try[c]
      BY <1>1, <1>5, <1>6
    <2> QED
      BY <1>0, <2>1, <2>2, <2>3 DEF AnswersTrue
  <1> QED
    BY <1>2, <1>7, <1>8, <1>9, <1>10 DEF FormInv

(* A served or told try keeps its key and want, and whoever was told stays   *)
(* told: what is said between two keys goes on being true.                   *)
LEMMA ReasonsStay ==
    ASSUME KeysChangeForReason,
           \A t \in Tries : (Sent(t)' <=> Sent(t)),
           \A t \in Tries : Sent(t) => try'[t].key = try[t].key,
           \A c \in Tries : ToldNo(c) => ToldNo(c)'
    PROVE  KeysChangeForReason'
  <1> SUFFICES ASSUME NEW t \in Tries, NEW u \in Tries, Sent(t), Sent(u), t < u,
                      try[t].key # try[u].key
               PROVE  \E c \in t .. u - 1 : ToldNo(c)' /\ try'[c].key = try'[t].key
    BY DEF KeysChangeForReason
  <1>1. PICK c \in t .. u - 1 : ToldNo(c) /\ try[c].key = try[t].key
    BY DEF KeysChangeForReason
  <1>2. c \in Tries
    BY TriesAssumption DEF Tries
  <1>3. Sent(c)
    BY <1>1 DEF ToldNo, Sent
  <1> QED
    BY <1>1, <1>2, <1>3

LEMMA ServeStep ==
    ASSUME FormInv, UNCHANGED catalogVars, NEW t \in Tries, Serve(t) PROVE FormInv'
  <1> DEFINE answer == ServedAnswer(t)
             holder == {u \in Placed : try[u].key = try[t].key}
  <1>0. HomeTypes /\ PathKnown /\ KeyKnown /\ KeysChangeForReason /\ AnswersTrue
    BY DEF FormInv
  <1>s. /\ try' \in [Tries -> Try] /\ form' = form /\ Sent(t) /\ try[t].pc = "flight"
        /\ try'[t] = [pc |-> "served", key |-> try[t].key, want |-> try[t].want,
                      shown |-> try[t].shown, answer |-> answer]
        /\ \A u \in Tries \ {t} : try'[u] = try[u]
        /\ answer \in {"created", "replayed", "refused", "mismatch"}
    BY <1>0, ServeTypes
  <1> HIDE DEF answer
  <1>1. /\ try' \in [Tries -> Try] /\ form' = form /\ Sent(t) /\ try[t].pc = "flight"
        /\ try'[t].pc = "served" /\ try'[t].key = try[t].key /\ try'[t].want = try[t].want
        /\ try'[t].answer = answer
        /\ \A u \in Tries \ {t} : try'[u] = try[u]
        /\ answer \in {"created", "replayed", "refused", "mismatch"}
    BY <1>s
  <1>2. /\ answer = "replayed" => holder # {} /\ \A u \in holder : try[u].want = try[t].want
        /\ answer = "mismatch" => \E u \in holder : try[u].want # try[t].want
        /\ answer = "created" => holder = {}
    BY DEF ServedAnswer, SameOrder, answer
  <1>3. HomeTypes'
    BY <1>0, <1>1 DEF HomeTypes, catalogVars, CatalogTypeOK
  <1>4. try[t].answer = "none" /\ t \notin Placed
    BY <1>0, <1>1 DEF PathKnown, Placed
  <1>5. \A u \in Tries : (Sent(u)' <=> Sent(u)) /\ try'[u].key = try[u].key
                         /\ try'[u].want = try[u].want
    BY <1>1 DEF Sent
  <1>6. \A u \in Tries : ToldNo(u) => ToldNo(u)'
    BY <1>1 DEF ToldNo
  <1>7. PathKnown'
    <2>1. \A u \in Tries : Sent(u)' => (try'[u].pc = "flight" <=> try'[u].answer = "none")
      BY <1>0, <1>1, <1>5 DEF PathKnown
    <2>2. form.pc = "sent" => try'[form.count].answer \in {"created", "replayed"}
      <3>1. ASSUME form.pc = "sent" PROVE form.count \in Tries /\ form.count # t
        BY <1>0, <1>4, <3>1, TriesAssumption DEF PathKnown, HomeTypes, Form, Tries
      <3> QED
        BY <1>0, <1>1, <3>1 DEF PathKnown
    <2> QED
      BY <1>0, <1>1, <1>5, <2>1, <2>2 DEF PathKnown
  <1>8. KeyKnown'
    <2>1. form.count # 0 => form.count \in Tries
      BY <1>0, TriesAssumption DEF HomeTypes, Form, Tries
    <2> QED
      BY <1>0, <1>1, <1>5, <1>6, <2>1 DEF KeyKnown
  <1>9. KeysChangeForReason'
    BY <1>0, <1>5, <1>6, ReasonsStay
  <1>10. /\ \A u \in Placed : u \in Placed'
         /\ \A u \in Placed' : u \in Placed \/ (u = t /\ answer = "created")
    BY <1>1, <1>4, <1>5 DEF Placed
  <1>11. AnswersTrue'
    <2>1. ASSUME NEW c \in Tries, Sent(c)', try'[c].answer = "replayed"
          PROVE  \E u \in Placed' : try'[u].key = try'[c].key /\ try'[u].want = try'[c].want
      <3>1. \E u \in Placed : try[u].key = try[c].key /\ try[u].want = try[c].want
        <4>1. CASE c = t
          BY <1>1, <1>2, <2>1, <4>1
        <4>2. CASE c # t
          BY <1>0, <1>1, <1>5, <2>1, <4>2 DEF AnswersTrue
        <4> QED
          BY <4>1, <4>2
      <3>2. PICK u \in Placed : try[u].key = try[c].key /\ try[u].want = try[c].want
        BY <3>1
      <3>3. u \in Tries /\ u \in Placed'
        BY <1>10 DEF Placed
      <3> QED
        BY <1>5, <3>2, <3>3
    <2>2. ASSUME NEW c \in Tries, Sent(c)', try'[c].answer = "mismatch"
          PROVE  \E u \in Placed' : try'[u].key = try'[c].key /\ try'[u].want # try'[c].want
      <3>1. \E u \in Placed : try[u].key = try[c].key /\ try[u].want # try[c].want
        <4>1. CASE c = t
          BY <1>1, <1>2, <2>2, <4>1
        <4>2. CASE c # t
          BY <1>0, <1>1, <1>5, <2>2, <4>2 DEF AnswersTrue
        <4> QED
          BY <4>1, <4>2
      <3>2. PICK u \in Placed : try[u].key = try[c].key /\ try[u].want # try[c].want
        BY <3>1
      <3>3. u \in Tries /\ u \in Placed'
        BY <1>10 DEF Placed
      <3> QED
        BY <1>5, <3>2, <3>3
    <2>3. ASSUME NEW u \in Placed', NEW v \in Placed', try'[u].key = try'[v].key PROVE u = v
      <3>1. u \in Tries /\ v \in Tries /\ try[u].key = try[v].key
        BY <1>5, <2>3 DEF Placed
      <3>2. CASE u \in Placed /\ v \in Placed
        BY <1>0, <3>1, <3>2 DEF AnswersTrue
      <3>3. CASE u = t /\ answer = "created" /\ v \in Placed
        BY <1>2, <3>1, <3>3
      <3>4. CASE v = t /\ answer = "created" /\ u \in Placed
        BY <1>2, <3>1, <3>4
      <3> QED
        BY <1>10, <3>2, <3>3, <3>4
    <2> QED
      BY <2>1, <2>2, <2>3 DEF AnswersTrue
  <1> QED
    BY <1>3, <1>7, <1>8, <1>9, <1>11 DEF FormInv

LEMMA LearnStep ==
    ASSUME FormInv, UNCHANGED catalogVars, Learn PROVE FormInv'
  <1> DEFINE n == form.count
  <1>0. HomeTypes /\ PathKnown /\ KeyKnown /\ KeysChangeForReason /\ AnswersTrue
    BY DEF FormInv
  <1>1. /\ form' \in Form /\ try' \in [Tries -> Try] /\ n \in Tries /\ Sent(n)
        /\ try[n].pc = "served" /\ try'[n].pc = "told" /\ try'[n].key = try[n].key
        /\ try'[n].want = try[n].want /\ try'[n].answer = try[n].answer
        /\ \A t \in Tries \ {n} : try'[t] = try[t]
        /\ form' = [form EXCEPT
              !.pc = IF try[n].answer \in {"created", "replayed"} THEN "sent" ELSE "idle",
              !.key = IF DropsKey(try[n].answer) THEN 0 ELSE @]
    BY <1>0, LearnTypes
  <1>2. /\ form'.count = n
        /\ form'.pc \in {"sent", "idle"}
        /\ form'.pc = "sent" => try[n].answer \in {"created", "replayed"}
        /\ form'.key = IF DropsKey(try[n].answer) THEN 0 ELSE form.key
    BY <1>0, <1>1 DEF HomeTypes, Form
  <1>3. n # 0 /\ form.key # 0
    BY <1>0 DEF Learn, PathKnown
  <1> HIDE DEF n
  <1>4. HomeTypes'
    BY <1>0, <1>1 DEF HomeTypes, catalogVars, CatalogTypeOK
  <1>5. \A u \in Tries : (Sent(u)' <=> Sent(u)) /\ try'[u].key = try[u].key
                         /\ try'[u].want = try[u].want /\ try'[u].answer = try[u].answer
    BY <1>1 DEF Sent
  <1>6. \A u \in Tries : ToldNo(u) => ToldNo(u)'
    BY <1>1 DEF ToldNo
  <1>7. Placed' = Placed
    BY <1>5 DEF Placed
  <1>8. PathKnown'
    <2>1. \A u \in Tries : Sent(u)' => (try'[u].pc = "flight" <=> try'[u].answer = "none")
      BY <1>0, <1>1, <1>5 DEF PathKnown
    <2>2. \A u \in Tries : Sent(u)' <=> u <= form'.count
      BY <1>0, <1>2, <1>5 DEF PathKnown, n, Sent
    <2> QED
      BY <1>1, <1>2, <1>3, <2>1, <2>2 DEF PathKnown
  <1>9. KeyKnown'
    <2>1. form'.key = 0 => try'[n].pc = "told" /\ try'[n].answer \in {"refused", "mismatch"}
      BY <1>1, <1>2, <1>3 DEF DropsKey
    <2>2. form'.key # 0 => form'.key = try'[n].key
      BY <1>0, <1>1, <1>2, <1>3 DEF KeyKnown, n
    <2> QED
      BY <1>0, <1>2, <1>3, <1>5, <2>1, <2>2 DEF KeyKnown, ToldNo
  <1>10. KeysChangeForReason'
    BY <1>0, <1>5, <1>6, ReasonsStay
  <1>11. AnswersTrue'
    <2>1. \A u \in Placed : u \in Tries
      BY DEF Placed
    <2> QED
      BY <1>0, <1>5, <1>7, <2>1 DEF AnswersTrue
  <1> QED
    BY <1>4, <1>8, <1>9, <1>10, <1>11 DEF FormInv

LEMMA FormInit == HomeInit => FormInv
  <1> SUFFICES ASSUME HomeInit PROVE FormInv
    OBVIOUS
  <1>1. CatalogTypeOK
    BY DEF HomeInit, CatalogInit, CatalogTypeOK, Edit
  <1>2. 0 \in 0 .. MaxTries /\ 0 \in Amounts
    BY TriesAssumption, MaxAmountAssumption DEF Amounts
  <1>3. form \in Form /\ form.count = 0 /\ form.key = 0 /\ form.pc = "idle"
    BY <1>2 DEF HomeInit, Form
  <1>4. try \in [Tries -> Try] /\ \A t \in Tries : ~Sent(t) /\ ~(t <= 0)
    BY TriesAssumption DEF HomeInit, Try, Sent, Unsent, Tries
  <1>5. Placed = {}
    BY <1>4 DEF Placed
  <1> QED
    BY <1>1, <1>3, <1>4, <1>5 DEF FormInv, HomeTypes, PathKnown, KeyKnown,
       KeysChangeForReason, AnswersTrue

LEMMA FormNext == FormInv /\ [HomeNext]_homeVars => FormInv'
  <1> SUFFICES ASSUME FormInv, [HomeNext]_homeVars PROVE FormInv'
    OBVIOUS
  <1>0. HomeTypes
    BY DEF FormInv
  <1>1. CASE UserStep /\ UNCHANGED catalogVars
    BY <1>0, <1>1, UserStepTypes, QuietStep DEF FormInv, PathKnown
  <1>2. CASE CheckFails /\ UNCHANGED catalogVars
    <2>1. /\ HomeTypes' /\ UNCHANGED try /\ form'.key = form.key /\ form'.count = form.count
          /\ form'.pc = "idle"
      BY <1>0, <1>2 DEF CheckFails, HomeTypes, Form, catalogVars, CatalogTypeOK
    <2> QED
      BY <2>1, QuietStep
  <1>3. CASE GiveUp /\ UNCHANGED catalogVars
    <2>1. /\ HomeTypes' /\ UNCHANGED try /\ form'.key = form.key /\ form'.count = form.count
          /\ form'.pc = "idle"
      BY <1>0, <1>3 DEF GiveUp, DropsKey, HomeTypes, Form, catalogVars, CatalogTypeOK
    <2> QED
      BY <2>1, QuietStep
  <1>4. CASE UNCHANGED formVars /\ CatalogTypeOK'
    BY <1>0, <1>4, QuietStep DEF formVars, HomeTypes, FormInv, PathKnown
  <1>5. ASSUME NEW e \in Editors, CatalogStep(e), UNCHANGED formVars PROVE FormInv'
    BY <1>0, <1>4, <1>5, CatalogStepTypes DEF HomeTypes
  <1>6. CASE UNCHANGED homeVars
    BY <1>0, <1>4, <1>6 DEF homeVars, formVars, HomeTypes, CatalogTypeOK
  <1> QED
    BY <1>1, <1>2, <1>3, <1>5, <1>6, SendStep, ServeStep, LearnStep DEF HomeNext, PageStep

LEMMA FormInvariance == HomeSpec => []FormInv
  BY FormInit, FormNext, PTL DEF HomeSpec

(* "Your application has been sent" is never said of an order that does not  *)
(* exist, whatever is lost or late and whatever the admins do meanwhile.     *)
THEOREM SuccessIsTrue == HomeSpec => []SuccessMeansPlaced
  <1>1. FormInv => SuccessMeansPlaced
    <2> SUFFICES ASSUME FormInv, form.pc = "sent"
                 PROVE  \E t \in Placed : try[t].want = try[form.count].want
      BY DEF SuccessMeansPlaced
    <2>1. form.count \in Tries /\ Sent(form.count)
          /\ try[form.count].answer \in {"created", "replayed"}
      BY TriesAssumption DEF FormInv, HomeTypes, Form, PathKnown, Tries
    <2> QED
      BY <2>1 DEF FormInv, AnswersTrue, Placed
  <1> QED
    BY <1>1, FormInvariance, PTL

-----------------------------------------------------------------------------
(* With one change of the catalog at most.                                   *)

OneAdmin == \A d, e \in Editors : d = e

\* Before the change whatever the page shows or has sent would be accepted.
Fresh ==
    /\ BudgetRangeOrdered
    /\ form.cards \subseteq Listed
    /\ form.pick \in Listed \union {NoCard} /\ form.held \in Listed \union {NoCard}
    /\ \A t \in Tries : Sent(t) => Admits(try[t].want) /\ try[t].answer # "refused"

\* A refused order will be refused for ever, so the order placed under its key is
\* another one.
RefusedForGood ==
    \A c \in Tries : (Sent(c) /\ try[c].answer = "refused") =>
        /\ ~Admits(try[c].want)
        /\ \A t \in Placed : try[t].key = try[c].key => try[t].want # try[c].want

OnceInv == FormInv /\ (Untouched => Fresh) /\ RefusedForGood

(* What a fresh card leads to is accepted.                                   *)
LEMMA FreshOrder ==
    ASSUME HomeTypes, Fresh, form.held # NoCard PROVE Admits(Order)
  <1>1. PICK s \in Offered :
           form.held = [sid |-> s, min |-> setting[s].row.min, max |-> setting[s].row.max]
    BY DEF Fresh, Listed
  <1>2. s \in Services /\ Ordered(setting[s].row) /\ setting[s].row \in Row
    BY DEF Fresh, BudgetRangeOrdered, Offered, HomeTypes, CatalogTypeOK, Setting
  <1>3. form.budget \in Amounts
    BY DEF HomeTypes, Form
  <1>4. /\ setting[s].row.min <= ClampToRange(form.budget, form.held.min, form.held.max)
        /\ ClampToRange(form.budget, form.held.min, form.held.max) <= setting[s].row.max
    BY <1>1, <1>2, <1>3, ClampAmount DEF Ordered, Row
  <1> QED
    BY <1>1, <1>4 DEF Admits, Order

LEMMA FreshStays ==
    ASSUME FormInv, FormInv', Fresh, UNCHANGED catalogVars,
           UserStep \/ PageStep \/ \E t \in Tries : Serve(t)
    PROVE  Fresh'
  <1>0. HomeTypes /\ PathKnown
    BY DEF FormInv
  <1>1. /\ Listed' = Listed /\ BudgetRangeOrdered'
        /\ \A want \in Want : Admits(want)' <=> Admits(want)
    BY DEF catalogVars, Fresh, BudgetRangeOrdered, Listed, Offered, Live, Admits
  <1>2. /\ form'.cards \subseteq Listed /\ form'.pick \in Listed \union {NoCard}
        /\ form'.held \in Listed \union {NoCard}
    <2>1. CASE UserStep
      BY <1>0, <2>1 DEF UserStep, LoadServices, Submit, SelectService, Type,
                        Fresh, HomeTypes, Form
    <2>2. CASE PageStep
      BY <1>0, <2>2 DEF PageStep, CheckFails, CheckPasses, Learn, GiveUp,
                        Fresh, HomeTypes, Form
    <2>3. CASE \E t \in Tries : Serve(t)
      BY <2>3 DEF Serve, Fresh
    <2> QED
      BY <2>1, <2>2, <2>3
  <1>3. \A t \in Tries : Sent(t)' =>
            try'[t].want \in Want /\ Admits(try'[t].want) /\ try'[t].answer # "refused"
    <2>0. \A t \in Tries : Sent(t) => try[t].want \in Want
      BY <1>0, SentFields
    <2>1. CASE UNCHANGED try
      BY <2>0, <2>1 DEF Fresh, Sent
    <2>2. CASE CheckPasses
      <3>1. form.count + 1 \in Tries /\ Order \in Want /\ Admits(Order)
        BY <1>0, <2>2, SendTypes, FreshOrder DEF PathKnown, CheckPasses
      <3>2. try'[form.count + 1].want = Order /\ try'[form.count + 1].answer = "none"
        BY <1>0, <2>2, SendTypes
      <3>3. \A t \in Tries \ {form.count + 1} : try'[t] = try[t]
        BY <1>0, <2>2, SendTypes
      <3> QED
        BY <2>0, <3>1, <3>2, <3>3 DEF Fresh, Sent
    <2>3. CASE Learn
      <3>1. form.count \in Tries /\ Sent(form.count)
            /\ try'[form.count].want = try[form.count].want
            /\ try'[form.count].answer = try[form.count].answer
        BY <1>0, <2>3, LearnTypes
      <3>2. \A t \in Tries \ {form.count} : try'[t] = try[t]
        BY <1>0, <2>3, LearnTypes
      <3> QED
        BY <2>0, <3>1, <3>2 DEF Fresh, Sent
    <2>4. ASSUME NEW t \in Tries, Serve(t)
          PROVE  \A u \in Tries : Sent(u)' => try'[u].want \in Want /\ Admits(try'[u].want)
                                              /\ try'[u].answer # "refused"
      <3>0. Sent(t) /\ try'[t] = [pc |-> "served", key |-> try[t].key, want |-> try[t].want,
                                  shown |-> try[t].shown, answer |-> ServedAnswer(t)]
        BY <1>0, <2>4, ServeTypes
      <3>1. Sent(t) /\ try'[t].want = try[t].want /\ try'[t].answer = ServedAnswer(t)
        BY <3>0
      <3>2. \A u \in Tries \ {t} : try'[u] = try[u]
        BY <1>0, <2>4, ServeTypes
      <3>3. ServedAnswer(t) # "refused"
        BY <3>1 DEF Fresh, ServedAnswer
      <3> QED
        BY <2>0, <3>1, <3>2, <3>3 DEF Fresh, Sent
    <2> QED
      BY <2>1, <2>2, <2>3, <2>4 DEF UserStep, PageStep, LoadServices, Submit, SelectService,
         Type, CheckFails, GiveUp
  <1> QED
    BY <1>1, <1>2, <1>3 DEF Fresh

(* No step of the form takes back what a refusal stands for.                 *)
LEMMA RefusalStays ==
    ASSUME FormInv, FormInv', RefusedForGood, UNCHANGED catalogVars,
           UserStep \/ PageStep \/ \E t \in Tries : Serve(t)
    PROVE  RefusedForGood'
  <1>0. HomeTypes /\ PathKnown
    BY DEF FormInv
  <1>1. UNCHANGED setting /\ UNCHANGED Offered
    BY DEF catalogVars, Offered, Live
  <1>2. \A t \in Tries : Sent(t) => try[t].want \in Want
    BY <1>0, SentFields
  <1>3. ASSUME \A c \in Tries : (Sent(c)' /\ try'[c].answer = "refused") =>
                  Sent(c) /\ try[c].answer = "refused"
                  /\ try'[c].key = try[c].key /\ try'[c].want = try[c].want,
               \A t \in Placed' : t \in Placed /\ try'[t].key = try[t].key
                                  /\ try'[t].want = try[t].want
        PROVE  RefusedForGood'
    <2> SUFFICES ASSUME NEW c \in Tries, Sent(c)', try'[c].answer = "refused"
                 PROVE  /\ ~Admits(try[c].want)'
                        /\ \A t \in Placed' :
                              try'[t].key = try'[c].key => try'[t].want # try'[c].want
      BY DEF RefusedForGood
    <2>1. Sent(c) /\ try[c].answer = "refused" /\ try'[c].key = try[c].key
          /\ try'[c].want = try[c].want /\ try[c].want \in Want
      BY <1>2, <1>3
    <2> QED
      BY <1>1, <1>3, <2>1 DEF RefusedForGood, Admits
  <1>4. CASE UNCHANGED try
    BY <1>3, <1>4 DEF Sent, Placed
  <1>5. CASE CheckPasses
    <2> DEFINE n == form.count + 1
    <2>0. n \in Tries /\ ~Sent(n) /\ \A t \in Tries \ {n} : try'[t] = try[t]
      BY <1>0, <1>5, SendTypes
    <2>1. try'[n] = [pc |-> "flight", key |-> KeyOfTry(n), want |-> Order,
                     shown |-> form.pick, answer |-> "none"]
      BY <1>0, <1>5, SendTypes
    <2>2. try'[n].answer = "none"
      BY <2>1
    <2> HIDE DEF n
    <2>3. \A c \in Tries : try'[c].answer # "none" => c # n /\ try'[c] = try[c]
      BY <2>0, <2>2
    <2> QED
      BY <1>3, <2>3 DEF Sent, Placed
  <1>6. CASE Learn
    <2> DEFINE n == form.count
    <2>0. n \in Tries /\ Sent(n) /\ \A t \in Tries \ {n} : try'[t] = try[t]
      BY <1>0, <1>6, LearnTypes
    <2>1. try'[n] = [pc |-> "told", key |-> try[n].key, want |-> try[n].want,
                     shown |-> try[n].shown, answer |-> try[n].answer]
      BY <1>0, <1>6, LearnTypes
    <2>2. try'[n].key = try[n].key /\ try'[n].want = try[n].want
          /\ try'[n].answer = try[n].answer
      BY <2>1
    <2> HIDE DEF n
    <2>3. \A c \in Tries : /\ try'[c].key = try[c].key /\ try'[c].want = try[c].want
                           /\ try'[c].answer = try[c].answer /\ (Sent(c)' => Sent(c))
      BY <2>0, <2>2 DEF Sent
    <2> QED
      BY <1>3, <2>3 DEF Placed
  <1>7. ASSUME NEW t \in Tries, Serve(t) PROVE RefusedForGood'
    <2> DEFINE answer == ServedAnswer(t)
    <2>0. /\ Sent(t) /\ \A u \in Tries \ {t} : try'[u] = try[u]
          /\ try'[t] = [pc |-> "served", key |-> try[t].key, want |-> try[t].want,
                        shown |-> try[t].shown, answer |-> answer]
      BY <1>0, <1>7, ServeTypes
    <2>1. /\ answer = "created" => Admits(try[t].want)
          /\ answer = "refused" => ~Admits(try[t].want)
                  /\ \A u \in Placed : try[u].key # try[t].key
      BY DEF ServedAnswer
    <2> HIDE DEF answer
    <2>2. try'[t].key = try[t].key /\ try'[t].want = try[t].want /\ try'[t].answer = answer
      BY <2>0
    <2>3. \A u \in Tries : /\ try'[u].key = try[u].key /\ try'[u].want = try[u].want
                           /\ (Sent(u)' <=> Sent(u))
                           /\ u # t => try'[u].answer = try[u].answer
      BY <2>0, <2>2 DEF Sent
    <2>4. \A u \in Placed' : u \in Tries /\ (u \in Placed \/ (u = t /\ answer = "created"))
      BY <2>2, <2>3 DEF Placed
    <2> SUFFICES ASSUME NEW c \in Tries, Sent(c), try'[c].answer = "refused"
                 PROVE  /\ ~Admits(try[c].want)
                        /\ \A u \in Placed' :
                              try[u].key = try[c].key => try[u].want # try[c].want
      <3>1. \A c \in Tries : Admits(try[c].want)' <=> Admits(try[c].want)
        BY <1>1, <2>3 DEF Admits
      <3> QED
        BY <2>3, <2>4, <3>1 DEF RefusedForGood
    <2>5. CASE c = t
      BY <2>1, <2>2, <2>4, <2>5
    <2>6. CASE c # t
      <3>1. try[c].answer = "refused" /\ ~Admits(try[c].want)
        BY <2>3, <2>6 DEF RefusedForGood
      <3> QED
        BY <2>1, <2>4, <3>1 DEF RefusedForGood
    <2> QED
      BY <2>5, <2>6
  <1> QED
    BY <1>4, <1>5, <1>6, <1>7 DEF UserStep, PageStep, LoadServices, Submit, SelectService,
       Type, CheckFails, GiveUp

LEMMA OnceNext ==
    ASSUME OneAdmin PROVE OnceInv /\ [HomeNext]_homeVars => OnceInv'
  <1> SUFFICES ASSUME OnceInv, [HomeNext]_homeVars PROVE OnceInv'
    OBVIOUS
  <1>0. FormInv /\ FormInv' /\ HomeTypes
    BY FormNext DEF OnceInv, FormInv
  <1>1. CASE (UserStep \/ PageStep \/ \E t \in Tries : Serve(t)) /\ UNCHANGED catalogVars
    <2>1. RefusedForGood'
      BY <1>0, <1>1, RefusalStays DEF OnceInv
    <2>2. Untouched' => Untouched
      BY <1>1 DEF Untouched, catalogVars
    <2>3. Untouched' => Fresh'
      BY <1>0, <1>1, <2>2, FreshStays DEF OnceInv
    <2> QED
      BY <1>0, <2>1, <2>3 DEF OnceInv
  <1>2. ASSUME UNCHANGED formVars, UNCHANGED setting, Untouched' => Untouched PROVE OnceInv'
    <2>1. /\ UNCHANGED Listed /\ UNCHANGED Offered /\ UNCHANGED form /\ UNCHANGED try
          /\ BudgetRangeOrdered => BudgetRangeOrdered'
      BY <1>2 DEF Listed, Offered, Live, formVars, BudgetRangeOrdered
    <2>2. Fresh => Fresh'
      BY <1>2, <2>1 DEF Fresh, Sent, Admits
    <2>3. RefusedForGood'
      BY <1>2, <2>1 DEF OnceInv, RefusedForGood, Sent, Placed, Admits
    <2> QED
      BY <1>0, <1>2, <2>2, <2>3 DEF OnceInv
  <1>3. CASE UNCHANGED homeVars
    BY <1>2, <1>3 DEF homeVars, formVars, Untouched
  <1>4. ASSUME NEW e \in Editors, CatalogStep(e), UNCHANGED formVars PROVE OnceInv'
    <2>0. /\ \A d \in Editors \ {e} : edit'[d] = edit[d]
          /\ setting' # setting => edit[e].pc \in {"idle", "flush"}
                                   /\ edit'[e].pc \in {"refresh", "done"}
          /\ edit[e].pc \notin {"idle", "flush"} => edit'[e].pc \notin {"idle", "flush"}
      BY <1>0, <1>4, CatalogStepTypes DEF HomeTypes
    <2>1. CASE UNCHANGED setting
      <3>1. Untouched' => Untouched
        BY <2>0 DEF Untouched
      <3> QED
        BY <1>2, <1>4, <2>1, <3>1
    <2>2. CASE setting' # setting
      <3>1. Untouched /\ ~Untouched'
        BY <2>0, <2>2, OneAdmin DEF Untouched, OneAdmin
      <3>2. \A c \in Tries : Sent(c) => try[c].answer # "refused"
        BY <3>1 DEF OnceInv, Fresh
      <3>3. RefusedForGood'
        BY <1>4, <3>2 DEF RefusedForGood, formVars, Sent
      <3> QED
        BY <1>0, <3>1, <3>3 DEF OnceInv
    <2> QED
      BY <2>1, <2>2
  <1> QED
    BY <1>1, <1>3, <1>4 DEF HomeNext

(* Whatever is lost or delayed, resending never orders the same twice, for   *)
(* any number of POSTs, as long as the catalog changes once at most.         *)
THEOREM ResendingNeverDoubles ==
    ASSUME OneAdmin PROVE HomeSpec => []ResendingIsSafe
  <1>1. HomeInit => OnceInv
    <2> SUFFICES ASSUME HomeInit PROVE OnceInv
      OBVIOUS
    <2>1. \A t \in Tries : ~Sent(t)
      BY DEF HomeInit, Sent, Unsent
    <2>2. Fresh
      BY <2>1 DEF HomeInit, CatalogInit, Fresh, BudgetRangeOrdered
    <2> QED
      BY <2>1, <2>2, FormInit DEF OnceInv, RefusedForGood
  <1>2. OnceInv => ResendingIsSafe
    <2> SUFFICES ASSUME OnceInv, NEW t \in Placed, NEW u \in Placed, t < u
                 PROVE  \E c \in t + 1 .. u - 1 :
                           /\ try[c].pc = "told" /\ try[c].answer \in {"refused", "mismatch"}
                           /\ try[c].key = try[t].key /\ try[c].want # try[t].want
      BY DEF ResendingIsSafe
    <2>0. FormInv /\ t \in Tries /\ u \in Tries /\ Sent(t) /\ Sent(u)
          /\ try[t].answer = "created"
      BY DEF OnceInv, Placed
    <2>1. try[t].key # try[u].key
      BY <2>0, TriesAssumption DEF FormInv, AnswersTrue, Tries
    <2>2. PICK c \in t .. u - 1 : ToldNo(c) /\ try[c].key = try[t].key
      BY <2>0, <2>1 DEF FormInv, KeysChangeForReason
    <2>3. c \in Tries /\ Sent(c) /\ c # t
      BY <2>0, <2>2, TriesAssumption DEF Tries, ToldNo, Sent
    <2>4. try[c].want # try[t].want
      <3>1. CASE try[c].answer = "refused"
        BY <2>2, <2>3, <3>1 DEF OnceInv, RefusedForGood
      <3>2. CASE try[c].answer = "mismatch"
        <4>1. PICK v \in Placed : try[v].key = try[c].key /\ try[v].want # try[c].want
          BY <2>0, <2>3, <3>2 DEF FormInv, AnswersTrue
        <4>2. v = t
          BY <2>0, <2>2, <4>1 DEF FormInv, AnswersTrue
        <4> QED
          BY <4>1, <4>2
      <3> QED
        BY <2>2, <3>1, <3>2 DEF ToldNo
    <2>5. c \in t + 1 .. u - 1
      BY <2>0, <2>2, <2>3 DEF Tries
    <2> QED
      BY <2>2, <2>4, <2>5 DEF ToldNo
  <1> QED
    BY <1>1, <1>2, OnceNext, PTL DEF HomeSpec

-----------------------------------------------------------------------------
(* The types, where the range on every card is in order.                     *)

InRange(b, c) == c.min <= b /\ b <= c.max

CardsOrdered ==
    /\ \A c \in form.cards : Ordered(c)
    /\ form.pick # NoCard => Ordered(form.pick) /\ InRange(form.budget, form.pick)

ShownInv == FormInv /\ CatalogInv /\ CardsOrdered

LEMMA ShownNext ==
    ASSUME OneBoundMoves PROVE ShownInv /\ [HomeNext]_homeVars => ShownInv'
  <1> SUFFICES ASSUME ShownInv, [HomeNext]_homeVars PROVE ShownInv'
    OBVIOUS
  <1>0. FormInv /\ FormInv' /\ HomeTypes /\ CatalogInv /\ CardsOrdered
    BY FormNext DEF ShownInv, FormInv
  <1>1. ASSUME UNCHANGED catalogVars PROVE CatalogInv'
    BY <1>0, <1>1 DEF catalogVars, CatalogInv, CatalogTypeOK, BudgetRangeOrdered,
                      PendingBoundsOrdered, Live, Ordered, Overwrite
  <1>2. ASSUME UNCHANGED form PROVE CardsOrdered'
    BY <1>0, <1>2 DEF CardsOrdered
  <1>3. ASSUME NEW e \in Editors, CatalogStep(e) PROVE CatalogInv'
    <2> DEFINE referenced == {try[t].want.sid : t \in Placed}
    <2>1. EditorStep(e, {}, referenced, {}) \/ FailEdit(e)
      BY <1>3 DEF CatalogStep
    <2> HIDE DEF referenced
    <2> QED
      BY <1>0, <2>1, OneBoundMoves, EditorKeepsInv
  <1>4. ASSUME LoadServices PROVE CardsOrdered'
    <2>1. \A c \in Listed : Ordered(c)
      BY <1>0 DEF CatalogInv, BudgetRangeOrdered, Listed, Offered, Ordered
    <2> QED
      BY <1>0, <1>4, <2>1 DEF LoadServices, CardsOrdered, Ordered, InRange, HomeTypes, Form
  <1>5. ASSUME NEW c \in form.cards \union {form.pick}, NEW b \in Amounts, SelectService(c, b)
        PROVE  CardsOrdered'
    <2>1. c \in Card /\ Ordered(c)
      BY <1>0, <1>5 DEF SelectService, HomeTypes, Form, CardsOrdered
    <2> DEFINE clamped == ClampToRange(b, c.min, c.max)
    <2>2. InRange(clamped, c)
      BY <2>1, ClampAmount DEF Card, Ordered, InRange
    <2>3. form' = [form EXCEPT !.pick = c, !.budget = clamped]
      BY <1>5 DEF SelectService
    <2> HIDE DEF clamped
    <2>4. form'.cards = form.cards /\ form'.pick = c /\ form'.budget = clamped
      BY <1>0, <2>3 DEF HomeTypes, Form
    <2> QED
      BY <1>0, <2>1, <2>2, <2>4 DEF CardsOrdered
  <1>6. ASSUME Submit \/ (\E text \in Texts : Type(text)) \/ PageStep PROVE CardsOrdered'
    <2>1. /\ form'.cards = form.cards /\ form'.budget = form.budget
          /\ form'.pick = form.pick \/ form'.pick = NoCard
      BY <1>0, <1>6 DEF Submit, Type, PageStep, CheckFails, CheckPasses, Learn, GiveUp,
                        HomeTypes, Form
    <2> QED
      BY <1>0, <2>1 DEF CardsOrdered, Ordered, InRange
  <1>7. ASSUME NEW t \in Tries, Serve(t) PROVE CardsOrdered'
    BY <1>2, <1>7 DEF Serve
  <1>8. CASE UNCHANGED homeVars
    BY <1>0, <1>1, <1>2, <1>8 DEF homeVars, formVars, catalogVars, ShownInv
  <1> QED
    BY <1>0, <1>1, <1>2, <1>3, <1>4, <1>5, <1>6, <1>7, <1>8
       DEF HomeNext, UserStep, PageStep, ShownInv, formVars

(* The state of the page has its types, and the chosen budget lies in the    *)
(* range on the card, as long as the PATCHes move one bound only.            *)
THEOREM FormTypes == ASSUME OneBoundMoves PROVE HomeSpec => []HomeTypeOK
  <1>1. HomeInit => ShownInv
    <2> SUFFICES ASSUME HomeInit PROVE ShownInv
      OBVIOUS
    <2>1. CatalogInv
      BY DEF HomeInit, CatalogInit, CatalogInv, CatalogTypeOK, BudgetRangeOrdered,
             PendingBoundsOrdered, Edit
    <2>2. form.cards = {} /\ form.pick = NoCard
      BY DEF HomeInit
    <2>3. CardsOrdered
      BY <2>2 DEF CardsOrdered
    <2> QED
      BY <2>1, <2>3, FormInit DEF ShownInv
  <1>2. ShownInv => HomeTypeOK
    BY DEF ShownInv, FormInv, HomeTypes, HomeTypeOK, CardsOrdered, InRange
  <1> QED
    BY <1>1, <1>2, ShownNext, OneBoundMoves, PTL DEF HomeSpec

=============================================================================
