----------------------------- MODULE AdminCalls -----------------------------
(***************************************************************************)
(* The calls the admin page of the frontend has in flight, the token it    *)
(* keeps in sessionStorage, and what the backend makes of a token          *)
(* (frontend/src/api/client.ts, api/tokenStorage.ts,                       *)
(* backend/app/core/deps.py, routes/auth.py).                              *)
(*                                                                         *)
(* JavaScript runs one handler at a time, so an action is what happens     *)
(* from an event to the next await.  A call is sent, and delivered with    *)
(* some answer; calls overtake each other.  When it was served in between  *)
(* matters only for its token, which may expire meanwhile.                 *)
(*                                                                         *)
(* The page's flows capture counters (renderGeneration, loadGeneration,    *)
(* modalGeneration, the activation ids) before an await and compare them   *)
(* after it.  All that tells is whether a counter was bumped meanwhile, so *)
(* a call carries just that: `current` until one of the counters its flow  *)
(* looks at is bumped.                                                     *)
(***************************************************************************)
EXTENDS Naturals

CONSTANTS
    Slots,      \* bounds the calls in flight at once
    Tokens,     \* access tokens; each one is issued at most once
    NoToken,
    Levels,     \* chips of the priority filter
    Words,      \* what the search box may hold
    Apps,       \* applications the admin may look at
    Periods,    \* periods of the statistics
    MaxTotal    \* largest number of pages of applications

ASSUME TokenAssumption == NoToken \notin Tokens
ASSUME MaxTotalAssumption == MaxTotal \in Nat

VARIABLES
    calls,      \* what each slot is used for
    token,      \* sessionStorage
    issued,     \* tokens the backend has issued
    expired     \* tokens the backend no longer accepts

callVars == <<calls, token, issued, expired>>

Kinds == {"check", "login", "confirm", "me", "services", "edit", "list", "detail", "overview"}
Criteria == Levels \X Words \X (0 .. MaxTotal)
Arg == {<<>>} \union Criteria \union (Apps \X {"detail"}) \union (Periods \X {"overview"})
Call == [kind : Kinds \union {"free"}, token : Tokens \union {NoToken}, arg : Arg,
         current : BOOLEAN, honoured : BOOLEAN]

CallTypeOK ==
    /\ calls \in [Slots -> Call]
    /\ token \in Tokens \union {NoToken}
    /\ expired \subseteq issued /\ issued \subseteq Tokens

\* get_current_admin.
Accepted(t) == t \in issued \ expired

\* `honoured`: the backend accepts the token as the call is sent.
Request(kind, t, arg) ==
    [kind |-> kind, token |-> t, arg |-> arg, current |-> TRUE, honoured |-> Accepted(t)]

Free == [kind |-> "free", token |-> NoToken, arg |-> <<>>, current |-> FALSE, honoured |-> FALSE]
IsFree(c) == calls[c] = Free

\* The calls after slot c was given to another request, or to none.
With(cs, c, call) == [cs EXCEPT ![c] = call]

\* The calls after a counter was bumped that the flows of `kinds` look at.
Bumped(cs, kinds) ==
    [c \in Slots |-> IF cs[c].kind \in kinds THEN [cs[c] EXCEPT !.current = FALSE] ELSE cs[c]]

\* A current call of the kind is in flight.
Awaited(kind) == \E c \in Slots : calls[c].kind = kind /\ calls[c].current

-----------------------------------------------------------------------------
(* Answers.                                                                  *)

Protected == Kinds \ {"check", "login"}

\* What may come back: a 4xx, a 5xx or nothing at any time; a 401 to a protected
\* call once its token is not accepted, anything else as long as it was.
Answers(call) ==
    {"error"}
    \union {a \in {"ok"} : call.kind \in Protected => call.honoured}
    \union {a \in {"refused"} : call.kind \in Protected /\ ~Accepted(call.token)}

\* An answer to the call in slot c, of one of the kinds.
Arrives(c, kinds, answer) == calls[c].kind \in kinds /\ answer \in Answers(calls[c])

\* request in client.ts: a 401 to a protected call clears the stored token, whatever
\* it is by then; the flow that made the call learns of it afterwards.
TokenAfter(call, answer) == IF answer = "refused" THEN NoToken ELSE token

\* A token's time is over, or its admin is switched off.
Expire(t) ==
    /\ t \in issued \ expired
    /\ expired' = expired \union {t}
    /\ UNCHANGED <<calls, token, issued>>
=============================================================================
