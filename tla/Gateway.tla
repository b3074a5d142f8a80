------------------------------ MODULE Gateway ------------------------------
(***************************************************************************)
(* The model gateway (gateway.py) and image generation (media.py): a call   *)
(* is let in, its body is read, the upstream is asked while the call holds  *)
(* a slot, and the answer is billed when it has been given.                 *)
(*                                                                         *)
(* All handlers share one event loop; one step reaches from an await to the *)
(* next.  A stream is a generator that outlives its handler: it starts only *)
(* when the response is sent, and its finally clause runs however it ends.  *)
(***************************************************************************)
EXTENDS Integers, FiniteSets

CONSTANTS
    Calls,      \* calls in progress at a time
    Users,
    Limit,      \* concurrency_limit + AUX_REQUEST_HEADROOM
    MaxBalance, \* bounds what an account holds
    MaxPrice,   \* bounds what a call costs
    MaxFaults   \* bounds the failures of the database

\* What distinguishes one route from another: can it stream, does it hold a
\* slot, does it look at the balance again once it has its body, does it try
\* again after a 400, and may it end well without being billed?
Face == [stream : BOOLEAN, slot : BOOLEAN, twice : BOOLEAN, retry : BOOLEAN, free : BOOLEAN]
Plain == [stream |-> FALSE, slot |-> TRUE, twice |-> FALSE, retry |-> FALSE, free |-> FALSE]

ChatPlain       == Plain
ChatStream      == [Plain EXCEPT !.stream = TRUE]
ResponsesPlain  == Plain
ResponsesStream == [Plain EXCEPT !.stream = TRUE]
Embedding       == Plain
AnthropicPlain  == [Plain EXCEPT !.retry = TRUE]
AnthropicStream == [Plain EXCEPT !.retry = TRUE, !.stream = TRUE]
WebSearch       == [Plain EXCEPT !.free = TRUE]   \* no results, no charge
GeminiPlain     == Plain
GeminiCount     == [Plain EXCEPT !.free = TRUE]   \* countTokens
GeminiStream    == [Plain EXCEPT !.stream = TRUE]
Image           == [Plain EXCEPT !.slot = FALSE, !.twice = TRUE]

Faces == {ChatPlain, ChatStream, ResponsesPlain, ResponsesStream, Embedding,
          AnthropicPlain, AnthropicStream, WebSearch, GeminiPlain, GeminiCount,
          GeminiStream, Image}

VARIABLES
    balance,    \* of each user: what check_run_blocked and spend see
    inflight,   \* _inflight
    call,       \* where each call is
    faults,     \* failures of the database so far
    bills,      \* history: how often the present call was billed
    wasted      \* history: a bill of the present call was lost in a failure

gatewayVars == <<balance, inflight, call, faults, bills, wasted>>

Nobody  == [step |-> "idle"]
Steps   == {"body", "ready", "asked", "asked again", "streaming", "ended"}
Serving == {"asked", "asked again", "streaming"}
Balances == (0 - MaxPrice * (Cardinality(Calls) + MaxFaults))..MaxBalance

TypeOK ==
    /\ balance \in [Users -> Balances]
    /\ inflight \in [Users -> Nat]
    /\ call \in [Calls -> {Nobody} \union
           [step : Steps, user : Users, face : Face, begun : BOOLEAN, given : BOOLEAN]]
    /\ faults \in 0..MaxFaults
    /\ bills \in [Calls -> Nat] /\ wasted \subseteq Calls

Init ==
    /\ balance \in [Users -> {1, MaxBalance}]
    /\ inflight = [u \in Users |-> 0]
    /\ call = [c \in Calls |-> Nobody]
    /\ faults = 0
    /\ bills = [c \in Calls |-> 0] /\ wasted = {}

At(c, step)   == call[c].step = step
Goto(c, step) == call' = [call EXCEPT ![c].step = step]
End(c)        == Goto(c, "ended")
Unbilled      == UNCHANGED <<balance, faults, bills, wasted>>

\* The next call takes the place of one that has ended.
Hangup(c) ==
    /\ At(c, "ended")
    /\ call' = [call EXCEPT ![c] = Nobody]
    /\ bills' = [bills EXCEPT ![c] = 0] /\ wasted' = wasted \ {c}
    /\ UNCHANGED <<balance, inflight, faults>>

-----------------------------------------------------------------------------
(* _admit.  A call that is refused leaves no trace; the bucket of requests  *)
(* per second may refuse any call.                                          *)

\* check_run_blocked lets a call pass when the check itself fails.
\* Mutant of Blocked: an overdraft of the price of one call is tolerated.
BlockedLate(u) == balance[u] <= 0 - MaxPrice
Blocked(u)     == balance[u] <= 0
Fails      == faults < MaxFaults /\ faults' = faults + 1

Admit(c, u, f) ==
    /\ At(c, "idle")
    /\ f.slot => inflight[u] < Limit
    /\ \/ ~Blocked(u) /\ UNCHANGED faults
       \/ Blocked(u) /\ Fails
    /\ call' = [call EXCEPT ![c] =
           [step |-> "body", user |-> u, face |-> f, begun |-> FALSE, given |-> FALSE]]
    /\ UNCHANGED <<balance, inflight, bills, wasted>>

\* credits.balance, the sum of what has not expired.
Solvent(u) == balance[u] > 0

\* The body is read, late or never, and the model looked up.
ReadBody(c) ==
    /\ At(c, "body")
    /\ \/ /\ call[c].face.twice => Solvent(call[c].user)
          /\ Goto(c, "ready")
       \/ End(c)
    /\ UNCHANGED inflight /\ Unbilled

-----------------------------------------------------------------------------
(* _Slot.                                                                   *)

Enter(c) == inflight' = IF call[c].face.slot
                        THEN [inflight EXCEPT ![call[c].user] = @ + 1] ELSE inflight

\* Mutant of Leave: the count is lowered only when the upstream answered well.
LeaveWhenGood(c) == inflight' = IF call[c].face.slot /\ call[c].begun
    THEN [inflight EXCEPT ![call[c].user] = IF @ > 0 THEN @ - 1 ELSE 0] ELSE inflight

Leave(c) == inflight' = IF call[c].face.slot
    THEN [inflight EXCEPT ![call[c].user] = IF @ > 0 THEN @ - 1 ELSE 0] ELSE inflight

\* A stream's client may be gone before the generator takes its first step.
Ask(c) ==
    /\ At(c, "ready")
    /\ \/ Enter(c) /\ Goto(c, "asked")
       \/ call[c].face.stream /\ UNCHANGED inflight /\ End(c)
    /\ Unbilled

\* The upstream refuses, cannot be reached, or the client leaves first.
Refused(c) ==
    /\ At(c, "asked") \/ At(c, "asked again")
    /\ Leave(c) /\ End(c)
    /\ Unbilled

\* A 400 is worth one more try with a plainer body, in the same slot.
TryAgain(c) ==
    /\ At(c, "asked") /\ call[c].face.retry
    /\ Goto(c, "asked again")
    /\ UNCHANGED inflight /\ Unbilled

-----------------------------------------------------------------------------
(* bill.  The amount follows the upstream's usage, or the bytes sent when   *)
(* it gave none: never nothing.                                             *)

Pays(c, price) ==
    /\ balance' = [balance EXCEPT ![call[c].user] = @ - price]
    /\ bills' = [bills EXCEPT ![c] = @ + 1]
    /\ UNCHANGED <<faults, wasted>>

Bill(c) ==
    \/ \E price \in 1..MaxPrice : Pays(c, price)
    \/ Fails /\ wasted' = wasted \union {c} /\ UNCHANGED <<balance, bills>>

\* Mutant of Answered: the client's answer is returned before the bill.
AnsweredForNothing(c) ==
    /\ At(c, "asked") \/ At(c, "asked again")
    /\ ~call[c].face.stream
    /\ Leave(c) /\ Unbilled
    /\ call' = [call EXCEPT ![c].step = "ended", ![c].begun = TRUE, ![c].given = TRUE]

\* A whole answer: billed, then given; what cannot be billed is not given.
Answered(c) ==
    /\ At(c, "asked") \/ At(c, "asked again")
    /\ ~call[c].face.stream
    /\ Leave(c)
    /\ \/ Bill(c)
       \/ call[c].face.free /\ Unbilled
    /\ call' = [call EXCEPT ![c].step = "ended", ![c].begun = TRUE, ![c].given = wasted' = wasted]

StreamBegins(c) ==
    /\ At(c, "asked") \/ At(c, "asked again")
    /\ call[c].face.stream
    /\ call' = [call EXCEPT ![c].step = "streaming", ![c].begun = TRUE]
    /\ UNCHANGED inflight /\ Unbilled

Forward(c) ==
    /\ At(c, "streaming") /\ ~call[c].given
    /\ call' = [call EXCEPT ![c].given = TRUE]
    /\ UNCHANGED inflight /\ Unbilled

\* Mutant of StreamEnds: a stream that breaks off is not billed.
StreamEndsUnbilled(c) ==
    /\ At(c, "streaming")
    /\ Leave(c) /\ End(c)
    /\ \E exhausted \in BOOLEAN : IF exhausted /\ call[c].given THEN Bill(c) ELSE Unbilled

\* It runs dry, the upstream breaks off, or the client does.
StreamEnds(c) ==
    /\ At(c, "streaming")
    /\ Leave(c) /\ End(c)
    /\ \E exhausted \in BOOLEAN :
          IF call[c].given \/ ~exhausted THEN Bill(c) ELSE Unbilled

-----------------------------------------------------------------------------
TopUp(u) ==
    /\ \E b \in balance[u] + 1..MaxBalance : balance' = [balance EXCEPT ![u] = b]
    /\ UNCHANGED <<inflight, call, faults, bills, wasted>>

\* The process starts anew: its calls end as they stand, unbilled.
Restart ==
    /\ inflight' = [u \in Users |-> 0]
    /\ call' = [c \in Calls |-> Nobody]
    /\ bills' = [c \in Calls |-> 0] /\ wasted' = {}
    /\ UNCHANGED <<balance, faults>>

Serve(c) ==
    \/ ReadBody(c) \/ Ask(c) \/ Refused(c) \/ TryAgain(c) \/ Answered(c)
    \/ StreamBegins(c) \/ Forward(c) \/ StreamEnds(c) \/ Hangup(c)

Next ==
    \/ \E c \in Calls, u \in Users, f \in Faces : Admit(c, u, f)
    \/ \E c \in Calls : Serve(c)
    \/ \E u \in Users : TopUp(u)
    \/ Restart

Spec == Init /\ [][Next]_gatewayVars

-----------------------------------------------------------------------------
(* Correctness.                                                             *)

\* The counter that decides over admission is the number of calls that hold
\* a slot, however each of them ended (_Slot): a slot that leaks locks its
\* user out for good, one given back twice lets him exceed his plan.
SlotsMatch ==
    \A u \in Users : inflight[u] =
        Cardinality({c \in Calls : call[c].step \in Serving
                                    /\ call[c].user = u /\ call[c].face.slot})

\* gateway.py:18-21, billed truthfully at the end: what was given to a client
\* is billed once, whoever broke it off, unless the bill was lost with the
\* database; what the upstream never began is not.
BilledTruthfully ==
    \A c \in Calls : At(c, "ended") =>
        /\ bills[c] <= 1
        /\ call[c].given /\ c \notin wasted /\ ~call[c].face.free => bills[c] = 1
        /\ ~call[c].begun => bills[c] = 0

\* gateway.py:18-21, "small overdraft possible, gates close afterwards": what a
\* user owes was asked for by calls let in while he was in credit, or blindly.
Open(u) == {c \in Calls : call[c].step \in {"body", "ready"} \union Serving /\ call[c].user = u}

OverdraftIsPending ==
    \A u \in Users : balance[u] <= 0 =>
        balance[u] > 0 - MaxPrice * (Cardinality(Calls \ Open(u)) + faults)
=============================================================================
