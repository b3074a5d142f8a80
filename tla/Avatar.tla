------------------------------- MODULE Avatar -------------------------------
(***************************************************************************)
(* Video calls with an avatar (avatar.py).  The page asks for a session,    *)
(* the server relays the call to a node with a GPU, the node reports the    *)
(* minutes of the call to be charged, and what the user says is answered by *)
(* a model, sentence by sentence, and billed when the stream ends.          *)
(***************************************************************************)
EXTENDS Integers, FiniteSets

CONSTANTS
    Talks,      \* calls of one user at the same time
    Speakers,   \* bounds the calls in which somebody asks
    Minutes,    \* the reports of one call
    Seconds,    \* the times with which the node signs its reports
    PerMinute,  \* AVATAR_CREDITS_PER_MIN
    Purse,      \* bounds what the account holds
    MaxBreaks   \* bounds the crashes and failures of the database

Reports == Talks \X Minutes

VARIABLES
    purse,      \* the user's balance
    page,       \* of each call: has the page a session, is it connected?
    node,       \* of each call: is the node's side of the relay up?
    report,     \* the node's report of each minute
    stamp,      \* of each report: the second in which the node will sign it
    claimed,    \* keys in the table kv
    charged,    \* how often each report was charged
    say,        \* of each call: the answer being spoken
    breaks,     \* crashes and failures so far
    torn        \* history: keys claimed whose charge failed

avatarVars == <<purse, page, node, report, stamp, claimed, charged, say, breaks, torn>>

\* A minute lies between the reports of one call, but nothing between those of
\* two calls.
Stamps == {f \in [Reports -> Seconds] :
             \A t \in Talks : \A m, n \in Minutes : f[<<t, m>>] = f[<<t, n>>] => m = n}

Silent == [step |-> "silent"]

TypeOK ==
    /\ purse \in (0 - PerMinute * Cardinality(Reports))..Purse
    /\ page \in [Talks -> {"closed", "session", "open", "gone"}]
    /\ node \in [Talks -> {"down", "up", "gone"}]
    /\ report \in [Reports -> {"none", "due", "old", "acked"}]
    /\ stamp \in Stamps /\ claimed \subseteq Seconds /\ torn \subseteq claimed
    /\ charged \in [Reports -> Nat]
    /\ say \in [Talks -> {Silent} \union
          [step : {"asked", "speaking", "over"}, said : BOOLEAN, usage : BOOLEAN, paid : BOOLEAN]]
    /\ breaks \in 0..MaxBreaks

Init ==
    /\ purse \in 0..Purse
    /\ page = [t \in Talks |-> "closed"] /\ node = [t \in Talks |-> "down"]
    /\ report = [r \in Reports |-> "none"]
    /\ stamp \in Stamps /\ claimed = {} /\ charged = [r \in Reports |-> 0]
    /\ say = [t \in Talks |-> Silent]
    /\ breaks = 0 /\ torn = {}

Break == breaks < MaxBreaks /\ breaks' = breaks + 1 /\ UNCHANGED stamp
Calm  == UNCHANGED <<breaks, torn, stamp>>
Money == <<purse, claimed, charged>>

-----------------------------------------------------------------------------
(* The call: avatar_session, then avatar_ws.                                *)

\* Who cannot pay a minute is stopped here and never later.
Session(t) ==
    /\ page[t] = "closed" /\ purse >= PerMinute
    /\ page' = [page EXCEPT ![t] = "session"]
    /\ UNCHANGED <<node, report, Money, say>> /\ Calm

\* The token is signed anew; neither its age nor the balance counts.
Connect(t) ==
    /\ page[t] = "session" /\ node[t] = "down"
    /\ page' = [page EXCEPT ![t] = "open"]
    /\ node' = [node EXCEPT ![t] = "up"]
    /\ UNCHANGED <<report, Money, say>> /\ Calm

\* Either side hangs up.  The first of the two relays to end takes the other
\* with it, and both connections are closed.
Leaves(t) ==
    /\ page[t] = "open" /\ node[t] = "up"
    /\ \/ page' = [page EXCEPT ![t] = "gone"] /\ UNCHANGED node
       \/ node' = [node EXCEPT ![t] = "gone"] /\ UNCHANGED page
    /\ UNCHANGED <<report, Money, say>> /\ Calm

\* Mutant of HangUp: the relay waits for both of its directions.
HangUpWhenBothGone(t) ==
    /\ page[t] = "gone" /\ node[t] = "gone"
    /\ page' = [page EXCEPT ![t] = "closed"] /\ node' = [node EXCEPT ![t] = "down"]
    /\ UNCHANGED <<report, Money, say>> /\ Calm

HangUp(t) ==
    /\ page[t] = "gone" \/ node[t] = "gone"
    /\ page' = [page EXCEPT ![t] = "closed"] /\ node' = [node EXCEPT ![t] = "down"]
    /\ UNCHANGED <<report, Money, say>> /\ Calm

-----------------------------------------------------------------------------
(* The node's reports: avatar_meter.  The node is not in this repository;   *)
(* it sends a report again until it is answered.                            *)

MinutePasses(t, m) ==
    /\ node[t] = "up" /\ report[<<t, m>>] = "none"
    /\ report' = [report EXCEPT ![<<t, m>>] = "due"]
    /\ UNCHANGED <<page, node, Money, say>> /\ Calm

\* TOKEN_TTL: the signature of a report is good for five minutes.
GrowsOld(r) ==
    /\ report[r] = "due"
    /\ report' = [report EXCEPT ![r] = "old"]
    /\ UNCHANGED <<page, node, Money, say>> /\ Calm

Answer(r) ==
    \/ report' = [report EXCEPT ![r] = "acked"]
    \/ UNCHANGED report       \* lost on its way: the node will ask again

\* Mutant of Claim: the key of a report leaves out its second.
ClaimByUser(r) == claimed = {} /\ claimed' = Seconds

\* _claim_report: an insert that does nothing when the key is there.  The key is
\* the user, the second, and how many minutes it reports, which is one.
Claim(r) == stamp[r] \notin claimed /\ claimed' = claimed \union {stamp[r]}

\* credits.spend, under the same key.
Charge(r) ==
    /\ purse' = purse - PerMinute
    /\ charged' = [charged EXCEPT ![r] = @ + 1]

\* No await lies between the claim and the charge, but two transactions.
MeterNew(r) ==
    /\ report[r] = "due" /\ Claim(r)
    /\ \/ Charge(r) /\ Answer(r) /\ Calm
       \/ Break /\ torn' = torn \union {stamp[r]} /\ UNCHANGED <<purse, charged, report>>
    /\ UNCHANGED <<page, node, say>>

\* Known already: from this report, or from another call in the same second.
MeterAgain(r) ==
    /\ report[r] = "due" /\ stamp[r] \in claimed
    /\ Answer(r)
    /\ UNCHANGED <<page, node, Money, say>> /\ Calm

-----------------------------------------------------------------------------
(* avatar_say.  Nothing is asked of the balance here.                       *)

Ask(t) ==
    /\ t \in Speakers /\ page[t] = "open" /\ say[t] = Silent
    /\ say' = [say EXCEPT ![t] = [step |-> "asked", said |-> FALSE, usage |-> FALSE, paid |-> FALSE]]
    /\ UNCHANGED <<page, node, report, Money>> /\ Calm

\* A sentence is complete and goes to the page, or the upstream states usage,
\* which comes with its last chunk.
Sentence(t) ==
    /\ say[t].step \in {"asked", "speaking"} /\ ~say[t].usage
    /\ \E said, usage \in BOOLEAN :
        /\ said \/ usage
        /\ say' = [say EXCEPT ![t].step = "speaking", ![t].said = @ \/ said, ![t].usage = usage]
    /\ UNCHANGED <<page, node, report, Money>> /\ Calm

\* The finally clause.  The amount comes from the usage alone: a stream that
\* breaks off before its last chunk is charged nothing.
SayEnds(t) ==
    /\ say[t].step \in {"asked", "speaking"}
    /\ say' = [say EXCEPT ![t].step = "over", ![t].paid = say[t].usage]
    /\ UNCHANGED <<page, node, report, Money>> /\ Calm

Listen(t) ==
    /\ say[t].step = "over"
    /\ say' = [say EXCEPT ![t] = Silent]
    /\ UNCHANGED <<page, node, report, Money>> /\ Calm

-----------------------------------------------------------------------------
TopUp ==
    /\ purse < Purse /\ purse' = Purse
    /\ UNCHANGED <<page, node, report, claimed, charged, say>> /\ Calm

Crash ==
    /\ Break /\ UNCHANGED torn
    /\ page' = [t \in Talks |-> "closed"] /\ node' = [t \in Talks |-> "down"]
    /\ say' = [t \in Talks |-> Silent]
    /\ UNCHANGED <<report, Money>>

Next ==
    \/ \E t \in Talks : \/ Session(t) \/ Connect(t) \/ Leaves(t) \/ HangUp(t)
                        \/ Ask(t) \/ Sentence(t) \/ SayEnds(t) \/ Listen(t)
                        \/ \E m \in Minutes : MinutePasses(t, m)
    \/ \E r \in Reports : GrowsOld(r) \/ MeterNew(r) \/ MeterAgain(r)
    \/ TopUp \/ Crash

Spec == Init /\ [][Next]_avatarVars
FairSpec == Spec /\ \A t \in Talks : WF_avatarVars(HangUp(t))

-----------------------------------------------------------------------------
(* Correctness.                                                             *)

\* However often reports are delivered, each is charged at most once, and of
\* those with one key - of a user's calls reported in one second - one alone;
\* and what the node may forget has a key that was charged, unless the charge
\* failed behind its claim (_claim_report).
MinutesChargedOnce ==
    /\ \A r \in Reports : charged[r] <= 1
    /\ \A q, r \in Reports : stamp[q] = stamp[r] /\ charged[q] + charged[r] > 1 => q = r
    /\ \A r \in Reports : report[r] = "acked" /\ stamp[r] \notin torn =>
          \E q \in Reports : stamp[q] = stamp[r] /\ charged[q] = 1

\* avatar.py:188: what the node may forget has been charged itself.
EveryMinuteIsCharged ==
    \A r \in Reports : report[r] = "acked" /\ stamp[r] \notin torn => charged[r] = 1

\* avatar.py:421: what she has begun to say is charged, broken off or not.
SaidIsCharged == \A t \in Talks : say[t].step = "over" /\ say[t].said => say[t].paid

\* No call goes on, and is metered, after one of its ends has gone.
CallsEnd == \A t \in Talks : (page[t] = "gone" \/ node[t] = "gone") ~> (node[t] = "down")
=============================================================================
