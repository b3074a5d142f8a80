------------------------------ MODULE VideoJobs ------------------------------
(***************************************************************************)
(* Video generation (media.py): a job is submitted upstream, charged with  *)
(* an estimate and stored; from then on every client poll and the          *)
(* reconciling loop settle it through one routine, _settle.                *)
(*                                                                         *)
(* The server is one process with one event loop.  A handler gives way     *)
(* only where it awaits the upstream; between two awaits it runs alone,    *)
(* one database transaction after the other, and a crash may fall between  *)
(* any two of them.  A snapshot of a row is read before the await and used *)
(* after it; since only "processing" rows are carried across, and such a   *)
(* row has never been adjusted or refunded, the snapshot is its job's id.  *)
(***************************************************************************)
EXTENDS Integers, Sequences

CONSTANTS
    Jobs,
    Clients,        \* result polls that may be in flight together
    Loop,           \* reconcile_loop
    Delta,          \* real cost against the estimate, or "fixed": nothing to adjust
    Batch,          \* rows one tick takes, oldest first (50 in the code)
    MaxCrashes      \* bound of the model

ASSUME DeltaAssumption == Delta \in [Jobs -> {"more", "less", "same", "fixed"}]
ASSUME BatchAssumption == Batch \in Nat \ {0} /\ MaxCrashes \in Nat
ASSUME LoopAssumption  == Loop \notin Clients

Actors == Clients \union {Loop}

VARIABLES
    submit,     \* create_video of each job: how far it is
    upstream,   \* the provider's own state of the job
    aged,       \* older than VIDEO_JOB_MAX_AGE_S?
    created,    \* stored jobs in the order of their rows
    status,     \* video_jobs.status
    refunded,   \* video_jobs.refunded
    recorded,   \* do video_jobs.credits and duration hold the real cost?
    usage,      \* request ids charged in usage_log: the job's and its surcharge's
    refunds,    \* grants of kind "refund" issued for the job, by reason
    actor,      \* what each poll is doing
    crashes     \* how often the process has died

vars == <<submit, upstream, aged, created, status, refunded, recorded, usage, refunds,
          actor, crashes>>
rows == <<created, status, refunded, recorded>>
ledger == <<usage, refunds>>
world == <<submit, upstream, aged, crashes>>

Idle  == [step |-> "idle"]
Polls == [step : {"ask", "answered", "record", "adjust", "refund", "grant"},
          todo : Seq(Jobs),
          answer : {"none", "processing", "succeeded", "failed"}]

Terminal == {"succeeded", "failed"}

TypeOK ==
    /\ submit   \in [Jobs -> {"new", "accepted", "charged", "over"}]
    /\ upstream \in [Jobs -> {"running"} \union Terminal]
    /\ aged     \in [Jobs -> BOOLEAN]
    /\ created  \in Seq(Jobs)
    /\ status   \in [Jobs -> {"none", "processing"} \union Terminal]
    /\ refunded \in [Jobs -> BOOLEAN]
    /\ recorded \in [Jobs -> BOOLEAN]
    /\ usage    \in [Jobs -> SUBSET {"job", "adj"}]
    /\ refunds  \in [Jobs -> [{"failure", "adjust"} -> Nat]]
    /\ actor    \in [Actors -> {Idle} \union Polls]
    /\ crashes  \in 0..MaxCrashes

Init ==
    /\ submit   = [j \in Jobs |-> "new"]
    /\ upstream = [j \in Jobs |-> "running"]
    /\ aged     = [j \in Jobs |-> FALSE]
    /\ created  = <<>>
    /\ status   = [j \in Jobs |-> "none"]
    /\ refunded = [j \in Jobs |-> FALSE]
    /\ recorded = [j \in Jobs |-> FALSE]
    /\ usage    = [j \in Jobs |-> {}]
    /\ refunds  = [j \in Jobs |-> [r \in {"failure", "adjust"} |-> 0]]
    /\ actor    = [a \in Actors |-> Idle]
    /\ crashes  = 0

\* The event loop is free: no handler stands between two of its transactions.
LoopFree ==
    /\ \A a \in Actors : actor[a].step \notin {"record", "adjust", "refund", "grant"}
    /\ \A j \in Jobs : submit[j] # "charged"

-----------------------------------------------------------------------------
(* create_video: the balance was checked and the upstream has answered.     *)

Accept(j) ==
    /\ submit[j] = "new"
    /\ submit' = [submit EXCEPT ![j] = "accepted"]
    /\ UNCHANGED <<upstream, aged, crashes, rows, ledger, actor>>

Charge(j) ==
    /\ submit[j] = "accepted" /\ LoopFree
    /\ submit' = [submit EXCEPT ![j] = "charged"]
    /\ usage' = [usage EXCEPT ![j] = @ \union {"job"}]
    /\ UNCHANGED <<upstream, aged, crashes, rows, refunds, actor>>

Store(j) ==
    /\ submit[j] = "charged"
    /\ submit' = [submit EXCEPT ![j] = "over"]
    /\ status' = [status EXCEPT ![j] = "processing"]
    /\ created' = Append(created, j)
    /\ UNCHANGED <<upstream, aged, crashes, refunded, recorded, ledger, actor>>

-----------------------------------------------------------------------------
(* The upstream and the clock.                                              *)

Finish(j) ==
    /\ submit[j] # "new" /\ upstream[j] = "running"
    /\ \E verdict \in Terminal : upstream' = [upstream EXCEPT ![j] = verdict]
    /\ UNCHANGED <<submit, aged, crashes, rows, ledger, actor>>

Age(j) ==
    /\ status[j] # "none" /\ ~aged[j]
    /\ aged' = [aged EXCEPT ![j] = TRUE]
    /\ UNCHANGED <<submit, upstream, crashes, rows, ledger, actor>>

-----------------------------------------------------------------------------
(* Polling: read the rows, ask about one, settle it, go on to the next.     *)

Start(a, todo) ==
    /\ actor[a] = Idle /\ LoopFree
    /\ todo # <<>>
    /\ actor' = [actor EXCEPT ![a] = [step |-> "ask", todo |-> todo, answer |-> "none"]]
    /\ UNCHANGED <<world, rows, ledger>>

\* video_result; a terminal row is returned as it is.
Poll(a, j) == status[j] = "processing" /\ Start(a, <<j>>)

\* The rows to reconcile, by their places in the table.
Unsettled == {i \in DOMAIN created : status[created[i]] = "processing"}

\* at lists the n oldest of them in order: all of them, unless n is the limit.
Oldest(at, n) ==
    /\ \A k, l \in 1..n : k < l => at[k] < at[l]
    /\ \A i \in Unsettled : (\E k \in 1..n : at[k] = i) \/ (n = Batch /\ at[n] < i)

Tick ==
    \E n \in 1..Batch : \E at \in [1..n -> Unsettled] :
        Oldest(at, n) /\ Start(Loop, [k \in 1..n |-> created[at[k]]])

\* Mutant of Reading: the upstream's own word is kept.
RawReading(a) == actor' = [actor EXCEPT ![a].step = "answered",
                                        ![a].answer = upstream[Head(actor[a].todo)]]

\* poll_video: what the upstream says, or "processing" when asking fails.
Reading(a) ==
    \E answer \in {upstream[Head(actor[a].todo)], "running"} :
        actor' = [actor EXCEPT ![a].step = "answered",
                               ![a].answer = IF answer = "running" THEN "processing" ELSE answer]

Ask(a) ==
    /\ actor[a].step = "ask"
    /\ Reading(a)
    /\ UNCHANGED <<world, rows, ledger>>

\* The rest of _settle of the first job, from step on; "" when it is settled.
Continue(a, step) ==
    actor' = [actor EXCEPT ![a] =
        IF step # "" THEN [@ EXCEPT !.step = step]
        ELSE IF Len(@.todo) = 1 THEN Idle
        ELSE [step |-> "ask", todo |-> Tail(@.todo), answer |-> "none"]]

Answered(a, j, answers) ==
    /\ actor[a].step = "answered" /\ LoopFree
    /\ j = Head(actor[a].todo) /\ actor[a].answer \in answers

\* Mutant of StillRunning: it returns before the age is looked at.
StillRunningAtAnyAge(a, j) ==
    /\ Answered(a, j, {"processing"})
    /\ Continue(a, "")
    /\ UNCHANGED <<world, rows, ledger>>

\* Still running, and not for too long: nothing to settle.
StillRunning(a, j) ==
    /\ Answered(a, j, {"processing"}) /\ ~aged[j]
    /\ Continue(a, "")
    /\ UNCHANGED <<world, rows, ledger>>

\* Mutant of NewlySucceeded: only a job still "processing" is adjusted.
SucceededAtOnce(j) == status[j] = "processing"

\* The UPDATE ... status != 'succeeded' decides who adjusts the charge.
NewlySucceeded(j) == status[j] # "succeeded"

LandSuccess(a, j) ==
    /\ Answered(a, j, {"succeeded"})
    /\ status' = [status EXCEPT ![j] = "succeeded"]
    /\ Continue(a, IF NewlySucceeded(j) /\ Delta[j] # "fixed" THEN "record" ELSE "")
    /\ UNCHANGED <<world, created, refunded, recorded, ledger>>

\* Mutant of LandFailure: the row is closed and the refund left out.
LandFailureUnpaid(a, j) ==
    /\ Answered(a, j, {"processing", "failed"})
    /\ actor[a].answer = "processing" => aged[j]
    /\ status' = [status EXCEPT ![j] = "failed"]
    /\ Continue(a, "")
    /\ UNCHANGED <<world, created, refunded, recorded, ledger>>

\* Failed upstream, or given up on.
LandFailure(a, j) ==
    /\ Answered(a, j, {"processing", "failed"})
    /\ actor[a].answer = "processing" => aged[j]
    /\ status' = [status EXCEPT ![j] = "failed"]
    /\ Continue(a, "refund")
    /\ UNCHANGED <<world, created, refunded, recorded, ledger>>

\* _settle_auto_duration writes the real cost into the row; the ledger hears of
\* it in a transaction of its own.
Record(a, j) ==
    /\ actor[a].step = "record" /\ j = Head(actor[a].todo)
    /\ recorded' = [recorded EXCEPT ![j] = TRUE]
    /\ Continue(a, IF Delta[j] = "same" THEN "" ELSE "adjust")
    /\ UNCHANGED <<world, created, status, refunded, ledger>>

\* A surcharge has its own request id, under which credits.spend charges once; a
\* difference in the user's favour is a grant.
Adjust(a, j) ==
    /\ actor[a].step = "adjust" /\ j = Head(actor[a].todo)
    /\ \/ /\ Delta[j] = "more"
          /\ usage' = [usage EXCEPT ![j] = @ \union {"adj"}]
          /\ UNCHANGED refunds
       \/ /\ Delta[j] = "less"
          /\ refunds' = [refunds EXCEPT ![j]["adjust"] = @ + 1]
          /\ UNCHANGED usage
    /\ Continue(a, "")
    /\ UNCHANGED <<world, rows>>

\* Mutant of MarkRefunded: whoever marks the row pays.
MarkRefundedAnyway(a, j) ==
    /\ actor[a].step = "refund" /\ j = Head(actor[a].todo)
    /\ refunded' = [refunded EXCEPT ![j] = TRUE]
    /\ Continue(a, "grant")
    /\ UNCHANGED <<world, created, status, recorded, ledger>>

\* _refund_once: mark first, then pay; the mark decides who pays.
MarkRefunded(a, j) ==
    /\ actor[a].step = "refund" /\ j = Head(actor[a].todo)
    /\ refunded' = [refunded EXCEPT ![j] = TRUE]
    /\ Continue(a, IF refunded[j] THEN "" ELSE "grant")
    /\ UNCHANGED <<world, created, status, recorded, ledger>>

GrantRefund(a, j) ==
    /\ actor[a].step = "grant" /\ j = Head(actor[a].todo)
    /\ refunds' = [refunds EXCEPT ![j]["failure"] = @ + 1]
    /\ Continue(a, "")
    /\ UNCHANGED <<world, rows, usage>>

Settle(a) ==
    \E j \in Jobs :
        \/ StillRunning(a, j) \/ LandSuccess(a, j) \/ LandFailure(a, j)
        \/ Record(a, j) \/ Adjust(a, j)
        \/ MarkRefunded(a, j) \/ GrantRefund(a, j)

-----------------------------------------------------------------------------
\* The process dies and starts again: whatever was in flight is forgotten.
Crash ==
    /\ crashes < MaxCrashes
    /\ crashes' = crashes + 1
    /\ actor' = [a \in Actors |-> Idle]
    /\ submit' = [j \in Jobs |-> IF submit[j] = "new" THEN "new" ELSE "over"]
    /\ UNCHANGED <<upstream, aged, rows, ledger>>

Next ==
    \/ \E j \in Jobs : Accept(j) \/ Charge(j) \/ Store(j) \/ Finish(j) \/ Age(j)
    \/ \E a \in Clients, j \in Jobs : Poll(a, j)
    \/ Tick
    \/ \E a \in Actors : Ask(a) \/ Settle(a)
    \/ Crash

Spec == Init /\ [][Next]_vars

\* The loop wakes up again and again, the event loop serves its waiters in
\* turn, a question upstream ends in an answer or a timeout, and time passes.
\* Neither the upstream nor a client has to do anything.
Fairness ==
    /\ SF_vars(Tick)
    /\ \A a \in Actors : WF_vars(Ask(a)) /\ SF_vars(Settle(a))
    /\ \A j \in Jobs : SF_vars(Charge(j)) /\ WF_vars(Store(j)) /\ WF_vars(Age(j))

FairSpec == Spec /\ Fairness

-----------------------------------------------------------------------------
(* Correctness.                                                             *)

\* _refund_once: whoever gives up on a job, however stale the row it has read,
\* the estimate is paid back at most once, crashes included.
RefundedAtMostOnce == \A j \in Jobs : refunds[j]["failure"] <= 1

\* A job that ended as failed has been refunded as soon as no handler is at
\* work on it, provided that the process never died on the way.
FailedIsRefunded ==
    \A j \in Jobs : status[j] = "failed" /\ LoopFree /\ crashes = 0
                    => refunds[j]["failure"] = 1

\* A job that ended well is paid for, whichever of the pollers brought the news:
\* by the time no handler is at work its row and the ledger agree on the real
\* cost (provided that the process never died in between), and its price has not
\* been given back, unless somebody had given up on it by its age before: such a
\* job keeps its refund (OnlyFailuresAreRefunded).
SuccessIsPaidFor ==
    \A j \in Jobs : status[j] = "succeeded" /\ LoopFree =>
        /\ crashes = 0 =>
              /\ Delta[j] # "fixed" => recorded[j]
              /\ Delta[j] = "more" => "adj" \in usage[j]
              /\ Delta[j] = "less" => refunds[j]["adjust"] > 0
        /\ refunds[j]["failure"] > 0 => aged[j]

\* Every stored job ends, with nobody polling and the upstream silent or gone:
\* the reconciling loop gives up on it after VIDEO_JOB_MAX_AGE_S.
EveryJobEnds == \A j \in Jobs : status[j] # "none" ~> status[j] \in Terminal

\* media.py:720: the adjustment can only happen once, because whoever turns
\* the row into "succeeded" settles the difference.
AdjustedAtMostOnce == \A j \in Jobs : refunds[j]["adjust"] <= 1

\* media.py:20: only a job that was submitted and then failed is refunded.
OnlyFailuresAreRefunded == \A j \in Jobs : status[j] = "succeeded" => refunds[j]["failure"] = 0
=============================================================================
